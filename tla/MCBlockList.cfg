\* Updates, API requests and a crash.  v and w are whitelisted, but sources spell v
\* with capitals; z is in the blocklist of the config, with a
\* regexp that is none.
CONSTANTS
  v = v
  w = w
  p = p
  bad = bad
  h = h
  Domains = {v, w, z}
  Patterns = {p, bad}
  Regexps = {bad}
  Invalid = {bad}
  Matches <- MCMatches
  N = 2
  Host <- OneHost
  Lists <- Versions
  Capitals = {v}
  Whitelist = {v, w}
  Blocklist = {z, bad}
  Clients = {c1, c2}
  MaxRequests = 2
  MaxUpdates = 2
  MaxCrashes = 1
SPECIFICATION FairSpec
INVARIANTS TypeOK ImportsAll WhitelistHolds NeverHalfBuilt UserListKept
PROPERTIES ReloadEnds
CHECK_DEADLOCK FALSE
