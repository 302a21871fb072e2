----------------------------- MODULE BlockList -----------------------------
(***************************************************************************)
(* What is blocked, where it comes from and how it changes at run time:    *)
(* PerformUpdate builds a new MemoryBlockCache from the config, the        *)
(* downloaded lists and personal.list, and reloadBlockCache swaps it in    *)
(* (updater.go, main.go), while requests to the API (api.go) toggle and    *)
(* remove entries of the cache in use and edit personal.list, each in a    *)
(* goroutine of its own.                                                   *)
(*                                                                         *)
(* A key of the block cache is a domain or a pattern, a glob or a regexp,  *)
(* and is a value; what a pattern matches is a parameter.  Requests and    *)
(* lists spell keys in lower case or with capitals.  A line of             *)
(* personal.list is a sequence of keys: the code's rewriting puts the      *)
(* newline before each line, not after it, so that what it leaves last is  *)
(* glued to what is appended next.                                         *)
(***************************************************************************)
EXTENDS Integers, Sequences, FiniteSets, SequencesExt

CONSTANTS
  Domains,      \* keys that are domain names
  Patterns,     \* keys that are globs or regexps
  Regexps,      \* ... the regexps, whose spelling is kept
  Invalid,      \* ... the regexps that cannot be compiled
  Matches,      \* pattern -> the keys it matches when they are looked up
  N,            \* number of config.Blocking.Sources
  Host,         \* the host of each source
  Lists,        \* each source's versions: the sets of keys it may serve
  Capitals,     \* the keys that sources spell with capitals
  Whitelist,    \* config.Blocking.Whitelist, in lower case
  Blocklist,    \* config.Blocking.Blocklist
  Clients,      \* API requests at a time
  MaxRequests,  \* bound: API requests
  MaxUpdates,   \* bound: updates, each leaving files of a new name behind
  MaxCrashes    \* bound: crashes

Keys == Domains \cup Patterns

ASSUME KeysAssumption ==
  /\ Domains \cap Patterns = {}
  /\ Invalid \subseteq Regexps /\ Regexps \subseteq Patterns
  /\ Matches \in [Patterns -> SUBSET Keys]
ASSUME SourcesAssumption ==
  /\ N \in Nat
  /\ DOMAIN Host = 1..N
  /\ Lists \in [1..N -> SUBSET SUBSET Keys]
ASSUME ConfigAssumption ==
  Whitelist \subseteq Keys /\ Blocklist \subseteq Keys /\ Capitals \subseteq Keys
ASSUME BoundsAssumption ==
  MaxRequests \in Nat /\ MaxUpdates \in Nat /\ MaxCrashes \in Nat

Hosts == {Host[i] : i \in 1..N}
Sources == 1..N

VARIABLES
  store,      \* files of the sources store: <<host, number>> -> keys
  personal,   \* personal.list: its lines, and whether the last has no newline
  timesSeen,  \* per host, the number of files named after it
  dl,         \* per source, its download
  name,       \* per source, the file it is downloaded to
  got,        \* history: what this update's complete downloads brought
  building,   \* newBlockCache
  inuse,      \* the block cache of the event loop and of the API
  served,     \* history: got of the update that built it
  main,       \* where the main goroutine is in reloadBlockCache
  boot,       \* the first update is not over: no API, nothing blocked
  reloads,    \* goroutines with a trigger for reloadChan
  at, op,     \* API requests: where each is, and what it asks
  kept,       \* ... the lines it is to write back
  added,      \* history: keys set by the API, and not removed by it since
  removed,    \* history: keys removed from the cache in use by the API
  saved,      \* history: keys the API has written to personal.list, in any process
  walked,     \* history: ... when the update at work read the file
  applied,    \* history: ... when the update that built the cache in use did
  torn,       \* history: the file was rewritten, or a write to it was cut short
  requests, updates, crashes  \* counters for the bounds

disk    == <<store, personal>>
fetch   == <<timesSeen, dl, name, got, building>>
api     == <<at, op, kept>>
history == <<served, added, removed, saved, walked, applied, torn>>
bounds  == <<requests, updates, crashes>>
vars    == <<disk, fetch, inuse, main, boot, reloads, api, history, bounds>>

EmptyList == [lines |-> <<>>, open |-> FALSE]
NoOp      == [kind |-> "none"]
Ops       == [kind : {"toggle"}, key : Keys, mixed : {FALSE}]
             \cup [kind : {"toggle"}, key : Keys \ Regexps, mixed : {TRUE}]
             \cup [kind : {"remove"}, key : Keys]
             \cup [kind : {"update"}]

Init ==
  /\ store = << >>
  /\ personal = EmptyList
  /\ timesSeen = [h \in Hosts |-> 0]
  /\ dl = [i \in Sources |-> "none"]
  /\ name = [i \in Sources |-> << >>]
  /\ got = {}
  /\ building = {}
  /\ inuse = {}
  /\ main = "update"
  /\ boot = TRUE
  /\ reloads = 0
  /\ at = [c \in Clients |-> "idle"]
  /\ op = [c \in Clients |-> NoOp]
  /\ kept = [c \in Clients |-> <<>>]
  /\ served = {} /\ added = {} /\ removed = {}
  /\ saved = {} /\ walked = {} /\ applied = {} /\ torn = FALSE
  /\ requests = 0
  /\ updates = 0
  /\ crashes = 0

-----------------------------------------------------------------------------
(* MemoryBlockCache *)

\* Exists: the domain is there, or a pattern that matches the key.
Exists(S, k) == k \in S \cap Domains \/ \E p \in S \cap Patterns : k \in Matches[p]

\* Set: a regexp that cannot be compiled is dropped.
Put(S, K) == S \cup (K \ Invalid)

-----------------------------------------------------------------------------
(* PerformUpdate *)

Of(h, n) == {j \in 1..n : Host[j] = h}

\* A slip of FileName: named before it is counted.
FileNameFromZero(i) == <<Host[i], timesSeen[Host[i]] + Cardinality(Of(Host[i], i - 1))>>

\* host.N.list, N counting the files named after the host by this process.
FileName(i) == <<Host[i], timesSeen[Host[i]] + Cardinality(Of(Host[i], i))>>

\* A slip of Update: the cache in use is filled anew.
UpdateInPlace ==
  /\ main = "update" /\ updates < MaxUpdates
  /\ building' = Put({}, Blocklist)
  /\ inuse' = {}
  /\ name' = [i \in Sources |-> FileName(i)]
  /\ timesSeen' = [h \in Hosts |-> timesSeen[h] + Cardinality(Of(h, N))]
  /\ dl' = [i \in Sources |-> "create"]
  /\ got' = {}
  /\ main' = "fetch"
  /\ updates' = updates + 1
  /\ UNCHANGED <<disk, boot, reloads, api, history, requests, crashes>>

\* The config's blocklist goes into the new cache, whitelisted or not, and a
\* goroutine starts for each source.
Update ==
  /\ main = "update" /\ updates < MaxUpdates
  /\ building' = Put({}, Blocklist)
  /\ name' = [i \in Sources |-> FileName(i)]
  /\ timesSeen' = [h \in Hosts |-> timesSeen[h] + Cardinality(Of(h, N))]
  /\ dl' = [i \in Sources |-> "create"]
  /\ got' = {}
  /\ main' = "fetch"
  /\ updates' = updates + 1
  /\ UNCHANGED <<disk, inuse, boot, reloads, api, history, requests, crashes>>

WriteFile(i, keys) ==
  store' = [f \in DOMAIN store \cup {name[i]} |->
              IF f = name[i] THEN keys ELSE store[f]]

\* os.Create, which may fail: an older file of that name is emptied before the
\* source is asked.
Create(i) ==
  /\ dl[i] = "create"
  /\ \/ WriteFile(i, {}) /\ dl' = [dl EXCEPT ![i] = "get"]
     \/ dl' = [dl EXCEPT ![i] = "failed"] /\ UNCHANGED store
  /\ UNCHANGED <<personal, timesSeen, name, got, building, inuse, main, boot,
                 reloads, api, history, bounds>>

\* http.Get and io.Copy: the list, or an error, with part of it written or none.
Download(i) ==
  /\ dl[i] = "get"
  /\ \E list \in Lists[i] :
       \/ /\ WriteFile(i, list)
          /\ got' = got \cup list
          /\ dl' = [dl EXCEPT ![i] = "done"]
       \/ \E part \in SUBSET list :
            /\ WriteFile(i, part)
            /\ dl' = [dl EXCEPT ![i] = "failed"]
            /\ UNCHANGED got
  /\ UNCHANGED <<personal, timesSeen, name, building, inuse, main, boot,
                 reloads, api, history, bounds>>

\* A slip of Fetched: the WaitGroup is not waited for.
FetchedNone == TRUE

\* wg.Wait()
Fetched == \A i \in Sources : dl[i] \in {"done", "failed"}

\* The keys of personal.list: a line of several is one other key.
Listed(p) == {k \in Keys : Contains(p.lines, <<k>>)}

\* The lines of every file of the sources store, whenever it was fetched.
StoredLines == UNION {store[f] : f \in DOMAIN store}

\* A slip of Admitted: the whitelist is not asked.
AdmittedAll == StoredLines \cup Listed(personal)

\* The lines updateBlockCache finds that are not whitelisted: the whitelist holds a
\* line as it is spelled.
Admitted == (StoredLines \ (Whitelist \ Capitals)) \cup (Listed(personal) \ Whitelist)

\* The caches parseHostFile may end with: a line goes in unless what is there by
\* then matches it, in whatever order the files have the lines.
Loaded ==
  LET uncovered == {k \in Admitted \ Invalid : ~Exists(building, k)}
  IN  {S \in {building \cup A : A \in SUBSET uncovered} :
         \A k \in uncovered : k \in S \/ Exists(S, k)}

Walk ==
  /\ main = "fetch" /\ Fetched
  /\ building' \in Loaded
  /\ walked' = saved
  /\ main' = "stop"
  /\ UNCHANGED <<disk, timesSeen, dl, name, got, inuse, boot, reloads, api,
                 served, added, removed, saved, applied, torn, bounds>>

-----------------------------------------------------------------------------
(* reloadBlockCache, after PerformUpdate *)

\* server.Stop(), and apiServer.Shutdown() if there is one: no new requests.
\* Requests that only read, which Shutdown waits for as well, are left out.
Shutdown ==
  /\ main = "stop"
  /\ main' = "drain"
  /\ UNCHANGED <<disk, fetch, inuse, boot, reloads, api, history, bounds>>

\* Shutdown waits for the requests it has; then the server and the API start
\* anew with the new cache.
Swap ==
  /\ main = "drain"
  /\ \A c \in Clients : at[c] = "idle"
  /\ inuse' = building
  /\ served' = got /\ applied' = walked /\ added' = {} /\ removed' = {}
  /\ boot' = FALSE
  /\ main' = "idle"
  /\ UNCHANGED <<disk, fetch, reloads, api, saved, walked, torn, bounds>>

\* case <-reloadChan
Reload ==
  /\ main = "idle" /\ reloads > 0
  /\ reloads' = reloads - 1
  /\ main' = "update"
  /\ UNCHANGED <<disk, fetch, inuse, boot, api, history, bounds>>

-----------------------------------------------------------------------------
(* The API: one handler goroutine per request *)

ApiUp == ~boot /\ main # "drain"

GoOn(c, l) == at' = [at EXCEPT ![c] = l]

Request(c, o) ==
  /\ ApiUp /\ at[c] = "idle" /\ requests < MaxRequests
  /\ op' = [op EXCEPT ![c] = o]
  /\ GoOn(c, o.kind)
  /\ requests' = requests + 1
  /\ UNCHANGED <<disk, fetch, inuse, main, boot, reloads, kept, history, updates, crashes>>

Return(c) ==
  /\ GoOn(c, "idle")
  /\ op' = [op EXCEPT ![c] = NoOp]
  /\ kept' = [kept EXCEPT ![c] = <<>>]

\* MemoryBlockCache.Set and Remove, on the cache in use.
Block(k) ==
  /\ inuse' = Put(inuse, {k})
  /\ added' = added \cup {k}
  /\ removed' = removed \ {k}
  /\ UNCHANGED <<served, saved, walked, applied, torn>>

Unblock(k) ==
  /\ inuse' = inuse \ {k}
  /\ added' = added \ {k}
  /\ removed' = removed \cup {k}
  /\ UNCHANGED <<served, saved, walked, applied, torn>>

\* /blockcache/remove/:key
RemoveKey(c) ==
  /\ at[c] = "remove"
  /\ Unblock(op[c].key)
  /\ Return(c)
  /\ UNCHANGED <<disk, fetch, main, boot, reloads, bounds>>

\* MemoryBlockCache.Get: an error for a key that is not there, which names the
\* key in lower case, but for a regexp, and so equals the one the API compares it
\* with only if the request spelled it so.
NotFound(o) == o.key \notin inuse /\ ~o.mixed

\* /blockcache/set/:key
SetGet(c) ==
  /\ at[c] = "toggle"
  /\ GoOn(c, IF NotFound(op[c]) THEN "set" ELSE "unset")
  /\ UNCHANGED <<disk, fetch, inuse, main, boot, reloads, op, kept, history, bounds>>

\* ... not found: Set, then a line more in personal.list.
SetSet(c) ==
  /\ at[c] = "set"
  /\ Block(op[c].key)
  /\ GoOn(c, "append")
  /\ UNCHANGED <<disk, fetch, main, boot, reloads, op, kept, bounds>>

\* A slip of Appended: without O_APPEND, the line is written over the first.
AppendedAtStart(p, k) == [lines |-> << <<k>> >> \o Tail(p.lines \o << <<>> >>), open |-> FALSE]

\* The file is opened for appending: an open last line is continued.
Appended(p, k) ==
  [lines |-> IF p.open THEN [p.lines EXCEPT ![Len(p.lines)] = Append(@, k)]
                       ELSE Append(p.lines, <<k>>),
   open  |-> FALSE]

SetAppend(c) ==
  /\ at[c] = "append"
  /\ personal' = Appended(personal, op[c].key)
  /\ saved' = saved \cup {op[c].key}
  /\ Return(c)
  /\ UNCHANGED <<store, fetch, inuse, main, boot, reloads, served, added, removed,
                 walked, applied, torn, bounds>>

\* ... or the file could not be opened or be written: an error that is logged, of
\* a key that is blocked and of which success was answered.
SetAppendFails(c) ==
  /\ at[c] = "append"
  /\ Return(c)
  /\ UNCHANGED <<disk, fetch, inuse, main, boot, reloads, history, bounds>>

\* ... or the write was cut short: the key is there, its newline is not.  (If part
\* of the key is missing too, the line is one of another name.)
SetAppendCut(c) ==
  /\ at[c] = "append"
  /\ personal' = [Appended(personal, op[c].key) EXCEPT !.open = TRUE]
  /\ torn' = TRUE
  /\ Return(c)
  /\ UNCHANGED <<store, fetch, inuse, main, boot, reloads, served, added, removed,
                 saved, walked, applied, bounds>>

\* ... found: Remove, then personal.list is read, truncated and written.
SetRemove(c) ==
  /\ at[c] = "unset"
  /\ Unblock(op[c].key)
  /\ GoOn(c, "scan")
  /\ UNCHANGED <<disk, fetch, main, boot, reloads, op, kept, bounds>>

\* The scanner keeps the other lines, in their order.
SetScan(c) ==
  /\ at[c] = "scan"
  /\ LET lines == personal.lines
         others == {i \in DOMAIN lines : op[c].mixed \/ lines[i] # <<op[c].key>>}
     IN  \E row \in [1..Cardinality(others) -> others] :
           /\ \A m, n \in DOMAIN row : m < n => row[m] < row[n]
           /\ kept' = [kept EXCEPT ![c] = [n \in DOMAIN row |-> lines[row[n]]]]
  /\ GoOn(c, "truncate")
  /\ UNCHANGED <<disk, fetch, inuse, main, boot, reloads, op, history, bounds>>

\* ... or cannot be opened or read, and is left alone.
SetScanFails(c) ==
  /\ at[c] = "scan"
  /\ Return(c)
  /\ UNCHANGED <<disk, fetch, inuse, main, boot, reloads, history, bounds>>

\* An error is logged, and the writing goes on.
SetTruncate(c) ==
  /\ at[c] = "truncate"
  /\ personal' = EmptyList \/ UNCHANGED personal
  /\ torn' = TRUE
  /\ GoOn(c, "write")
  /\ UNCHANGED <<store, fetch, inuse, main, boot, reloads, op, kept, served, added, removed,
                 saved, walked, applied, bounds>>

\* A newline before each line, appended to what is there by now: the first one
\* ends an open line or makes a blank one, and a blank line at the end is not
\* there for the next scanner.
Rewritten(p, lines) ==
  IF lines = <<>> THEN p
  ELSE [lines |-> p.lines \o (IF p.open THEN <<>> ELSE << <<>> >>)
                          \o (IF Last(lines) = <<>> THEN Front(lines) ELSE lines),
        open  |-> Last(lines) # <<>>]

\* All of the lines, or an error after some of them.
SetWrite(c) ==
  /\ at[c] = "write"
  /\ \E n \in 0..Len(kept[c]) : personal' = Rewritten(personal, SubSeq(kept[c], 1, n))
  /\ Return(c)
  /\ UNCHANGED <<store, fetch, inuse, main, boot, reloads, history, bounds>>

\* A slip of PostUpdate: the handler itself sends, and returns when main receives.
PostUpdateSync(c) ==
  /\ at[c] = "update" /\ main = "idle"
  /\ reloads' = reloads + 1
  /\ Return(c)
  /\ UNCHANGED <<disk, fetch, inuse, main, boot, history, bounds>>

\* POST /blocklist/update: a goroutine is left behind with the trigger.
PostUpdate(c) ==
  /\ at[c] = "update"
  /\ reloads' = reloads + 1
  /\ Return(c)
  /\ UNCHANGED <<disk, fetch, inuse, main, boot, history, bounds>>

Handle(c) ==
  \/ RemoveKey(c) \/ SetGet(c) \/ SetSet(c)
  \/ SetAppend(c) \/ SetAppendFails(c) \/ SetAppendCut(c)
  \/ SetRemove(c) \/ SetScan(c) \/ SetScanFails(c) \/ SetTruncate(c) \/ SetWrite(c) \/ PostUpdate(c)

-----------------------------------------------------------------------------

\* The process dies and is started again; the files stay as they are.
Crash ==
  /\ crashes < MaxCrashes
  /\ crashes' = crashes + 1
  /\ timesSeen' = [h \in Hosts |-> 0]
  /\ dl' = [i \in Sources |-> "none"]
  /\ name' = [i \in Sources |-> << >>]
  /\ got' = {}
  /\ building' = {}
  /\ inuse' = {}
  /\ main' = "update"
  /\ boot' = TRUE
  /\ reloads' = 0
  /\ at' = [c \in Clients |-> "idle"]
  /\ op' = [c \in Clients |-> NoOp]
  /\ kept' = [c \in Clients |-> <<>>]
  /\ served' = {} /\ added' = {} /\ removed' = {} /\ walked' = {} /\ applied' = {}
  /\ UNCHANGED <<disk, requests, updates, saved, torn>>

Next ==
  \/ Update \/ Walk \/ Shutdown \/ Swap \/ Reload \/ Crash
  \/ \E i \in Sources : Create(i) \/ Download(i)
  \/ \E c \in Clients : Handle(c) \/ \E o \in Ops : Request(c, o)

Spec == Init /\ [][Next]_vars

\* The scheduler runs the handlers and the main goroutine.  Nothing is assumed
\* of downloads: http.Get has no timeout.
FairSpec ==
  /\ Spec
  /\ WF_vars(Walk \/ Shutdown \/ Swap \/ Reload)
  /\ \A c \in Clients : WF_vars(Handle(c))

-----------------------------------------------------------------------------
(* Properties *)

Names == Hosts \X (1..N * MaxUpdates)

\* Every variable has the shape the code gives it; only a line with something in
\* it is left without a newline.
TypeOK ==
  /\ DOMAIN store \subseteq Names /\ \A f \in DOMAIN store : store[f] \subseteq Keys
  /\ personal.lines \in Seq(Seq(Keys)) /\ personal.open \in BOOLEAN
  /\ personal.open => personal.lines # <<>>
  /\ personal.open => Last(personal.lines) # <<>>
  /\ timesSeen \in [Hosts -> Nat]
  /\ dl \in [Sources -> {"none", "create", "get", "done", "failed"}]
  /\ \A i \in Sources : dl[i] # "none" => name[i] \in Names
  /\ got \subseteq Keys /\ building \subseteq Keys \ Invalid /\ inuse \subseteq Keys \ Invalid
  /\ main \in {"update", "fetch", "stop", "drain", "idle"}
  /\ boot \in BOOLEAN /\ reloads \in Nat
  /\ op \in [Clients -> Ops \cup {NoOp}]
  /\ \A c \in Clients : at[c] = "idle" <=> op[c] = NoOp

Wanted(K) == (K \ (Whitelist \ Capitals)) \ Invalid

\* What this update's complete downloads brought is in the cache to be used, or
\* matched by a pattern that is: all downloads are over before the files are
\* read, and none overwrites another.
ImportsAll ==
  main \in {"stop", "drain"} =>
    \A k \in Wanted(got) : k \in building \/ Exists(building, k)

\* A whitelisted key is in the cache only if the config's blocklist or the API
\* names it, or a source spells it with capitals, whatever the lists,
\* personal.list and the files of earlier updates say.
WhitelistHolds == inuse \cap Whitelist \subseteq Blocklist \cup added \cup Capitals

\* "building a new one and swapping it for the old cache": after the first
\* update, queries are at no moment held against a cache that is being filled.
\* What the config and the downloads say is blocked until the API removes it, or
\* a pattern because of which it was left out.
NeverHalfBuilt ==
  ~boot => \A k \in Wanted(served) \cup (Blocklist \ Invalid) :
             \/ k \in inuse \/ Exists(inuse, k)
             \/ k \in removed \/ Exists(removed, k)

\* "Add domain to user block list": a key that the API has written to
\* personal.list, in this process or in one that has crashed since, is there
\* whatever else is appended at the same time, and every cache built by an update
\* that came to the file later blocks it, until the API removes it: as long as
\* no request has rewritten the file and no write was cut short.
UserListKept ==
  ~torn =>
    /\ saved \subseteq Listed(personal)
    /\ ~boot => \A k \in (applied \ Whitelist) \ Invalid :
                  \/ k \in inuse \/ Exists(inuse, k)
                  \/ k \in removed \/ Exists(removed, k)

\* "Send reload trigger to chan in background goroutine so does not hang": the
\* API's Shutdown, which waits for the handlers of toggles, removals and triggers,
\* ends, although main, which takes the triggers, is the one that waits.
ReloadEnds == main = "drain" ~> main # "drain"
=============================================================================
