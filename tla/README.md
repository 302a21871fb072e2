# A TLA+ verification project for leng

leng is a DNS server that blocks advertisement and malware domains: it answers
over UDP, TCP and HTTP, forwards what it does not block to upstream resolvers,
caches answers, and keeps a blocklist that is downloaded at the start and on
request. This directory holds TLA+ modules that model its own logic, TLC
configurations that check them on small instances, and TLAPS proofs for every
value of the constants. Paths below are relative to the repository (`src/`).

`PROJECT.json` is the machine-readable side of this document: the components,
the runs, the mutants that show each property can fail, the map from
definitions to source lines, the findings, the hazards and the theorems.

## 1. Inventory

| Component | Source | State | Operations | Talks to |
|---|---|---|---|---|
| response cache | `lcache/cache.go` | a `sync.Map` of entries and an atomic size | `Get` (evicts, rewrites TTLs), `Set`, `Remove`, `Exists`, `Length`, `Full` | called by every worker and filler goroutine |
| resolver | `resolver.go` | per call: a one-place channel, a WaitGroup, a ticker | `Lookup`, `DoHLookup` | upstreams; called by workers |
| server life cycle | `server.go` | listeners, the event loop | `Run`, `Stop`, `ReloadConfig` | called by main; miekg/dns, net/http |
| event loop | `handler.go` | request channel, `active` under an RWMutex | `DoUDP/DoTCP/DoHTTP`, `do` | handlers send, workers are spawned |
| request handling | `handler.go` | cache, negative cache, custom resolver | `doRequest`, `responseFor`, `canFollow`, `blockedResponseFor` | cache, resolver, custom records, blocklist |
| custom records | `records.go` | a `dns.ServeMux` of records | `Resolve`, replaced on reload | workers |
| blocklist | `updater.go`, `cache.go` | the block cache in use, files of the store, `timesSeen`, `whitelist` | `PerformUpdate`, `Get/Set/Remove` | main, API, sources |
| API | `api.go` | `personal.list` | toggle, remove, update trigger, read-outs | main through `reloadChan`, the block cache |
| DoH server | `doh.go` | per request a `completed` channel | `ServeHTTP`, `WriteMsg`, `Stop` | the event loop |
| main, activation | `main.go`, `activation.go` | the config of the start, the signal and reload channels | start, `reloadBlockCache`, SIGINT, SIGHUP, SIGUSR1 | all of the above |
| logger | `logger.go` | open log files, kept by main and by the logging backend | `loggerInit`, `reopen`, `cleanUp` | main |
| configuration | `config.go` | the config file, and what was loaded of it | `LoadConfig` | main |
| metrics, TLS | `internal/metric`, `tls` | counters, certificates | - | - |

What is hard here: every request is a goroutine, and requests share caches
without a lock around compound steps; each cached response is filled by a
further goroutine that reads a message its request is still extending; a reload
dismantles listeners and the event loop under running requests; lookups leave
goroutines behind; the API edits a file and a map while an update replaces
both; replies share the memory of the cache entry they come from; signals come
while main is busy. `PROJECT.json` lists these hazards line by line under `hazards`.

What makes each component correct:

- cache: the counter agrees with the map; the capacity bounds it; TTLs only fall;
- resolver: an error only if all upstreams failed, the first answer wins, nothing is left behind;
- server: no send on a closed channel, ports are free when taken again, accepted requests are worked on, reloads end;
- request handling: no route leads around the blocklist, answers are as complete as the depth allows, every request is answered, what is cached does not change under those who read it;
- blocklist: complete downloads are imported, the whitelist holds, no half-built cache is used, what users block is kept, reloads end;
- main, logger: no log is lost or kept open by rotation, requests for an update are not lost, a loaded config is the one in force, SIGINT ends the process.

## 2. Modules

| Module | Models | Proofs |
|---|---|---|
| `LCache` | `lcache/cache.go` | `LCacheProofs` |
| `AbstractLookup` | what `Lookup` promises its caller | |
| `Resolver` | `resolver.go`, refines `AbstractLookup` | `ResolverProofs` |
| `Server` | `server.go`, the event loop of `handler.go`, the waiting of `doh.go`, `reloadBlockCache` | `ServerProofs` |
| `Handler` | `doRequest` and `responseFor` of `handler.go`, `records.go`, `ReloadConfig` | `HandlerProofs`, `AnswersProofs` |
| `SharedAnswers` | the arrays behind the answer sections of `handler.go` | `SharedAnswersProofs` |
| `BlockList` | `updater.go`, `MemoryBlockCache`, the writing endpoints of `api.go`, the reload of `main.go` | `BlockListProofs` |
| `Logger` | the log files of `logger.go` | in `MainProofs` |
| `Main` | `main.go`, `activation.go`, `LoadConfig`; extends `Logger` | `MainProofs` |
| `MC*` | small instances of the above for TLC | |

**LCache.** One action per access to shared memory: `GetLoad`, `GetClock`
(clock and expiry test), `GetRewriteTtl`, `RemoveDelete`, `RemoveCount`,
`SetFull`, `SetExists`, `SetStamp`, `SetSwap`, `SetCount`. An entry is an object
with the smallest TTL of its records; what it was granted is kept as history.
Time is in ticks, several to a second, because TTLs are truncated to seconds.
The unsynchronised TTL write is a write of one word, the outcome of the race is
either writer's value.

**Resolver.** One call of `Lookup`: `TryDoH`, then the loop (`Start`,
`SelectAnswer`, `SelectTick`, `EndLoop`), `WaitAll` and `Final`, beside a
goroutine per nameserver (`Exchange`, `Offer`, `Leave`) and the ticker. An
answer is its nameserver; of its content only the Rcode decides. `Verdict` maps
this state to `AbstractLookup`, where upstreams settle in any order and the
caller gets an answer of one that succeeded, or an error once all have failed.

**Server.** Incarnations, one per `Run`, each with an event loop and up to three
listeners. A request arrives (`Arrive`), takes the read lock and tests `active`
(`Enter`), meets the loop (`Send`), unlocks (`Unlock`), and over HTTP waits for
its answer (`Completed`). `Reject` is a request the loop never sees: a DoH request
of another path or that cannot be decoded, or a message without a question,
which `dns.ServeMux` refuses. The loop hands it to a worker if the group has room
(`Go`). `StopLock`, `StopClose`, then `Shutdown` or `ShutdownIdle` and `Join` per
listener, then `Run` are `reloadBlockCache`. Go's RWMutex lets no reader in once
a writer waits; that is `writer`. A listener's goroutine gets
to listen (`Bind`) at any time after `Run`, even after the `Stop` that was to
stop it. Of miekg/dns, which is vendored, the module has what the servers rely
on: a `dns.Server` that does not listen yet refuses `Shutdown`, one that does
waits for its handlers, and its UDP socket is held until then. net/http is
modelled from how it is used. `startHttp` reads `s.httpServer` when it gets to run
(`server.go:84`), so a goroutine delayed past the next `Run` serves the new
server; the new server then listens as by its own `Bind`, and the goroutine that
comes second finds the address taken and ends.

**Handler.** A request goes through `TryLocal` (custom records, then the
blocklist), `TryCache`, `TryNegCache`, `Lookup` and `RetryTcp`; `Got` and
`Failed` are what `doRequest` does with the outcome; `Round` and `FollowNext`
are its loop over CNAMEs, each target going through `responseFor` again. A
response from upstream leaves a filler behind, and for the client's own
question the filler refers to the request's response, so `Fill` caches it as it
is by then. Entries expire at any moment. `TryLocal` is one step because custom
records and the blocklist are each one atomic read, and the blocklist does not
change within the model. The test for a message without a question is left
out: `dns.ServeMux` refuses such messages before the event loop.

**SharedAnswers.** `Handler` treats an answer section as a value; here it is a
slice: an array and a length. A hit (`Hit`) copies the slice of the entry, a
lookup makes an array of its own and leaves a filler. `AppendLen` and
`AppendStore` are the two halves of Go's `append`: in place while the array has
room, into a new array of double the size otherwise. `FillCopy` copies the
slice of the request at any moment, `FillSet` is what `Set` does with the copy,
which asks every record for its TTL and panics at a slot that has none yet. One
question is asked by several requests; what following its CNAMEs brings comes
from other questions and is chosen freely.

**BlockList.** `Update`, per source `Create` and `Download`, `Walk`, `Shutdown`,
`Swap`, `Reload` are the main goroutine; the API's requests are
`RemoveKey`, `SetGet` to `SetWrite`, and `PostUpdate`; `Crash` restarts the
process and keeps the files. Errors of `personal.list` are only logged, after the
cache was changed and success answered: an append may fail (`SetAppendFails`) or
be cut short (`SetAppendCut`), reading may fail (`SetScanFails`), and the rewriting
goes on after a failed truncation and may write part of the lines. `saved`,
`walked` and `applied` follow what was written to the file from the append to the
update that reads it and the cache built from it. Keys are domains, globs and regexps: `Exists` asks
the patterns too, `Put` drops a regexp that does not compile. `updateBlockCache`
leaves out a line that something already there matches, so the cache it ends
with depends on the order of the lines; `Loaded` is the set of those it can end
with, and the walk over the files is one step. The whitelist is compared with
lines as they are spelled, and keys are stored in lower case: `Capitals` are
those that sources spell otherwise, and a request to the API may spell its key
with capitals as well (`mixed`). A line of `personal.list` is a sequence of
keys, which is what tells a line from two lines glued together.

**Logger** and **Main.** A file is found under its name or was rotated away; a
handle is an `os.File`, with what main's `loggingState` (`state`) and the logging
backend (`backends`) refer to. `OpenNext` and `OpenFails` are
`createFileLogger`, one log at a time, including the handle of `os.Create`
that nobody keeps; `reopen` (`Reopen`) opens, cleans up and sets the backend,
and because its receiver is a copy `state` stays what it was. `Collect` is the
collector, which closes what nobody refers to. `Main` starts (`Load` to
`Update`), asks for signals (`Notify`), then waits for `Trigger` or `Signal`: a
signal that comes while main is elsewhere is lost, since the channel has no
buffer, and before `signal.Notify` it has its default effect. Requests for updates
(`Post`) come from the end of the first update on, before `Notify` too and while
main is in a later update; their goroutines wait. `ReloadConfig` is SIGUSR1, `Quit` and
`Bye` the two meetings with the activation goroutine at SIGINT. An update is a
single step of `Main`; `BlockList` has its data and `Server` its stopping and
starting.

### What is abstracted

- Names, keys and payloads are values. In `Handler` the answer section is a set,
  as `doRequest` adds no record twice; `SharedAnswers` keeps its order.
- A torn read of a response that is being extended is modelled in `Handler` as
  the response before or after, and in `SharedAnswers` as the new length with
  the record still missing; the three words of a slice are copied at once.
  Targets that occur twice in one round are asked once.
- What a glob or a regexp matches is a parameter.
- `Collect` closes all that is not referred to in one step.
- The administrator's edits of the config file are atomic. Of a config, `Main`
  keeps the custom records, the one part that `ReloadConfig` applies.
- A write to `personal.list` that is cut short leaves the key without its
  newline; one that leaves part of the key is not told apart from it.
- Paths on which the process ends by `logger.Fatal` are ends of `Main`, and
  `Crash` where something persists.
- Logging, metrics, wording and HTTP status codes are left out.

## 3. Runs

Runs that pass, with what bounds them:

| Run | Shows | Instance |
|---|---|---|
| `cache` | `SizeAccounting`, `SoftCapacity`, `TtlWithinGrant` | 2 goroutines, 3 keys, capacity 1, 3 entries ever, 2 ticks to a second: two goroutines race for one place, a third key can be refused, entries expire while they are read |
| `lookup` | `ErrorOnlyIfAllFailed`, `FirstAnswerWins`, `AllEnd`, `KeepsPromise` | DoH and 3 nameservers: one answer in the buffer, one dropped, one late |
| `server` | `NoSendOnClosed`, `PortsAreFreed`, `AcceptedIsProcessed`, `OldLoopsEnd`, `OnlyDroppedHoldUp` | 2 requests by any protocol, 2 incarnations (one reload), 1 worker at a time, so that a request waits for a place while the loop is stopped |
| `request` | `AnswersComplete`, `AskedUnblocked`, `Answered` | chains and circles of aliases, one told by the upstream at once and others link by link; a blocked name, one that cannot be resolved, fails or is truncated, a custom record that comes with a reload; A and CNAME questions by three protocols, depth 2; any number of requests in a row, up to 2 fillers of earlier requests still to run: they, and expiry, stand for what other requests do to the cache |
| `answers` | `EntryIntact` | 3 requests for one question, 2 of which may miss the cache, one round of following; a lookup that fills its array and one that leaves a slot; following that adds one record or two: the array is shared, has room, and is outgrown |
| `blocklist` | `ImportsAll`, `WhitelistHolds`, `NeverHalfBuilt`, `UserListKept`, `ReloadEnds` | 3 domains, a glob that matches one of them and a regexp that does not compile; 2 sources of one host, the first with two versions, 2 updates, a crash, 2 requests to the API, at once or not, whose writes may fail |
| `main` | `NeverMute`, `OnlyUpdateUndoes`, `RotatedIsReleased`, `InterruptEnds`, `TriggersServed` | 2 logs, so that opening fails with one open; a rotation; the config file missing, unusable or good, and edited once; 2 signals, so that one is lost or SIGHUP comes twice; 2 requests for an update, so that one comes in during an update or waits behind the other |

Each module's `TypeOK` is checked once, beside these. Deadlock is not checked
where the model stops at a bound or the process may have ended. Symmetry over
goroutines, keys or requests is used only in runs without temporal properties.

Runs that TLC must find violated state what a comment or document says and the
code does not do; `PROJECT.json` quotes the line under `findings`:

| Run | Property | What happens |
|---|---|---|
| `server_reload_doh` | `ReloadCompletes` | a DoH request that finds the loop inactive blocks the reload for ever |
| `request_block` | `BlockedStaysBlocked` | an upstream that resolves aliases itself, as the default ones do, brings the address of a blocked name to the client |
| `request_crash` | `NeverCrashes` | an alias of an unresolvable name ends the process |
| `request_reload` | `NoStaleCustom` | custom records survive a reload in the cache |
| `answers_replies` | `RepliesOwn` | of two requests that append into the same free slot, one replies with the record of the other |

`OnlyDroppedHoldUp` in the run `server` is the other side of `server_reload_doh`:
no other request of a DNS or DoH client holds up a reload. (The other part of a
reload that waits is the API's `Shutdown`, see `ReloadEnds`.)
`AskedUnblocked` in the run `request` is the other side of `request_block`: leng's
own following never asks for a blocked name, and what a reply has from the
upstream was said of a name that passed the blocklist. The names of the records
themselves are not tested, which is what the violated run shows.
In the same way `EntryIntact` is the other side of `answers_replies`: the shared
array costs a reply its record, but never the entry in the cache one of its own.
`UserListKept` follows what the API has written to `personal.list` through other
requests, updates and crashes. It is stated for as long as no request has
rewritten the file and no write was cut short: those lose lines in several ways,
which are in the model and listed below. A key whose append failed is not in it:
it is blocked until the next update, although success was answered.
`ReloadEnds` is about the handlers that are modelled; a slow reader of an
endpoint that only reads holds up `Shutdown`, which has no deadline, as long
as it takes.

Behaviour met while modelling that differs from what one may expect, without a
run of its own:

- the capacity of the cache is soft: concurrent calls of `Set` overshoot it, by
  no more than `SoftCapacity` says (`lcache/cache.go`);
- a `Get` of an expired entry can remove the fresh entry that has replaced it
  (`lcache/cache.go:69`): a lost cache entry, never a wrong answer;
- `Lookup` can wait for the slowest nameserver with an answer already in its
  channel (`resolver.go:128`);
- a listener goroutine that first runs after `Stop` outlives it (`server.go:98`)
  and can be in the way of its successor, which `PortsAreFreed` allows for;
- the Rcode of a blocked reply is reset by the deferred `SetReply`
  (`handler.go:121`): with `nxdomain = true` (`config.go:138`) clients get NOERROR;
- a failed lookup is cached under the largest TTL there is (`handler.go:169`);
- the filler may copy a response between the two halves of an append, and `Set`
  then panics at the missing record (`FillSet` reaches it);
- an upstream reached by DoH that answers SERVFAIL is taken at its word, other
  than a nameserver that does (`resolver.go:60`), and `Timeout`, documented in
  milliseconds (`config.go:116`), is used in seconds (`resolver.go:81`);
- files of earlier updates stay in the store under other numbers and are read
  again (`updater.go:87`): what a source has dropped stays blocked until a restart;
- a whitelisted domain is blocked if a source spells it with capitals, or names
  a pattern that matches it (`updater.go:166`);
- globs are matched by a library that knows `*` only, so one with `?` is kept as
  a pattern and never matches;
- a domain that a pattern matches may have been left out because of it, and is
  unblocked with the pattern;
- `personal.list` is rewritten with the newline before each line
  (`api.go:147`): the next domain is glued to the last line, and a crash or a
  second request between the truncation and the writing loses or doubles lines;
- an append to `personal.list` that fails is only logged (`api.go:134`), after
  success was answered: the next update unblocks the key;
- a toggle of a key spelled with capitals only ever removes it (`api.go:127`);
- a toggle that comes after an update has read the files is undone by its swap
  (`main.go:31`), until the next update;
- signals are lost while main reloads; a config file that is missing when
  SIGUSR1 comes gives the default config without a word, one that does not
  parse ends the process (`main.go:141`), and an update goes back to the config
  of the start (`main.go:118`).

### Fairness

- `Resolver`: weak fairness of the caller, of each goroutine and of the ticker.
  `Exchange` and the DoH request have timeouts, so they end.
- `Server`: weak fairness of main within a reload, of handlers, loops, workers
  and listeners; strong fairness of `Send`, because Go queues the senders of a
  channel. Requests and reloads need never come.
- `Handler`: weak fairness of each request; lookups end by their timeouts.
- `BlockList`: weak fairness of main and of the API handlers, but not of
  downloads: `http.Get` has no timeout, and `ReloadEnds` does not need them.
- `Main`: weak fairness of main where it does not wait, `Notify` included; strong fairness of
  `Trigger`, since `select` chooses at random among what is ready; weak fairness of
  the collector, which the runtime runs every two minutes. None of an update,
  which may wait for a source for ever: `TriggersServed` has that as its premise.
  None of signals, edits and requests.

## 4. Proofs

All theorems hold for every value of the constants that meets the named
assumptions of the module.

| Theorem | States | Inductive invariant |
|---|---|---|
| `LCacheProofs!TypeCorrect` | `TypeOK` | `WellFormed`: `TypeOK` with where each goroutine's locals are set |
| `LCacheProofs!SizeIsAccurate` | `SizeAccounting` | with `WellFormed`: each step moves one goroutine in or out of `Incs` and `Decs` as it changes the map |
| `LCacheProofs!CapacityIsSoft` | `SoftCapacity` | `Reservation`: keys in the map or about to be put there are bounded; the capacity test is passed only while the counter, and so the map less the additions under way, is below the capacity |
| `LCacheProofs!TtlNeverGrows` | `TtlWithinGrant` | `Lifetimes`: an expiry lies at most the granted TTL after any clock reading made for it |
| `ResolverProofs!LookupTypeCorrect` | `TypeOK` | `Inv` |
| `ResolverProofs!ErrorsAreHonest` | `ErrorOnlyIfAllFailed` | `Inv`: who was started, how far each is (`Started`, `Progress`), that an answer offered is in the channel or was returned (`Kept`), and what the caller's position implies (`Control`) |
| `ResolverProofs!FirstAnswerReturned` | `FirstAnswerWins` | `Inv` |
| `ResolverProofs!LookupKeepsPromise` | `KeepsPromise` | each step maps to a step of `AbstractLookup` or a stutter, by `Inv` |
| `ServerProofs!ServerTypeCorrect` | `TypeOK` | `Inv`, with `Placed`: an incarnation is to come while a reload is under way |
| `ServerProofs!SendsAreSafe` | `NoSendOnClosed` | a channel is open while its loop is active; a handler at its send saw it active, under a lock that `StopClose` waits for |
| `ServerProofs!StopFreesPorts` | `PortsAreFreed` | `OneCloses`: only the listener that `Stop` waits for is between listening and down |
| `HandlerProofs!HandlerTypeCorrect` | `TypeOK` | with `Asking`: a request that has begun has a question |
| `HandlerProofs!BlockingHolds` | `AskedUnblocked`, for any upstream | `BlockInv`: past the blocklist test no blocked name is asked for (`Sound`), and what requests, cache entries and fillers hold for a name is `Sourced`, said of an unblocked name among it and the targets of its aliases |
| `AnswersProofs!AnswersAreComplete` | `AnswersComplete`, if the upstream is `Steady` and what is answered is `Chained` | `AnswerInv`: what requests, fillers and cache hold for a name is `Coherent`, an answer for it followed some way, and a request in a round has what the rounds before brought (`Progress`) |
| `SharedAnswersProofs!SharedAnswersTypeCorrect` | `TypeOK` | `Shape`: every slice is of an array that exists and within its bounds |
| `SharedAnswersProofs!CachedStaysCached` | `EntryIntact` | `Private`: until its filler has run, a request has its array to itself; `OneWriter`: a copy on its way to the cache shares its array with one request, which writes past the copy; `PastEntry`: whoever shares the array of the entry writes past the entry |
| `BlockListProofs!BlockListTypeCorrect` | `TypeOK` | `Shape`, with the bound on the numbers of files that `timesSeen` gives |
| `BlockListProofs!DownloadsAreImported` | `ImportsAll` | `Downloads`: the sources of an update have files of their own, and what was brought is in them when the files are read |
| `BlockListProofs!WhitelistIsKept` | `WhitelistHolds` | `Built`: the cache being built has no whitelisted key but for the config's own and capitals |
| `BlockListProofs!CacheIsWhole` | `NeverHalfBuilt` | `UseInv`: the keys in the cache in use together with those removed from it only grow between two swaps |
| `BlockListProofs!UserListPersists` | `UserListKept` | `Listing`: the file ends with a newline and has a line for every key that was written; `Applying`: what was written when an update read the file is in the cache it builds, and in the one in use but for removals |
| `MainProofs!MainTypeCorrect` | `TypeOK` | `LogShape`, `MainShape` |
| `MainProofs!LogsAreWritable` | `NeverMute` | `OpenedApart`: what a call of `createFileLoggers` has opened is open, and neither main nor the backend refer to it yet; `LogsPlaced`: when `reopen` has cleaned up it has opened every log, and no signal ends the process before they are the backend |
| `MainProofs!ReloadsTakeEffect` | `OnlyUpdateUndoes` | `Inv` |

Each inductive invariant was checked with TLC on the instance of its run before
it was proved.

`Steady` is what the reference definition `Resolved` presupposes: one config, and
lookups that succeed and return the same each time. `Chained` says that what is
answered for a name lacks the answers of at most one alias target, and of none if
it has an address already. Chains and circles of aliases of any length meet it,
and so does an upstream that resolves all of a chain. It is needed: if one name
has two aliases, a filler that runs in the middle of a round can cache an answer
with the address of the first and without that of the second, and `canFollow`
(`handler.go`) goes no further for whoever gets that entry, because there is an
address in it. DNS allows one CNAME per name, but custom records and upstreams
are not held to it. A `Coherent` answer stays one when a target in it is
followed with any `Coherent` answer for that target (`CoherentUnion`), which is why
it does not matter which half-followed answers the fillers cache.

The depth is a constant of any value, so `AnswersAreComplete` goes by induction
over the rounds. The library's induction theorems with an operator parameter
cannot be used, so `SetInduction` is derived from the well-foundedness of the
natural numbers (`WFMin`), for sets of numbers. It also gives `Rounds`, which is a
recursive function, its defining equation.

Only model-checked: liveness (`AllEnd`, `AcceptedIsProcessed`, `OldLoopsEnd`,
`OnlyDroppedHoldUp`, `Answered`, `ReloadEnds`, `RotatedIsReleased`, `InterruptEnds`,
`TriggersServed`), which is beyond the proof system. Every invariant that a
passing run checks is stated by a theorem, and so is the refinement.

## 5. Not modelled

- Metrics: counters that nothing in the program reads back.
- TLS: loading of certificates, without state.
- `MemoryCache` and `MemoryQuestionCache` of `cache.go`, and `utils.go`: used by
  tests only.
- Parsing: TOML, the string of the log config, zone-file records, lines of
  blocklists; what they yield is a CONSTANT or a choice. Encoding and HTTP
  details of `doh.go`.
- The endpoints of the API that only read, and its metrics endpoint. `/blockcache`
  reads the map without its lock, for which Go may end the process; that is a
  `Crash` of `BlockList`.
- Levels, formats, stderr and syslog of the logger.

## 6. Plan

The components are modelled and their invariants proved. Worth adding:

1. the other side of `NeverCrashes` as a theorem: without an alias of a name that
   cannot be resolved, no request of `Handler` ends the process;
2. the bounds behind the liveness properties, as invariants: how many goroutines
   of one lookup, and how many closed event loops, there can be at a time.
