------------------------------- MODULE Server -------------------------------
(***************************************************************************)
(* The life of the DNS servers across reloads (server.go, main.go) and the *)
(* path of a request from a listener into the event loop (handler.go       *)
(* DoUDP, DoTCP, DoHTTP, do; doh.go ServeHTTP).                            *)
(*                                                                         *)
(* Each Run makes an incarnation: an EventLoop with its unbuffered         *)
(* requestChannel, its goroutine and its "active" flag under an RWMutex,   *)
(* and one listener goroutine per protocol.  Each Stop dismantles the      *)
(* current one while its requests are under way.  What a request is        *)
(* answered is the subject of other modules: here a worker just ends.      *)
(*                                                                         *)
(* Of the vendored miekg/dns: a dns.Server that has not begun to listen    *)
(* refuses Shutdown, one that has waits for its handlers.  net/http is     *)
(* modelled from how this code uses it: an http.Server that was shut down  *)
(* never begins to listen.                                                 *)
(***************************************************************************)
EXTENDS Integers, Sequences, FiniteSets

CONSTANTS
  Reqs,         \* requests clients may send
  NoReq,        \* no request
  HttpEnabled,  \* config.DnsOverHttpServer.Enabled
  Limit,        \* errGroup.SetLimit
  MaxGen        \* bound: number of incarnations

ASSUME ReqsAssumption == IsFiniteSet(Reqs) /\ NoReq \notin Reqs
ASSUME HttpAssumption == HttpEnabled \in BOOLEAN
ASSUME BoundsAssumption == Limit \in Nat \ {0} /\ MaxGen \in Nat \ {0}

Gens == 1..MaxGen
Nets == {"udp", "tcp", "http"}

\* The order in which Stop shuts the servers down.
StopOrder == <<"udp", "tcp", "http">>

VARIABLES
  main,    \* where the main goroutine is
  stage,   \* index in StopOrder of the server Stop is at
  gen,     \* the current incarnation
  active,  \* incarnation -> EventLoop.active
  closed,  \* incarnation -> is its requestChannel closed
  writer,  \* incarnation -> does Stop hold or await muActive
  loop,    \* incarnation -> where its goroutine "do" is
  held,    \* incarnation -> the request "do" received and has not handed on
  lis,     \* incarnation -> protocol -> state of its listener
  req,     \* request -> where its handler goroutine is
  via,     \* request -> the incarnation and protocol it came in by
  work     \* request -> what became of it in the event loop

mainVars == <<main, stage, gen>>
loopVars == <<active, closed, writer, loop, held>>
reqVars  == <<req, via, work>>
vars     == <<mainVars, loopVars, lis, reqVars>>

NoVia == [gen |-> 0, net |-> "udp"]

Enabled(n) == n # "http" \/ HttpEnabled

\* Handlers between RLock and RUnlock of incarnation i.
Readers(i) == {r \in Reqs : via[r].gen = i /\ req[r] \in {"send", "unlock", "skip"}}

\* Handlers of incarnation i and protocol n that have not returned.
Handlers(i, n) ==
  {r \in Reqs : via[r] = [gen |-> i, net |-> n] /\ req[r] # "returned"}

Workers(i) == {r \in Reqs : via[r].gen = i /\ work[r] = "running"}

Init ==
  /\ main = "serving" /\ stage = 1 /\ gen = 1
  /\ active = [i \in Gens |-> i = 1]
  /\ closed = [i \in Gens |-> FALSE]
  /\ writer = [i \in Gens |-> FALSE]
  /\ loop = [i \in Gens |-> IF i = 1 THEN "recv" ELSE "off"]
  /\ held = [i \in Gens |-> NoReq]
  /\ lis = [i \in Gens |->
              [n \in Nets |-> IF i = 1 /\ Enabled(n) THEN "spawned" ELSE "off"]]
  /\ req = [r \in Reqs |-> "new"]
  /\ via = [r \in Reqs |-> NoVia]
  /\ work = [r \in Reqs |-> "none"]

-----------------------------------------------------------------------------
(* Listeners *)

\* A dns.Server keeps its UDP socket until Shutdown has seen its handlers
\* return; TCP listeners close first.
Holds(s, n) == s = "up" \/ (s = "closing" /\ n = "udp")

PortTaken(n) == \E i \in Gens : Holds(lis[i][n], n)

\* The goroutine "start" or "startHttp" gets to ListenAndServe.
Bind(i, n) ==
  /\ lis[i][n] = "spawned"
  /\ lis' = [lis EXCEPT ![i][n] = IF PortTaken(n) THEN "failed" ELSE "up"]
  /\ UNCHANGED <<mainVars, loopVars, reqVars>>

\* A listener reads a request and runs its handler in a goroutine.
Arrive(r, i, n) ==
  /\ req[r] = "new" /\ lis[i][n] = "up"
  /\ req' = [req EXCEPT ![r] = "rlock"]
  /\ via' = [via EXCEPT ![r] = [gen |-> i, net |-> n]]
  /\ UNCHANGED <<mainVars, loopVars, lis, work>>

\* ... or one the event loop never sees, and whose handler waits for nothing: over
\* HTTP one of another path or method, or that cannot be decoded; by any protocol
\* a message without a question, which dns.ServeMux refuses.
Reject(r, i, n) ==
  /\ req[r] = "new" /\ lis[i][n] = "up"
  /\ req' = [req EXCEPT ![r] = "returned"]
  /\ via' = [via EXCEPT ![r] = [gen |-> i, net |-> n]]
  /\ UNCHANGED <<mainVars, loopVars, lis, work>>

-----------------------------------------------------------------------------
(* A handler: DoUDP, DoTCP, or ServeHTTP around DoHTTP *)

\* muActive.RLock(), which waits for a writer that holds or awaits the lock,
\* and the test of h.active.
Enter(r) ==
  LET i == via[r].gen IN
  /\ req[r] = "rlock" /\ ~writer[i]
  /\ req' = [req EXCEPT ![r] = IF active[i] THEN "send" ELSE "skip"]
  /\ UNCHANGED <<mainVars, loopVars, lis, via, work>>

\* h.requestChannel <- data: the sender and "do" meet.
Send(r) ==
  LET i == via[r].gen IN
  /\ req[r] = "send" /\ ~closed[i] /\ loop[i] = "recv"
  /\ loop' = [loop EXCEPT ![i] = "go"]
  /\ held' = [held EXCEPT ![i] = r]
  /\ req' = [req EXCEPT ![r] = "unlock"]
  /\ UNCHANGED <<mainVars, active, closed, writer, lis, via, work>>

\* A slip of Unlock: RUnlock called after the send instead of deferred.
UnlockSentOnly(r) ==
  /\ req[r] = "unlock"
  /\ req' = [req EXCEPT ![r] = IF via[r].net = "http" THEN "await" ELSE "returned"]
  /\ UNCHANGED <<mainVars, loopVars, lis, via, work>>

\* The deferred RUnlock.  A DNS handler then returns, while ServeHTTP goes on
\* to wait for writer.completed.
Unlock(r) ==
  /\ req[r] \in {"unlock", "skip"}
  /\ req' = [req EXCEPT ![r] = IF via[r].net = "http" THEN "await" ELSE "returned"]
  /\ UNCHANGED <<mainVars, loopVars, lis, via, work>>

\* WriteMsg signals "completed"; ServeHTTP returns.
Completed(r) ==
  /\ req[r] = "await" /\ work[r] = "done"
  /\ req' = [req EXCEPT ![r] = "returned"]
  /\ UNCHANGED <<mainVars, loopVars, lis, via, work>>

-----------------------------------------------------------------------------
(* The event loop of incarnation i *)

\* A slip of Go: a request is dropped when the group is at its limit.
GoTry(i) ==
  /\ loop[i] = "go"
  /\ IF Cardinality(Workers(i)) < Limit
       THEN work' = [work EXCEPT ![held[i]] = "running"]
       ELSE UNCHANGED work
  /\ loop' = [loop EXCEPT ![i] = "recv"]
  /\ held' = [held EXCEPT ![i] = NoReq]
  /\ UNCHANGED <<mainVars, active, closed, writer, lis, req, via>>

\* errGroup.Go blocks the loop while the group is at its limit.
Go(i) ==
  /\ loop[i] = "go" /\ Cardinality(Workers(i)) < Limit
  /\ work' = [work EXCEPT ![held[i]] = "running"]
  /\ loop' = [loop EXCEPT ![i] = "recv"]
  /\ held' = [held EXCEPT ![i] = NoReq]
  /\ UNCHANGED <<mainVars, active, closed, writer, lis, req, via>>

\* A worker's doRequest returns, having written its reply or failed to.
Finish(r) ==
  /\ work[r] = "running"
  /\ work' = [work EXCEPT ![r] = "done"]
  /\ UNCHANGED <<mainVars, loopVars, lis, req, via>>

\* "do" finds the channel closed.
EndLoop(i) ==
  /\ loop[i] = "recv" /\ closed[i]
  /\ loop' = [loop EXCEPT ![i] = "ended"]
  /\ UNCHANGED <<mainVars, active, closed, writer, held, lis, reqVars>>

-----------------------------------------------------------------------------
(* The main goroutine: reloadBlockCache, that is PerformUpdate, Stop, Run *)

\* PerformUpdate takes its time; then Stop asks for muActive.Lock().
StopLock ==
  /\ main = "serving" /\ gen < MaxGen
  /\ main' = "lock"
  /\ writer' = [writer EXCEPT ![gen] = TRUE]
  /\ UNCHANGED <<stage, gen, active, closed, loop, held, lis, reqVars>>

\* A slip of StopClose: the channel is closed without the write lock.
StopCloseUnlocked ==
  /\ main = "lock"
  /\ active' = [active EXCEPT ![gen] = FALSE]
  /\ closed' = [closed EXCEPT ![gen] = TRUE]
  /\ writer' = [writer EXCEPT ![gen] = FALSE]
  /\ main' = "shutdown" /\ stage' = 1
  /\ UNCHANGED <<gen, loop, held, lis, reqVars>>

\* A slip of StopClose: the channel stays open.
StopNoClose ==
  /\ main = "lock" /\ Readers(gen) = {}
  /\ active' = [active EXCEPT ![gen] = FALSE]
  /\ writer' = [writer EXCEPT ![gen] = FALSE]
  /\ main' = "shutdown" /\ stage' = 1
  /\ UNCHANGED <<gen, closed, loop, held, lis, reqVars>>

\* With the write lock: active = false and close(requestChannel).
StopClose ==
  /\ main = "lock" /\ Readers(gen) = {}
  /\ active' = [active EXCEPT ![gen] = FALSE]
  /\ closed' = [closed EXCEPT ![gen] = TRUE]
  /\ writer' = [writer EXCEPT ![gen] = FALSE]
  /\ main' = "shutdown" /\ stage' = 1
  /\ UNCHANGED <<gen, loop, held, lis, reqVars>>

Stopping == StopOrder[stage]

\* A slip of NextStage: Stop goes on past the last server.
NextStagePastEnd ==
  IF stage <= Len(StopOrder) THEN main' = "shutdown" /\ stage' = stage + 1
                             ELSE main' = "run" /\ UNCHANGED stage

NextStage ==
  IF stage < Len(StopOrder) THEN main' = "shutdown" /\ stage' = stage + 1
                            ELSE main' = "run" /\ UNCHANGED stage

\* Shutdown of a server that listens: no new requests from now on.
Shutdown ==
  /\ main = "shutdown" /\ lis[gen][Stopping] = "up"
  /\ lis' = [lis EXCEPT ![gen][Stopping] = "closing"]
  /\ main' = "join"
  /\ UNCHANGED <<stage, gen, loopVars, reqVars>>

\* Shutdown of a server that does not listen: dns.Server answers "server not
\* started" and may still begin to; http.Server never will.  startHttp looks
\* s.httpServer up when it gets to run: one delayed past the next Run serves the
\* server of that Run in place of its own goroutine, and Bind stands for either.
ShutdownIdle ==
  /\ main = "shutdown" /\ lis[gen][Stopping] # "up"
  /\ lis' = IF Stopping = "http" /\ lis[gen]["http"] = "spawned"
              THEN [lis EXCEPT ![gen]["http"] = "down"] ELSE lis
  /\ NextStage
  /\ UNCHANGED <<gen, loopVars, reqVars>>

\* A slip of Join: Shutdown does not wait for the listener to wind up.
JoinNoWait ==
  /\ main = "join"
  /\ NextStage
  /\ UNCHANGED <<gen, loopVars, lis, reqVars>>

\* Shutdown returns once every handler of the server has.
Join ==
  /\ main = "join" /\ Handlers(gen, Stopping) = {}
  /\ lis' = [lis EXCEPT ![gen][Stopping] = "down"]
  /\ NextStage
  /\ UNCHANGED <<gen, loopVars, reqVars>>

\* server.Run: a new EventLoop and new listener goroutines.
Run ==
  /\ main = "run"
  /\ main' = "serving"
  /\ gen' = gen + 1
  /\ active' = [active EXCEPT ![gen + 1] = TRUE]
  /\ loop' = [loop EXCEPT ![gen + 1] = "recv"]
  /\ lis' = [lis EXCEPT ![gen + 1] =
               [n \in Nets |-> IF Enabled(n) THEN "spawned" ELSE "off"]]
  /\ UNCHANGED <<stage, closed, writer, held, reqVars>>

-----------------------------------------------------------------------------

Main == StopClose \/ Shutdown \/ ShutdownIdle \/ Join \/ Run

Handler(r) == Enter(r) \/ Send(r) \/ Unlock(r) \/ Completed(r)

Loop(i) == Go(i) \/ EndLoop(i)

Next ==
  \/ StopLock \/ Main
  \/ \E i \in Gens : Loop(i) \/ \E n \in Nets : Bind(i, n)
  \/ \E r \in Reqs : \/ Handler(r) \/ Finish(r)
                     \/ \E i \in Gens, n \in Nets : Arrive(r, i, n) \/ Reject(r, i, n)

Spec == Init /\ [][Next]_vars

\* The scheduler runs what can run; a worker ends because every exchange with
\* an upstream has a timeout.  A sender blocked on the channel is served while
\* others send too: Go's channels queue their senders.  Requests and reloads
\* need never come.
Fairness ==
  /\ WF_vars(Main)
  /\ \A r \in Reqs : SF_vars(Send(r)) /\ WF_vars(Handler(r)) /\ WF_vars(Finish(r))
  /\ \A i \in Gens : WF_vars(Loop(i)) /\ \A n \in Nets : WF_vars(Bind(i, n))

FairSpec == Spec /\ Fairness

-----------------------------------------------------------------------------
(* Properties *)

\* Every variable has the shape the code gives it.
TypeOK ==
  /\ main \in {"serving", "lock", "shutdown", "join", "run"}
  /\ stage \in 1..3
  /\ gen \in Gens
  /\ active \in [Gens -> BOOLEAN]
  /\ closed \in [Gens -> BOOLEAN]
  /\ writer \in [Gens -> BOOLEAN]
  /\ loop \in [Gens -> {"off", "recv", "go", "ended"}]
  /\ held \in [Gens -> Reqs \cup {NoReq}]
  /\ lis \in [Gens -> [Nets -> {"off", "spawned", "up", "closing", "down", "failed"}]]
  /\ req \in [Reqs -> {"new", "rlock", "send", "unlock", "skip", "await", "returned"}]
  /\ via \in [Reqs -> [gen : 0..MaxGen, net : Nets]]
  /\ work \in [Reqs -> {"none", "running", "done"}]

\* No handler is at its send when the channel is closed, which would panic and
\* end the process: "active" and the channel change only while no handler is
\* between its test of "active" and its send, across any number of reloads.
NoSendOnClosed == \A r \in Reqs : req[r] = "send" => ~closed[via[r].gen]

\* Bind failures of a step: a listener finds its address in use.
BindFails(i, n) == lis[i][n] # "failed" /\ lis'[i][n] = "failed"

\* Stop gives the ports back before Run takes them again: the address is in use
\* for a listener of the current incarnation only when one of an earlier
\* incarnation, whose goroutine had not begun to listen at its Shutdown, has
\* done so since.
PortsAreFreed ==
  [][\A n \in Nets : BindFails(gen, n) => \E i \in 1..gen - 1 : lis[i][n] = "up"]_vars

\* A request whose handler saw the event loop active gets a worker, and the
\* worker ends, even when Stop comes in between or the group is at its limit.
AcceptedIsProcessed == \A r \in Reqs : req[r] = "send" ~> work[r] = "done"

\* The goroutine of an event loop that was replaced ends, so reloads do not
\* leave goroutines behind.
OldLoopsEnd == \A i \in Gens : gen > i ~> loop[i] = "ended"

\* "Load the block cache, restart the server with the new context": a reload
\* that has begun to stop the server gets to serve again.
ReloadCompletes == main # "serving" ~> main = "serving"

\* A DoH request that found the event loop inactive: nobody will answer it.
Dropped(r) == req[r] = "await" /\ work[r] = "none" /\ held[via[r].gen] # r

\* Nothing else than such a request can keep a reload from serving again: not
\* the limit on workers, not a handler that waits for the lock, the channel or
\* its answer, and not a listener that was never up.
OnlyDroppedHoldUp == main # "serving" ~> main = "serving" \/ \E r \in Reqs : Dropped(r)
=============================================================================
