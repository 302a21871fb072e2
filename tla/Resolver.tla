------------------------------ MODULE Resolver ------------------------------
(***************************************************************************)
(* Resolver.Lookup and DoHLookup (resolver.go): one call that first tries  *)
(* the DoH upstream, if one is configured, then starts a goroutine per     *)
(* nameserver, top to bottom, one per tick of a ticker, and returns the    *)
(* first answer that reaches the one-place channel "res".  The goroutines  *)
(* outlive the call.  An answer is named by its nameserver; of its content *)
(* only the Rcode matters here.                                            *)
(***************************************************************************)
EXTENDS Integers

CONSTANTS
  N,        \* number of nameservers configured
  UseDoH,   \* is an upstream DoH server configured
  NoReply, Failure

ASSUME NAssumption == N \in Nat
ASSUME DoHAssumption == UseDoH \in BOOLEAN

NS == 1..N
DoH == 0     \* the DoH upstream, beside the nameservers
Empty == 0   \* the channel res holds no answer
Upstreams == IF UseDoH THEN {DoH} \cup NS ELSE NS

ASSUME RepliesAssumption ==
  NoReply \notin 0..N /\ Failure \notin 0..N /\ NoReply # Failure

VARIABLES
  pc,       \* where the caller is in Lookup
  next,     \* the nameserver the for loop starts next
  L,        \* nameserver -> where its goroutine is
  rcode,    \* upstream -> result of the exchange with it
  res,      \* the answer in the channel res, which has room for one
  tick,     \* is a tick waiting in ticker.C
  reply,    \* what Lookup returned
  first     \* history: the first answer offered to res

vars == <<pc, next, L, rcode, res, tick, reply, first>>

\* Results of c.Exchange: a socket error or timeout, or a reply's Rcode.
Rcodes == {"error", "servfail", "noerror", "nxdomain"}

\* DoHLookup errs on any transport, status, type or unpacking failure; any
\* message it could unpack is an answer, whatever its Rcode.
DoHOk(c) == c # "error"

\* L drops socket errors and SERVFAIL; other failures count as answers.
Usable(c) == c \notin {"error", "servfail"}

Init ==
  /\ pc = IF UseDoH THEN "doh" ELSE "loop"
  /\ next = 1
  /\ L = [n \in NS |-> "none"]
  /\ rcode = [u \in 0..N |-> "pending"]
  /\ res = Empty
  /\ tick = FALSE
  /\ reply = NoReply
  /\ first = Empty

-----------------------------------------------------------------------------
(* The caller *)

Return(r) ==
  /\ pc' = "done"
  /\ reply' = r

\* The DoH upstream comes first; on an error fall back to the nameservers.
TryDoH(c) ==
  /\ pc = "doh"
  /\ rcode' = [rcode EXCEPT ![DoH] = c]
  /\ IF DoHOk(c) THEN Return(DoH)
                 ELSE pc' = "loop" /\ UNCHANGED reply
  /\ UNCHANGED <<next, L, res, tick, first>>

\* A slip of Start: the loop runs past the last nameserver.
StartPastEnd ==
  /\ pc = "loop" /\ next <= N + 1
  /\ L' = [L EXCEPT ![next] = "exchange"]
  /\ next' = next + 1
  /\ pc' = "select"
  /\ UNCHANGED <<rcode, res, tick, reply, first>>

\* One turn of the for loop: wg.Add(1) and go L(nameServer).
Start ==
  /\ pc = "loop" /\ next <= N
  /\ L' = [L EXCEPT ![next] = "exchange"]
  /\ next' = next + 1
  /\ pc' = "select"
  /\ UNCHANGED <<rcode, res, tick, reply, first>>

EndLoop ==
  /\ pc = "loop" /\ next > N
  /\ pc' = "wait"
  /\ UNCHANGED <<next, L, rcode, res, tick, reply, first>>

\* The two cases of the select in the loop; either may win if both are ready.
SelectAnswer ==
  /\ pc = "select" /\ res # Empty
  /\ Return(res)
  /\ res' = Empty
  /\ UNCHANGED <<next, L, rcode, tick, first>>

SelectTick ==
  /\ pc = "select" /\ tick
  /\ tick' = FALSE
  /\ pc' = "loop"
  /\ UNCHANGED <<next, L, rcode, res, reply, first>>

\* wg counts the goroutines that have not executed wg.Done().
Outstanding == {n \in NS : L[n] \in {"exchange", "offer", "leave"}}

\* A slip of WaitAll: no wg.Wait() before the last look at res.
WaitNone ==
  /\ pc = "wait"
  /\ pc' = "final"
  /\ UNCHANGED <<next, L, rcode, res, tick, reply, first>>

WaitAll ==
  /\ pc = "wait" /\ Outstanding = {}
  /\ pc' = "final"
  /\ UNCHANGED <<next, L, rcode, res, tick, reply, first>>

\* The select after wg.Wait(): an answer, or ResolvError.
Final ==
  /\ pc = "final"
  /\ IF res # Empty THEN Return(res) /\ res' = Empty
                   ELSE Return(Failure) /\ UNCHANGED res
  /\ UNCHANGED <<next, L, rcode, tick, first>>

-----------------------------------------------------------------------------
(* The goroutine of nameserver n, and the ticker *)

\* c.Exchange ends with a result or its timeout.
Exchange(n, c) ==
  /\ L[n] = "exchange"
  /\ rcode' = [rcode EXCEPT ![n] = c]
  /\ L' = [L EXCEPT ![n] = IF Usable(c) THEN "offer" ELSE "leave"]
  /\ UNCHANGED <<pc, next, res, tick, reply, first>>

\* A slip of Offer: "res" made without a buffer, so that an answer is dropped
\* unless the caller is in its select.
OfferUnbuffered(n) ==
  /\ L[n] = "offer"
  /\ IF pc = "select" THEN Return(n) ELSE UNCHANGED <<pc, reply>>
  /\ first' = IF first = Empty THEN n ELSE first
  /\ L' = [L EXCEPT ![n] = "leave"]
  /\ UNCHANGED <<next, rcode, res, tick>>

\* A slip of Offer: a blocking send, the default case of the select missing.
OfferBlocking(n) ==
  /\ L[n] = "offer" /\ res = Empty
  /\ res' = n
  /\ first' = IF first = Empty THEN n ELSE first
  /\ L' = [L EXCEPT ![n] = "leave"]
  /\ UNCHANGED <<pc, next, rcode, tick, reply>>

\* A slip of Offer: a later answer takes the place of the one in the buffer.
OfferReplacing(n) ==
  /\ L[n] = "offer"
  /\ res' = n
  /\ first' = IF first = Empty THEN n ELSE first
  /\ L' = [L EXCEPT ![n] = "leave"]
  /\ UNCHANGED <<pc, next, rcode, tick, reply>>

\* The non-blocking send: a full buffer drops the answer.
Offer(n) ==
  /\ L[n] = "offer"
  /\ res' = IF res = Empty THEN n ELSE res
  /\ first' = IF first = Empty THEN n ELSE first
  /\ L' = [L EXCEPT ![n] = "leave"]
  /\ UNCHANGED <<pc, next, rcode, tick, reply>>

\* The deferred wg.Done().
Leave(n) ==
  /\ L[n] = "leave"
  /\ L' = [L EXCEPT ![n] = "exited"]
  /\ UNCHANGED <<pc, next, rcode, res, tick, reply, first>>

\* ticker.C has one place and drops ticks nobody took; the deferred Stop ends it.
Tick ==
  /\ pc \notin {"doh", "done"} /\ ~tick
  /\ tick' = TRUE
  /\ UNCHANGED <<pc, next, L, rcode, res, reply, first>>

-----------------------------------------------------------------------------

Caller == \/ \E c \in Rcodes : TryDoH(c)
          \/ Start \/ EndLoop \/ SelectAnswer \/ SelectTick \/ WaitAll \/ Final

Goroutine(n) == (\E c \in Rcodes : Exchange(n, c)) \/ Offer(n) \/ Leave(n)

Next == Caller \/ Tick \/ \E n \in NS : Goroutine(n)

Spec == Init /\ [][Next]_vars

\* The scheduler runs every goroutine that can run, exchanges and the DoH
\* request end at the latest with their timeouts, and the ticker goes on.
Fairness == WF_vars(Caller) /\ WF_vars(Tick) /\ \A n \in NS : WF_vars(Goroutine(n))

FairSpec == Spec /\ Fairness

-----------------------------------------------------------------------------
(* Properties *)

\* Every variable has the shape the code gives it.
TypeOK ==
  /\ pc \in {"doh", "loop", "select", "wait", "final", "done"}
  /\ next \in 1..(N + 1)
  /\ L \in [NS -> {"none", "exchange", "offer", "leave", "exited"}]
  /\ rcode \in [0..N -> Rcodes \cup {"pending"}]
  /\ res \in NS \cup {Empty}
  /\ tick \in BOOLEAN
  /\ reply \in 0..N \cup {NoReply, Failure}
  /\ first \in NS \cup {Empty}

\* "It returns an error if no request has succeeded" and in no other case: an
\* answer that any upstream gave before Lookup failed is never lost between
\* the early exit, the full buffer and wg.Wait().
ErrorOnlyIfAllFailed ==
  reply = Failure =>
    /\ \A n \in NS : rcode[n] \in {"error", "servfail"}
    /\ UseDoH => rcode[DoH] = "error"

\* Lookup returns the answer that came first: neither the select, nor a later
\* nameserver, nor the last look at res lets another one overtake it.
FirstAnswerWins == reply \in NS => reply = first

\* Lookup returns, and all the goroutines it started end, those still waiting
\* for a nameserver when it returned included.
AllEnd == <>[](pc = "done" /\ Outstanding = {})

Answered(u) == IF u = DoH THEN DoHOk(rcode[u]) ELSE Usable(rcode[u])

Verdict ==
  [u \in Upstreams |-> IF rcode[u] = "pending" THEN "pending"
                       ELSE IF Answered(u) THEN "usable" ELSE "failed"]

Promise == INSTANCE AbstractLookup WITH verdict <- Verdict

\* Lookup keeps its promise to the caller: each of its steps is a step of
\* AbstractLookup or changes nothing the caller can tell.
KeepsPromise == Promise!Spec
=============================================================================
