--------------------------- MODULE ResolverProofs ---------------------------
(***************************************************************************)
(* Proofs about Lookup for any number of nameservers, with or without a    *)
(* DoH upstream: its errors are honest, the first answer wins, and it      *)
(* implements AbstractLookup.                                              *)
(***************************************************************************)
EXTENDS Resolver, TLAPS

\* The for loop has started the nameservers before "next" and no other.
Started == \A n \in NS : L[n] = "none" <=> n >= next

\* What a goroutine has found out so far.
Progress ==
  \A n \in NS :
    /\ rcode[n] = "pending" <=> L[n] \in {"none", "exchange"}
    /\ L[n] = "offer" => Usable(rcode[n])
    /\ L[n] \in {"leave", "exited"} /\ Usable(rcode[n]) => first # Empty

\* Until Lookup returns, the first answer offered stays in the channel.
Kept ==
  /\ pc # "done" => res = first
  /\ reply \in NS => reply = first
  /\ first \in NS => L[first] \in {"leave", "exited"} /\ Usable(rcode[first])

\* Where the caller is tells what happened before.
Control ==
  /\ reply = NoReply <=> pc # "done"
  /\ pc = "doh" => UseDoH /\ next = 1 /\ rcode[DoH] = "pending"
  /\ UseDoH /\ pc # "doh" /\ reply # DoH => rcode[DoH] = "error"
  /\ reply = DoH => UseDoH /\ DoHOk(rcode[DoH]) /\ rcode[DoH] # "pending"
  /\ pc \in {"wait", "final"} \/ reply = Failure => next = N + 1
  /\ pc = "final" \/ reply = Failure => Outstanding = {}
  /\ reply = Failure => first = Empty

Inv == TypeOK /\ Started /\ Progress /\ Kept /\ Control

LEMMA InitInv == Init => Inv
<1> SUFFICES ASSUME Init
             PROVE  Inv
    OBVIOUS
<1> USE NAssumption, RepliesAssumption, DoHAssumption DEF Init, NS, DoH, Empty
<1>1. TypeOK
  <2>1. tick \in BOOLEAN
    BY Zenon
  <2>2. QED
    BY <2>1 DEF TypeOK, Rcodes
<1>2. Started /\ Progress
  BY DEF Started, Progress
<1>3. Kept
  BY DEF Kept
<1>4. Control
  BY DEF Control, Outstanding
<1>5. QED
  BY <1>1, <1>2, <1>3, <1>4 DEF Inv

\* Every step of the caller, of a goroutine and of the ticker keeps Inv.
LEMMA StepInv == Inv /\ [Next]_vars => Inv'
<1> SUFFICES ASSUME Inv, [Next]_vars
             PROVE  Inv'
    OBVIOUS
<1> USE NAssumption, RepliesAssumption, DoHAssumption
    DEF Inv, TypeOK, NS, DoH, Empty
<1>1. ASSUME NEW c \in Rcodes, TryDoH(c)
      PROVE  Inv'
  BY <1>1 DEF TryDoH, Return, DoHOk, Usable, Started, Progress, Kept, Control,
     Outstanding, Rcodes
<1>2. CASE Start
  BY <1>2 DEF Start, Started, Progress, Kept, Control, Outstanding
<1>3. CASE EndLoop
  BY <1>3 DEF EndLoop, Started, Progress, Kept, Control, Outstanding
<1>4. CASE SelectAnswer
  BY <1>4 DEF SelectAnswer, Return, Started, Progress, Kept, Control, Outstanding
<1>5. CASE SelectTick
  BY <1>5 DEF SelectTick, Started, Progress, Kept, Control, Outstanding
<1>6. CASE WaitAll
  BY <1>6 DEF WaitAll, Started, Progress, Kept, Control, Outstanding
<1>7. CASE Final
  BY <1>7 DEF Final, Return, Started, Progress, Kept, Control, Outstanding
<1>8. ASSUME NEW n \in NS, NEW c \in Rcodes, Exchange(n, c)
      PROVE  Inv'
  BY <1>8 DEF Exchange, Usable, Started, Progress, Kept, Control, Outstanding, Rcodes
<1>9. ASSUME NEW n \in NS, Offer(n)
      PROVE  Inv'
  BY <1>9 DEF Offer, Started, Progress, Kept, Control, Outstanding
<1>10. ASSUME NEW n \in NS, Leave(n)
       PROVE  Inv'
  BY <1>10 DEF Leave, Started, Progress, Kept, Control, Outstanding
<1>11. CASE Tick
  BY <1>11 DEF Tick, Started, Progress, Kept, Control, Outstanding
<1>12. CASE UNCHANGED vars
  BY <1>12 DEF vars, Started, Progress, Kept, Control, Outstanding
<1>13. QED
  BY <1>1, <1>2, <1>3, <1>4, <1>5, <1>6, <1>7, <1>8, <1>9, <1>10, <1>11, <1>12
     DEF Next, Caller, Goroutine

\* Every reachable state of a lookup has the shape the code gives it.
THEOREM LookupTypeCorrect == Spec => []TypeOK
<1>1. Inv => TypeOK
  BY DEF Inv
<1>2. QED
  BY <1>1, InitInv, StepInv, PTL DEF Spec

\* Lookup returns an error only if every upstream failed.
THEOREM ErrorsAreHonest == Spec => []ErrorOnlyIfAllFailed
<1>1. Inv => ErrorOnlyIfAllFailed
  BY NAssumption, RepliesAssumption, DoHAssumption
     DEF Inv, TypeOK, Started, Progress, Kept, Control, ErrorOnlyIfAllFailed,
         Outstanding, Usable, NS, DoH, Empty, Rcodes
<1>2. QED
  BY <1>1, InitInv, StepInv, PTL DEF Spec

\* The answer Lookup returns is the first one a nameserver gave.
THEOREM FirstAnswerReturned == Spec => []FirstAnswerWins
<1>1. Inv => FirstAnswerWins
  BY DEF Inv, Kept, FirstAnswerWins
<1>2. QED
  BY <1>1, InitInv, StepInv, PTL DEF Spec

-----------------------------------------------------------------------------
(* Lookup implements AbstractLookup *)

LEMMA UpstreamFacts ==
  /\ NS \subseteq Upstreams
  /\ UseDoH => DoH \in Upstreams
  /\ \A u \in Upstreams : u \in NS \/ (UseDoH /\ u = DoH)
  /\ Upstreams \subseteq 0..N
BY NAssumption DEF Upstreams, NS, DoH

LEMMA InitPromise == Init => Promise!Init
BY UpstreamFacts DEF Init, Promise!Init, Verdict

\* Each step is a step of the promise or leaves what it speaks of alone.
LEMMA StepPromise == Inv /\ [Next]_vars => [Promise!Next]_(Promise!vars)
<1> SUFFICES ASSUME Inv, [Next]_vars
             PROVE  Promise!Next \/ (Verdict' = Verdict /\ reply' = reply)
    BY DEF Promise!vars
<1> USE NAssumption, RepliesAssumption, UpstreamFacts DEF NS, DoH, Empty
<1>1. ASSUME NEW c \in Rcodes, TryDoH(c)
      PROVE  Promise!Next
  <2>1. DoH \in Upstreams /\ Verdict[DoH] = "pending" /\ reply = NoReply
    BY <1>1 DEF TryDoH, Inv, TypeOK, Control, Verdict
  <2>2. Verdict' = [Verdict EXCEPT ![DoH] = IF DoHOk(c) THEN "usable" ELSE "failed"]
    BY <1>1 DEF TryDoH, Inv, TypeOK, Verdict, Answered, DoHOk, Rcodes
  <2>3. CASE DoHOk(c)
    BY <1>1, <2>1, <2>2, <2>3
       DEF TryDoH, Return, Promise!Next, Promise!SettleAndReply
  <2>4. CASE ~DoHOk(c)
    BY <1>1, <2>1, <2>2, <2>4 DEF TryDoH, Promise!Next, Promise!Settle
  <2>5. QED
    BY <2>3, <2>4
<1>2. ASSUME rcode' = rcode
      PROVE  Verdict' = Verdict
  BY <1>2 DEF Verdict, Answered
<1>3. CASE Start \/ EndLoop \/ SelectTick \/ WaitAll \/ Tick
  BY <1>2, <1>3 DEF Start, EndLoop, SelectTick, WaitAll, Tick
<1>4. ASSUME NEW n \in NS, Offer(n) \/ Leave(n)
      PROVE  Verdict' = Verdict /\ reply' = reply
  BY <1>2, <1>4 DEF Offer, Leave
<1>5. ASSUME rcode' = rcode, reply = NoReply, res # Empty, res = first, reply' = res
      PROVE  Promise!Next
  <2>1. res \in Upstreams /\ Verdict[res] = "usable"
    BY <1>5 DEF Inv, TypeOK, Kept, Progress, Verdict, Answered
  <2>2. QED
    BY <1>2, <1>5, <2>1 DEF Promise!Next, Promise!ReplyAnswer
<1>6. CASE SelectAnswer
  BY <1>5, <1>6 DEF SelectAnswer, Return, Inv, Kept, Control
<1>7. CASE Final
  <2>1. CASE res # Empty
    BY <1>5, <1>7, <2>1 DEF Final, Return, Inv, Kept, Control
  <2>2. CASE res = Empty
    <3>1. \A n \in NS : rcode[n] # "pending" /\ ~Usable(rcode[n])
      BY <1>7, <2>2 DEF Final, Inv, TypeOK, Started, Progress, Kept, Control,
         Outstanding
    <3>2. UseDoH => rcode[DoH] = "error"
      BY <1>7 DEF Final, Inv, Control
    <3>3. \A u \in Upstreams : Verdict[u] = "failed"
      BY <3>1, <3>2 DEF Verdict, Answered, DoHOk
    <3>4. reply = NoReply /\ reply' = Failure /\ rcode' = rcode
      BY <1>7, <2>2 DEF Final, Return, Inv, Control
    <3>5. QED
      BY <1>2, <3>3, <3>4 DEF Promise!Next, Promise!ReplyFailure
  <2>3. QED
    BY <2>1, <2>2
<1>8. ASSUME NEW n \in NS, NEW c \in Rcodes, Exchange(n, c)
      PROVE  Promise!Next
  <2>1. n \in Upstreams /\ n # DoH /\ Verdict[n] = "pending"
    BY <1>8 DEF Exchange, Inv, Progress, Verdict
  <2>2. Verdict' = [Verdict EXCEPT ![n] = IF Usable(c) THEN "usable" ELSE "failed"]
    <3>1. c # "pending"
      BY DEF Rcodes
    <3>2. rcode'[n] = c /\ \A u \in 0..N : u # n => rcode'[u] = rcode[u]
      BY <1>8 DEF Exchange, Inv, TypeOK
    <3>3. \A u \in Upstreams : u # n => Verdict'[u] = Verdict[u]
      BY <3>2 DEF Verdict, Answered
    <3>4. Verdict'[n] = IF Usable(c) THEN "usable" ELSE "failed"
      BY <2>1, <3>1, <3>2 DEF Verdict, Answered
    <3>5. QED
      BY <3>3, <3>4 DEF Verdict
  <2>3. QED
    BY <1>8, <2>1, <2>2 DEF Exchange, Promise!Next, Promise!Settle
<1>9. CASE UNCHANGED vars
  BY <1>2, <1>9 DEF vars
<1>10. QED
  BY <1>1, <1>3, <1>4, <1>6, <1>7, <1>8, <1>9 DEF Next, Caller, Goroutine

\* Lookup implements the promise it makes to the request handlers.
THEOREM LookupKeepsPromise == Spec => KeepsPromise
<1>1. Inv /\ [Next]_vars => Inv'
  BY StepInv
<1>2. QED
  BY <1>1, InitInv, InitPromise, StepPromise, PTL
     DEF Spec, KeepsPromise, Promise!Spec
=============================================================================
