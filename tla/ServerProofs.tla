---------------------------- MODULE ServerProofs ----------------------------
(***************************************************************************)
(* No reload makes a handler send on a closed channel, and none finds a    *)
(* port that an earlier Stop was still to give back, for any number of     *)
(* requests and reloads.                                                   *)
(***************************************************************************)
EXTENDS Server, TLAPS

\* A request that has begun belongs to an incarnation, and a reload under way
\* has one to come.
Placed ==
  /\ \A r \in Reqs : req[r] # "new" => via[r].gen \in Gens
  /\ main # "serving" => gen < MaxGen

\* A channel is open while its loop is active and before its loop exists.
OpenWhileActive ==
  \A i \in Gens : (closed[i] => i <= gen) /\ (active[i] => ~closed[i])

\* A handler at its send holds the read lock, under which it saw "active".
SendsActive == \A r \in Reqs : req[r] = "send" => active[via[r].gen]

\* Only the listener that Stop is waiting for is between listening and down, and
\* incarnations to come have no listeners.
OneCloses ==
  \A i \in Gens, n \in Nets :
    /\ lis[i][n] = "closing" => i = gen /\ main = "join" /\ n = Stopping
    /\ i > gen => lis[i][n] = "off"

Inv == TypeOK /\ Placed /\ OpenWhileActive /\ SendsActive /\ OneCloses

LEMMA InitInv == Init => Inv
BY BoundsAssumption
   DEF Init, Inv, TypeOK, Placed, OpenWhileActive, SendsActive, OneCloses, Gens,
       Nets, NoVia

LEMMA StepInv == Inv /\ [Next]_vars => Inv'
<1> SUFFICES ASSUME Inv, [Next]_vars
             PROVE  Inv'
    OBVIOUS
<1> USE BoundsAssumption DEF Inv, Gens, mainVars, loopVars, reqVars
<1>1. ASSUME NEW i \in Gens, NEW n \in Nets, Bind(i, n)
      PROVE  Inv'
  BY <1>1 DEF Bind, Stopping, TypeOK, Placed, OpenWhileActive, SendsActive, OneCloses
<1>2. ASSUME NEW r \in Reqs, NEW i \in Gens, NEW n \in Nets, Arrive(r, i, n)
      PROVE  Inv'
  BY <1>2 DEF Arrive, Stopping, TypeOK, Placed, OpenWhileActive, SendsActive, OneCloses
<1>2a. ASSUME NEW r \in Reqs, NEW i \in Gens, NEW n \in Nets, Reject(r, i, n)
      PROVE  Inv'
  BY <1>2a DEF Reject, Stopping, TypeOK, Placed, OpenWhileActive, SendsActive, OneCloses
<1>3. ASSUME NEW r \in Reqs, Enter(r)
      PROVE  Inv'
  BY <1>3 DEF Enter, Stopping, TypeOK, Placed, OpenWhileActive, SendsActive, OneCloses
<1>4. ASSUME NEW r \in Reqs, Send(r)
      PROVE  Inv'
  BY <1>4 DEF Send, Stopping, TypeOK, Placed, OpenWhileActive, SendsActive, OneCloses
<1>5. ASSUME NEW r \in Reqs, Unlock(r)
      PROVE  Inv'
  BY <1>5 DEF Unlock, Stopping, TypeOK, Placed, OpenWhileActive, SendsActive, OneCloses
<1>6. ASSUME NEW r \in Reqs, Completed(r)
      PROVE  Inv'
  BY <1>6 DEF Completed, Stopping, TypeOK, Placed, OpenWhileActive, SendsActive, OneCloses
<1>7. ASSUME NEW r \in Reqs, Finish(r)
      PROVE  Inv'
  BY <1>7 DEF Finish, Stopping, TypeOK, Placed, OpenWhileActive, SendsActive, OneCloses
<1>8. ASSUME NEW i \in Gens, Go(i)
      PROVE  Inv'
  BY <1>8 DEF Go, Stopping, TypeOK, Placed, OpenWhileActive, SendsActive, OneCloses
<1>9. ASSUME NEW i \in Gens, EndLoop(i)
      PROVE  Inv'
  BY <1>9 DEF EndLoop, Stopping, TypeOK, Placed, OpenWhileActive, SendsActive, OneCloses
<1>10. CASE StopLock
  BY <1>10 DEF StopLock, Stopping, TypeOK, Placed, OpenWhileActive, SendsActive, OneCloses
<1>11. CASE StopClose
  BY <1>11 DEF StopClose, Stopping, Readers, TypeOK, Placed, OpenWhileActive,
     SendsActive, OneCloses
<1>12. CASE Shutdown
  BY <1>12 DEF Shutdown, Stopping, StopOrder, TypeOK, Placed, OpenWhileActive,
     SendsActive, OneCloses, Nets
<1>13. CASE ShutdownIdle
  BY <1>13 DEF ShutdownIdle, NextStage, Stopping, StopOrder, TypeOK, Placed,
     OpenWhileActive, SendsActive, OneCloses, Nets
<1>14. CASE Join
  BY <1>14 DEF Join, NextStage, Stopping, StopOrder, TypeOK, Placed,
     OpenWhileActive, SendsActive, OneCloses, Nets
<1>15. CASE Run
  BY <1>15 DEF Run, Stopping, TypeOK, Placed, OpenWhileActive, SendsActive, OneCloses
<1>16. CASE UNCHANGED vars
  BY <1>16 DEF vars, Stopping, TypeOK, Placed, OpenWhileActive, SendsActive, OneCloses
<1>17. QED
  BY <1>1, <1>2, <1>2a, <1>3, <1>4, <1>5, <1>6, <1>7, <1>8, <1>9, <1>10, <1>11, <1>12,
     <1>13, <1>14, <1>15, <1>16 DEF Next, Main, Handler, Loop

\* The model's variables keep the shape the code gives them.
THEOREM ServerTypeCorrect == Spec => []TypeOK
<1>1. Inv => TypeOK
  BY DEF Inv
<1>2. QED
  BY <1>1, InitInv, StepInv, PTL DEF Spec

\* A handler never sends on a closed requestChannel, which would panic.
THEOREM SendsAreSafe == Spec => []NoSendOnClosed
<1>1. Inv => NoSendOnClosed
  BY DEF Inv, TypeOK, Placed, OpenWhileActive, SendsActive, NoSendOnClosed
<1>2. QED
  BY <1>1, InitInv, StepInv, PTL DEF Spec

-----------------------------------------------------------------------------

\* What the listeners and main's steps other than a Bind can do to lis.
LEMMA OnlyBindFails ==
  ASSUME Inv, Next, NEW n \in Nets, BindFails(gen, n)
  PROVE  Bind(gen, n) /\ PortTaken(n)
<1>1. \A i \in Gens, m \in Nets : Bind(i, m) => i = gen /\ m = n /\ PortTaken(n)
  BY DEF Bind, BindFails, Inv, TypeOK
<1>2. \A i \in Gens : ~Loop(i)
  BY DEF Loop, Go, EndLoop, BindFails
<1>3. \A r \in Reqs : ~Handler(r) /\ ~Finish(r)
  BY DEF Handler, Enter, Send, Unlock, Completed, Finish, BindFails
<1>4. \A r \in Reqs, i \in Gens, m \in Nets : ~Arrive(r, i, m) /\ ~Reject(r, i, m)
  BY DEF Arrive, Reject, BindFails
<1>5. ~StopLock /\ ~StopClose
  BY DEF StopLock, StopClose, BindFails
<1>6. ~Shutdown /\ ~ShutdownIdle /\ ~Join
  BY DEF Shutdown, ShutdownIdle, Join, BindFails, Inv, TypeOK
<1>7. ~Run
  BY BoundsAssumption DEF Run, BindFails, Inv, TypeOK, Placed, Gens, mainVars, reqVars
<1>8. QED
  BY <1>1, <1>2, <1>3, <1>4, <1>5, <1>6, <1>7 DEF Next, Main

\* Stop has given every port back when Run takes it: only a listener that began
\* after its own Shutdown can be in the way of a later one.
THEOREM StopFreesPorts == Spec => PortsAreFreed
<1>1. ASSUME Inv, [Next]_vars
      PROVE  [\A n \in Nets : BindFails(gen, n) => \E i \in 1..gen - 1 : lis[i][n] = "up"]_vars
  <2> SUFFICES ASSUME Next, NEW n \in Nets, BindFails(gen, n)
               PROVE  \E i \in 1..gen - 1 : lis[i][n] = "up"
      BY <1>1
  <2>1. Bind(gen, n) /\ PortTaken(n)
    BY <1>1, OnlyBindFails
  <2>2. PICK i \in Gens : Holds(lis[i][n], n)
    BY <2>1 DEF PortTaken
  <2>3. lis[i][n] = "up"
    BY <1>1, <2>1, <2>2 DEF Bind, Holds, Inv, OneCloses
  <2>4. i < gen
    BY <1>1, <2>1, <2>3 DEF Bind, Inv, TypeOK, OneCloses, Gens
  <2>5. QED
    BY <1>1, <2>3, <2>4 DEF Gens, Inv, TypeOK
<1>2. QED
  BY <1>1, InitInv, StepInv, PTL DEF Spec, PortsAreFreed
=============================================================================
