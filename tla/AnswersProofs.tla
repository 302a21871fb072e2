--------------------------- MODULE AnswersProofs ---------------------------
(***************************************************************************)
(* Replies are as complete as the depth allows, whatever half-extended     *)
(* responses the fillers put into the cache, for any requests, names,      *)
(* blocklist, depth and upstream that answers the same each time.          *)
(*                                                                         *)
(* It takes a condition on the answers, Chained: canFollow goes no further *)
(* once there is an address, so that an entry cached in the middle of a    *)
(* round is complete only if nothing but that address was to come.         *)
(***************************************************************************)
EXTENDS HandlerProofs, WellFoundedInduction

\* What is answered for each name, before any following.
Zone == [n \in Names |-> Direct(n)]

HasAddress(S) == \E rr \in S : rr.type = "A"

\* The targets in an answer of which it does not have the answers.
Open(z, S) == {t \in Targets(S) : ~(z[t] \subseteq S)}

\* An answer that is a chain of aliases: it lacks the answers of one target at
\* most, and of none if it has an address.
Chain(z, S) ==
  /\ \A t, u \in Open(z, S) : t = u
  /\ HasAddress(S) => Open(z, S) = {}

\* Nothing changes upstream, lookups succeed, and there is one config.
Steady ==
  /\ Len(Custom) = 1
  /\ \A n \in Names : \E m \in Msgs : Upstream[[name |-> n, type |-> "A"]] = {m}

\* What is answered for a name is a chain.
Chained == \A n \in Names : Chain(Zone, Zone[n])

\* An answer for n, followed any way: it has what is answered for n, all of its
\* records are answers for n or for targets in it, and those are reached from n.
Coherent(z, n, S) ==
  /\ S \subseteq RRs /\ z[n] \subseteq S
  /\ Chain(z, S)
  /\ \A rr \in S : \E m \in {n} \cup Targets(S) : rr \in z[m]
  /\ \A X \in SUBSET Names :
       n \in X /\ (\A m \in X : z[m] \subseteq S => Targets(z[m]) \subseteq X)
         => Targets(S) \subseteq X

\* FollowedOnce, and Rounds, for the answers z.
Step(z, n, S) ==
  IF canFollow([name |-> n, type |-> "A"], S)
    THEN S \cup UNION {z[m] : m \in Targets(S)}
    ELSE S

IsRounds(z, n, R) ==
  /\ R[0] = z[n]
  /\ \A d \in 1..FollowCnameDepth : R[d] = Step(z, n, R[d - 1])

\* How far a request is, at p, with the answer S, in round d, on c, and with the
\* targets T to go: S has what the rounds before brought, and the targets of those
\* are to go, in work, or done.
Progress(z, R, p, c, S, d, T) ==
  /\ p = "round" => R[d] \subseteq S
  /\ d > 0 /\ p \notin {"round", "done"} =>
       /\ R[d - 1] \subseteq S
       /\ \A t \in Targets(R[d - 1]) :
            t \in T \/ (p \in WorkStages /\ t = c.name) \/ z[t] \subseteq S
  /\ p = "done" => R[FollowCnameDepth] \subseteq S

\* What is true of a request for x.
Fits(z, p, x, c, S, d, T) ==
  /\ p = "idle" => d = 0
  /\ p = "next" => d > 0
  /\ d = 0 => T = {}
  /\ p \in WorkStages => c.type = x.type /\ (d = 0 => c = x)
  /\ IPQuery(x) =>
       /\ d > 0 \/ p \in {"round", "done"} => Coherent(z, x.name, S) /\ T \subseteq Targets(S)
       /\ d > 0 /\ p \in WorkStages => c.name \in Targets(S)
       /\ \A R : IsRounds(z, x.name, R) => Progress(z, R, p, c, S, d, T)

RequestsFit ==
  \A r \in Reqs : Fits(Zone, pc[r], q[r], cur[r], resp[r].answer, depth[r], todo[r])

\* r has a response for a filler to take.
Answering(r) == depth[r] > 0 \/ pc[r] \in {"round", "done"}

\* What is in the cache, or will be, are answers followed some way.
CacheCoherent ==
  /\ \A k \in DOMAIN cache : Coherent(Zone, k, cache[k].answer)
  /\ \A f \in fillers :
       \/ f.of = {} /\ Coherent(Zone, f.key, f.msg.answer)
       \/ \E r \in Reqs : f.of = {r} /\ Answering(r) /\ IPQuery(q[r]) /\ q[r].name = f.key
  /\ \A x \in negCache : ~IPQuery(x)

\* Past custom records and blocklist, what the upstream says is the answer.
LookedUp ==
  \A r \in Reqs : pc[r] \in {"cache", "negcache", "lookup", "retry"} /\ IPQuery(cur[r]) =>
    \A m \in Upstream[cur[r]] : m.answer = Zone[cur[r].name]

AnswerInv == Chained /\ RequestsFit /\ LookedUp /\ CacheCoherent
-----------------------------------------------------------------------------
(* Induction *)

LEMMA LeastNumber ==
  ASSUME NEW S \in SUBSET Nat, S # {}
  PROVE  \E n \in S : \A m \in S : n <= m
<1>1. PICK n \in S : \A m \in S : ~(<<m, n>> \in OpToRel(<, Nat))
  BY NatLessThanWellFounded, WFMin
<1>2. \A m \in S : ~(m < n)
  BY <1>1 DEF OpToRel
<1>3. QED
  BY <1>2

LEMMA SetInduction ==
  ASSUME NEW n \in Nat, NEW S, 0 \in S, \A i \in 1..n : i - 1 \in S => i \in S
  PROVE  0..n \subseteq S
<1> SUFFICES ASSUME (0..n) \ S # {}
             PROVE  FALSE
  OBVIOUS
<1>1. PICK i \in (0..n) \ S : \A j \in (0..n) \ S : i <= j
  <2>1. (0..n) \ S \in SUBSET Nat
    OBVIOUS
  <2>2. QED
    BY <2>1, LeastNumber
<1>2. i \in 1..n /\ i - 1 \in 0..n /\ i - 1 < i
  BY <1>1
<1>3. i - 1 \in S
  BY <1>1, <1>2
<1>4. QED
  BY <1>1, <1>2, <1>3
-----------------------------------------------------------------------------
(* Answers *)

LEMMA TargetsAreNames ==
  ASSUME NEW S \in SUBSET RRs
  PROVE  Targets(S) \subseteq Names
BY DEF Targets, Cnames, RRs

\* What is answered for a name is coherent by itself.
LEMMA DirectCoherent ==
  ASSUME NEW z, NEW n \in Names, z[n] \subseteq RRs, Chain(z, z[n])
  PROVE  Coherent(z, n, z[n])
BY DEF Coherent

\* Following a target, with any coherent answer for it, keeps an answer coherent.
LEMMA CoherentUnion ==
  ASSUME NEW z, NEW n \in Names, NEW S, Coherent(z, n, S),
         NEW t \in Targets(S), NEW T, Coherent(z, t, T)
  PROVE  Coherent(z, n, S \cup T)
<1> DEFINE U == S \cup T
<1>1. /\ S \subseteq RRs /\ z[n] \subseteq S /\ T \subseteq RRs /\ z[t] \subseteq T
      /\ Chain(z, S) /\ Chain(z, T)
  BY DEF Coherent
<1>2. Targets(U) = Targets(S) \cup Targets(T)
  BY TargetsOfUnion
<1>3. Targets(S) \subseteq Names /\ Targets(T) \subseteq Names
  BY <1>1, TargetsAreNames
<1> HIDE DEF U
<1>4. S \subseteq U /\ T \subseteq U /\ U \subseteq RRs /\ \A rr \in U : rr \in S \/ rr \in T
  BY <1>1 DEF U
<1>5. \A rr \in U : \E m \in {n} \cup Targets(U) : rr \in z[m]
  <2>1. \A rr \in S : \E m \in {n} \cup Targets(S) : rr \in z[m]
    BY DEF Coherent
  <2>2. \A rr \in T : \E m \in {t} \cup Targets(T) : rr \in z[m]
    BY DEF Coherent
  <2>3. QED
    BY <1>2, <1>4, <2>1, <2>2
<1>6. ASSUME NEW X \in SUBSET Names, n \in X,
             \A m \in X : z[m] \subseteq U => Targets(z[m]) \subseteq X
      PROVE  Targets(U) \subseteq X
  <2>1. Targets(S) \subseteq X
    <3>1. \A m \in X : z[m] \subseteq S => Targets(z[m]) \subseteq X
      BY <1>4, <1>6
    <3>2. QED
      BY <1>6, <3>1 DEF Coherent
  <2>2. Targets(T) \subseteq X
    <3>1. \A m \in X : z[m] \subseteq T => Targets(z[m]) \subseteq X
      BY <1>4, <1>6
    <3>2. t \in X
      BY <2>1
    <3>3. QED
      BY <1>6, <3>1, <3>2 DEF Coherent
  <2>3. QED
    BY <1>2, <2>1, <2>2
<1>7. /\ \A u \in Open(z, U) : u \in Open(z, S) \/ u \in Open(z, T)
      /\ \A u \in Targets(S) : u \notin Open(z, S) => z[u] \subseteq S
      /\ \A u \in Open(z, U) : ~(z[u] \subseteq U)
  BY <1>2, <1>4 DEF Open
<1>8. HasAddress(U) => HasAddress(S) \/ HasAddress(T)
  BY <1>4 DEF HasAddress
<1>9. ASSUME \A u \in Open(z, S) : z[u] \subseteq U /\ ~HasAddress(S)
      PROVE  Open(z, S) # {} => Chain(z, U)
  <2>1. Open(z, U) \subseteq Open(z, T)
    BY <1>7, <1>9
  <2>2. QED
    BY <1>1, <1>8, <1>9, <2>1 DEF Chain
<1>10. ASSUME \A m \in Targets(S) : z[m] \subseteq T => m \notin Open(z, S)
       PROVE  Targets(T) \subseteq Targets(S)
  <2>1. ASSUME NEW m \in Targets(S), z[m] \subseteq T
        PROVE  Targets(z[m]) \subseteq Targets(S)
    <3>1. z[m] \subseteq S
      BY <1>7, <1>10, <2>1
    <3>2. QED
      BY <3>1, TargetsMonotone
  <2>2. QED
    BY <1>3, <2>1 DEF Coherent
<1>11. Chain(z, U)
  <2>1. CASE Open(z, S) = {}
    <3>1. Targets(T) \subseteq Targets(S)
      BY <1>10, <2>1
    <3>2. Open(z, U) = {}
      BY <1>2, <1>4, <1>7, <2>1, <3>1 DEF Open
    <3>3. QED
      BY <3>2 DEF Chain
  <2>2. CASE Open(z, S) # {}
    <3>1. PICK o \in Open(z, S) : \A u \in Open(z, S) : u = o
      BY <1>1, <2>2 DEF Chain
    <3>2. ~HasAddress(S)
      BY <1>1, <2>2 DEF Chain
    <3>3. CASE z[o] \subseteq U
      BY <1>9, <2>2, <3>1, <3>2, <3>3
    <3>4. CASE ~(z[o] \subseteq U)
      <4>1. ~(z[o] \subseteq T) /\ o # t
        BY <1>1, <1>4, <3>4
      <4>2. Targets(T) \subseteq Targets(S)
        BY <1>10, <3>1, <4>1
      <4>3. \A u \in Open(z, U) : u = o
        BY <1>2, <1>4, <1>7, <3>1, <4>2 DEF Open
      <4>4. ~HasAddress(T)
        <5> SUFFICES ASSUME NEW rr \in T, rr.type = "A"
                     PROVE  FALSE
          BY DEF HasAddress
        <5>1. PICK m \in {t} \cup Targets(T) : rr \in z[m]
          BY DEF Coherent
        <5>2. m \in Targets(S)
          BY <4>2
        <5>3. Open(z, T) = {}
          BY <1>1 DEF Chain, HasAddress
        <5>4. m # o
          BY <4>1, <5>3 DEF Open
        <5>5. z[m] \subseteq S
          BY <1>7, <3>1, <5>2, <5>4
        <5>6. QED
          BY <3>2, <5>1, <5>5 DEF HasAddress
      <4>5. QED
        BY <1>8, <3>2, <4>3, <4>4 DEF Chain
    <3>5. QED
      BY <3>3, <3>4
  <2>3. QED
    BY <2>1, <2>2
<1>12. z[n] \subseteq U
  BY <1>1, <1>4
<1>13. Coherent(z, n, U)
  BY <1>4, <1>5, <1>6, <1>11, <1>12 DEF Coherent
<1>14. QED
  BY <1>13 DEF U

\* An answer that lacks nothing has all that following would ever bring.
LEMMA ClosedBound ==
  ASSUME NEW z, NEW n, NEW R, IsRounds(z, n, R), NEW S, z[n] \subseteq S, Open(z, S) = {}
  PROVE  R[FollowCnameDepth] \subseteq S
<1> DEFINE I == {d \in 0..FollowCnameDepth : R[d] \subseteq S}
<1>0. FollowCnameDepth \in Nat
  BY DepthAssumption
<1>1. 0 \in I
  BY <1>0 DEF IsRounds
<1>2. ASSUME NEW d \in 1..FollowCnameDepth, d - 1 \in I
      PROVE  d \in I
  <2>1. R[d] = Step(z, n, R[d - 1]) /\ R[d - 1] \subseteq S
    BY <1>2 DEF IsRounds
  <2>2. \A t \in Targets(R[d - 1]) : z[t] \subseteq S
    BY <2>1, TargetsMonotone DEF Open
  <2>3. R[d] \subseteq S
    BY <2>1, <2>2 DEF Step
  <2>4. QED
    BY <1>0, <2>3
<1> HIDE DEF I
<1>3. 0..FollowCnameDepth \subseteq I
  BY <1>0, <1>1, <1>2, SetInduction
<1>4. FollowCnameDepth \in I
  BY <1>0, <1>3
<1>5. QED
  BY <1>4 DEF I
-----------------------------------------------------------------------------
(* One request *)

LEMMA FitsBegin ==
  ASSUME NEW z, NEW x, NEW S
  PROVE  Fits(z, "local", x, x, S, 0, {})
BY DEF Fits, Progress, WorkStages

LEMMA FitsIdle ==
  ASSUME NEW z, NEW S
  PROVE  Fits(z, "idle", NoQuestion, NoQuestion, S, 0, {})
BY DEF Fits, WorkStages, NoQuestion, IPQuery

\* responseFor goes on.
LEMMA FitsMove ==
  ASSUME NEW z, NEW p \in WorkStages, NEW l \in WorkStages, NEW x, NEW c, NEW S, NEW d, NEW T,
         Fits(z, p, x, c, S, d, T)
  PROVE  Fits(z, l, x, c, S, d, T)
BY DEF Fits, Progress, WorkStages

\* It has the answer for the client's question.
LEMMA FitsFirst ==
  ASSUME NEW z, NEW p \in WorkStages, NEW x, NEW c, NEW S, NEW T,
         Fits(z, p, x, c, S, 0, T), NEW A, IPQuery(x) => Coherent(z, c.name, A)
  PROVE  Fits(z, "round", x, c, A, 0, T)
<1>1. T = {} /\ c = x
  BY DEF Fits
<1>2. ASSUME IPQuery(x)
      PROVE  /\ Coherent(z, x.name, A) /\ T \subseteq Targets(A)
             /\ \A R : IsRounds(z, x.name, R) => R[0] \subseteq A
  BY <1>1, <1>2 DEF Coherent, IsRounds
<1>3. QED
  BY <1>1, <1>2 DEF Fits, Progress, WorkStages

\* It has an answer for a target.
LEMMA FitsFollowed ==
  ASSUME NEW z, NEW p \in WorkStages, NEW x, x.name \in Names, NEW c, NEW S,
         NEW d \in Nat \ {0}, NEW T,
         Fits(z, p, x, c, S, d, T), NEW A, IPQuery(x) => Coherent(z, c.name, A)
  PROVE  Fits(z, "next", x, c, S \cup A, d, T)
<1>1. ASSUME IPQuery(x)
      PROVE  /\ Coherent(z, x.name, S \cup A) /\ T \subseteq Targets(S \cup A)
             /\ \A R : IsRounds(z, x.name, R) => Progress(z, R, "next", c, S \cup A, d, T)
  <2>1. /\ Coherent(z, x.name, S) /\ T \subseteq Targets(S) /\ c.name \in Targets(S)
        /\ \A R : IsRounds(z, x.name, R) => Progress(z, R, p, c, S, d, T)
    BY <1>1 DEF Fits
  <2>2. Coherent(z, c.name, A) /\ z[c.name] \subseteq A
    BY <1>1 DEF Coherent
  <2>3. Coherent(z, x.name, S \cup A)
    BY <2>1, <2>2, CoherentUnion
  <2>4. T \subseteq Targets(S \cup A)
    BY <2>1, TargetsOfUnion
  <2>5. ASSUME NEW R, IsRounds(z, x.name, R)
        PROVE  Progress(z, R, "next", c, S \cup A, d, T)
    <3>1. /\ R[d - 1] \subseteq S
          /\ \A t \in Targets(R[d - 1]) : t \in T \/ t = c.name \/ z[t] \subseteq S
      BY <2>1, <2>5 DEF Progress, WorkStages
    <3>2. \A t \in Targets(R[d - 1]) : t \in T \/ z[t] \subseteq S \cup A
      BY <2>2, <3>1
    <3>3. QED
      BY <3>1, <3>2 DEF Progress
  <2>6. QED
    BY <2>3, <2>4, <2>5
<1>2. QED
  BY <1>1 DEF Fits, WorkStages

\* Another round begins.
LEMMA FitsMore ==
  ASSUME NEW z, NEW x, NEW c, NEW S, NEW d \in Nat, NEW T, Fits(z, "round", x, c, S, d, T)
  PROVE  Fits(z, "next", x, c, S, d + 1, Targets(S))
<1>1. d + 1 > 0 /\ d + 1 # 0 /\ (d + 1) - 1 = d
  OBVIOUS
<1>2. ASSUME IPQuery(x)
      PROVE  /\ Coherent(z, x.name, S)
             /\ \A R : IsRounds(z, x.name, R) => R[d] \subseteq S
  BY <1>2 DEF Fits, Progress
<1>3. ASSUME IPQuery(x), NEW R, IsRounds(z, x.name, R)
      PROVE  Progress(z, R, "next", c, S, d + 1, Targets(S))
  BY <1>1, <1>2, <1>3, TargetsMonotone DEF Progress
<1>4. QED
  BY <1>1, <1>2, <1>3 DEF Fits, WorkStages

\* Or it was the last, because of the depth or because there is no need of more.
LEMMA FitsDone ==
  ASSUME NEW z, NEW x, NEW c, NEW S, NEW d \in 0..FollowCnameDepth, NEW T,
         Fits(z, "round", x, c, S, d, T),
         ~(FollowCnameDepth > d /\ canFollow(x, S))
  PROVE  Fits(z, "done", x, c, S, d, T)
<1>0. FollowCnameDepth \in Nat
  BY DepthAssumption
<1>1. ASSUME IPQuery(x), NEW R, IsRounds(z, x.name, R)
      PROVE  R[FollowCnameDepth] \subseteq S
  <2>1. Coherent(z, x.name, S) /\ R[d] \subseteq S
    BY <1>1 DEF Fits, Progress
  <2>2. CASE d = FollowCnameDepth
    BY <2>1, <2>2
  <2>3. CASE d # FollowCnameDepth
    <3>1. ~canFollow(x, S)
      BY <1>0, <2>3
    <3>2. HasAddress(S) \/ Cnames(S) = {}
      BY <1>1, <3>1 DEF canFollow, HasAddress, IPQuery
    <3>3. Open(z, S) = {}
      BY <2>1, <3>2 DEF Coherent, Chain, Open, Targets
    <3>4. z[x.name] \subseteq S
      BY <2>1 DEF Coherent
    <3>5. QED
      BY <1>1, <3>3, <3>4, ClosedBound
  <2>4. QED
    BY <2>2, <2>3
<1>2. QED
  BY <1>1 DEF Fits, Progress, WorkStages

\* The round is over: it has brought what following once brings.
LEMMA FitsRound ==
  ASSUME NEW z, NEW x, NEW c, NEW S, NEW d \in 1..FollowCnameDepth,
         Fits(z, "next", x, c, S, d, {})
  PROVE  Fits(z, "round", x, c, S, d, {})
<1>0. FollowCnameDepth \in Nat /\ d > 0
  BY DepthAssumption
<1>1. ASSUME IPQuery(x), NEW R, IsRounds(z, x.name, R)
      PROVE  R[d] \subseteq S
  <2>1. /\ R[d - 1] \subseteq S
        /\ \A t \in Targets(R[d - 1]) : z[t] \subseteq S
    BY <1>0, <1>1 DEF Fits, Progress, WorkStages
  <2>2. R[d] = Step(z, x.name, R[d - 1])
    BY <1>1 DEF IsRounds
  <2>3. QED
    BY <2>1, <2>2 DEF Step
<1>2. QED
  BY <1>0, <1>1 DEF Fits, Progress, WorkStages

\* The next target of the round.
LEMMA FitsNext ==
  ASSUME NEW z, NEW x, NEW c, NEW S, NEW d \in Nat, NEW T, NEW n \in T,
         Fits(z, "next", x, c, S, d, T)
  PROVE  Fits(z, "local", x, [name |-> n, type |-> x.type], S, d, T \ {n})
<1> DEFINE e == [name |-> n, type |-> x.type]
<1>1. e.name = n /\ e.type = x.type
  OBVIOUS
<1> HIDE DEF e
<1>2. d > 0
  BY DEF Fits
<1>3. ASSUME IPQuery(x)
      PROVE  /\ Coherent(z, x.name, S) /\ T \subseteq Targets(S)
             /\ \A R : IsRounds(z, x.name, R) => Progress(z, R, "local", e, S, d, T \ {n})
  <2>1. /\ Coherent(z, x.name, S) /\ T \subseteq Targets(S)
        /\ \A R : IsRounds(z, x.name, R) => Progress(z, R, "next", c, S, d, T)
    BY <1>2, <1>3 DEF Fits
  <2>2. ASSUME NEW R, IsRounds(z, x.name, R)
        PROVE  Progress(z, R, "local", e, S, d, T \ {n})
    BY <1>1, <1>2, <2>1, <2>2 DEF Progress, WorkStages
  <2>3. QED
    BY <2>1, <2>2
<1>4. Fits(z, "local", x, e, S, d, T \ {n})
  BY <1>1, <1>2, <1>3 DEF Fits, WorkStages
<1>5. QED
  BY <1>4 DEF e
-----------------------------------------------------------------------------
(* The answers stay the same *)

LEMMA ZoneType ==
  ASSUME TypeInv, Steady
  PROVE  \A n \in Names : Zone[n] = Direct(n) /\ Direct(n) \subseteq RRs
<1> SUFFICES ASSUME NEW n \in Names
             PROVE  Zone[n] = Direct(n) /\ Direct(n) \subseteq RRs
  OBVIOUS
<1>1. CustomFor(n) \subseteq RRs
  BY CustomForType DEF TypeInv, TypeOK
<1>2. blockedResponseFor(n).answer \subseteq RRs
  <2>1. NXDomain => blockedResponseFor(n).answer = {}
    BY DEF blockedResponseFor, NoMsg
  <2>2. ~NXDomain => blockedResponseFor(n).answer =
                       {[owner |-> n, type |-> "A", target |-> NoName, source |-> FromBlocking]}
    BY DEF blockedResponseFor, NoMsg
  <2>3. [owner |-> n, type |-> "A", target |-> NoName, source |-> FromBlocking] \in RRs
    BY DEF RRs, Sources
  <2>4. QED
    BY <2>1, <2>2, <2>3
<1>3. UNION {m.answer : m \in Upstream[[name |-> n, type |-> "A"]]} \subseteq RRs
  BY DEF Steady, Msgs
<1>4. QED
  BY <1>1, <1>2, <1>3 DEF Zone, Direct

LEMMA ConfigStays ==
  ASSUME TypeInv, Steady, [Next]_vars
  PROVE  config' = config /\ Zone' = Zone
<1>1. config' = config
  <2>1. config = 1 /\ ~ReloadConfig
    BY DEF TypeInv, TypeOK, Steady, ReloadConfig
  <2>2. QED
    BY <2>1 DEF Next, Work, TryLocal, TryCache, TryNegCache, Lookup, RetryTcp, Round, FollowNext,
                Begin, Close, Fill, Expire, vars, shared
<1>2. \A n \in Names : CustomFor(n)' = CustomFor(n)
  BY <1>1 DEF CustomFor
<1>3. \A n \in Names : Direct(n)' = Direct(n)
  BY <1>2 DEF Direct
<1>4. QED
  BY <1>1, <1>3 DEF Zone
-----------------------------------------------------------------------------
(* Steps *)

\* A step that changes no request but r.
LEMMA StepOf ==
  ASSUME TypeInv, AnswerInv, NEW r \in Reqs, Zone' = Zone,
         \A x \in Reqs \ {r} : /\ pc'[x] = pc[x] /\ q'[x] = q[x] /\ cur'[x] = cur[x]
                               /\ resp'[x] = resp[x] /\ depth'[x] = depth[x]
                               /\ todo'[x] = todo[x],
         Fits(Zone, pc'[r], q'[r], cur'[r], resp'[r].answer, depth'[r], todo'[r]),
         pc'[r] \in {"cache", "negcache", "lookup", "retry"} /\ IPQuery(cur'[r]) =>
           \A m \in Upstream[cur'[r]] : m.answer = Zone[cur'[r].name],
         CacheCoherent'
  PROVE  AnswerInv'
<1>1. ASSUME NEW x \in Reqs
      PROVE  Fits(Zone', pc'[x], q'[x], cur'[x], resp'[x].answer, depth'[x], todo'[x])
  <2>1. CASE x = r
    BY <2>1
  <2>2. CASE x # r
    BY <2>2 DEF AnswerInv, RequestsFit
  <2>3. QED
    BY <2>1, <2>2
<1>2. RequestsFit'
  BY <1>1 DEF RequestsFit
<1>3. ASSUME NEW x \in Reqs, pc'[x] \in {"cache", "negcache", "lookup", "retry"},
             IPQuery(cur'[x]), NEW m \in Upstream[cur'[x]]
      PROVE  m.answer = Zone[cur'[x].name]
  <2>1. CASE x = r
    BY <1>3, <2>1
  <2>2. CASE x # r
    BY <1>3, <2>2 DEF AnswerInv, LookedUp
  <2>3. QED
    BY <2>1, <2>2
<1>4. LookedUp'
  BY <1>3 DEF LookedUp, IPQuery
<1>5. Chained'
  BY DEF AnswerInv, Chained
<1>6. QED
  BY <1>2, <1>4, <1>5 DEF AnswerInv

\* A step that starts no filler, and after which those there are have what they
\* will take.
LEMMA CacheKept ==
  ASSUME CacheCoherent, Zone' = Zone, cache' = cache, fillers' \subseteq fillers,
         \A x \in negCache' : ~IPQuery(x),
         \A x \in Reqs : Answering(x) => Answering(x)' /\ q'[x] = q[x]
  PROVE  CacheCoherent'
<1>1. \A k \in DOMAIN cache' : Coherent(Zone', k, cache'[k].answer)
  BY DEF CacheCoherent
<1>2. ASSUME NEW f \in fillers'
      PROVE  \/ f.of = {} /\ Coherent(Zone', f.key, f.msg.answer)
             \/ \E r \in Reqs :
                  f.of = {r} /\ Answering(r)' /\ IPQuery(q'[r]) /\ q'[r].name = f.key
  <2>1. CASE f.of = {} /\ Coherent(Zone, f.key, f.msg.answer)
    BY <2>1
  <2>2. CASE \E r \in Reqs : f.of = {r} /\ Answering(r) /\ IPQuery(q[r]) /\ q[r].name = f.key
    <3>1. PICK r \in Reqs : f.of = {r} /\ Answering(r) /\ IPQuery(q[r]) /\ q[r].name = f.key
      BY <2>2
    <3>2. Answering(r)' /\ q'[r] = q[r]
      BY <3>1
    <3>3. QED
      BY <3>1, <3>2
  <2>3. QED
    BY <1>2, <2>1, <2>2 DEF CacheCoherent
<1>3. QED
  BY <1>1, <1>2 DEF CacheCoherent, IPQuery

\* What is known of a request at work.
LEMMA AtWork ==
  ASSUME TypeInv, AnswerInv, NEW r \in Reqs, pc[r] \in WorkStages
  PROVE  /\ Fits(Zone, pc[r], q[r], cur[r], resp[r].answer, depth[r], todo[r])
         /\ q[r] \in Questions /\ q[r].name \in Names
         /\ cur[r] \in Questions /\ cur[r].name \in Names /\ cur[r].type = q[r].type
         /\ depth[r] = 0 => cur[r] = q[r]
         /\ depth[r] \in Nat
<1>1. /\ Fits(Zone, pc[r], q[r], cur[r], resp[r].answer, depth[r], todo[r])
      /\ cur[r].type = q[r].type /\ (depth[r] = 0 => cur[r] = q[r])
  BY DEF AnswerInv, RequestsFit, Fits
<1>2. q[r] \in Questions /\ cur[r] \in Questions /\ depth[r] \in Nat
  <2>1. pc[r] \notin {"idle", "done"}
    BY DEF WorkStages
  <2>2. q[r] # NoQuestion /\ cur[r] # NoQuestion
    BY <2>1 DEF TypeInv, Asking
  <2>3. /\ q[r] \in Questions \cup {NoQuestion} /\ cur[r] \in Questions \cup {NoQuestion}
        /\ depth[r] \in 0..FollowCnameDepth
    BY DEF TypeInv, TypeOK
  <2>4. QED
    BY <2>2, <2>3, DepthAssumption
<1>3. q[r].name \in Names /\ cur[r].name \in Names
  BY <1>2 DEF Questions
<1>4. QED
  BY <1>1, <1>2, <1>3

\* Got, with a coherent answer, and with a filler for it or none.
LEMMA GotStep ==
  ASSUME TypeInv, Steady, AnswerInv, Zone' = Zone, NEW r \in Reqs, pc[r] \in WorkStages,
         NEW m \in Msgs, Got(r, m), UNCHANGED <<cache, negCache, local>>,
         IPQuery(q[r]) => Coherent(Zone, cur[r].name, m.answer),
         \/ fillers' = fillers
         \/ \E g \in Msgs : /\ g.answer = m.answer /\ IPQuery(cur[r])
                            /\ fillers' = fillers \cup {Filler(r, g)}
  PROVE  AnswerInv'
<1>0. UNCHANGED <<q, depth, todo, cur>>
  BY DEF Got, local
<1>1. /\ pc' = [pc EXCEPT ![r] = IF Following(r) THEN "next" ELSE "round"]
      /\ resp' = [resp EXCEPT ![r] = IF Following(r) THEN Extended(resp[r], m.answer) ELSE m]
  BY DEF Got, Goto
<1>2. \A x \in Reqs \ {r} : pc'[x] = pc[x] /\ resp'[x] = resp[x]
  BY <1>1 DEF TypeInv, TypeOK
<1>3. /\ pc'[r] = IF Following(r) THEN "next" ELSE "round"
      /\ resp'[r].answer = IF Following(r) THEN resp[r].answer \cup m.answer ELSE m.answer
  <2>1. resp[r] \in Msgs
    BY DEF TypeInv, TypeOK
  <2>2. Extended(resp[r], m.answer).answer = resp[r].answer \cup m.answer
    BY <2>1 DEF Extended, Msgs
  <2>3. /\ pc'[r] = IF Following(r) THEN "next" ELSE "round"
        /\ resp'[r] = IF Following(r) THEN Extended(resp[r], m.answer) ELSE m
    BY <1>1 DEF TypeInv, TypeOK
  <2>4. QED
    BY <2>2, <2>3
<1>4. Fits(Zone, pc'[r], q[r], cur[r], resp'[r].answer, depth[r], todo[r])
  <2>1. CASE Following(r)
    <3>1. depth[r] \in Nat \ {0}
      BY <2>1, AtWork DEF Following
    <3>2. Fits(Zone, "next", q[r], cur[r], resp[r].answer \cup m.answer, depth[r], todo[r])
      <4>1. /\ Fits(Zone, pc[r], q[r], cur[r], resp[r].answer, depth[r], todo[r])
            /\ q[r].name \in Names
        BY AtWork
      <4>2. QED
        BY <3>1, <4>1, FitsFollowed
    <3>3. QED
      BY <1>3, <2>1, <3>2
  <2>2. CASE ~Following(r)
    <3>1. depth[r] = 0
      BY <2>2, AtWork DEF Following
    <3>2. QED
      BY <1>3, <2>2, <3>1, AtWork, FitsFirst
  <2>3. QED
    BY <2>1, <2>2
<1>5. \A x \in Reqs : Answering(x) => Answering(x)' /\ q'[x] = q[x]
  <2>1. ASSUME NEW x \in Reqs, Answering(x)
        PROVE  depth'[x] > 0 \/ pc'[x] \in {"round", "done"}
    <3>1. CASE x = r
      BY <1>0, <2>1, <3>1 DEF Answering, WorkStages
    <3>2. CASE x # r
      BY <1>0, <1>2, <2>1, <3>2 DEF Answering
    <3>3. QED
      BY <3>1, <3>2
  <2>2. QED
    BY <1>0, <2>1 DEF Answering
<1>6. CacheCoherent'
  <2>1. CASE fillers' = fillers
    BY <1>5, <2>1, CacheKept DEF AnswerInv, CacheCoherent
  <2>2. CASE \E g \in Msgs : /\ g.answer = m.answer /\ IPQuery(cur[r])
                             /\ fillers' = fillers \cup {Filler(r, g)}
    <3>1. PICK g \in Msgs : /\ g.answer = m.answer /\ IPQuery(cur[r])
                            /\ fillers' = fillers \cup {Filler(r, g)}
      BY <2>2
    <3>2. ASSUME NEW f \in fillers
          PROVE  \/ f.of = {} /\ Coherent(Zone, f.key, f.msg.answer)
                 \/ \E x \in Reqs :
                      f.of = {x} /\ Answering(x)' /\ IPQuery(q'[x]) /\ q'[x].name = f.key
      <4>1. CASE f.of = {} /\ Coherent(Zone, f.key, f.msg.answer)
        BY <4>1
      <4>2. CASE \E x \in Reqs : f.of = {x} /\ Answering(x) /\ IPQuery(q[x]) /\ q[x].name = f.key
        BY <1>5, <4>2
      <4>3. QED
        BY <4>1, <4>2 DEF AnswerInv, CacheCoherent
    <3>3. IPQuery(q[r])
      BY <3>1, AtWork DEF IPQuery
    <3> DEFINE f == Filler(r, g)
    <3>4. \/ f.of = {} /\ Coherent(Zone, f.key, f.msg.answer)
          \/ \E x \in Reqs : f.of = {x} /\ Answering(x)' /\ IPQuery(q'[x]) /\ q'[x].name = f.key
      <4>1. CASE Following(r)
        <5>1. f = [key |-> cur[r].name, of |-> {}, msg |-> g]
          BY <4>1 DEF Filler
        <5>2. f.of = {} /\ f.key = cur[r].name /\ f.msg.answer = m.answer
          BY <3>1, <5>1
        <5>3. QED
          BY <3>3, <5>2
      <4>2. CASE ~Following(r)
        <5>1. f = [key |-> cur[r].name, of |-> {r}, msg |-> NoMsg]
          BY <4>2 DEF Filler
        <5>2. f.of = {r} /\ f.key = cur[r].name
          BY <5>1
        <5>3. cur[r] = q[r]
          BY <4>2, AtWork DEF Following
        <5>4. Answering(r)'
          BY <1>3, <4>2 DEF Answering
        <5>5. QED
          BY <1>0, <3>3, <5>2, <5>3, <5>4
      <4>3. QED
        BY <4>1, <4>2
    <3> HIDE DEF f
    <3>5. fillers' = fillers \cup {f}
      BY <3>1 DEF f
    <3>6. QED
      BY <3>2, <3>4, <3>5 DEF AnswerInv, CacheCoherent
  <2>3. QED
    BY <2>1, <2>2
<1>7. pc'[r] \notin {"cache", "negcache", "lookup", "retry"}
  BY <1>3
<1>8. QED
  BY <1>0, <1>2, <1>4, <1>6, <1>7, StepOf

\* A request at work goes on.
LEMMA MoveStep ==
  ASSUME TypeInv, AnswerInv, Zone' = Zone, NEW r \in Reqs, pc[r] \in WorkStages,
         NEW l \in {"cache", "negcache", "lookup", "retry"}, Goto(r, l),
         UNCHANGED <<cache, negCache, fillers, local, cur, resp, depth, todo>>,
         IPQuery(cur[r]) => \A m \in Upstream[cur[r]] : m.answer = Zone[cur[r].name]
  PROVE  AnswerInv'
<1>0. pc' = [pc EXCEPT ![r] = l] /\ UNCHANGED q /\ l \in WorkStages
  BY DEF Goto, local, WorkStages
<1>1. pc'[r] = l /\ \A x \in Reqs \ {r} : pc'[x] = pc[x]
  BY <1>0 DEF TypeInv, TypeOK
<1>2. Fits(Zone, l, q[r], cur[r], resp[r].answer, depth[r], todo[r])
  BY <1>0, AtWork, FitsMove
<1>3. \A x \in Reqs : Answering(x) => Answering(x)' /\ q'[x] = q[x]
  BY <1>0, <1>1 DEF Answering, WorkStages
<1>4. CacheCoherent'
  BY <1>3, CacheKept DEF AnswerInv, CacheCoherent
<1>5. QED
  BY <1>0, <1>1, <1>2, <1>4, StepOf

LEMMA TryLocalStep ==
  ASSUME TypeInv, Steady, AnswerInv, Zone' = Zone, NEW r \in Reqs, TryLocal(r)
  PROVE  AnswerInv'
<1> DEFINE n == cur[r].name
<1>0. /\ pc[r] = "local" /\ pc[r] \in WorkStages
      /\ UNCHANGED <<cache, negCache, fillers, local>>
  BY DEF TryLocal, shared, WorkStages
<1>1. n \in Names /\ cur[r].type = q[r].type /\ cur[r] \in Questions
  BY <1>0, AtWork
<1>2. Zone[n] = Direct(n) /\ Direct(n) \subseteq RRs
  BY <1>1, ZoneType
<1>3. Coherent(Zone, n, Direct(n))
  <2>1. Chain(Zone, Zone[n])
    BY <1>1 DEF AnswerInv, Chained
  <2>2. QED
    BY <1>1, <1>2, <2>1, DirectCoherent
<1>4. CASE CustomFor(n) # {} /\ Got(r, [NoMsg EXCEPT !.answer = CustomFor(n)])
  <2> DEFINE m == [NoMsg EXCEPT !.answer = CustomFor(n)]
  <2>1. Direct(n) = CustomFor(n)
    BY <1>4 DEF Direct
  <2>2. m \in Msgs /\ m.answer = Direct(n)
    BY <1>2, <2>1 DEF NoMsg, Msgs
  <2> HIDE DEF m
  <2>3. Got(r, m)
    BY <1>4 DEF m
  <2>4. QED
    BY <1>0, <1>3, <2>2, <2>3, GotStep
<1>5. CASE CustomFor(n) = {} /\ IsBlocked(r) /\ Got(r, SetReply(blockedResponseFor(n)))
  <2>1. n \in Blocked
    BY <1>5 DEF IsBlocked
  <2>2. Direct(n) = blockedResponseFor(n).answer
    BY <1>5, <2>1 DEF Direct
  <2>3. SetReply(blockedResponseFor(n)) \in Msgs
    BY <1>1, BlockedResponseType
  <2>4. SetReply(blockedResponseFor(n)).answer = blockedResponseFor(n).answer
    BY DEF SetReply, blockedResponseFor, NoMsg
  <2>5. QED
    BY <1>0, <1>3, <1>5, <2>2, <2>3, <2>4, GotStep
<1>6. CASE /\ CustomFor(n) = {} /\ ~IsBlocked(r)
           /\ Goto(r, IF IPQuery(cur[r]) THEN "cache" ELSE "lookup")
           /\ UNCHANGED <<resp, depth, todo, cur, crashed>>
  <2>1. ASSUME IPQuery(cur[r]), NEW m \in Upstream[cur[r]]
        PROVE  m.answer = Zone[n]
    <3>1. cur[r] = [name |-> n, type |-> "A"]
      BY <1>1, <2>1 DEF Questions, IPQuery
    <3>2. Upstream[[name |-> n, type |-> "A"]] = {m}
      BY <1>1, <2>1, <3>1 DEF Steady
    <3>3. Direct(n) = UNION {g.answer : g \in {m}}
      BY <1>6, <2>1, <3>2 DEF Direct, IsBlocked
    <3>4. QED
      BY <1>2, <3>3
  <2>2. PICK l \in {"cache", "lookup"} : Goto(r, l)
    BY <1>6
  <2>3. QED
    BY <1>0, <1>6, <2>1, <2>2, MoveStep
<1>7. QED
  BY <1>4, <1>5, <1>6 DEF TryLocal

LEMMA TryCacheStep ==
  ASSUME TypeInv, Steady, AnswerInv, Zone' = Zone, NEW r \in Reqs, TryCache(r)
  PROVE  AnswerInv'
<1>0. /\ pc[r] = "cache" /\ pc[r] \in WorkStages
      /\ UNCHANGED <<cache, negCache, fillers, local>>
  BY DEF TryCache, shared, WorkStages
<1>1. CASE cur[r].name \in DOMAIN cache /\ Got(r, SetReply(cache[cur[r].name]))
  <2>1. cache[cur[r].name] \in Msgs
    BY <1>1 DEF TypeInv, TypeOK
  <2>2. Coherent(Zone, cur[r].name, cache[cur[r].name].answer)
    BY <1>1 DEF AnswerInv, CacheCoherent
  <2> DEFINE m == SetReply(cache[cur[r].name])
  <2>3. m \in Msgs /\ m.answer = cache[cur[r].name].answer
    BY <2>1, SetReplyType
  <2> HIDE DEF m
  <2>4. Got(r, m)
    BY <1>1 DEF m
  <2>5. QED
    BY <1>0, <2>2, <2>3, <2>4, GotStep
<1>2. CASE Goto(r, "negcache") /\ UNCHANGED <<resp, depth, todo, cur, crashed>>
  <2>1. IPQuery(cur[r]) => \A m \in Upstream[cur[r]] : m.answer = Zone[cur[r].name]
    BY <1>0 DEF AnswerInv, LookedUp
  <2>2. QED
    BY <1>0, <1>2, <2>1, MoveStep
<1>3. QED
  BY <1>1, <1>2 DEF TryCache

\* Only questions for which there is no cache fail.
LEMMA FailedStep ==
  ASSUME TypeInv, AnswerInv, Zone' = Zone, NEW r \in Reqs, pc[r] \in WorkStages, Failed(r),
         ~IPQuery(cur[r]), UNCHANGED <<cache, fillers, local>>,
         \A x \in negCache' : ~IPQuery(x)
  PROVE  AnswerInv'
<1>0. UNCHANGED <<q, depth, todo, cur>> /\ ~IPQuery(q[r])
  BY AtWork DEF Failed, local, IPQuery
<1>1. \A x \in Reqs \ {r} : pc'[x] = pc[x] /\ resp'[x] = resp[x]
  BY DEF Failed, Goto, TypeInv, TypeOK
<1>2. pc'[r] = "done" \/ (pc'[r] = pc[r] /\ resp'[r] = resp[r])
  BY DEF Failed, Goto, TypeInv, TypeOK
<1>3. Fits(Zone, pc'[r], q[r], cur[r], resp'[r].answer, depth[r], todo[r])
  <2>1. Fits(Zone, pc[r], q[r], cur[r], resp[r].answer, depth[r], todo[r])
    BY AtWork
  <2>2. CASE pc'[r] = "done"
    BY <1>0, <2>1, <2>2 DEF Fits, WorkStages
  <2>3. QED
    BY <1>2, <2>1, <2>2
<1>4. \A x \in Reqs : Answering(x) => Answering(x)' /\ q'[x] = q[x]
  BY <1>0, <1>1, <1>2 DEF Answering
<1>5. CacheCoherent'
  BY <1>4, CacheKept DEF AnswerInv
<1>6. pc'[r] \in {"cache", "negcache", "lookup", "retry"} /\ IPQuery(cur'[r]) =>
        \A m \in Upstream[cur'[r]] : m.answer = Zone[cur'[r].name]
  BY <1>0
<1>7. QED
  BY <1>0, <1>1, <1>3, <1>5, <1>6, StepOf

LEMMA TryNegCacheStep ==
  ASSUME TypeInv, Steady, AnswerInv, Zone' = Zone, NEW r \in Reqs, TryNegCache(r)
  PROVE  AnswerInv'
<1>0. /\ pc[r] = "negcache" /\ pc[r] \in WorkStages
      /\ UNCHANGED <<cache, negCache, fillers, local>>
      /\ \A x \in negCache : ~IPQuery(x)
  BY DEF TryNegCache, shared, WorkStages, AnswerInv, CacheCoherent
<1>1. CASE cur[r] \in negCache /\ Failed(r)
  BY <1>0, <1>1, FailedStep
<1>2. CASE Goto(r, "lookup") /\ UNCHANGED <<resp, depth, todo, cur, crashed>>
  <2>1. IPQuery(cur[r]) => \A m \in Upstream[cur[r]] : m.answer = Zone[cur[r].name]
    BY <1>0 DEF AnswerInv, LookedUp
  <2>2. QED
    BY <1>0, <1>2, <2>1, MoveStep
<1>3. QED
  BY <1>1, <1>2 DEF TryNegCache

LEMMA LookupStep ==
  ASSUME TypeInv, Steady, AnswerInv, Zone' = Zone, NEW r \in Reqs, Lookup(r) \/ RetryTcp(r)
  PROVE  AnswerInv'
<1>0. pc[r] \in {"lookup", "retry"} /\ pc[r] \in WorkStages /\ UNCHANGED <<cache, local>>
  BY DEF Lookup, RetryTcp, WorkStages
<1>1. /\ cur[r] \in Questions /\ cur[r].name \in Names /\ cur[r].type = q[r].type
  BY <1>0, AtWork
<1>2. IPQuery(cur[r]) => \A m \in Upstream[cur[r]] : m.answer = Zone[cur[r].name]
  BY <1>0 DEF AnswerInv, LookedUp
<1>3. ASSUME IPQuery(cur[r])
      PROVE  Coherent(Zone, cur[r].name, Zone[cur[r].name])
  BY <1>1, ZoneType, DirectCoherent DEF AnswerInv, Chained
<1>4. ASSUME IPQuery(cur[r]), NEW m \in Upstream[cur[r]]
      PROVE  m # LookupError
  <2>1. cur[r] = [name |-> cur[r].name, type |-> "A"]
    BY <1>1, <1>4 DEF Questions, IPQuery
  <2>2. m \in Msgs
    BY <1>1, <1>4, <2>1 DEF Steady
  <2>3. QED
    BY <2>2 DEF Msgs, LookupError
<1>5. PICK m \in Upstream[cur[r]] :
        \/ m = LookupError /\ LookupFailed(r)
        \/ m # LookupError /\ Fetched(r, m)
        \/ Goto(r, "retry") /\ UNCHANGED <<fillers, negCache, resp, depth, todo, cur, crashed>>
  BY DEF Lookup, RetryTcp
<1>6. CASE m = LookupError /\ LookupFailed(r)
  <2>1. ~IPQuery(cur[r]) /\ Failed(r) /\ fillers' = fillers
    BY <1>4, <1>5, <1>6 DEF LookupFailed
  <2>2. \A x \in negCache' : ~IPQuery(x)
    BY <1>6, <2>1 DEF LookupFailed, AnswerInv, CacheCoherent
  <2>3. QED
    BY <1>0, <2>1, <2>2, FailedStep
<1>7. CASE m # LookupError /\ Fetched(r, m)
  <2>1. m \in Msgs
    BY <1>0, <1>5, <1>7, LookupResult
  <2> DEFINE g == SetReply(m)
  <2>2. g \in Msgs /\ g.answer = m.answer
    BY <2>1, SetReplyType
  <2> HIDE DEF g
  <2>3. Got(r, g) /\ negCache' = negCache
    BY <1>7 DEF Fetched, g
  <2>4. fillers' = fillers \/ (IPQuery(cur[r]) /\ fillers' = fillers \cup {Filler(r, m)})
    BY <1>7 DEF Fetched
  <2>5. IPQuery(q[r]) => Coherent(Zone, cur[r].name, g.answer)
    <3>1. IPQuery(q[r]) => IPQuery(cur[r])
      BY <1>1 DEF IPQuery
    <3>2. QED
      BY <1>2, <1>3, <1>5, <2>2, <3>1
  <2>6. QED
    BY <1>0, <2>1, <2>2, <2>3, <2>4, <2>5, GotStep
<1>8. CASE Goto(r, "retry") /\ UNCHANGED <<fillers, negCache, resp, depth, todo, cur, crashed>>
  BY <1>0, <1>2, <1>8, MoveStep
<1>9. QED
  BY <1>5, <1>6, <1>7, <1>8

LEMMA RoundStep ==
  ASSUME TypeInv, AnswerInv, Zone' = Zone, NEW r \in Reqs, Round(r)
  PROVE  AnswerInv'
<1>0. /\ pc[r] = "round" /\ UNCHANGED <<cache, negCache, fillers, q, cur, resp>>
      /\ depth[r] \in 0..FollowCnameDepth /\ depth[r] \in Nat
  BY DepthAssumption DEF Round, shared, local, TypeInv, TypeOK
<1>1. Fits(Zone, "round", q[r], cur[r], resp[r].answer, depth[r], todo[r])
  BY <1>0 DEF AnswerInv, RequestsFit
<1>2. \A x \in Reqs \ {r} : pc'[x] = pc[x] /\ depth'[x] = depth[x] /\ todo'[x] = todo[x]
  BY DEF Round, Goto, TypeInv, TypeOK
<1>3. \/ /\ pc'[r] = "next" /\ depth'[r] = depth[r] + 1
         /\ todo'[r] = Targets(resp[r].answer)
      \/ /\ pc'[r] = "done" /\ depth'[r] = depth[r] /\ todo'[r] = todo[r]
         /\ ~(FollowCnameDepth > depth[r] /\ canFollow(q[r], resp[r].answer))
  BY DEF Round, Goto, MoreRounds, Counted, Targets, TypeInv, TypeOK
<1>4. Fits(Zone, pc'[r], q[r], cur[r], resp[r].answer, depth'[r], todo'[r])
  BY <1>0, <1>1, <1>3, FitsMore, FitsDone
<1>5. ASSUME NEW x \in Reqs, Answering(x)
      PROVE  depth'[x] > 0 \/ pc'[x] \in {"round", "done"}
  <2>1. CASE x = r
    BY <1>0, <1>3, <2>1
  <2>2. CASE x # r
    BY <1>2, <1>5, <2>2 DEF Answering
  <2>3. QED
    BY <2>1, <2>2
<1>6. CacheCoherent'
  BY <1>0, <1>5, CacheKept DEF Answering, AnswerInv, CacheCoherent
<1>7. pc'[r] \notin {"cache", "negcache", "lookup", "retry"}
  BY <1>3
<1>8. QED
  BY <1>0, <1>2, <1>4, <1>6, <1>7, StepOf

LEMMA FollowNextStep ==
  ASSUME TypeInv, AnswerInv, Zone' = Zone, NEW r \in Reqs, FollowNext(r)
  PROVE  AnswerInv'
<1>0. /\ pc[r] = "next" /\ UNCHANGED <<cache, negCache, fillers, q, resp, depth>>
      /\ depth[r] \in 0..FollowCnameDepth
  BY DEF FollowNext, shared, local, TypeInv, TypeOK
<1>1. /\ Fits(Zone, "next", q[r], cur[r], resp[r].answer, depth[r], todo[r])
      /\ depth[r] > 0
  BY <1>0 DEF AnswerInv, RequestsFit, Fits
<1>2. depth[r] \in 1..FollowCnameDepth /\ depth[r] \in Nat
  BY <1>0, <1>1, DepthAssumption
<1>3. \A x \in Reqs \ {r} : pc'[x] = pc[x] /\ cur'[x] = cur[x] /\ todo'[x] = todo[x]
  BY DEF FollowNext, Goto, TypeInv, TypeOK
<1>4. \/ pc'[r] = "round" /\ todo[r] = {} /\ cur'[r] = cur[r] /\ todo'[r] = {}
      \/ \E n \in todo[r] : /\ pc'[r] = "local" /\ todo'[r] = todo[r] \ {n}
                            /\ cur'[r] = [name |-> n, type |-> q[r].type]
  BY DEF FollowNext, Goto, TypeInv, TypeOK
<1>5. Fits(Zone, pc'[r], q[r], cur'[r], resp[r].answer, depth[r], todo'[r])
  <2>1. CASE pc'[r] = "round" /\ todo[r] = {} /\ cur'[r] = cur[r] /\ todo'[r] = {}
    BY <1>1, <1>2, <2>1, FitsRound
  <2>2. ASSUME NEW n \in todo[r], pc'[r] = "local", todo'[r] = todo[r] \ {n},
               cur'[r] = [name |-> n, type |-> q[r].type]
        PROVE  Fits(Zone, pc'[r], q[r], cur'[r], resp[r].answer, depth[r], todo'[r])
    BY <1>1, <1>2, <2>2, FitsNext
  <2>3. QED
    BY <1>4, <2>1, <2>2
<1>6. ASSUME NEW x \in Reqs, Answering(x)
      PROVE  depth'[x] > 0 \/ pc'[x] \in {"round", "done"}
  <2>1. CASE x = r
    BY <1>0, <1>1, <2>1
  <2>2. CASE x # r
    BY <1>0, <1>3, <1>6, <2>2 DEF Answering
  <2>3. QED
    BY <2>1, <2>2
<1>7. CacheCoherent'
  BY <1>0, <1>6, CacheKept DEF Answering, AnswerInv, CacheCoherent
<1>8. pc'[r] \notin {"cache", "negcache", "lookup", "retry"}
  BY <1>4
<1>9. QED
  BY <1>0, <1>3, <1>5, <1>7, <1>8, StepOf

LEMMA BeginStep ==
  ASSUME TypeInv, AnswerInv, Zone' = Zone, NEW r \in Reqs, NEW request \in Asked,
         Begin(r, request)
  PROVE  AnswerInv'
<1> DEFINE x == request.question
<1>0. /\ pc[r] = "idle" /\ UNCHANGED <<cache, negCache, fillers, resp, depth, todo>>
      /\ q' = [q EXCEPT ![r] = x] /\ cur' = [cur EXCEPT ![r] = x]
      /\ pc' = [pc EXCEPT ![r] = "local"]
  BY DEF Begin, shared, Goto
<1>1. depth[r] = 0 /\ todo[r] = {}
  BY <1>0 DEF AnswerInv, RequestsFit, Fits
<1>2. /\ pc'[r] = "local" /\ q'[r] = x /\ cur'[r] = x
      /\ \A y \in Reqs \ {r} : pc'[y] = pc[y] /\ q'[y] = q[y] /\ cur'[y] = cur[y]
  BY <1>0 DEF TypeInv, TypeOK
<1> HIDE DEF x
<1>3. Fits(Zone, pc'[r], q'[r], cur'[r], resp'[r].answer, depth'[r], todo'[r])
  BY <1>0, <1>1, <1>2, FitsBegin
<1>4. ASSUME NEW y \in Reqs, Answering(y)
      PROVE  (depth'[y] > 0 \/ pc'[y] \in {"round", "done"}) /\ q'[y] = q[y]
  <2>1. y # r
    BY <1>0, <1>1, <1>4 DEF Answering
  <2>2. QED
    BY <1>0, <1>2, <1>4, <2>1 DEF Answering
<1>5. CacheCoherent'
  BY <1>0, <1>4, CacheKept DEF Answering, AnswerInv, CacheCoherent
<1>6. QED
  BY <1>0, <1>2, <1>3, <1>5, StepOf

\* What a filler takes, whenever it runs.
LEMMA SnapshotCoherent ==
  ASSUME AnswerInv, NEW f \in fillers
  PROVE  Coherent(Zone, f.key, Snapshot(f).answer)
<1>1. CASE f.of = {} /\ Coherent(Zone, f.key, f.msg.answer)
  BY <1>1 DEF Snapshot
<1>2. CASE \E r \in Reqs : f.of = {r} /\ Answering(r) /\ IPQuery(q[r]) /\ q[r].name = f.key
  <2>1. PICK r \in Reqs : f.of = {r} /\ Answering(r) /\ IPQuery(q[r]) /\ q[r].name = f.key
    BY <1>2
  <2>2. (CHOOSE y \in f.of : TRUE) = r
    BY <2>1
  <2>3. Snapshot(f) = resp[r]
    BY <2>1, <2>2 DEF Snapshot
  <2>4. Coherent(Zone, q[r].name, resp[r].answer)
    BY <2>1 DEF AnswerInv, RequestsFit, Fits, Answering
  <2>5. QED
    BY <2>1, <2>3, <2>4
<1>3. QED
  BY <1>1, <1>2 DEF AnswerInv, CacheCoherent

LEMMA CloseStep ==
  ASSUME TypeInv, AnswerInv, Zone' = Zone, NEW r \in Reqs, Close(r)
  PROVE  AnswerInv'
<1>0. /\ pc[r] = "done" /\ UNCHANGED <<cache, negCache>>
      /\ fillers' = {IF f.of = {r} THEN [f EXCEPT !.of = {}, !.msg = resp[r]] ELSE f : f \in fillers}
  BY DEF Close
<1>1. /\ pc'[r] = "idle" /\ q'[r] = NoQuestion /\ cur'[r] = NoQuestion
      /\ depth'[r] = 0 /\ todo'[r] = {}
      /\ \A x \in Reqs \ {r} : /\ pc'[x] = pc[x] /\ q'[x] = q[x] /\ cur'[x] = cur[x]
                               /\ resp'[x] = resp[x] /\ depth'[x] = depth[x]
                               /\ todo'[x] = todo[x]
  BY DEF Close, Goto, TypeInv, TypeOK
<1>2. Fits(Zone, pc'[r], q'[r], cur'[r], resp'[r].answer, depth'[r], todo'[r])
  BY <1>1, FitsIdle
<1>3. ASSUME NEW g \in fillers'
      PROVE  \/ g.of = {} /\ Coherent(Zone, g.key, g.msg.answer)
             \/ \E x \in Reqs :
                  g.of = {x} /\ Answering(x)' /\ IPQuery(q'[x]) /\ q'[x].name = g.key
  <2>1. PICK f \in fillers :
          g = IF f.of = {r} THEN [f EXCEPT !.of = {}, !.msg = resp[r]] ELSE f
    BY <1>0
  <2>2. f \in [key : Names, of : SUBSET Reqs, msg : Msgs]
    BY DEF TypeInv, TypeOK
  <2>3. CASE f.of = {r}
    <3>1. g.of = {} /\ g.key = f.key /\ g.msg = resp[r]
      BY <2>1, <2>2, <2>3
    <3>2. (CHOOSE y \in f.of : TRUE) = r
      BY <2>3
    <3>3. Snapshot(f) = resp[r]
      BY <2>3, <3>2 DEF Snapshot
    <3>4. QED
      BY <3>1, <3>3, SnapshotCoherent
  <2>4. CASE f.of # {r}
    <3>1. g = f
      BY <2>1, <2>4
    <3>2. CASE f.of = {} /\ Coherent(Zone, f.key, f.msg.answer)
      BY <3>1, <3>2
    <3>3. CASE \E x \in Reqs : f.of = {x} /\ Answering(x) /\ IPQuery(q[x]) /\ q[x].name = f.key
      <4>1. PICK x \in Reqs : f.of = {x} /\ Answering(x) /\ IPQuery(q[x]) /\ q[x].name = f.key
        BY <3>3
      <4>2. x # r
        BY <2>4, <4>1
      <4>3. Answering(x)' /\ q'[x] = q[x]
        BY <1>1, <4>1, <4>2 DEF Answering
      <4>4. QED
        BY <3>1, <4>1, <4>3
    <3>4. QED
      BY <3>2, <3>3 DEF AnswerInv, CacheCoherent
  <2>5. QED
    BY <2>3, <2>4
<1>4. CacheCoherent'
  BY <1>0, <1>3 DEF AnswerInv, CacheCoherent
<1>5. pc'[r] \notin {"cache", "negcache", "lookup", "retry"}
  BY <1>1
<1>6. QED
  BY <1>1, <1>2, <1>4, <1>5, StepOf

LEMMA BesideStep ==
  ASSUME TypeInv, AnswerInv, Zone' = Zone,
         \/ \E f \in fillers : Fill(f)
         \/ \E k \in DOMAIN cache : Expire(k)
  PROVE  AnswerInv'
<1>0. UNCHANGED <<negCache, pc, q, cur, resp, depth, todo>> /\ fillers' \subseteq fillers
  BY DEF Fill, Expire, local
<1>1. \A k \in DOMAIN cache' : Coherent(Zone, k, cache'[k].answer)
  <2>1. ASSUME NEW f \in fillers, Fill(f)
        PROVE  \A k \in DOMAIN cache' : Coherent(Zone, k, cache'[k].answer)
    <3>1. Coherent(Zone, f.key, Snapshot(f).answer)
      BY SnapshotCoherent
    <3>2. QED
      BY <2>1, <3>1 DEF Fill, AnswerInv, CacheCoherent
  <2>2. ASSUME NEW n \in DOMAIN cache, Expire(n)
        PROVE  \A k \in DOMAIN cache' : Coherent(Zone, k, cache'[k].answer)
    BY <2>2 DEF Expire, AnswerInv, CacheCoherent
  <2>3. QED
    BY <2>1, <2>2
<1>2. \A x \in Reqs : Answering(x)' <=> Answering(x)
  BY <1>0 DEF Answering
<1>3. CacheCoherent'
  BY <1>0, <1>1, <1>2 DEF AnswerInv, CacheCoherent, IPQuery
<1>4. RequestsFit' /\ Chained'
  BY <1>0 DEF AnswerInv, RequestsFit, Chained
<1>5. LookedUp'
  BY <1>0 DEF AnswerInv, LookedUp, IPQuery
<1>6. QED
  BY <1>3, <1>4, <1>5 DEF AnswerInv
-----------------------------------------------------------------------------
(* The theorem *)

LEMMA AnswerInit == Init /\ Chained => AnswerInv
<1> SUFFICES ASSUME Init, Chained
             PROVE  AnswerInv
  OBVIOUS
<1>1. RequestsFit
  <2> SUFFICES ASSUME NEW r \in Reqs
               PROVE  Fits(Zone, pc[r], q[r], cur[r], resp[r].answer, depth[r], todo[r])
    BY DEF RequestsFit
  <2>1. /\ pc[r] = "idle" /\ q[r] = NoQuestion /\ cur[r] = NoQuestion
        /\ depth[r] = 0 /\ todo[r] = {}
    BY DEF Init
  <2>2. QED
    BY <2>1, FitsIdle
<1>2. LookedUp
  BY DEF Init, LookedUp
<1>3. CacheCoherent
  <2>1. DOMAIN cache = {} /\ fillers = {} /\ negCache = {}
    BY DEF Init
  <2>2. QED
    BY <2>1 DEF CacheCoherent
<1>4. QED
  BY <1>1, <1>2, <1>3 DEF AnswerInv

LEMMA AnswerStep ==
  ASSUME Steady
  PROVE  TypeInv /\ AnswerInv /\ [Next]_vars => AnswerInv'
<1> SUFFICES ASSUME TypeInv, AnswerInv, [Next]_vars
             PROVE  AnswerInv'
  OBVIOUS
<1>0. Zone' = Zone /\ config' = config
  BY ConfigStays
<1>1. CASE UNCHANGED vars
  <2>1. /\ UNCHANGED <<cache, negCache, fillers, pc, q, cur, resp, depth, todo>>
    BY <1>1 DEF vars, shared, local
  <2>2. \A x \in Reqs : Answering(x)' <=> Answering(x)
    BY <2>1 DEF Answering
  <2>3. CacheCoherent'
    BY <1>0, <2>1, <2>2 DEF AnswerInv, CacheCoherent, IPQuery
  <2>4. RequestsFit' /\ Chained'
    BY <1>0, <2>1 DEF AnswerInv, RequestsFit, Chained
  <2>5. LookedUp'
    BY <1>0, <2>1 DEF AnswerInv, LookedUp, IPQuery
  <2>6. QED
    BY <2>3, <2>4, <2>5 DEF AnswerInv
<1>2. ASSUME NEW r \in Reqs, Work(r)
      PROVE  AnswerInv'
  BY <1>0, <1>2, TryLocalStep, TryCacheStep, TryNegCacheStep, LookupStep, RoundStep,
     FollowNextStep DEF Work
<1>3. ~ReloadConfig
  BY DEF TypeInv, TypeOK, Steady, ReloadConfig
<1>4. QED
  BY <1>0, <1>1, <1>2, <1>3, BeginStep, CloseStep, BesideStep DEF Next

\* Rounds is what its definition says: there is such a function.
LEMMA RoundsDefined ==
  ASSUME TypeInv, Steady, NEW n \in Names
  PROVE  IsRounds(Zone, n, Rounds(n))
<1>0. FollowCnameDepth \in Nat
  BY DepthAssumption
<1>1. \A m \in Names : Zone[m] = Direct(m) /\ Direct(m) \subseteq RRs
  BY ZoneType
<1>2. ASSUME NEW S \in SUBSET RRs
      PROVE  /\ FollowedOnce(n, S) = Step(Zone, n, S)
             /\ FollowedOnce(n, S) \subseteq RRs
  <2>1. Targets(S) \subseteq Names
    BY TargetsAreNames
  <2>2. UNION {Direct(m) : m \in Targets(S)} = UNION {Zone[m] : m \in Targets(S)}
    BY <1>1, <2>1
  <2>3. UNION {Direct(m) : m \in Targets(S)} \subseteq RRs
    BY <1>1, <2>1
  <2>4. QED
    BY <2>2, <2>3 DEF FollowedOnce, Step
<1> DEFINE Def(g, i) == IF i = 0 THEN Direct(n) ELSE FollowedOnce(n, g[i - 1])
           I == {d \in 0..FollowCnameDepth :
                   \E g \in [0..d -> SUBSET RRs] : \A i \in 0..d : g[i] = Def(g, i)}
<1>3. 0 \in I
  <2> DEFINE g == [i \in 0..0 |-> Direct(n)]
  <2>1. g \in [0..0 -> SUBSET RRs] /\ \A i \in 0..0 : g[i] = Def(g, i)
    BY <1>1
  <2> HIDE DEF g
  <2>2. 0 \in 0..FollowCnameDepth
    BY <1>0
  <2>3. QED
    BY <2>1, <2>2
<1>4. ASSUME NEW d \in 1..FollowCnameDepth, d - 1 \in I
      PROVE  d \in I
  <2>1. PICK g \in [0..(d - 1) -> SUBSET RRs] : \A i \in 0..(d - 1) : g[i] = Def(g, i)
    BY <1>4
  <2> DEFINE h == [i \in 0..d |-> IF i = d THEN FollowedOnce(n, g[d - 1]) ELSE g[i]]
  <2>2. d - 1 \in 0..(d - 1) /\ g[d - 1] \in SUBSET RRs
    BY <1>0
  <2>3. h \in [0..d -> SUBSET RRs]
    BY <1>0, <1>2, <2>2
  <2>4. ASSUME NEW i \in 0..d
        PROVE  h[i] = Def(h, i)
    <3>1. CASE i = d
      BY <1>0, <3>1
    <3>2. CASE i # d
      <4>1. i \in 0..(d - 1) /\ (i # 0 => i - 1 \in 0..(d - 1))
        BY <1>0, <3>2
      <4>2. h[i] = g[i] /\ (i # 0 => h[i - 1] = g[i - 1])
        BY <1>0, <3>2, <4>1
      <4>3. g[i] = Def(g, i)
        BY <2>1, <4>1
      <4>4. QED
        BY <4>2, <4>3
    <3>3. QED
      BY <3>1, <3>2
  <2>5. d \in 0..FollowCnameDepth
    BY <1>0
  <2> HIDE DEF h
  <2>6. QED
    BY <2>3, <2>4, <2>5
<1>5. FollowCnameDepth \in I
  <2> HIDE DEF I
  <2>1. 0..FollowCnameDepth \subseteq I
    BY <1>0, <1>3, <1>4, SetInduction
  <2>2. QED
    BY <1>0, <2>1
<1>6. PICK g \in [0..FollowCnameDepth -> SUBSET RRs] :
        \A i \in 0..FollowCnameDepth : g[i] = Def(g, i)
  BY <1>5
<1> DEFINE P(f) == f = [d \in 0..FollowCnameDepth |-> Def(f, d)]
<1>7. P(g)
  BY <1>6
<1>8. Rounds(n) = CHOOSE f : P(f)
  BY DEF Rounds
<1>9. P(Rounds(n))
  BY <1>7, <1>8
<1> DEFINE R == Rounds(n)
           J == {d \in 0..FollowCnameDepth : R[d] \in SUBSET RRs}
<1>10. \A d \in 0..FollowCnameDepth : R[d] = Def(R, d)
  BY <1>9
<1> HIDE DEF R
<1>11. 0 \in J
  BY <1>0, <1>1, <1>10
<1>12. ASSUME NEW d \in 1..FollowCnameDepth, d - 1 \in J
       PROVE  d \in J
  <2>1. d \in 0..FollowCnameDepth /\ d # 0 /\ R[d - 1] \in SUBSET RRs
    BY <1>0, <1>12
  <2>2. R[d] = FollowedOnce(n, R[d - 1])
    BY <1>10, <2>1
  <2>3. QED
    BY <1>2, <2>1, <2>2
<1>13. 0..FollowCnameDepth \subseteq J
  <2> HIDE DEF J
  <2>1. QED
    BY <1>0, <1>11, <1>12, SetInduction
<1>14. R[0] = Zone[n]
  BY <1>0, <1>1, <1>10
<1>15. ASSUME NEW d \in 1..FollowCnameDepth
       PROVE  R[d] = Step(Zone, n, R[d - 1])
  <2>1. d \in 0..FollowCnameDepth /\ d # 0 /\ d - 1 \in 0..FollowCnameDepth
    BY <1>0
  <2>2. R[d] = FollowedOnce(n, R[d - 1]) /\ R[d - 1] \in SUBSET RRs
    BY <1>10, <1>13, <2>1
  <2>3. QED
    BY <1>2, <2>2
<1>16. IsRounds(Zone, n, R)
  BY <1>14, <1>15 DEF IsRounds
<1>17. QED
  BY <1>16 DEF R

\* If the upstream answers the same each time and what is answered for a name is a
\* chain, a reply has all that following its CNAMEs to the depth brings
\* (handler.go doRequest), whatever the fillers have put into the cache, in
\* whatever round the response was that they took.
THEOREM AnswersAreComplete ==
  ASSUME Steady
  PROVE  Spec /\ Chained => []AnswersComplete
<1>1. Init /\ Chained => TypeInv /\ AnswerInv
  BY TypeInit, AnswerInit
<1>2. TypeInv /\ AnswerInv /\ [Next]_vars => (TypeInv /\ AnswerInv)'
  BY TypeStep, AnswerStep
<1>3. TypeInv /\ AnswerInv => AnswersComplete
  <2> SUFFICES ASSUME TypeInv, AnswerInv, NEW r \in Reqs, Done(r), IPQuery(q[r])
               PROVE  Resolved(q[r].name) \subseteq resp[r].answer
    BY DEF AnswersComplete
  <2>1. q[r].name \in Names
    <3>1. q[r] \in Questions \cup {NoQuestion} /\ q[r] # NoQuestion
      BY DEF TypeInv, TypeOK, IPQuery, NoQuestion
    <3>2. QED
      BY <3>1 DEF Questions
  <2>2. IsRounds(Zone, q[r].name, Rounds(q[r].name))
    BY <2>1, RoundsDefined
  <2>3. Rounds(q[r].name)[FollowCnameDepth] \subseteq resp[r].answer
    BY <2>2 DEF AnswerInv, RequestsFit, Fits, Progress, Done
  <2>4. QED
    BY <2>3 DEF Resolved
<1>4. QED
  BY <1>1, <1>2, <1>3, PTL DEF Spec
=============================================================================
