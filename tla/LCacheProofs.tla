---------------------------- MODULE LCacheProofs ----------------------------
(***************************************************************************)
(* Proofs about the response cache, for any number of keys, goroutines and *)
(* entries.  Two layers: the shape of the state (WellFormed), and on top   *)
(* of it the relation between the map, the counter and the capacity.       *)
(***************************************************************************)
EXTENDS LCache, FiniteSetTheorems, TLAPS

\* A goroutine that works on an entry really holds one, and one about to
\* rewrite TTLs read the clock no later than the entry expires.
Locals ==
  \A t \in Threads :
    /\ pc[t] \in {"full", "exists", "stamp", "swap", "clock", "ttl"}
         => slot[t].obj \in Objs
    /\ pc[t] = "ttl" => clk[t] <= slot[t].expiresAt

WellFormed == TypeOK /\ Locals

-----------------------------------------------------------------------------

\* A lifetime of some seconds is a number of ticks, and back.
LEMMA TickFacts ==
  ASSUME NEW n \in Nat
  PROVE  /\ n * TicksPerSecond \in Nat
         /\ n \div TicksPerSecond \in Nat
BY ClockAssumption

LEMMA InitWellFormed == Init => WellFormed
BY ObjsAssumption DEF Init, WellFormed, TypeOK, Locals, LEntry, NoEntry, Object,
   NoRRs, PcTypes, Objs

\* Returning from a call clears its locals and disturbs nobody else's.
LEMMA ReturnWellFormed ==
  ASSUME WellFormed, NEW t \in Threads, Return(t),
         backend' \in [Keys -> LEntry], size' \in Int, now' = now,
         heap' \in [Objs -> Object], nobj' = nobj
  PROVE  WellFormed'
BY KeysAssumption, ObjsAssumption
   DEF Return, Goto, WellFormed, TypeOK, Locals, PcTypes, LEntry, NoEntry

\* Every access of Get, Set and Remove to shared memory keeps the state well
\* formed.
LEMMA StepWellFormed == WellFormed /\ [Next]_vars => WellFormed'
<1> SUFFICES ASSUME WellFormed, [Next]_vars
             PROVE  WellFormed'
    OBVIOUS
<1> USE KeysAssumption, ObjsAssumption
<1>1. CASE Tick
  BY <1>1 DEF Tick, WellFormed, TypeOK, Locals
<1>2. ASSUME NEW t \in Threads, NEW k \in Keys, CallGet(t, k)
      PROVE  WellFormed'
  BY <1>2 DEF CallGet, Call, Goto, WellFormed, TypeOK, Locals, PcTypes
<1>3. ASSUME NEW t \in Threads, NEW k \in Keys, CallRemove(t, k)
      PROVE  WellFormed'
  BY <1>3 DEF CallRemove, Call, Goto, WellFormed, TypeOK, Locals, PcTypes
<1>4. ASSUME NEW t \in Threads, NEW k \in Keys, NEW g \in Grants \cup {NoRRs},
             CallSet(t, k, g)
      PROVE  WellFormed'
  <2>1. nobj + 1 \in Objs /\ nobj' \in 0..MaxObjs
    BY <1>4 DEF CallSet, WellFormed, TypeOK, Objs
  <2>2. [granted |-> g, ttl |-> g] \in Object
    BY TtlAssumption DEF Object
  <2>3. [obj |-> nobj + 1, expiresAt |-> 0] \in LEntry
    BY <2>1 DEF LEntry, Objs
  <2>4. QED
    BY <1>4, <2>1, <2>2, <2>3
       DEF CallSet, Call, Goto, WellFormed, TypeOK, Locals, PcTypes
<1>5. ASSUME NEW t \in Threads, GetLoad(t)
      PROVE  WellFormed'
  <2>1. key[t] \in Live => key[t] \in Keys /\ backend[key[t]].obj # 0
    BY DEF Live
  <2>2. CASE key[t] \in Live
    <3>1. backend[key[t]] \in LEntry /\ backend[key[t]].obj \in Objs
      BY <2>1, <2>2 DEF WellFormed, TypeOK, LEntry, Objs
    <3>2. QED
      BY <1>5, <2>2, <3>1
         DEF GetLoad, Goto, WellFormed, TypeOK, Locals, PcTypes
  <2>3. CASE key[t] \notin Live
    BY <1>5, <2>3, ReturnWellFormed DEF GetLoad, WellFormed, TypeOK
  <2>4. QED
    BY <2>2, <2>3
<1>6. ASSUME NEW t \in Threads, GetClock(t)
      PROVE  WellFormed'
  BY <1>6 DEF GetClock, Expired, Goto, WellFormed, TypeOK, Locals, PcTypes, LEntry
<1>7. ASSUME NEW t \in Threads, GetRewriteTtl(t)
      PROVE  WellFormed'
  <2> DEFINE o == slot[t].obj
  <2>1. o \in Objs /\ slot[t].expiresAt - clk[t] \in Nat
    BY <1>7 DEF GetRewriteTtl, WellFormed, TypeOK, Locals, LEntry
  <2>2. NewTtl(slot[t], clk[t]) \in Nat
    BY <2>1, TickFacts DEF NewTtl
  <2>3. heap' \in [Objs -> Object]
    BY <1>7, <2>1, <2>2 DEF GetRewriteTtl, WellFormed, TypeOK, Object
  <2>4. QED
    BY <1>7, <2>3, ReturnWellFormed DEF GetRewriteTtl, WellFormed, TypeOK
<1>8. ASSUME NEW t \in Threads, RemoveDelete(t)
      PROVE  WellFormed'
  <2>1. backend' \in [Keys -> LEntry]
    BY <1>8 DEF RemoveDelete, WellFormed, TypeOK, LEntry, NoEntry
  <2>2. CASE key[t] \in Live
    BY <1>8, <2>1, <2>2
       DEF RemoveDelete, Goto, WellFormed, TypeOK, Locals, PcTypes
  <2>3. CASE key[t] \notin Live
    BY <1>8, <2>1, <2>3, ReturnWellFormed DEF RemoveDelete, WellFormed, TypeOK
  <2>4. QED
    BY <2>2, <2>3
<1>9. ASSUME NEW t \in Threads, RemoveCount(t)
      PROVE  WellFormed'
  BY <1>9, ReturnWellFormed DEF RemoveCount, WellFormed, TypeOK
<1>10. ASSUME NEW t \in Threads, SetFull(t)
       PROVE  WellFormed'
  BY <1>10 DEF SetFull, Goto, WellFormed, TypeOK, Locals, PcTypes
<1>11. ASSUME NEW t \in Threads, SetExists(t)
       PROVE  WellFormed'
  <2>1. CASE key[t] \in Live
    BY <1>11, <2>1 DEF SetExists, Goto, WellFormed, TypeOK, Locals, PcTypes
  <2>2. CASE key[t] \notin Live
    BY <1>11, <2>2, ReturnWellFormed DEF SetExists, WellFormed, TypeOK
  <2>3. QED
    BY <2>1, <2>2
<1>12. ASSUME NEW t \in Threads, SetStamp(t)
       PROVE  WellFormed'
  <2>1. slot[t] \in LEntry /\ slot[t].obj \in Objs
    BY <1>12 DEF SetStamp, WellFormed, TypeOK, Locals
  <2>2. minTtlFor(slot[t].obj) \in Nat
    BY <2>1, TtlAssumption DEF minTtlFor, WellFormed, TypeOK, Object, NoRRs
  <2>3. now + minTtlFor(slot[t].obj) * TicksPerSecond \in Nat
    BY <2>2, TickFacts DEF WellFormed, TypeOK
  <2>4. slot' \in [Threads -> LEntry] /\ slot'[t].obj = slot[t].obj
    BY <1>12, <2>1, <2>3 DEF SetStamp, WellFormed, TypeOK, LEntry
  <2>5. QED
    BY <1>12, <2>1, <2>4
       DEF SetStamp, Goto, WellFormed, TypeOK, Locals, PcTypes
<1>13. ASSUME NEW t \in Threads, SetSwap(t)
       PROVE  WellFormed'
  <2>1. backend' \in [Keys -> LEntry]
    BY <1>13 DEF SetSwap, WellFormed, TypeOK
  <2>2. CASE key[t] \notin Live
    BY <1>13, <2>1, <2>2 DEF SetSwap, Goto, WellFormed, TypeOK, Locals, PcTypes
  <2>3. CASE key[t] \in Live
    BY <1>13, <2>1, <2>3, ReturnWellFormed DEF SetSwap, WellFormed, TypeOK
  <2>4. QED
    BY <2>2, <2>3
<1>14. ASSUME NEW t \in Threads, SetCount(t)
       PROVE  WellFormed'
  BY <1>14, ReturnWellFormed DEF SetCount, WellFormed, TypeOK
<1>15. CASE UNCHANGED vars
  BY <1>15 DEF vars, WellFormed, TypeOK, Locals
<1>16. QED
  BY <1>1, <1>2, <1>3, <1>4, <1>5, <1>6, <1>7, <1>8, <1>9, <1>10, <1>11, <1>12,
     <1>13, <1>14, <1>15 DEF Next, Begin, Step

\* Every reachable state of the cache has the shape the code gives it.
THEOREM TypeCorrect == Spec => []TypeOK
<1>1. Spec => []WellFormed
  BY InitWellFormed, StepWellFormed, PTL DEF Spec
<1>2. WellFormed => TypeOK
  BY DEF WellFormed
<1>3. QED
  BY <1>1, <1>2, PTL
-----------------------------------------------------------------------------
(* The counter and the map *)

\* The keys in the map and those a Set past its capacity test may still add.
Reserved == Live \cup {key[t] : t \in Passed}

\* The bound that Set's test and the updates under way keep between them.
Reservation ==
  MaxSize > 0 => Cardinality(Reserved) <= MaxSize + Cardinality(Threads) - 1

CapacityInv == WellFormed /\ SizeAccounting /\ Reservation

\* The sets that the accounting counts are finite.
LEMMA FiniteCounts ==
  /\ IsFiniteSet(Live) /\ Cardinality(Live) \in Nat
  /\ IsFiniteSet(Incs) /\ Cardinality(Incs) \in Nat
  /\ IsFiniteSet(Decs) /\ Cardinality(Decs) \in Nat
<1>1. Live \in SUBSET Keys /\ Incs \in SUBSET Threads /\ Decs \in SUBSET Threads
  BY DEF Live, Incs, Decs
<1>2. QED
  BY <1>1, KeysAssumption, ThreadsAssumption, FS_Subset, FS_CardinalityType

\* Goroutine t moves between labels; the others stay where they are.
LEMMA MoveCounts ==
  ASSUME WellFormed, NEW t \in Threads, NEW l, Goto(t, l)
  PROVE  /\ Incs' = IF l = "inc" THEN Incs \cup {t} ELSE Incs \ {t}
         /\ Decs' = IF l = "dec" THEN Decs \cup {t} ELSE Decs \ {t}
         /\ Passed' = IF l \in {"stamp", "swap"} THEN Passed \cup {t}
                                                ELSE Passed \ {t}
BY DEF Goto, Incs, Decs, Passed, WellFormed, TypeOK

\* A step that touches neither the map nor the counter and moves t between
\* labels other than "inc" and "dec" keeps the accounts.
LEMMA QuietAccounting ==
  ASSUME WellFormed, SizeAccounting, NEW t \in Threads, NEW l, Goto(t, l),
         pc[t] \notin {"inc", "dec"}, l \notin {"inc", "dec"},
         size' = size, Live' = Live
  PROVE  SizeAccounting'
<1>1. Incs' = Incs /\ Decs' = Decs
  BY MoveCounts DEF Incs, Decs
<1>2. QED
  BY <1>1 DEF SizeAccounting

\* The counter drifts from the map by the updates under way and no more.
LEMMA StepAccounting ==
  WellFormed /\ SizeAccounting /\ [Next]_vars => SizeAccounting'
<1> SUFFICES ASSUME WellFormed, SizeAccounting, [Next]_vars
             PROVE  SizeAccounting'
    OBVIOUS
<1> USE FiniteCounts
<1>1. backend' = backend => Live' = Live
  BY DEF Live
<1>2. CASE Tick
  BY <1>2 DEF Tick, SizeAccounting, Live, Incs, Decs
<1>3. ASSUME NEW t \in Threads, Begin(t)
      PROVE  SizeAccounting'
  BY <1>1, <1>3, QuietAccounting DEF Begin, CallGet, CallRemove, CallSet, Call
<1>4. ASSUME NEW t \in Threads, GetLoad(t) \/ SetExists(t)
      PROVE  SizeAccounting'
  BY <1>1, <1>4, QuietAccounting DEF GetLoad, SetExists, Return
<1>5. ASSUME NEW t \in Threads,
             GetClock(t) \/ GetRewriteTtl(t) \/ SetFull(t) \/ SetStamp(t)
      PROVE  SizeAccounting'
  BY <1>1, <1>5, QuietAccounting
     DEF GetClock, GetRewriteTtl, SetFull, SetStamp, Return
<1>6. ASSUME NEW t \in Threads, RemoveDelete(t)
      PROVE  SizeAccounting'
  <2>1. Live' = Live \ {key[t]}
    BY <1>6 DEF RemoveDelete, Live, NoEntry, WellFormed, TypeOK
  <2>2. CASE key[t] \in Live
    <3>1. t \notin Decs /\ t \notin Incs
      BY <1>6 DEF RemoveDelete, Incs, Decs
    <3>2. Decs' = Decs \cup {t} /\ Incs' = Incs
      BY <1>6, <2>2, <3>1, MoveCounts DEF RemoveDelete
    <3>3. Cardinality(Live') = Cardinality(Live) - 1
      BY <2>1, <2>2, FS_RemoveElement
    <3>4. Cardinality(Decs') = Cardinality(Decs) + 1
      BY <3>1, <3>2, FS_AddElement
    <3>5. QED
      BY <1>6, <3>2, <3>3, <3>4 DEF RemoveDelete, SizeAccounting
  <2>3. CASE key[t] \notin Live
    BY <1>6, <2>1, <2>3, QuietAccounting DEF RemoveDelete, Return
  <2>4. QED
    BY <2>2, <2>3
<1>7. ASSUME NEW t \in Threads, RemoveCount(t)
      PROVE  SizeAccounting'
  <2>1. t \in Decs /\ t \notin Incs
    BY <1>7 DEF RemoveCount, Incs, Decs
  <2>2. Decs' = Decs \ {t} /\ Incs' = Incs
    BY <1>7, <2>1, MoveCounts DEF RemoveCount, Return
  <2>3. Cardinality(Decs') = Cardinality(Decs) - 1
    BY <2>1, <2>2, FS_RemoveElement
  <2>4. QED
    BY <1>1, <1>7, <2>2, <2>3 DEF RemoveCount, SizeAccounting
<1>8. ASSUME NEW t \in Threads, SetSwap(t)
      PROVE  SizeAccounting'
  <2>1. Live' = Live \cup {key[t]}
    BY <1>8, KeysAssumption
       DEF SetSwap, Live, WellFormed, TypeOK, Locals, Objs
  <2>2. CASE key[t] \notin Live
    <3>1. t \notin Decs /\ t \notin Incs
      BY <1>8 DEF SetSwap, Incs, Decs
    <3>2. Incs' = Incs \cup {t} /\ Decs' = Decs
      BY <1>8, <2>2, <3>1, MoveCounts DEF SetSwap
    <3>3. Cardinality(Live') = Cardinality(Live) + 1
      BY <2>1, <2>2, FS_AddElement
    <3>4. Cardinality(Incs') = Cardinality(Incs) + 1
      BY <3>1, <3>2, FS_AddElement
    <3>5. QED
      BY <1>8, <3>2, <3>3, <3>4 DEF SetSwap, SizeAccounting
  <2>3. CASE key[t] \in Live
    BY <1>8, <2>1, <2>3, QuietAccounting DEF SetSwap, Return
  <2>4. QED
    BY <2>2, <2>3
<1>9. ASSUME NEW t \in Threads, SetCount(t)
      PROVE  SizeAccounting'
  <2>1. t \in Incs /\ t \notin Decs
    BY <1>9 DEF SetCount, Incs, Decs
  <2>2. Incs' = Incs \ {t} /\ Decs' = Decs
    BY <1>9, <2>1, MoveCounts DEF SetCount, Return
  <2>3. Cardinality(Incs') = Cardinality(Incs) - 1
    BY <2>1, <2>2, FS_RemoveElement
  <2>4. QED
    BY <1>1, <1>9, <2>2, <2>3 DEF SetCount, SizeAccounting
<1>10. CASE UNCHANGED vars
  BY <1>10 DEF vars, SizeAccounting, Live, Incs, Decs
<1>11. QED
  BY <1>2, <1>3, <1>4, <1>5, <1>6, <1>7, <1>8, <1>9, <1>10 DEF Next, Step

\* Goroutines past the test reserve at most one key each.
LEMMA KeysOfBound ==
  ASSUME NEW S \in SUBSET Threads
  PROVE  /\ IsFiniteSet({key[t] : t \in S})
         /\ Cardinality({key[t] : t \in S}) <= Cardinality(S)
<1> DEFINE T == {key[t] : t \in S}
           f == [t \in S |-> key[t]]
<1>1. f \in Surjection(S, T)
  BY DEF Surjection
<1>2. IsFiniteSet(S)
  BY ThreadsAssumption, FS_Subset
<1>3. QED
  BY <1>1, <1>2, FS_Surjection

LEMMA UnionBound ==
  ASSUME NEW S, IsFiniteSet(S), NEW T, IsFiniteSet(T)
  PROVE  /\ Cardinality(S \cup T) <= Cardinality(S) + Cardinality(T)
         /\ S \cap T = {} => Cardinality(S \cup T) = Cardinality(S) + Cardinality(T)
<1>1. /\ Cardinality(S) \in Nat /\ Cardinality(T) \in Nat
      /\ Cardinality(S \cap T) \in Nat
      /\ S \cap T = {} => Cardinality(S \cap T) = 0
  BY FS_CardinalityType, FS_Intersection, FS_EmptySet
<1>2. Cardinality(S \cup T) = Cardinality(S) + Cardinality(T) - Cardinality(S \cap T)
  BY FS_Union
<1>3. QED
  BY <1>1, <1>2

LEMMA FiniteReserved == IsFiniteSet(Reserved) /\ Cardinality(Reserved) \in Nat
<1>1. Passed \in SUBSET Threads
  BY DEF Passed
<1>2. QED
  BY <1>1, FiniteCounts, KeysOfBound, FS_Union, FS_CardinalityType DEF Reserved

\* The one step that reserves a new key: Set finds the cache not full.  The
\* counter lags the map by the goroutines in Incs only, and those, the ones
\* already past the test and t itself are different goroutines.
LEMMA SetFullReservation ==
  ASSUME CapacityInv, NEW t \in Threads, SetFull(t), ~Full, MaxSize > 0
  PROVE  Cardinality(Reserved') <= MaxSize + Cardinality(Threads) - 1
<1> DEFINE P == Passed \cup {t}
           K == {key[u] : u \in P}
<1>1. Passed' = P /\ Live' = Live /\ key' = key
  BY MoveCounts DEF CapacityInv, SetFull, Live
<1>2. Reserved' = Live \cup K
  BY <1>1 DEF Reserved
<1>3. /\ P \in SUBSET Threads /\ Incs \in SUBSET Threads
      /\ P \cap Incs = {}
      /\ P \cup Incs \in SUBSET Threads
  BY DEF Passed, Incs, SetFull
<1>4. /\ IsFiniteSet(P) /\ Cardinality(P) \in Nat
      /\ IsFiniteSet(K) /\ Cardinality(K) \in Nat
      /\ Cardinality(K) <= Cardinality(P)
  BY <1>3, KeysOfBound, ThreadsAssumption, FS_Subset, FS_CardinalityType
<1> HIDE DEF P, K
<1>5. Cardinality(P) + Cardinality(Incs) <= Cardinality(Threads)
  <2>1. Cardinality(P \cup Incs) = Cardinality(P) + Cardinality(Incs)
    BY <1>3, <1>4, FiniteCounts, UnionBound
  <2>2. Cardinality(P \cup Incs) <= Cardinality(Threads)
    BY <1>3, ThreadsAssumption, FS_Subset
  <2>3. QED
    BY <2>1, <2>2
<1>6. Cardinality(Live \cup K) <= Cardinality(Live) + Cardinality(K)
  BY <1>4, FiniteCounts, UnionBound
<1>7. Cardinality(Live) <= MaxSize - 1 + Cardinality(Incs)
  BY FiniteCounts, SizeAssumption
     DEF CapacityInv, WellFormed, TypeOK, SizeAccounting, Full
<1>8. Cardinality(Threads) \in Nat /\ Cardinality(Live \cup K) \in Nat
  BY <1>4, FiniteCounts, ThreadsAssumption, FS_Union, FS_CardinalityType
<1>9. QED
  BY <1>2, <1>4, <1>5, <1>6, <1>7, <1>8, FiniteCounts, SizeAssumption

\* Every other step reserves nothing new.
LEMMA QuietReservation ==
  ASSUME CapacityInv, Next, \A t \in Threads : SetFull(t) => Full
  PROVE  Reserved' \subseteq Reserved
<1> USE DEF Reserved, Live, Passed, CapacityInv, WellFormed, TypeOK
<1>1. CASE Tick
  BY <1>1 DEF Tick
<1>2. ASSUME NEW t \in Threads, Begin(t)
      PROVE  Reserved' \subseteq Reserved
  BY <1>2 DEF Begin, CallGet, CallRemove, CallSet, Call, Goto
<1>3. ASSUME NEW t \in Threads,
             GetLoad(t) \/ GetClock(t) \/ GetRewriteTtl(t) \/ RemoveCount(t)
               \/ SetCount(t)
      PROVE  Reserved' \subseteq Reserved
  BY <1>3 DEF GetLoad, GetClock, GetRewriteTtl, RemoveCount, SetCount, Return, Goto
<1>4. ASSUME NEW t \in Threads, RemoveDelete(t)
      PROVE  Reserved' \subseteq Reserved
  BY <1>4 DEF RemoveDelete, Return, Goto, NoEntry
<1>5. ASSUME NEW t \in Threads, SetFull(t)
      PROVE  Reserved' \subseteq Reserved
  BY <1>5 DEF SetFull, Goto
<1>6. ASSUME NEW t \in Threads, SetExists(t)
      PROVE  Reserved' \subseteq Reserved
  BY <1>6 DEF SetExists, Return, Goto
<1>7. ASSUME NEW t \in Threads, SetStamp(t)
      PROVE  Reserved' \subseteq Reserved
  BY <1>7 DEF SetStamp, Goto
<1>8. ASSUME NEW t \in Threads, SetSwap(t)
      PROVE  Reserved' \subseteq Reserved
  BY <1>8 DEF SetSwap, Return, Goto
<1>9. QED
  BY <1>1, <1>2, <1>3, <1>4, <1>5, <1>6, <1>7, <1>8 DEF Next, Step

LEMMA StepReservation == CapacityInv /\ [Next]_vars => Reservation'
<1> SUFFICES ASSUME CapacityInv, [Next]_vars, MaxSize > 0
             PROVE  Cardinality(Reserved') <= MaxSize + Cardinality(Threads) - 1
    BY DEF Reservation
<1>1. CASE \E t \in Threads : SetFull(t) /\ ~Full
  BY <1>1, SetFullReservation
<1>2. CASE Next /\ \A t \in Threads : SetFull(t) => Full
  <2>1. Cardinality(Reserved') <= Cardinality(Reserved)
    BY <1>2, QuietReservation, FiniteReserved, FS_Subset
  <2>2. Cardinality(Reserved') \in Nat /\ Cardinality(Threads) \in Nat
    BY <1>2, QuietReservation, FiniteReserved, ThreadsAssumption, FS_Subset,
       FS_CardinalityType
  <2>3. QED
    BY <2>1, <2>2, FiniteReserved, SizeAssumption DEF CapacityInv, Reservation
<1>3. CASE UNCHANGED vars
  BY <1>3 DEF vars, CapacityInv, Reservation, Reserved, Live, Passed
<1>4. QED
  BY <1>1, <1>2, <1>3

LEMMA InitCapacity == Init => CapacityInv
<1> SUFFICES ASSUME Init PROVE CapacityInv
    OBVIOUS
<1>1. Live = {} /\ Incs = {} /\ Decs = {} /\ Reserved = {}
  BY DEF Init, Live, Incs, Decs, Passed, Reserved, NoEntry
<1>2. Cardinality({}) = 0
  BY FS_EmptySet
<1>3. Cardinality(Threads) \in Nat \ {0}
  BY ThreadsAssumption, FS_CardinalityType, FS_EmptySet
<1>4. QED
  BY <1>1, <1>2, <1>3, InitWellFormed, SizeAssumption
     DEF CapacityInv, SizeAccounting, Reservation, Init

LEMMA CapacityInvariant == Spec => []CapacityInv
<1>1. CapacityInv /\ [Next]_vars => CapacityInv'
  BY StepWellFormed, StepAccounting, StepReservation DEF CapacityInv
<1>2. QED
  BY <1>1, InitCapacity, PTL DEF Spec

\* Length() is exact up to the calls between a map update and its count, for
\* any number of goroutines.
THEOREM SizeIsAccurate == Spec => []SizeAccounting
<1>1. CapacityInv => SizeAccounting
  BY DEF CapacityInv
<1>2. QED
  BY <1>1, CapacityInvariant, PTL

\* A bounded cache never holds more than maxSize entries plus one for each
\* goroutine but one.
THEOREM CapacityIsSoft == Spec => []SoftCapacity
<1>1. CapacityInv => SoftCapacity
  <2> SUFFICES ASSUME CapacityInv, MaxSize > 0
               PROVE  Cardinality(Live) <= MaxSize + Cardinality(Threads) - 1
      BY DEF SoftCapacity
  <2>1. Live \in SUBSET Reserved
    BY DEF Reserved
  <2>2. Cardinality(Live) <= Cardinality(Reserved)
    BY <2>1, FiniteReserved, FS_Subset
  <2>3. Cardinality(Threads) \in Nat
    BY ThreadsAssumption, FS_CardinalityType
  <2>4. QED
    BY <2>2, <2>3, FiniteReserved, FiniteCounts, SizeAssumption
       DEF CapacityInv, Reservation
<1>2. QED
  BY <1>1, CapacityInvariant, PTL

-----------------------------------------------------------------------------
(* Lifetimes *)

\* Entry e, read at an instant, has no more than its granted TTL to live.
Within(e, instant) ==
  e.obj \in Objs /\ heap[e.obj].granted # NoRRs
    => e.expiresAt <= instant + heap[e.obj].granted * TicksPerSecond

\* Entries in the map and in the goroutines' hands keep that bound, the one
\* under a TTL rewrite with respect to the clock reading it will use.
Lifetimes ==
  /\ \A k \in Keys : backend[k].obj <= nobj /\ Within(backend[k], now)
  /\ \A t \in Threads :
       /\ slot[t].obj <= nobj
       /\ pc[t] \in {"swap", "clock"} => Within(slot[t], now)
       /\ pc[t] = "ttl" => Within(slot[t], clk[t])
  /\ \A o \in Objs : heap[o].granted = NoRRs <=> heap[o].ttl = NoRRs

TtlInv == WellFormed /\ Lifetimes /\ TtlWithinGrant

LEMMA InitTtl == Init => TtlInv
BY InitWellFormed, ObjsAssumption
   DEF Init, TtlInv, Lifetimes, Within, TtlWithinGrant, NoEntry, NoRRs, Objs

\* What a TTL rewrite writes is no more than the grant.
LEMMA RewriteBound ==
  ASSUME NEW g \in Nat, NEW n \in Nat, n <= g * TicksPerSecond
  PROVE  n \div TicksPerSecond <= g
BY ClockAssumption

\* The bound only loosens as the clock moves on.
LEMMA WithinLater ==
  ASSUME WellFormed, NEW e \in LEntry, NEW i \in Nat, NEW j \in Nat, i <= j,
         Within(e, i)
  PROVE  Within(e, j)
<1> SUFFICES ASSUME e.obj \in Objs, heap[e.obj].granted # NoRRs
             PROVE  e.expiresAt <= j + heap[e.obj].granted * TicksPerSecond
    BY DEF Within
<1>1. heap[e.obj].granted \in Nat
  BY TtlAssumption DEF WellFormed, TypeOK, Object
<1>2. heap[e.obj].granted * TicksPerSecond \in Nat
  BY <1>1, TickFacts
<1>3. e.expiresAt <= i + heap[e.obj].granted * TicksPerSecond /\ e.expiresAt \in Nat
  BY DEF Within, LEntry
<1>4. QED
  BY <1>2, <1>3

\* A call that returns, or moves to a label where it holds no dated entry,
\* without touching the map or the records, keeps every lifetime.
LEMMA QuietTtl ==
  ASSUME TtlInv, NEW t \in Threads, NEW l, Goto(t, l),
         l \notin {"swap", "clock", "ttl"},
         slot' = slot \/ slot' = [slot EXCEPT ![t] = NoEntry],
         clk' = clk \/ clk' = [clk EXCEPT ![t] = 0],
         backend' = backend, now' = now, heap' = heap, nobj' = nobj
  PROVE  Lifetimes' /\ TtlWithinGrant'
BY DEF TtlInv, WellFormed, TypeOK, Lifetimes, Within, TtlWithinGrant, Goto, NoEntry

\* However the steps interleave, no record gains lifetime.
LEMMA StepTtl == TtlInv /\ [Next]_vars => TtlInv'
<1> SUFFICES ASSUME TtlInv, [Next]_vars
             PROVE  Lifetimes' /\ TtlWithinGrant'
    BY StepWellFormed DEF TtlInv
<1> USE DEF TtlInv
<1>1. CASE Tick
  <2>1. now \in Nat /\ now' \in Nat /\ now <= now'
    BY <1>1 DEF Tick, WellFormed, TypeOK
  <2>2. /\ \A k \in Keys : Within(backend[k], now')
        /\ \A t \in Threads : pc[t] \in {"swap", "clock"} => Within(slot[t], now')
    BY <2>1, WithinLater DEF Lifetimes, WellFormed, TypeOK
  <2>3. QED
    BY <1>1, <2>2 DEF Tick, Lifetimes, Within, TtlWithinGrant
<1>2. ASSUME NEW t \in Threads, NEW k \in Keys,
             CallGet(t, k) \/ CallRemove(t, k)
      PROVE  Lifetimes' /\ TtlWithinGrant'
  BY <1>2, QuietTtl DEF CallGet, CallRemove, Call
<1>3. ASSUME NEW t \in Threads, NEW k \in Keys, NEW g \in Grants \cup {NoRRs},
             CallSet(t, k, g)
      PROVE  Lifetimes' /\ TtlWithinGrant'
  <2>1. /\ nobj \in Nat /\ nobj + 1 \in Objs /\ nobj' = nobj + 1
        /\ \A o \in Objs : o <= nobj => heap'[o] = heap[o]
        /\ heap'[nobj + 1].granted = g /\ heap'[nobj + 1].ttl = g
        /\ \A o \in Objs : o # nobj + 1 => heap'[o] = heap[o]
    <3>1. nobj \in Nat /\ nobj + 1 \in Objs /\ nobj' = nobj + 1
      BY <1>3, ObjsAssumption DEF CallSet, WellFormed, TypeOK, Objs
    <3>2. \A o \in Objs : o \in Int
      BY DEF Objs
    <3>3. heap' = [heap EXCEPT ![nobj + 1] = [granted |-> g, ttl |-> g]]
      BY <1>3 DEF CallSet
    <3>4. heap \in [Objs -> Object]
      BY DEF WellFormed, TypeOK
    <3>5. QED
      BY <3>1, <3>2, <3>3, <3>4
  <2>2. TtlWithinGrant'
    BY <2>1, TtlAssumption DEF TtlWithinGrant, NoRRs
  <2>3. \A o \in Objs : heap'[o].granted = NoRRs <=> heap'[o].ttl = NoRRs
    BY <2>1 DEF Lifetimes
  <2>4. \A k2 \in Keys : backend'[k2].obj <= nobj' /\ Within(backend[k2], now)'
    BY <1>3, <2>1 DEF CallSet, Lifetimes, Within, WellFormed, TypeOK, LEntry
  <2>5. \A u \in Threads : /\ slot'[u].obj <= nobj'
                           /\ pc'[u] \in {"swap", "clock"} => Within(slot[u], now)'
                           /\ pc'[u] = "ttl" => Within(slot[u], clk[u])'
    BY <1>3, <2>1
       DEF CallSet, Call, Goto, Lifetimes, Within, WellFormed, TypeOK, LEntry
  <2>6. QED
    BY <2>2, <2>3, <2>4, <2>5 DEF Lifetimes
<1>4. ASSUME NEW t \in Threads, GetLoad(t)
      PROVE  Lifetimes' /\ TtlWithinGrant'
  <2>1. CASE key[t] \in Live
    BY <1>4, <2>1 DEF GetLoad, Goto, Live, Lifetimes, Within, TtlWithinGrant,
       WellFormed, TypeOK
  <2>2. CASE key[t] \notin Live
    BY <1>4, <2>2, QuietTtl DEF GetLoad, Return
  <2>3. QED
    BY <2>1, <2>2
<1>5. ASSUME NEW t \in Threads, GetClock(t)
      PROVE  Lifetimes' /\ TtlWithinGrant'
  BY <1>5 DEF GetClock, Goto, Lifetimes, Within, TtlWithinGrant, WellFormed, TypeOK
<1>6. ASSUME NEW t \in Threads, GetRewriteTtl(t)
      PROVE  Lifetimes' /\ TtlWithinGrant'
  <2> DEFINE e == slot[t]
             o == e.obj
             n == e.expiresAt - clk[t]
  <2>1. o \in Objs /\ n \in Nat /\ Within(e, clk[t])
    BY <1>6 DEF GetRewriteTtl, WellFormed, TypeOK, Locals, LEntry, Lifetimes
  <2>2. ASSUME heap[o].granted # NoRRs
        PROVE  NewTtl(e, clk[t]) \in 0..heap[o].granted
    <3>1. heap[o].granted \in Nat
      BY <2>1, <2>2, TtlAssumption DEF WellFormed, TypeOK, Object
    <3>2. heap[o].granted * TicksPerSecond \in Nat
      BY <3>1, TickFacts
    <3>3. n <= heap[o].granted * TicksPerSecond
      BY <2>1, <2>2, <3>2 DEF Within, WellFormed, TypeOK, LEntry
    <3>4. QED
      BY <2>1, <3>1, <3>3, RewriteBound, TickFacts DEF NewTtl
  <2>3. /\ heap[o].ttl = NoRRs => heap' = heap
        /\ heap[o].ttl # NoRRs => heap'[o].ttl = NewTtl(e, clk[t])
        /\ \A p \in Objs : heap'[p].granted = heap[p].granted
        /\ \A p \in Objs : p # o => heap'[p] = heap[p]
    BY <1>6, <2>1 DEF GetRewriteTtl, WellFormed, TypeOK, Object
  <2> HIDE DEF e, o, n
  <2>4. TtlWithinGrant'
    BY <2>1, <2>2, <2>3 DEF TtlWithinGrant, Lifetimes
  <2>5. \A p \in Objs : heap'[p].granted = NoRRs <=> heap'[p].ttl = NoRRs
    BY <2>1, <2>2, <2>3, TtlAssumption DEF Lifetimes, NoRRs, WellFormed, TypeOK, Object
  <2>6. \A k \in Keys : backend'[k].obj <= nobj' /\ Within(backend[k], now)'
    BY <1>6, <2>3 DEF GetRewriteTtl, Lifetimes, Within
  <2>7. \A u \in Threads : /\ slot'[u].obj <= nobj'
                           /\ pc'[u] \in {"swap", "clock"} => Within(slot[u], now)'
                           /\ pc'[u] = "ttl" => Within(slot[u], clk[u])'
    BY <1>6, <2>3 DEF GetRewriteTtl, Return, Goto, NoEntry, Lifetimes, Within,
       WellFormed, TypeOK
  <2>8. QED
    BY <2>4, <2>5, <2>6, <2>7 DEF Lifetimes
<1>7. ASSUME NEW t \in Threads, RemoveDelete(t)
      PROVE  Lifetimes' /\ TtlWithinGrant'
  <2>1. \A k \in Keys : backend'[k].obj <= nobj' /\ Within(backend[k], now)'
    BY <1>7 DEF RemoveDelete, Lifetimes, Within, NoEntry, Objs, WellFormed, TypeOK
  <2>2. \A u \in Threads : /\ slot'[u].obj <= nobj'
                           /\ pc'[u] \in {"swap", "clock"} => Within(slot[u], now)'
                           /\ pc'[u] = "ttl" => Within(slot[u], clk[u])'
    BY <1>7 DEF RemoveDelete, Return, Goto, NoEntry, Lifetimes, Within,
       WellFormed, TypeOK
  <2>3. QED
    BY <1>7, <2>1, <2>2 DEF RemoveDelete, Lifetimes, TtlWithinGrant
<1>8. ASSUME NEW t \in Threads, RemoveCount(t) \/ SetCount(t)
      PROVE  Lifetimes' /\ TtlWithinGrant'
  BY <1>8, QuietTtl DEF RemoveCount, SetCount, Return
<1>9. ASSUME NEW t \in Threads, SetFull(t) \/ SetExists(t)
      PROVE  Lifetimes' /\ TtlWithinGrant'
  BY <1>9, QuietTtl DEF SetFull, SetExists, Return
<1>10. ASSUME NEW t \in Threads, SetStamp(t)
       PROVE  Lifetimes' /\ TtlWithinGrant'
  <2> DEFINE o == slot[t].obj
  <2>1. slot[t] \in LEntry /\ o \in Objs
    BY <1>10 DEF SetStamp, WellFormed, TypeOK, Locals
  <2>2. /\ slot'[t].obj = o
        /\ slot'[t].expiresAt = now + minTtlFor(o) * TicksPerSecond
        /\ \A u \in Threads : u # t => slot'[u] = slot[u]
    BY <1>10, <2>1 DEF SetStamp, WellFormed, TypeOK, LEntry
  <2>3. ASSUME heap[o].granted # NoRRs
        PROVE  minTtlFor(o) * TicksPerSecond <= heap[o].granted * TicksPerSecond
    <3>1. /\ heap[o].granted \in Nat /\ minTtlFor(o) \in Nat
          /\ minTtlFor(o) <= heap[o].granted
      <4>1. heap[o].ttl # NoRRs /\ heap[o].ttl \in 0..heap[o].granted
        BY <2>1, <2>3 DEF Lifetimes, TtlWithinGrant
      <4>2. heap[o].granted \in Nat
        BY <2>1, <2>3, TtlAssumption DEF WellFormed, TypeOK, Object
      <4>3. QED
        BY <4>1, <4>2 DEF minTtlFor
    <3>2. QED
      BY <3>1, ClockAssumption
  <2>4. Within(slot[t], now)'
    <3>1. ASSUME heap[o].granted # NoRRs
          PROVE  /\ heap[o].granted * TicksPerSecond \in Nat
                 /\ minTtlFor(o) * TicksPerSecond \in Nat
      BY <2>1, <3>1, TtlAssumption, TickFacts
         DEF WellFormed, TypeOK, Object, minTtlFor
    <3>2. QED
      BY <1>10, <2>1, <2>2, <2>3, <3>1 DEF SetStamp, Within, WellFormed, TypeOK
  <2> HIDE DEF o
  <2>5. \A u \in Threads : u # t => pc'[u] = pc[u] /\ slot'[u] = slot[u]
    BY <1>10, <2>2 DEF SetStamp, Goto, WellFormed, TypeOK
  <2>6. pc'[t] = "swap"
    BY <1>10 DEF SetStamp, Goto, WellFormed, TypeOK
  <2>7. \A u \in Threads : /\ slot'[u].obj <= nobj'
                           /\ pc'[u] \in {"swap", "clock"} => Within(slot[u], now)'
                           /\ pc'[u] = "ttl" => Within(slot[u], clk[u])'
    <3> SUFFICES ASSUME NEW u \in Threads
                 PROVE  /\ slot'[u].obj <= nobj'
                        /\ pc'[u] \in {"swap", "clock"} => Within(slot[u], now)'
                        /\ pc'[u] = "ttl" => Within(slot[u], clk[u])'
        OBVIOUS
    <3>1. CASE u = t
      BY <1>10, <2>2, <2>4, <2>6, <3>1 DEF SetStamp, Lifetimes, o
    <3>2. CASE u # t
      BY <1>10, <2>5, <3>2 DEF SetStamp, Lifetimes, Within
    <3>3. QED
      BY <3>1, <3>2
  <2>8. QED
    BY <1>10, <2>7 DEF SetStamp, Lifetimes, Within, TtlWithinGrant
<1>11. ASSUME NEW t \in Threads, SetSwap(t)
       PROVE  Lifetimes' /\ TtlWithinGrant'
  <2>1. \A k \in Keys : backend'[k].obj <= nobj' /\ Within(backend[k], now)'
    BY <1>11 DEF SetSwap, Lifetimes, Within, WellFormed, TypeOK
  <2>2. \A u \in Threads : /\ slot'[u].obj <= nobj'
                           /\ pc'[u] \in {"swap", "clock"} => Within(slot[u], now)'
                           /\ pc'[u] = "ttl" => Within(slot[u], clk[u])'
    <3>1. /\ UNCHANGED <<now, nobj, heap>> /\ nobj \in Nat
          /\ \A u \in Threads :
               \/ pc'[u] = pc[u] /\ slot'[u] = slot[u] /\ clk'[u] = clk[u]
               \/ pc'[u] = "inc" /\ slot'[u] = slot[u]
               \/ pc'[u] = "idle" /\ slot'[u].obj = 0
      BY <1>11, ObjsAssumption DEF SetSwap, Return, Goto, NoEntry, WellFormed, TypeOK
    <3>2. QED
      BY <3>1 DEF Lifetimes, Within
  <2>3. QED
    BY <1>11, <2>1, <2>2 DEF SetSwap, Lifetimes, TtlWithinGrant
<1>12. CASE UNCHANGED vars
  BY <1>12 DEF vars, Lifetimes, Within, TtlWithinGrant
<1>13. QED
  BY <1>1, <1>2, <1>3, <1>4, <1>5, <1>6, <1>7, <1>8, <1>9, <1>10, <1>11, <1>12
     DEF Next, Begin, Step

\* No interleaving of Gets lets a cached record show more than the TTL it was
\* stored with, or a negative one.
THEOREM TtlNeverGrows == Spec => []TtlWithinGrant
<1>1. TtlInv => TtlWithinGrant
  BY DEF TtlInv
<1>2. QED
  BY <1>1, InitTtl, StepTtl, PTL DEF Spec
=============================================================================
