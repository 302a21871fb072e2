------------------------------- MODULE LCache -------------------------------
(***************************************************************************)
(* The response cache of leng (lcache/cache.go): a sync.Map from keys to   *)
(* entries beside an atomic counter of its size, used by every request     *)
(* goroutine at once with no lock around the pair.  Each action below is   *)
(* one access to memory that other goroutines also touch: a Load, a        *)
(* LoadAndDelete, a Swap, an Add, a reading of the clock, or the rewrite   *)
(* of the TTLs of an entry that is already published.                      *)
(*                                                                         *)
(* An entry is abstracted to an object with the smallest TTL of its        *)
(* resource records (after the first Get all of them carry the same TTL).  *)
(* Keys are the lower-case MD5 digests that KeyGen makes, so the           *)
(* strings.ToLower calls leave them alone.                                 *)
(***************************************************************************)
EXTENDS Integers, FiniteSets

CONSTANTS
  Keys,            \* keys callers use
  NoKey,           \* the key argument of a goroutine that is in no call
  Threads,         \* goroutines that call the cache
  MaxSize,         \* maxSize of NewGeneric; at most 0 means unbounded
  Grants,          \* TTLs, in seconds, a record may arrive with
  MaxTtl,          \* math.MaxUint32, the TTL of an entry without records
  TicksPerSecond,  \* resolution of the clock
  MaxTime,         \* bound: last instant of the clock
  MaxObjs          \* bound: number of entries ever handed to Set

ASSUME KeysAssumption    == IsFiniteSet(Keys) /\ NoKey \notin Keys
ASSUME ThreadsAssumption == IsFiniteSet(Threads) /\ Threads # {}
ASSUME SizeAssumption    == MaxSize \in Int
ASSUME TtlAssumption     == /\ Grants \subseteq Nat
                            /\ MaxTtl \in Nat
                            /\ \A g \in Grants : g <= MaxTtl
ASSUME ClockAssumption   == TicksPerSecond \in Nat \ {0} /\ MaxTime \in Nat
ASSUME ObjsAssumption    == MaxObjs \in Nat

VARIABLES
  backend,  \* the sync.Map: key -> lEntry, NoEntry where the key is absent
  size,     \* the atomic.Int64
  now,      \* the wall clock, in ticks
  heap,     \* object -> granted TTL (history) and current TTL of its records
  nobj,     \* number of objects allocated so far
  pc,       \* where each goroutine is inside Get, Set or Remove
  key,      \* its key argument
  slot,     \* the lEntry it holds
  clk       \* its reading of the clock

vars == <<backend, size, now, heap, nobj, pc, key, slot, clk>>

NoRRs   == -1   \* TTL of an object that has no resource records
Objs    == 1..MaxObjs
NoEntry == [obj |-> 0, expiresAt |-> 0]
LEntry  == [obj : 0..MaxObjs, expiresAt : Nat]
Object  == [granted : Grants \cup {NoRRs}, ttl : Nat \cup {NoRRs}]

\* The keys the map holds.
Live == {k \in Keys : backend[k].obj # 0}

\* Goroutines between a successful Swap and its size.Add(1), between a
\* successful LoadAndDelete and its size.Add(-1), and past Set's capacity test.
Incs   == {t \in Threads : pc[t] = "inc"}
Decs   == {t \in Threads : pc[t] = "dec"}
Passed == {t \in Threads : pc[t] \in {"stamp", "swap"}}

Init ==
  /\ backend = [k \in Keys |-> NoEntry]
  /\ size = 0
  /\ now = 0
  /\ heap = [o \in Objs |-> [granted |-> NoRRs, ttl |-> NoRRs]]
  /\ nobj = 0
  /\ pc = [t \in Threads |-> "idle"]
  /\ key = [t \in Threads |-> NoKey]
  /\ slot = [t \in Threads |-> NoEntry]
  /\ clk = [t \in Threads |-> 0]

Goto(t, l) == pc' = [pc EXCEPT ![t] = l]

\* The call returns; its locals die with it.
Return(t) ==
  /\ Goto(t, "idle")
  /\ key'  = [key EXCEPT ![t] = NoKey]
  /\ slot' = [slot EXCEPT ![t] = NoEntry]
  /\ clk'  = [clk EXCEPT ![t] = 0]

Call(t, k, l) ==
  /\ pc[t] = "idle"
  /\ Goto(t, l)
  /\ key' = [key EXCEPT ![t] = k]

-----------------------------------------------------------------------------
(* Get *)

CallGet(t, k) ==
  /\ Call(t, k, "load")
  /\ UNCHANGED <<backend, size, now, heap, nobj, slot, clk>>

\* c.backend.Load(key): KeyNotFound, or go on with the entry it saw.
GetLoad(t) ==
  /\ pc[t] = "load"
  /\ \/ /\ key[t] \notin Live
        /\ Return(t)
     \/ /\ key[t] \in Live
        /\ slot' = [slot EXCEPT ![t] = backend[key[t]]]
        /\ Goto(t, "clock")
        /\ UNCHANGED <<key, clk>>
  /\ UNCHANGED <<backend, size, now, heap, nobj>>

\* A slip of Expired: the operands of After exchanged.
ExpiredSwapped(e, instant) == e.expiresAt > instant

\* now.After(entry.expiresAt) is a strict comparison.
Expired(e, instant) == instant > e.expiresAt

\* wallClock.Now() and the expiry test on the entry seen earlier.
GetClock(t) ==
  /\ pc[t] = "clock"
  /\ clk' = [clk EXCEPT ![t] = now]
  /\ Goto(t, IF Expired(slot[t], now) THEN "evict" ELSE "ttl")
  /\ UNCHANGED <<backend, size, now, heap, nobj, key, slot>>

\* The rest of the lifetime, truncated to whole seconds.
NewTtl(e, instant) == (e.expiresAt - instant) \div TicksPerSecond

\* The unsynchronised write of the TTLs of the shared records, then return.
GetRewriteTtl(t) ==
  /\ pc[t] = "ttl"
  /\ LET o == slot[t].obj
     IN  heap' = [heap EXCEPT ![o].ttl =
                    IF @ = NoRRs THEN NoRRs ELSE NewTtl(slot[t], clk[t])]
  /\ Return(t)
  /\ UNCHANGED <<backend, size, now, nobj>>

-----------------------------------------------------------------------------
(* Remove, called by its users, by Set with a nil entry, and by Get *)

CallRemove(t, k) ==
  /\ Call(t, k, "remove")
  /\ UNCHANGED <<backend, size, now, heap, nobj, slot, clk>>

\* c.backend.LoadAndDelete(key): whatever entry the map holds by now.
RemoveDelete(t) ==
  /\ pc[t] \in {"remove", "evict"}
  /\ backend' = [backend EXCEPT ![key[t]] = NoEntry]
  /\ \/ /\ key[t] \in Live
        /\ Goto(t, "dec")
        /\ UNCHANGED <<key, slot, clk>>
     \/ /\ key[t] \notin Live
        /\ Return(t)
  /\ UNCHANGED <<size, now, heap, nobj>>

RemoveCount(t) ==
  /\ pc[t] = "dec"
  /\ size' = size - 1
  /\ Return(t)
  /\ UNCHANGED <<backend, now, heap, nobj>>

-----------------------------------------------------------------------------
(* Set *)

\* A caller hands over a fresh entry whose smallest TTL is g, or without RRs.
CallSet(t, k, g) ==
  /\ nobj < MaxObjs
  /\ Call(t, k, "full")
  /\ nobj' = nobj + 1
  /\ heap' = [heap EXCEPT ![nobj + 1] = [granted |-> g, ttl |-> g]]
  /\ slot' = [slot EXCEPT ![t] = [obj |-> nobj + 1, expiresAt |-> 0]]
  /\ UNCHANGED <<backend, size, now, clk>>

\* A slip of Full: the comparison lets one entry too many in.
FullOffByOne == MaxSize > 0 /\ size > MaxSize

Full == MaxSize > 0 /\ size >= MaxSize

SetFull(t) ==
  /\ pc[t] = "full"
  /\ Goto(t, IF Full THEN "exists" ELSE "stamp")
  /\ UNCHANGED <<backend, size, now, heap, nobj, key, slot, clk>>

\* c.Exists(key): an existing key may still be replaced, else CacheIsFull.
SetExists(t) ==
  /\ pc[t] = "exists"
  /\ \/ /\ key[t] \in Live
        /\ Goto(t, "stamp")
        /\ UNCHANGED <<key, slot, clk>>
     \/ /\ key[t] \notin Live
        /\ Return(t)
  /\ UNCHANGED <<backend, size, now, heap, nobj>>

\* A slip of minTtlFor: no starting value for an entry without records.
minTtlForNoDefault(o) == heap[o].ttl

\* The smallest TTL of the entry's records, math.MaxUint32 if it has none.
minTtlFor(o) == IF heap[o].ttl = NoRRs THEN MaxTtl ELSE heap[o].ttl

\* wallClock.Now() and the instant the entry expires at.
SetStamp(t) ==
  /\ pc[t] = "stamp"
  /\ slot' = [slot EXCEPT ![t].expiresAt =
                now + minTtlFor(slot[t].obj) * TicksPerSecond]
  /\ Goto(t, "swap")
  /\ UNCHANGED <<backend, size, now, heap, nobj, key, clk>>

\* A slip of SetSwap: the size grows even when the key was there before.
SetSwapCountsAll(t) ==
  /\ pc[t] = "swap"
  /\ backend' = [backend EXCEPT ![key[t]] = slot[t]]
  /\ Goto(t, "inc")
  /\ UNCHANGED <<size, now, heap, nobj, key, slot, clk>>

\* c.backend.Swap(key, e): only a key that was absent is counted.
SetSwap(t) ==
  /\ pc[t] = "swap"
  /\ backend' = [backend EXCEPT ![key[t]] = slot[t]]
  /\ \/ /\ key[t] \notin Live
        /\ Goto(t, "inc")
        /\ UNCHANGED <<key, slot, clk>>
     \/ /\ key[t] \in Live
        /\ Return(t)
  /\ UNCHANGED <<size, now, heap, nobj>>

SetCount(t) ==
  /\ pc[t] = "inc"
  /\ size' = size + 1
  /\ Return(t)
  /\ UNCHANGED <<backend, now, heap, nobj>>

-----------------------------------------------------------------------------

Tick ==
  /\ now < MaxTime
  /\ now' = now + 1
  /\ UNCHANGED <<backend, size, heap, nobj, pc, key, slot, clk>>

Begin(t) ==
  \E k \in Keys : \/ CallGet(t, k)
                  \/ CallRemove(t, k)
                  \/ \E g \in Grants \cup {NoRRs} : CallSet(t, k, g)

Step(t) ==
  \/ GetLoad(t) \/ GetClock(t) \/ GetRewriteTtl(t)
  \/ RemoveDelete(t) \/ RemoveCount(t)
  \/ SetFull(t) \/ SetExists(t) \/ SetStamp(t) \/ SetSwap(t) \/ SetCount(t)

Next == Tick \/ \E t \in Threads : Begin(t) \/ Step(t)

Spec == Init /\ [][Next]_vars

-----------------------------------------------------------------------------
(* Properties *)

PcTypes == {"idle", "load", "clock", "ttl", "remove", "evict", "dec",
            "full", "exists", "stamp", "swap", "inc"}

\* Every variable has the shape the code gives it.
TypeOK ==
  /\ backend \in [Keys -> LEntry]
  /\ size \in Int
  /\ now \in Nat
  /\ heap \in [Objs -> Object]
  /\ nobj \in 0..MaxObjs
  /\ pc \in [Threads -> PcTypes]
  /\ key \in [Threads -> Keys \cup {NoKey}]
  /\ \A t \in Threads : key[t] = NoKey <=> pc[t] = "idle"
  /\ slot \in [Threads -> LEntry]
  /\ clk \in [Threads -> Nat]

\* The counter and the map are updated apart, yet they drift only by the
\* updates still under way: Length() is exact whenever no call is between its
\* map operation and its counter operation (Set lines 118-121, Remove 132-135).
SizeAccounting ==
  size = Cardinality(Live) - Cardinality(Incs) + Cardinality(Decs)

\* Set tests the capacity and inserts in separate steps, so a bounded cache can
\* overshoot maxSize, but never by more than the number of goroutines that use
\* it less one, however Set, Get and Remove interleave.
SoftCapacity ==
  MaxSize > 0 => Cardinality(Live) <= MaxSize + Cardinality(Threads) - 1

\* However concurrent Gets overwrite each other's TTL, a record in the cache
\* never shows a TTL above the one it was stored with, and never a negative one
\* that uint32 would turn into a huge lifetime.
TtlWithinGrant ==
  \A o \in Objs : heap[o].granted # NoRRs => heap[o].ttl \in 0..heap[o].granted
=============================================================================
