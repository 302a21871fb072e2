------------------------ MODULE SharedAnswersProofs ------------------------
(***************************************************************************)
(* What is cached stays as it was cached, for any number of requests, any  *)
(* answers and any depth of CNAME following.  Two layers: the shape of the *)
(* state (Shape), and who may write to which part of an array (the rest).  *)
(***************************************************************************)
EXTENDS SharedAnswers, FiniteSetTheorems, TLAPS

Slot == Records \cup {NoRecord}

\* A slice of an array that exists, within its bounds.
Proper(s) ==
  /\ s \in [arr : Nat, len : Nat]
  /\ s.arr \in 1..Len(arrays)
  /\ s.len <= Capacity(s)

\* The request has its response.
Started(r) == pc[r] \notin {"begin", "lookup"}

\* The records of its slice that the request has stored already.
Stored(r) == IF pc[r] = "store" THEN resp[r].len - 1 ELSE resp[r].len

Shape ==
  /\ arrays \in Seq(Seq(Slot))
  /\ cache = NoSlice \/ Proper(cache)
  /\ kept \in Seq(Records)
  /\ \A s \in copies : Proper(s)
  /\ fillers \subseteq Reqs /\ \A r \in fillers : Started(r)
  /\ pc \in [Reqs -> {"begin", "lookup", "round", "append", "store", "reply", "done"}]
  /\ resp \in [Reqs -> [arr : Nat, len : Nat]]
  /\ \A r \in Reqs : IF Started(r) THEN Proper(resp[r]) ELSE resp[r] = NoSlice
  /\ todo \in [Reqs -> Seq(Records)] /\ own \in [Reqs -> Seq(Records)]
  /\ \A r \in Reqs : pc[r] = "store" => todo[r] # <<>> /\ resp[r].len > 0
  /\ depth \in [Reqs -> 0..FollowCnameDepth]
  /\ lookups \in 0..MaxLookups /\ crashed \in BOOLEAN

\* Until its filler has run, a request has its array to itself, and the array has
\* nothing but free slots past what the request has stored.
Private ==
  \A r \in fillers :
    /\ resp[r].arr # cache.arr
    /\ \A s \in copies : s.arr # resp[r].arr
    /\ \A q \in Reqs : q # r => resp[q].arr # resp[r].arr
    /\ \A i \in 1..Capacity(resp[r]) :
         i > Stored(r) => arrays[resp[r].arr][i] = NoRecord

\* A copy on its way to the cache shares its array with the request it was made
\* from and no other, which goes on past the end of the copy, or has yet to store
\* the last record of it.
OneWriter ==
  \A s \in copies :
    /\ s.arr # cache.arr
    /\ \A t \in copies : t.arr = s.arr => t = s
    /\ \A p, q \in Reqs : resp[p].arr = s.arr /\ resp[q].arr = s.arr => p = q
    /\ \A q \in Reqs :
         resp[q].arr = s.arr =>
           /\ s.len <= resp[q].len
           /\ Stored(q) < s.len => arrays[s.arr][s.len] = NoRecord

\* Requests that share the array of the entry write past the end of the entry.
PastEntry ==
  cache # NoSlice =>
    \A q \in Reqs : resp[q].arr = cache.arr => cache.len <= Stored(q)

Inv == Shape /\ Private /\ OneWriter /\ PastEntry /\ EntryIntact
-----------------------------------------------------------------------------
(* Arrays and slices *)

LEMMA NoRecords ==
  ASSUME NEW n \in Nat
  PROVE  LET free == [i \in 1..n |-> NoRecord]
         IN  free \in Seq(Slot) /\ Len(free) = n /\ \A i \in 1..n : free[i] = NoRecord
BY DEF Slot

\* Records with free slots after them.
LEMMA Extended ==
  ASSUME NEW records \in Seq(Slot), NEW free \in Seq(Slot),
         \A i \in 1..Len(free) : free[i] = NoRecord
  PROVE  /\ records \o free \in Seq(Slot)
         /\ Len(records \o free) = Len(records) + Len(free)
         /\ \A i \in 1..Len(records) : (records \o free)[i] = records[i]
         /\ \A i \in 1..Len(records \o free) :
              i > Len(records) => (records \o free)[i] = NoRecord
OBVIOUS

\* What unpacking makes: the records, then free slots.
LEMMA UnpackedArray ==
  ASSUME NEW records \in Seq(Records)
  PROVE  /\ Unpacked(records) \in Seq(Slot) /\ Len(Unpacked(records)) >= Len(records)
         /\ \A i \in 1..Len(records) : Unpacked(records)[i] = records[i]
         /\ \A i \in 1..Len(Unpacked(records)) :
              i > Len(records) => Unpacked(records)[i] = NoRecord
<1>1. Room(Len(records)) \in Nat
  <2> DEFINE n == Len(records)
             sizes == {size \in (n + 1)..(2 * n) :
                         \A k \in 0..n : 2^k \notin n..(size - 1)}
  <2>1. IsFiniteSet((n + 1)..(2 * n))
    BY FS_Interval
  <2>2. IsFiniteSet(sizes)
    BY <2>1, FS_Subset
  <2>3. QED
    BY <2>2, FS_CardinalityType DEF Room
<1>2. records \in Seq(Slot)
  BY DEF Slot
<1> DEFINE free == [i \in 1..Room(Len(records)) |-> NoRecord]
<1>3. /\ free \in Seq(Slot) /\ Len(free) \in Nat
      /\ \A i \in 1..Len(free) : free[i] = NoRecord
  BY <1>1, NoRecords
<1>4. Unpacked(records) = records \o free
  BY DEF Unpacked
<1> HIDE DEF free
<1>5. QED
  BY <1>2, <1>3, <1>4, Extended

\* What append allocates: the records, then at least one free slot.
LEMMA GrownArray ==
  ASSUME NEW records \in Seq(Slot)
  PROVE  /\ Grown(records) \in Seq(Slot) /\ Len(Grown(records)) > Len(records)
         /\ \A i \in 1..Len(records) : Grown(records)[i] = records[i]
         /\ \A i \in 1..Len(Grown(records)) :
              i > Len(records) => Grown(records)[i] = NoRecord
<1> DEFINE n == IF records = <<>> THEN 1 ELSE Len(records)
<1>1. n \in Nat \ {0}
  OBVIOUS
<1> HIDE DEF n
<1> DEFINE free == [i \in 1..n |-> NoRecord]
<1>2. /\ free \in Seq(Slot) /\ Len(free) = n
      /\ \A i \in 1..Len(free) : free[i] = NoRecord
  BY <1>1, NoRecords
<1>3. Grown(records) = records \o free
  BY DEF Grown, n
<1> HIDE DEF free
<1>4. QED
  BY <1>1, <1>2, <1>3, Extended

\* The first n slots of an array.
LEMMA Prefix ==
  ASSUME NEW n \in Nat, NEW a, \A i \in 1..n : a[i] \in Slot
  PROVE  /\ [i \in 1..n |-> a[i]] \in Seq(Slot) /\ Len([i \in 1..n |-> a[i]]) = n
         /\ \A j \in 1..n : [i \in 1..n |-> a[i]][j] = a[j]
OBVIOUS

\* What a slice shows.
LEMMA ViewOfProper ==
  ASSUME arrays \in Seq(Seq(Slot)), NEW s, Proper(s)
  PROVE  /\ View(s) \in Seq(Slot) /\ Len(View(s)) = s.len
         /\ \A i \in 1..s.len : View(s)[i] = arrays[s.arr][i]
<1>1. arrays[s.arr] \in Seq(Slot)
  BY DEF Proper
<1>2. \A i \in 1..s.len : arrays[s.arr][i] \in Slot
  BY <1>1 DEF Proper, Capacity
<1>3. s.len \in Nat
  BY DEF Proper
<1>4. QED
  BY <1>2, <1>3, Prefix DEF View

\* A new array leaves the others as they were.
LEMMA ArrayAppended ==
  ASSUME arrays \in Seq(Seq(Slot)), NEW a \in Seq(Slot), arrays' = Append(arrays, a)
  PROVE  /\ arrays' \in Seq(Seq(Slot)) /\ Len(arrays') = Len(arrays) + 1
         /\ arrays'[Len(arrays) + 1] = a
         /\ \A i \in 1..Len(arrays) : arrays'[i] = arrays[i]
OBVIOUS

\* A record stored leaves the other slots as they were.
LEMMA RecordStored ==
  ASSUME arrays \in Seq(Seq(Slot)), NEW a \in 1..Len(arrays),
         NEW i \in 1..Len(arrays[a]), NEW x \in Slot,
         arrays' = [arrays EXCEPT ![a][i] = x]
  PROVE  /\ arrays' \in Seq(Seq(Slot)) /\ Len(arrays') = Len(arrays)
         /\ \A b \in 1..Len(arrays) :
              /\ Len(arrays'[b]) = Len(arrays[b])
              /\ \A j \in 1..Len(arrays[b]) :
                   arrays'[b][j] = IF b = a /\ j = i THEN x ELSE arrays[b][j]
<1>1. arrays[a] \in Seq(Slot)
  OBVIOUS
<1> DEFINE new == [arrays[a] EXCEPT ![i] = x]
<1>2. /\ new \in Seq(Slot) /\ Len(new) = Len(arrays[a])
      /\ \A j \in 1..Len(arrays[a]) : new[j] = IF j = i THEN x ELSE arrays[a][j]
  BY <1>1
<1>3. arrays' = [arrays EXCEPT ![a] = new]
  OBVIOUS
<1> HIDE DEF new
<1>4. QED
  BY <1>2, <1>3

-----------------------------------------------------------------------------
(* Every step preserves Inv *)

LEMMA InitInv == Init => Inv
<1> SUFFICES ASSUME Init
             PROVE  Inv
    OBVIOUS
<1>1. arrays \in Seq(Seq(Slot)) /\ kept \in Seq(Records)
  BY DEF Init
<1>2. todo \in [Reqs -> Seq(Records)] /\ own \in [Reqs -> Seq(Records)]
  <2>1. <<>> \in Seq(Records)
    OBVIOUS
  <2>2. QED
    BY <2>1 DEF Init
<1>2a. depth \in [Reqs -> 0..FollowCnameDepth] /\ lookups \in 0..MaxLookups
  BY FollowAssumption DEF Init
<1>2b. crashed \in BOOLEAN /\ resp \in [Reqs -> [arr : Nat, len : Nat]]
  BY DEF Init, NoSlice
<1>3. Shape
  BY <1>1, <1>2, <1>2a, <1>2b DEF Init, Shape, Started
<1>4. QED
  BY <1>3 DEF Init, Inv, Private, OneWriter, PastEntry, EntryIntact

\* Steps of a request that leave arrays, slices and the cache alone.
LEMMA QuietStep ==
  ASSUME Inv, NEW r \in Reqs,
         \/ Miss(r) \/ Round(r) \/ EndRounds(r) \/ EndRound(r) \/ Skip(r) \/ Reply(r)
  PROVE  Inv'
<1>1. /\ UNCHANGED <<arrays, cache, kept, fillers, copies, resp, crashed>>
      /\ pc' \in [Reqs -> {"begin", "lookup", "round", "append", "store", "reply", "done"}]
      /\ \A q \in Reqs : pc'[q] = "store" <=> pc[q] = "store"
      /\ \A q \in Reqs : pc'[q] \in {"begin", "lookup"} <=> pc[q] \in {"begin", "lookup"}
      /\ \A q \in Reqs : pc[q] = "store" => todo'[q] = todo[q]
  BY DEF Inv, Shape, Miss, Round, EndRounds, EndRound, Skip, Reply, Goto, world
<1>2. /\ todo' \in [Reqs -> Seq(Records)] /\ own' \in [Reqs -> Seq(Records)]
      /\ depth' \in [Reqs -> 0..FollowCnameDepth] /\ lookups' \in 0..MaxLookups
  <2> USE FollowAssumption DEF Inv, Shape, world
  <2>1. CASE Miss(r)
    BY <2>1 DEF Miss
  <2>2. CASE Round(r)
    <3>1. PICK f \in Followed : todo' = [todo EXCEPT ![r] = f]
      BY <2>2 DEF Round
    <3>2. f \in Seq(Records)
      BY <3>1, AnswersAssumption
    <3>3. todo' \in [Reqs -> Seq(Records)]
      BY <3>1, <3>2
    <3>4. QED
      BY <2>2, <3>3 DEF Round
  <2>3. CASE EndRounds(r) \/ EndRound(r)
    BY <2>3 DEF EndRounds, EndRound
  <2>4. CASE Skip(r)
    BY <2>4 DEF Skip
  <2>5. CASE Reply(r)
    BY <2>5 DEF Reply
  <2>6. QED
    BY <2>1, <2>2, <2>3, <2>4, <2>5
<1>3. /\ \A q \in Reqs : Started(q)' <=> Started(q)
      /\ \A q \in Reqs : Stored(q)' = Stored(q)
      /\ \A s : Proper(s)' <=> Proper(s)
      /\ \A s : Capacity(s)' = Capacity(s)
      /\ \A s : View(s)' = View(s)
  BY <1>1 DEF Started, Stored, Proper, Capacity, View
<1>4. Shape'
  BY <1>1, <1>2, <1>3 DEF Inv, Shape
<1>5. Private' /\ OneWriter' /\ PastEntry' /\ EntryIntact'
  <2>1. fillers \subseteq Reqs
    BY DEF Inv, Shape
  <2>2. Private'
    BY <1>1, <1>3, <2>1 DEF Inv, Private
  <2>3. OneWriter'
    BY <1>1, <1>3 DEF Inv, OneWriter
  <2>4. PastEntry' /\ EntryIntact'
    BY <1>1, <1>3 DEF Inv, PastEntry, EntryIntact
  <2>5. QED
    BY <2>2, <2>3, <2>4
<1>6. QED
  BY <1>4, <1>5 DEF Inv

LEMMA HitStep ==
  ASSUME Inv, NEW r \in Reqs, Hit(r)
  PROVE  Inv'
<1>1. /\ UNCHANGED <<arrays, todo, depth, cache, kept, fillers, copies, lookups, crashed>>
      /\ pc' = [pc EXCEPT ![r] = "round"] /\ resp' = [resp EXCEPT ![r] = cache]
      /\ own' = [own EXCEPT ![r] = kept]
      /\ cache # NoSlice /\ pc[r] = "begin" /\ ~Started(r) /\ r \notin fillers
  BY DEF Inv, Shape, Hit, Goto, world, EntryIntact, Started
<1>2. /\ \A s : Proper(s)' <=> Proper(s)
      /\ \A s : Capacity(s)' = Capacity(s)
      /\ \A s : View(s)' = View(s)
      /\ \A q \in Reqs \ {r} : Started(q)' = Started(q) /\ Stored(q)' = Stored(q)
      /\ Started(r)' /\ Stored(r)' = cache.len
  BY <1>1 DEF Proper, Capacity, View, Started, Stored, Inv, Shape
<1>3. resp' \in [Reqs -> [arr : Nat, len : Nat]] /\ Proper(cache) /\ cache.arr # 0
  BY <1>1 DEF Inv, Shape, Proper
<1>4. Shape'
  BY <1>1, <1>2, <1>3 DEF Inv, Shape
<1>4a. /\ fillers \subseteq Reqs \ {r} /\ resp'[r] = cache /\ cache.len \in Nat
       /\ \A q \in Reqs \ {r} : resp'[q] = resp[q]
  BY <1>1, <1>3 DEF Inv, Shape, Proper
<1>5. Private'
  BY <1>1, <1>2, <1>4a DEF Inv, Private
<1>6. OneWriter'
  BY <1>1, <1>2, <1>4a DEF Inv, OneWriter
<1>7. PastEntry' /\ EntryIntact'
  <2>1. ASSUME NEW q \in Reqs, resp'[q].arr = cache.arr
        PROVE  cache.len <= Stored(q)'
    <3>1. CASE q = r
      BY <1>2, <1>4a, <3>1
    <3>2. CASE q # r
      BY <1>1, <1>2, <1>4a, <2>1, <3>2 DEF Inv, PastEntry
    <3>3. QED
      BY <3>1, <3>2
  <2>2. QED
    BY <1>1, <1>2, <2>1 DEF Inv, PastEntry, EntryIntact
<1>8. QED
  BY <1>4, <1>5, <1>6, <1>7 DEF Inv

\* A request goes on with an array of its own, of which it has stored m slots:
\* nobody else is concerned.
LEMMA NewArray ==
  ASSUME Inv, NEW r \in Reqs, NEW a \in Seq(Slot), NEW n \in Nat, NEW m \in Nat,
         n <= Len(a),
         arrays' \in Seq(Seq(Slot)), Len(arrays') = Len(arrays) + 1,
         arrays'[Len(arrays) + 1] = a,
         \A i \in 1..Len(arrays) : arrays'[i] = arrays[i],
         resp' = [resp EXCEPT ![r] = [arr |-> Len(arrays'), len |-> n]],
         \A q \in Reqs \ {r} : pc'[q] = pc[q],
         Started(r)', Stored(r)' = m,
         fillers' \subseteq fillers \cup {r},
         r \in fillers' => \A i \in 1..Len(a) : i > m => a[i] = NoRecord,
         UNCHANGED <<cache, kept, copies>>
  PROVE  /\ arrays' \in Seq(Seq(Slot)) /\ resp' \in [Reqs -> [arr : Nat, len : Nat]]
         /\ \A s : Proper(s) => Proper(s)'
         /\ \A q \in Reqs : IF Started(q)' THEN Proper(resp[q])' ELSE resp'[q] = NoSlice
         /\ \A q \in fillers' : Started(q)'
         /\ Private' /\ OneWriter' /\ PastEntry' /\ EntryIntact'
<1>1. Len(arrays) \in Nat /\ Len(arrays') = Len(arrays) + 1
  BY DEF Inv, Shape
<1>2. /\ resp' \in [Reqs -> [arr : Nat, len : Nat]]
      /\ resp'[r].arr = Len(arrays) + 1 /\ resp'[r].len = n
      /\ \A q \in Reqs \ {r} : resp'[q] = resp[q]
  BY <1>1 DEF Inv, Shape
<1>3. ASSUME NEW s, Proper(s)
      PROVE  /\ Proper(s)' /\ s.arr < Len(arrays) + 1
             /\ arrays'[s.arr] = arrays[s.arr]
             /\ Capacity(s)' = Capacity(s) /\ View(s)' = View(s)
  <2>1. s.arr \in 1..Len(arrays)
    BY <1>3 DEF Proper
  <2>2. s.arr \in 1..Len(arrays') /\ s.arr < Len(arrays) + 1 /\ arrays'[s.arr] = arrays[s.arr]
    BY <1>1, <2>1
  <2>3. QED
    BY <1>3, <2>2 DEF Proper, Capacity, View
<1>4. \A q \in Reqs \ {r} : /\ Started(q)' = Started(q) /\ Stored(q)' = Stored(q)
                            /\ resp[q] = NoSlice \/ Proper(resp[q])
  BY <1>2 DEF Inv, Shape, Started, Stored
<1>5. Proper(resp[r])' /\ Capacity(resp[r])' = Len(a)
  BY <1>1, <1>2 DEF Proper, Capacity
<1>5a. NoSlice.arr < Len(arrays) + 1
  BY <1>1 DEF NoSlice
<1>6. \A q \in Reqs \ {r} : resp'[q].arr < Len(arrays) + 1
  BY <1>2, <1>3, <1>4, <1>5a
<1>7. /\ cache.arr < Len(arrays) + 1
      /\ \A s \in copies : s.arr < Len(arrays) + 1
  <2>1. (cache = NoSlice \/ Proper(cache)) /\ \A s \in copies : Proper(s)
    BY DEF Inv, Shape
  <2>2. QED
    BY <1>3, <1>5a, <2>1
<1>8. /\ \A q \in Reqs : IF Started(q)' THEN Proper(resp[q])' ELSE resp'[q] = NoSlice
      /\ \A q \in fillers' : Started(q)'
  <2>1. ASSUME NEW q \in Reqs
        PROVE  IF Started(q)' THEN Proper(resp[q])' ELSE resp'[q] = NoSlice
    <3>1. CASE q = r
      BY <3>1, <1>5
    <3>2. CASE q # r
      <4>1. Started(q)' = Started(q) /\ resp'[q] = resp[q]
        BY <3>2, <1>2, <1>4
      <4>2. Proper(resp[q]) => Proper(resp[q])'
        BY <4>1, <1>3
      <4>3. QED
        BY <4>1, <4>2 DEF Inv, Shape
    <3>3. QED
      BY <3>1, <3>2
  <2>2. \A q \in fillers' : Started(q)'
    BY <1>4 DEF Inv, Shape
  <2>3. QED
    BY <2>1, <2>2
<1>9. Private'
  <2> SUFFICES ASSUME NEW q \in fillers'
               PROVE  /\ (resp[q].arr # cache.arr)'
                      /\ \A s \in copies' : s.arr # resp'[q].arr
                      /\ \A p \in Reqs : p # q => resp'[p].arr # resp'[q].arr
                      /\ \A i \in 1..Capacity(resp[q])' :
                           i > Stored(q)' => arrays'[resp'[q].arr][i] = NoRecord
    BY DEF Private
  <2>1. CASE q = r
    <3>1. resp'[q].arr = Len(arrays) + 1
      BY <2>1, <1>2
    <3>2. /\ resp'[q].arr # cache.arr
          /\ \A s \in copies : s.arr # resp'[q].arr
      BY <1>1, <1>7, <3>1
    <3>3. \A p \in Reqs : p # q => resp'[p].arr # resp'[q].arr
      BY <2>1, <1>1, <1>6, <3>1
    <3>4. \A i \in 1..Capacity(resp[q])' :
            i > Stored(q)' => arrays'[resp'[q].arr][i] = NoRecord
      BY <2>1, <1>5, <3>1
    <3>5. QED
      BY <3>2, <3>3, <3>4
  <2>2. CASE q # r
    <3>1. q \in fillers /\ q \in Reqs \ {r} /\ Proper(resp[q])
      BY <2>2 DEF Inv, Shape
    <3>2. /\ resp'[q] = resp[q] /\ Stored(q)' = Stored(q)
          /\ arrays'[resp[q].arr] = arrays[resp[q].arr]
          /\ Capacity(resp[q])' = Capacity(resp[q])
      BY <3>1, <1>2, <1>3, <1>4 DEF Capacity
    <3>3. resp'[q].arr < Len(arrays) + 1
      BY <3>1, <1>6
    <3>4. /\ resp[q].arr # cache.arr
          /\ \A s \in copies : s.arr # resp[q].arr
          /\ \A p \in Reqs : p # q => resp[p].arr # resp[q].arr
          /\ \A i \in 1..Capacity(resp[q]) :
               i > Stored(q) => arrays[resp[q].arr][i] = NoRecord
      BY <3>1 DEF Inv, Private
    <3>5. \A p \in Reqs : p # q => resp'[p].arr # resp'[q].arr
      BY <3>2, <3>3, <3>4, <1>2
    <3>6. /\ (resp[q].arr # cache.arr)'
          /\ \A s \in copies' : s.arr # resp'[q].arr
      BY <3>2, <3>4
    <3>7. ASSUME NEW i \in 1..Capacity(resp[q])', i > Stored(q)'
          PROVE  arrays'[resp'[q].arr][i] = NoRecord
      BY <3>2, <3>4, <3>7
    <3>8. QED
      BY <3>5, <3>6, <3>7
  <2>3. QED
    BY <2>1, <2>2
<1>10. OneWriter'
  <2>1. \A s \in copies : /\ s.arr < Len(arrays) + 1
                          /\ arrays'[s.arr] = arrays[s.arr]
    BY <1>3 DEF Inv, Shape
  <2>2. \A q \in Reqs, s \in copies : resp'[q].arr = s.arr => q # r
    BY <1>2, <2>1 DEF Inv, Shape
  <2>3. \A q \in Reqs : q # r => resp'[q] = resp[q] /\ Stored(q)' = Stored(q)
    BY <1>2, <1>4
  <2> SUFFICES ASSUME NEW s \in copies
               PROVE  /\ s.arr # cache.arr
                      /\ \A t \in copies : t.arr = s.arr => t = s
                      /\ \A p, q \in Reqs :
                           resp'[p].arr = s.arr /\ resp'[q].arr = s.arr => p = q
                      /\ \A q \in Reqs :
                           resp'[q].arr = s.arr =>
                             /\ s.len <= resp'[q].len
                             /\ Stored(q)' < s.len => arrays'[s.arr][s.len] = NoRecord
    BY DEF OneWriter
  <2>4. /\ s.arr # cache.arr
        /\ \A t \in copies : t.arr = s.arr => t = s
        /\ \A p, q \in Reqs : resp[p].arr = s.arr /\ resp[q].arr = s.arr => p = q
        /\ \A q \in Reqs :
             resp[q].arr = s.arr =>
               /\ s.len <= resp[q].len
               /\ Stored(q) < s.len => arrays[s.arr][s.len] = NoRecord
    BY DEF Inv, OneWriter
  <2>5. \A p, q \in Reqs : resp'[p].arr = s.arr /\ resp'[q].arr = s.arr => p = q
    BY <2>2, <2>3, <2>4
  <2>6. ASSUME NEW q \in Reqs, resp'[q].arr = s.arr
        PROVE  /\ s.len <= resp'[q].len
               /\ Stored(q)' < s.len => arrays'[s.arr][s.len] = NoRecord
    <3>1. resp'[q] = resp[q] /\ Stored(q)' = Stored(q)
      BY <2>2, <2>3, <2>6
    <3>2. arrays'[s.arr] = arrays[s.arr]
      BY <2>1
    <3>3. QED
      BY <2>4, <2>6, <3>1, <3>2
  <2>7. QED
    BY <2>4, <2>5, <2>6
<1>11. PastEntry' /\ EntryIntact'
  <2> SUFFICES ASSUME cache # NoSlice
               PROVE  /\ \A q \in Reqs : resp'[q].arr = cache.arr => cache.len <= Stored(q)'
                      /\ View(cache)' = kept
    BY DEF PastEntry, EntryIntact
  <2>1. Proper(cache)
    BY DEF Inv, Shape
  <2>2. View(cache)' = View(cache)
    BY <1>3, <2>1
  <2>3. ASSUME NEW q \in Reqs, resp'[q].arr = cache.arr
        PROVE  cache.len <= Stored(q)'
    <3>1. q \in Reqs \ {r}
      BY <1>2, <1>7, <2>3
    <3>2. resp'[q] = resp[q] /\ Stored(q)' = Stored(q)
      BY <1>2, <1>4, <3>1
    <3>3. QED
      BY <2>3, <3>2 DEF Inv, PastEntry
  <2>4. QED
    BY <2>2, <2>3 DEF Inv, EntryIntact
<1>12. QED
  BY <1>2, <1>3, <1>8, <1>9, <1>10, <1>11

LEMMA LookupStep ==
  ASSUME Inv, NEW r \in Reqs, Lookup(r)
  PROVE  Inv'
<1>1. PICK answer \in Answers :
        /\ arrays' = Append(arrays, Unpacked(answer))
        /\ resp' = [resp EXCEPT ![r] = [arr |-> Len(arrays'), len |-> Len(answer)]]
        /\ own' = [own EXCEPT ![r] = answer]
        /\ fillers' = IF answer = <<>> THEN fillers ELSE fillers \cup {r}
  BY DEF Lookup
<1>2. /\ pc' = [pc EXCEPT ![r] = "round"]
      /\ UNCHANGED <<cache, kept, copies, todo, depth, lookups, crashed>>
  BY DEF Lookup, Goto
<1>3. answer \in Seq(Records) /\ Len(answer) \in Nat
  BY AnswersAssumption
<1>4. /\ Unpacked(answer) \in Seq(Slot) /\ Len(Unpacked(answer)) >= Len(answer)
      /\ \A i \in 1..Len(Unpacked(answer)) :
           i > Len(answer) => Unpacked(answer)[i] = NoRecord
  BY <1>3, UnpackedArray
<1>5. Len(answer) <= Len(Unpacked(answer))
  BY <1>3, <1>4
<1>6. /\ Started(r)' /\ Stored(r)' = Len(answer)
      /\ \A q \in Reqs \ {r} : pc'[q] = pc[q]
  BY <1>1, <1>2 DEF Inv, Shape, Started, Stored
<1>7. fillers' \subseteq fillers \cup {r}
  BY <1>1
<1>8. /\ arrays' \in Seq(Seq(Slot)) /\ resp' \in [Reqs -> [arr : Nat, len : Nat]]
      /\ \A s : Proper(s) => Proper(s)'
      /\ \A q \in Reqs : IF Started(q)' THEN Proper(resp[q])' ELSE resp'[q] = NoSlice
      /\ \A q \in fillers' : Started(q)'
      /\ Private' /\ OneWriter' /\ PastEntry' /\ EntryIntact'
  <2> HIDE DEF Unpacked
  <2>1. /\ arrays' \in Seq(Seq(Slot)) /\ Len(arrays') = Len(arrays) + 1
        /\ arrays'[Len(arrays) + 1] = Unpacked(answer)
        /\ \A i \in 1..Len(arrays) : arrays'[i] = arrays[i]
    BY <1>1, <1>4, ArrayAppended DEF Inv, Shape
  <2>2. QED
    BY <2>1, <1>1, <1>2, <1>3, <1>4, <1>5, <1>6, <1>7, NewArray
<1>9. own' \in [Reqs -> Seq(Records)]
  BY <1>1, <1>3 DEF Inv, Shape
<1>10. pc' \in [Reqs -> {"begin", "lookup", "round", "append", "store", "reply", "done"}]
  BY <1>2 DEF Inv, Shape
<1>11. \A q \in Reqs : pc'[q] = "store" => todo'[q] # <<>> /\ resp'[q].len > 0
  BY <1>1, <1>2 DEF Inv, Shape
<1>12. Shape'
  BY <1>2, <1>7, <1>8, <1>9, <1>10, <1>11 DEF Inv, Shape
<1>13. QED
  BY <1>8, <1>12 DEF Inv

\* Append into the array the request has: only its length changes yet.
LEMMA AppendInPlace ==
  ASSUME Inv, NEW r \in Reqs, AppendLen(r), resp[r].len < Capacity(resp[r])
  PROVE  Inv'
<1>1. /\ resp' = [resp EXCEPT ![r].len = @ + 1]
      /\ pc' = [pc EXCEPT ![r] = "store"] /\ pc[r] = "append" /\ todo[r] # <<>>
      /\ own' = [own EXCEPT ![r] = Append(@, Head(todo[r]))]
      /\ UNCHANGED <<arrays, todo, depth, cache, kept, fillers, copies, lookups, crashed>>
  BY DEF AppendLen, Goto, world
<1>2. /\ resp' \in [Reqs -> [arr : Nat, len : Nat]]
      /\ resp'[r].arr = resp[r].arr /\ resp'[r].len = resp[r].len + 1
      /\ \A q \in Reqs \ {r} : resp'[q] = resp[q]
  <2>1. resp \in [Reqs -> [arr : Nat, len : Nat]]
    BY DEF Inv, Shape
  <2>2. [resp[r] EXCEPT !.len = @ + 1] = [arr |-> resp[r].arr, len |-> resp[r].len + 1]
    BY <2>1
  <2>3. resp' = [resp EXCEPT ![r] = [arr |-> resp[r].arr, len |-> resp[r].len + 1]]
    BY <1>1, <2>2
  <2>4. resp[r].arr \in Nat /\ resp[r].len + 1 \in Nat
    BY <2>1
  <2>5. QED
    BY <2>1, <2>3, <2>4
<1>3. /\ \A s : Proper(s)' <=> Proper(s)
      /\ \A s : Capacity(s)' = Capacity(s)
      /\ \A s : View(s)' = View(s)
  BY <1>1 DEF Proper, Capacity, View
<1>3a. \A q \in Reqs : Started(q)' = Started(q) /\ Stored(q)' = Stored(q)
  <2>1. pc \in [Reqs -> {"begin", "lookup", "round", "append", "store", "reply", "done"}]
    BY DEF Inv, Shape
  <2>2. ASSUME NEW q \in Reqs \ {r}
        PROVE  Started(q)' = Started(q) /\ Stored(q)' = Stored(q)
    BY <1>1, <1>2, <2>1 DEF Started, Stored
  <2>3. resp[r].len \in Nat
    BY DEF Inv, Shape
  <2>4. Started(r)' = Started(r) /\ Stored(r)' = Stored(r)
    BY <1>1, <1>2, <2>1, <2>3 DEF Started, Stored
  <2>5. QED
    BY <2>2, <2>4
<1>4. Proper(resp[r])'
  <2>1. Proper(resp[r])
    BY <1>1 DEF Inv, Shape, Started
  <2>2. Len(arrays[resp[r].arr]) \in Nat
    BY <2>1 DEF Proper, Inv, Shape
  <2>3. QED
    BY <1>1, <1>2, <2>1, <2>2 DEF Proper, Capacity
<1>5. Shape'
  <2>1. own' \in [Reqs -> Seq(Records)]
    BY <1>1 DEF Inv, Shape
  <2>2. \A q \in Reqs : IF Started(q)' THEN Proper(resp[q])' ELSE resp'[q] = NoSlice
    <3>1. \A q \in Reqs \ {r} : Proper(resp[q]) => Proper(resp[q])'
      BY <1>1, <1>2 DEF Proper, Capacity
    <3>2. Started(r)
      BY <1>1 DEF Started
    <3>3. QED
      BY <1>2, <1>3a, <1>4, <3>1, <3>2 DEF Inv, Shape
  <2>3. ASSUME NEW q \in Reqs, pc'[q] = "store"
        PROVE  todo'[q] # <<>> /\ resp'[q].len > 0
    <3>1. CASE q = r
      <4>1. resp[r].len \in Nat
        BY DEF Inv, Shape
      <4>2. QED
        BY <1>1, <1>2, <3>1, <4>1
    <3>2. CASE q # r
      <4>1. pc[q] = "store" /\ resp'[q] = resp[q] /\ todo' = todo
        BY <1>1, <1>2, <2>3, <3>2 DEF Inv, Shape
      <4>2. QED
        BY <4>1 DEF Inv, Shape
    <3>3. QED
      BY <3>1, <3>2
  <2>4. pc' \in [Reqs -> {"begin", "lookup", "round", "append", "store", "reply", "done"}]
    BY <1>1 DEF Inv, Shape
  <2>5. QED
    BY <1>1, <1>2, <1>3, <1>3a, <2>1, <2>2, <2>3, <2>4 DEF Inv, Shape
<1>6. \A q \in Reqs : /\ resp'[q].arr = resp[q].arr /\ resp'[q].len >= resp[q].len
                      /\ Capacity(resp[q])' = Capacity(resp[q])
  <2>1. \A q \in Reqs : resp[q].len \in Nat
    BY DEF Inv, Shape
  <2>2. \A q \in Reqs : resp'[q].arr = resp[q].arr /\ resp'[q].len >= resp[q].len
    BY <1>2, <2>1
  <2>3. QED
    BY <1>1, <2>2 DEF Capacity
<1>7. Private'
  <2> SUFFICES ASSUME NEW q \in fillers
               PROVE  /\ resp'[q].arr # cache.arr
                      /\ \A s \in copies : s.arr # resp'[q].arr
                      /\ \A p \in Reqs : p # q => resp'[p].arr # resp'[q].arr
                      /\ \A i \in 1..Capacity(resp[q])' :
                           i > Stored(q)' => arrays[resp'[q].arr][i] = NoRecord
    BY <1>1 DEF Private
  <2>1. q \in Reqs
    BY DEF Inv, Shape
  <2>2. QED
    BY <2>1, <1>3a, <1>6 DEF Inv, Private
<1>8. OneWriter'
  <2> SUFFICES ASSUME NEW s \in copies
               PROVE  /\ s.arr # cache.arr
                      /\ \A t \in copies : t.arr = s.arr => t = s
                      /\ \A p, q \in Reqs :
                           resp'[p].arr = s.arr /\ resp'[q].arr = s.arr => p = q
                      /\ \A q \in Reqs :
                           resp'[q].arr = s.arr =>
                             /\ s.len <= resp'[q].len
                             /\ Stored(q)' < s.len => arrays[s.arr][s.len] = NoRecord
    BY <1>1 DEF OneWriter
  <2>1. \A q \in Reqs : resp[q].arr = s.arr => s.len <= resp'[q].len
    <3>1. s.len \in Nat /\ \A q \in Reqs : resp[q].len \in Nat /\ resp'[q].len \in Nat
      BY <1>2 DEF Inv, Shape, Proper
    <3>2. \A q \in Reqs : resp[q].arr = s.arr => s.len <= resp[q].len
      BY DEF Inv, OneWriter
    <3>3. QED
      BY <1>6, <3>1, <3>2
  <2>2. QED
    BY <2>1, <1>3a, <1>6 DEF Inv, OneWriter
<1>9. PastEntry' /\ EntryIntact'
  <2>1. cache # NoSlice => \A q \in Reqs : resp'[q].arr = cache.arr => cache.len <= Stored(q)'
    BY <1>3a, <1>6 DEF Inv, PastEntry
  <2>2. cache # NoSlice => View(cache)' = kept
    BY <1>1, <1>3 DEF Inv, EntryIntact, View
  <2>3. QED
    BY <1>1, <2>1, <2>2 DEF PastEntry, EntryIntact
<1>10. QED
  BY <1>5, <1>7, <1>8, <1>9 DEF Inv

\* Append into a larger array.
LEMMA AppendGrowing ==
  ASSUME Inv, NEW r \in Reqs, AppendLen(r), ~(resp[r].len < Capacity(resp[r]))
  PROVE  Inv'
<1> DEFINE n == resp[r].len
           a == Grown(View(resp[r]))
<1>1. /\ arrays' = Append(arrays, a)
      /\ resp' = [resp EXCEPT ![r] = [arr |-> Len(arrays'), len |-> n + 1]]
      /\ pc' = [pc EXCEPT ![r] = "store"] /\ pc[r] = "append" /\ todo[r] # <<>>
      /\ own' = [own EXCEPT ![r] = Append(@, Head(todo[r]))]
      /\ UNCHANGED <<todo, depth, cache, kept, fillers, copies, lookups, crashed>>
  BY DEF AppendLen, Goto, world
<1>2. Proper(resp[r]) /\ n \in Nat
  BY <1>1 DEF Inv, Shape, Started
<1>3. View(resp[r]) \in Seq(Slot) /\ Len(View(resp[r])) = n
  BY <1>2, ViewOfProper DEF Inv, Shape
<1>4. /\ a \in Seq(Slot) /\ n + 1 <= Len(a)
      /\ \A i \in 1..Len(a) : i > n => a[i] = NoRecord
  <2>1. a \in Seq(Slot) /\ Len(a) > n /\ \A i \in 1..Len(a) : i > n => a[i] = NoRecord
    BY <1>3, GrownArray
  <2> HIDE DEF a
  <2>2. QED
    BY <1>2, <2>1
<1> HIDE DEF a
<1>5. /\ Started(r)' /\ Stored(r)' = n
      /\ \A q \in Reqs \ {r} : pc'[q] = pc[q]
  BY <1>1, <1>2 DEF Inv, Shape, Started, Stored
<1>6. /\ arrays' \in Seq(Seq(Slot)) /\ resp' \in [Reqs -> [arr : Nat, len : Nat]]
      /\ \A s : Proper(s) => Proper(s)'
      /\ \A q \in Reqs : IF Started(q)' THEN Proper(resp[q])' ELSE resp'[q] = NoSlice
      /\ \A q \in fillers' : Started(q)'
      /\ Private' /\ OneWriter' /\ PastEntry' /\ EntryIntact'
  <2>1. n + 1 \in Nat
    BY <1>2
  <2> HIDE DEF n
  <2>2. /\ arrays' \in Seq(Seq(Slot)) /\ Len(arrays') = Len(arrays) + 1
        /\ arrays'[Len(arrays) + 1] = a
        /\ \A i \in 1..Len(arrays) : arrays'[i] = arrays[i]
    BY <1>1, <1>4, ArrayAppended DEF Inv, Shape
  <2>3. QED
    BY <1>1, <1>2, <1>4, <1>5, <2>1, <2>2, NewArray
<1>7. own' \in [Reqs -> Seq(Records)]
  BY <1>1 DEF Inv, Shape
<1>8. pc' \in [Reqs -> {"begin", "lookup", "round", "append", "store", "reply", "done"}]
  BY <1>1 DEF Inv, Shape
<1>9. ASSUME NEW q \in Reqs, pc'[q] = "store"
      PROVE  todo'[q] # <<>> /\ resp'[q].len > 0
  <2>1. resp \in [Reqs -> [arr : Nat, len : Nat]]
    BY DEF Inv, Shape
  <2>2. CASE q = r
    BY <1>1, <1>2, <2>1, <2>2
  <2>3. CASE q # r
    <3>1. pc[q] = "store" /\ resp'[q] = resp[q] /\ todo' = todo
      BY <1>1, <1>5, <1>9, <2>1, <2>3
    <3>2. QED
      BY <3>1 DEF Inv, Shape
  <2>4. QED
    BY <2>2, <2>3
<1>10. Shape'
  BY <1>1, <1>6, <1>7, <1>8, <1>9 DEF Inv, Shape
<1>11. QED
  BY <1>6, <1>10 DEF Inv

LEMMA AppendStoreStep ==
  ASSUME Inv, NEW r \in Reqs, AppendStore(r)
  PROVE  Inv'
<1> DEFINE a == resp[r].arr
           n == resp[r].len
<1>1. /\ arrays' = [arrays EXCEPT ![a][n] = Head(todo[r])]
      /\ todo' = [todo EXCEPT ![r] = Tail(@)]
      /\ pc' = [pc EXCEPT ![r] = "append"] /\ pc[r] = "store"
      /\ UNCHANGED <<resp, depth, own, cache, kept, fillers, copies, lookups, crashed>>
  BY DEF AppendStore, Goto, world
<1>2. /\ todo[r] \in Seq(Records) /\ todo[r] # <<>>
      /\ Proper(resp[r]) /\ a \in 1..Len(arrays) /\ n \in 1..Len(arrays[a])
  <2>1. todo[r] \in Seq(Records) /\ todo[r] # <<>> /\ Proper(resp[r]) /\ resp[r].len > 0
    BY <1>1 DEF Inv, Shape, Started
  <2>2. Len(arrays[a]) \in Nat
    BY <2>1 DEF Inv, Shape, Proper
  <2>3. QED
    BY <2>1, <2>2 DEF Proper, Capacity
<1>3. Head(todo[r]) \in Slot /\ Tail(todo[r]) \in Seq(Records)
  BY <1>2 DEF Slot
<1>4. /\ arrays' \in Seq(Seq(Slot)) /\ Len(arrays') = Len(arrays)
      /\ \A b \in 1..Len(arrays) :
           /\ Len(arrays'[b]) = Len(arrays[b])
           /\ \A j \in 1..Len(arrays[b]) :
                (b # a \/ j # n) => arrays'[b][j] = arrays[b][j]
  <2>1. arrays \in Seq(Seq(Slot))
    BY DEF Inv, Shape
  <2> HIDE DEF a, n
  <2>2. QED
    BY <1>1, <1>2, <1>3, <2>1, RecordStored
<1> HIDE DEF a, n
<1>5. \A s : Proper(s) => Proper(s)' /\ Capacity(s)' = Capacity(s)
  BY <1>4 DEF Proper, Capacity
<1>6. /\ \A q \in Reqs : Started(q)' = Started(q)
      /\ \A q \in Reqs \ {r} : Stored(q)' = Stored(q)
      /\ Stored(r) = n - 1 /\ Stored(r)' = n
  BY <1>1 DEF Inv, Shape, Started, Stored, n
<1>7. Shape'
  <2>1. todo' \in [Reqs -> Seq(Records)]
    BY <1>1, <1>3 DEF Inv, Shape
  <2>2. pc' \in [Reqs -> {"begin", "lookup", "round", "append", "store", "reply", "done"}]
    BY <1>1 DEF Inv, Shape
  <2>3. \A q \in Reqs : pc'[q] = "store" => todo'[q] # <<>> /\ resp'[q].len > 0
    BY <1>1 DEF Inv, Shape
  <2>4. \A q \in Reqs : IF Started(q)' THEN Proper(resp[q])' ELSE resp'[q] = NoSlice
    <3>1. \A q \in Reqs : Proper(resp[q]) => Proper(resp[q])'
      BY <1>1, <1>4 DEF Proper, Capacity
    <3>2. QED
      BY <1>1, <1>6, <3>1 DEF Inv, Shape
  <2>5. cache' = NoSlice \/ Proper(cache)'
    <3>1. Proper(cache) => Proper(cache)'
      BY <1>1, <1>4 DEF Proper, Capacity
    <3>2. QED
      BY <1>1, <3>1 DEF Inv, Shape
  <2>6. QED
    BY <1>1, <1>4, <1>5, <1>6, <2>1, <2>2, <2>3, <2>4, <2>5 DEF Inv, Shape
<1>8. Private'
  <2> SUFFICES ASSUME NEW q \in fillers
               PROVE  /\ resp[q].arr # cache.arr
                      /\ \A s \in copies : s.arr # resp[q].arr
                      /\ \A p \in Reqs : p # q => resp[p].arr # resp[q].arr
                      /\ \A i \in 1..Capacity(resp[q])' :
                           i > Stored(q)' => arrays'[resp[q].arr][i] = NoRecord
    BY <1>1 DEF Private
  <2>1. q \in Reqs /\ Proper(resp[q]) /\ resp[q].arr \in 1..Len(arrays)
    BY DEF Inv, Shape, Proper
  <2>2. /\ resp[q].arr # cache.arr
        /\ \A s \in copies : s.arr # resp[q].arr
        /\ \A p \in Reqs : p # q => resp[p].arr # resp[q].arr
        /\ \A i \in 1..Capacity(resp[q]) :
             i > Stored(q) => arrays[resp[q].arr][i] = NoRecord
    BY DEF Inv, Private
  <2>3. Capacity(resp[q])' = Len(arrays[resp[q].arr])
    BY <1>1, <1>4, <2>1 DEF Capacity
  <2>4. ASSUME NEW i \in 1..Len(arrays[resp[q].arr]), i > Stored(q)'
        PROVE  arrays'[resp[q].arr][i] = NoRecord
    <3>1. CASE q = r
      <4>1. resp[q].arr = a /\ i > n /\ i > Stored(q)
        BY <1>2, <1>6, <2>4, <3>1 DEF a
      <4>2. arrays'[a][i] = arrays[a][i]
        BY <1>2, <1>4, <2>4, <4>1
      <4>3. QED
        BY <2>2, <2>4, <4>1, <4>2 DEF Capacity
    <3>2. CASE q # r
      BY <1>4, <1>6, <2>1, <2>2, <2>4, <3>2 DEF Capacity, a
    <3>3. QED
      BY <3>1, <3>2
  <2>5. QED
    BY <2>2, <2>3, <2>4
<1>9. OneWriter'
  <2> SUFFICES ASSUME NEW s \in copies
               PROVE  /\ s.arr # cache.arr
                      /\ \A t \in copies : t.arr = s.arr => t = s
                      /\ \A p, q \in Reqs :
                           resp[p].arr = s.arr /\ resp[q].arr = s.arr => p = q
                      /\ \A q \in Reqs :
                           resp[q].arr = s.arr =>
                             /\ s.len <= resp[q].len
                             /\ Stored(q)' < s.len => arrays'[s.arr][s.len] = NoRecord
    BY <1>1 DEF OneWriter
  <2>1. /\ s.arr # cache.arr
        /\ \A t \in copies : t.arr = s.arr => t = s
        /\ \A p, q \in Reqs : resp[p].arr = s.arr /\ resp[q].arr = s.arr => p = q
        /\ \A q \in Reqs :
             resp[q].arr = s.arr =>
               /\ s.len <= resp[q].len
               /\ Stored(q) < s.len => arrays[s.arr][s.len] = NoRecord
    BY DEF Inv, OneWriter
  <2>2. Proper(s) /\ s.arr \in 1..Len(arrays) /\ s.len \in Nat /\ s.len <= Len(arrays[s.arr])
    BY DEF Inv, Shape, Proper, Capacity
  <2>3. ASSUME NEW q \in Reqs, resp[q].arr = s.arr, Stored(q)' < s.len
        PROVE  arrays'[s.arr][s.len] = NoRecord
    <3>1. CASE q = r
      BY <1>2, <1>6, <2>1, <2>2, <2>3, <3>1 DEF n
    <3>2. CASE q # r
      <4>1. s.arr # a
        BY <2>1, <2>3, <3>2 DEF a
      <4>2. Stored(q) < s.len /\ Stored(q) \in Int /\ Stored(q) >= 0
        <5>1. resp[q].len \in Nat /\ (pc[q] = "store" => resp[q].len > 0)
          BY DEF Inv, Shape
        <5>2. QED
          BY <1>6, <2>3, <3>2, <5>1 DEF Stored
      <4>3. s.len \in 1..Len(arrays[s.arr])
        <5>0. arrays \in Seq(Seq(Slot))
          BY DEF Inv, Shape
        <5>1. Len(arrays[s.arr]) \in Nat
          BY <2>2, <5>0
        <5>2. QED
          BY <2>2, <4>2, <5>1
      <4>4. QED
        BY <1>4, <2>1, <2>2, <2>3, <4>1, <4>2, <4>3
    <3>3. QED
      BY <3>1, <3>2
  <2>4. QED
    BY <2>1, <2>3
<1>10. PastEntry'
  <2> SUFFICES ASSUME cache # NoSlice, NEW q \in Reqs, resp[q].arr = cache.arr
               PROVE  cache.len <= Stored(q)'
    BY <1>1 DEF PastEntry
  <2>1. cache.len <= Stored(q) /\ cache.len \in Nat
    BY DEF Inv, Shape, PastEntry, Proper
  <2>2. CASE q = r
    BY <1>2, <1>6, <2>1, <2>2
  <2>3. CASE q # r
    BY <1>6, <2>1, <2>3
  <2>4. QED
    BY <2>2, <2>3
<1>11. EntryIntact'
  <2> SUFFICES ASSUME cache # NoSlice
               PROVE  View(cache)' = kept
    BY <1>1 DEF EntryIntact
  <2>1. Proper(cache) /\ cache.arr \in 1..Len(arrays) /\ cache.len <= Len(arrays[cache.arr])
    BY DEF Inv, Shape, Proper, Capacity
  <2>2. cache.arr = a => cache.len <= n - 1
    BY <1>6 DEF Inv, PastEntry, a
  <2>3. ASSUME NEW i \in 1..cache.len
        PROVE  arrays'[cache.arr][i] = arrays[cache.arr][i]
    <3>1. cache.len \in Nat /\ Len(arrays[cache.arr]) \in Nat
      BY <2>1 DEF Proper, Inv, Shape
    <3>2. i \in 1..Len(arrays[cache.arr]) /\ (cache.arr # a \/ i # n)
      BY <1>2, <2>1, <2>2, <3>1
    <3>3. QED
      BY <1>4, <2>1, <3>2
  <2>4. View(cache)' = View(cache)
    BY <1>1, <2>3 DEF View
  <2>5. QED
    BY <2>4 DEF Inv, EntryIntact
<1>12. QED
  BY <1>7, <1>8, <1>9, <1>10, <1>11 DEF Inv

LEMMA FillCopyStep ==
  ASSUME Inv, NEW r \in Reqs, FillCopy(r)
  PROVE  Inv'
<1>1. /\ r \in fillers /\ fillers' = fillers \ {r} /\ copies' = copies \cup {resp[r]}
      /\ UNCHANGED <<arrays, cache, kept, pc, resp, todo, depth, own, lookups, crashed>>
  BY DEF FillCopy, requests
<1>2. Started(r) /\ Proper(resp[r])
  BY <1>1 DEF Inv, Shape
<1>3. /\ \A s : Proper(s)' <=> Proper(s)
      /\ \A s : Capacity(s)' = Capacity(s)
      /\ \A s : View(s)' = View(s)
      /\ \A q \in Reqs : Started(q)' = Started(q) /\ Stored(q)' = Stored(q)
  BY <1>1 DEF Proper, Capacity, View, Started, Stored
<1>4. Shape'
  BY <1>1, <1>2, <1>3 DEF Inv, Shape
<1>5. Private'
  <2>1. fillers \subseteq Reqs
    BY DEF Inv, Shape
  <2>2. QED
    BY <1>1, <1>3, <2>1 DEF Inv, Private
<1>6. OneWriter'
  <2>1. /\ resp[r].arr # cache.arr
        /\ \A s \in copies : s.arr # resp[r].arr
        /\ \A q \in Reqs : q # r => resp[q].arr # resp[r].arr
        /\ \A i \in 1..Capacity(resp[r]) :
             i > Stored(r) => arrays[resp[r].arr][i] = NoRecord
    BY <1>1 DEF Inv, Private
  <2>2. Stored(r) < resp[r].len =>
          /\ resp[r].len \in 1..Capacity(resp[r])
          /\ arrays[resp[r].arr][resp[r].len] = NoRecord
    <3>1. resp[r].len \in Nat /\ (pc[r] = "store" => resp[r].len > 0)
      BY DEF Inv, Shape
    <3>2. arrays \in Seq(Seq(Slot))
      BY DEF Inv, Shape
    <3>3. Capacity(resp[r]) \in Nat /\ resp[r].len <= Capacity(resp[r])
      BY <1>2, <3>2 DEF Proper, Capacity
    <3>4. Stored(r) < resp[r].len =>
            /\ resp[r].len \in 1..Capacity(resp[r])
            /\ resp[r].len > Stored(r)
      BY <3>1, <3>3 DEF Stored
    <3>5. QED
      BY <2>1, <3>4
  <2>3. \A q \in Reqs : resp[q].len <= resp[q].len
    BY DEF Inv, Shape
  <2>4. QED
    BY <1>1, <1>3, <2>1, <2>2, <2>3 DEF Inv, OneWriter
<1>7. PastEntry' /\ EntryIntact'
  BY <1>1, <1>3 DEF Inv, PastEntry, EntryIntact
<1>8. QED
  BY <1>4, <1>5, <1>6, <1>7 DEF Inv

LEMMA FillSetStep ==
  ASSUME Inv, NEW s \in copies, FillSet(s)
  PROVE  Inv'
<1>1. /\ copies' = copies \ {s}
      /\ UNCHANGED <<arrays, fillers, pc, resp, todo, depth, own, lookups>>
  BY DEF FillSet, requests
<1>2. /\ \A t : Proper(t)' <=> Proper(t)
      /\ \A t : Capacity(t)' = Capacity(t)
      /\ \A t : View(t)' = View(t)
      /\ \A q \in Reqs : Started(q)' = Started(q) /\ Stored(q)' = Stored(q)
  BY <1>1 DEF Proper, Capacity, View, Started, Stored
<1>3. CASE UNCHANGED <<cache, kept>>
  <2>1. crashed' \in BOOLEAN
    BY DEF Inv, Shape, FillSet
  <2>2. Shape'
    BY <1>1, <1>2, <1>3, <2>1 DEF Inv, Shape
  <2>3. Private' /\ OneWriter' /\ PastEntry' /\ EntryIntact'
    BY <1>1, <1>2, <1>3 DEF Inv, Shape, Private, OneWriter, PastEntry, EntryIntact
  <2>4. QED
    BY <2>2, <2>3 DEF Inv
<1>4. CASE /\ NoRecord \notin Range(View(s))
           /\ cache' = s /\ kept' = View(s) /\ UNCHANGED crashed
  <2>1. Proper(s) /\ s # NoSlice
    BY DEF Inv, Shape, Proper, NoSlice
  <2>2. /\ View(s) \in Seq(Slot) /\ Len(View(s)) = s.len
        /\ \A i \in 1..s.len : View(s)[i] = arrays[s.arr][i]
    BY <2>1, ViewOfProper DEF Inv, Shape
  <2>3. \A i \in 1..s.len : arrays[s.arr][i] # NoRecord
    BY <1>4, <2>2 DEF Range
  <2>4. View(s) \in Seq(Records)
    <3>1. \A i \in 1..Len(View(s)) : View(s)[i] \in Records
      BY <2>2, <2>3 DEF Slot
    <3>2. QED
      BY <2>2, <3>1
  <2>5. Shape'
    BY <1>1, <1>2, <1>4, <2>1, <2>4 DEF Inv, Shape
  <2>6. Private'
    BY <1>1, <1>2, <1>4 DEF Inv, Shape, Private
  <2>7. OneWriter'
    BY <1>1, <1>2, <1>4 DEF Inv, OneWriter
  <2>8. PastEntry'
    <3> SUFFICES ASSUME NEW q \in Reqs, resp[q].arr = s.arr
                 PROVE  s.len <= Stored(q)
      BY <1>1, <1>2, <1>4 DEF PastEntry
    <3>1. s.len <= resp[q].len /\ (Stored(q) < s.len => arrays[s.arr][s.len] = NoRecord)
      BY DEF Inv, OneWriter
    <3>2. /\ s.len \in Nat /\ Stored(q) \in Int /\ Stored(q) >= 0
      BY <2>1 DEF Proper, Stored, Inv, Shape
    <3>3. QED
      BY <2>3, <3>1, <3>2
  <2>9. EntryIntact'
    BY <1>1, <1>4 DEF EntryIntact, View
  <2>10. QED
    BY <2>5, <2>6, <2>7, <2>8, <2>9 DEF Inv
<1>5. QED
  BY <1>3, <1>4 DEF FillSet

LEMMA ExpireStep ==
  ASSUME Inv, Expire
  PROVE  Inv'
<1>1. /\ cache' = NoSlice /\ kept' = <<>>
      /\ UNCHANGED <<arrays, fillers, copies, pc, resp, todo, depth, own, lookups, crashed>>
  BY DEF Expire, requests
<1>2. /\ \A t : Proper(t)' <=> Proper(t)
      /\ \A t : Capacity(t)' = Capacity(t)
      /\ \A q \in Reqs : Started(q)' = Started(q) /\ Stored(q)' = Stored(q)
      /\ \A t : Proper(t) => t.arr # 0
  BY <1>1 DEF Proper, Capacity, Started, Stored
<1>3. Shape'
  <2>1. kept' \in Seq(Records)
    BY <1>1
  <2>2. QED
    BY <1>1, <1>2, <2>1 DEF Inv, Shape
<1>4. Private'
  <2>1. \A q \in fillers : resp[q].arr # 0
    BY <1>2 DEF Inv, Shape
  <2>2. QED
    BY <1>1, <1>2, <2>1 DEF Inv, Shape, Private, NoSlice
<1>5. OneWriter'
  <2>1. \A s \in copies : s.arr # 0
    BY <1>2 DEF Inv, Shape
  <2>2. QED
    BY <1>1, <1>2, <2>1 DEF Inv, OneWriter, NoSlice
<1>6. PastEntry' /\ EntryIntact'
  BY <1>1 DEF PastEntry, EntryIntact
<1>7. QED
  BY <1>3, <1>4, <1>5, <1>6 DEF Inv

LEMMA StepInv == Inv /\ [Next]_vars => Inv'
<1> SUFFICES ASSUME Inv, [Next]_vars
             PROVE  Inv'
    OBVIOUS
<1>1. ASSUME NEW r \in Reqs, RequestStep(r)
      PROVE  Inv'
  <2>1. CASE Hit(r)
    BY <2>1, HitStep
  <2>2. CASE \/ Miss(r) \/ Round(r) \/ EndRounds(r) \/ EndRound(r) \/ Skip(r) \/ Reply(r)
    BY <2>2, QuietStep
  <2>3. CASE Lookup(r)
    BY <2>3, LookupStep
  <2>4. CASE AppendLen(r)
    BY <2>4, AppendInPlace, AppendGrowing
  <2>5. CASE AppendStore(r)
    BY <2>5, AppendStoreStep
  <2>6. QED
    BY <1>1, <2>1, <2>2, <2>3, <2>4, <2>5 DEF RequestStep
<1>2. ASSUME NEW r \in Reqs, FillCopy(r)
      PROVE  Inv'
  BY <1>2, FillCopyStep
<1>3. ASSUME NEW s \in copies, FillSet(s)
      PROVE  Inv'
  BY <1>3, FillSetStep
<1>4. CASE Expire
  BY <1>4, ExpireStep
<1>5. CASE UNCHANGED vars
  <2>1. UNCHANGED <<arrays, cache, kept, fillers, copies, pc, resp, todo, depth, own,
                    lookups, crashed>>
    BY <1>5 DEF vars, requests, world
  <2>2. /\ \A t : Proper(t)' <=> Proper(t)
        /\ \A t : Capacity(t)' = Capacity(t)
        /\ \A t : View(t)' = View(t)
        /\ \A q \in Reqs : Started(q)' = Started(q) /\ Stored(q)' = Stored(q)
    BY <2>1 DEF Proper, Capacity, View, Started, Stored
  <2>3. Shape'
    BY <2>1, <2>2 DEF Inv, Shape
  <2>4. Private' /\ OneWriter' /\ PastEntry' /\ EntryIntact'
    BY <2>1, <2>2 DEF Inv, Shape, Private, OneWriter, PastEntry, EntryIntact
  <2>5. QED
    BY <2>3, <2>4 DEF Inv
<1>6. QED
  BY <1>1, <1>2, <1>3, <1>4, <1>5 DEF Next

-----------------------------------------------------------------------------
(* Theorems *)

LEMMA Correct == Spec => []Inv
BY InitInv, StepInv, PTL DEF Spec

LEMMA ShapeImpliesTypeOK == Shape => TypeOK
<1> SUFFICES ASSUME Shape
             PROVE  TypeOK
    OBVIOUS
<1>1. \A a \in Range(arrays) : Range(a) \subseteq Records \cup {NoRecord}
  <2>1. \A a \in Range(arrays) : a \in Seq(Slot)
    BY DEF Shape, Range
  <2>2. \A a \in Seq(Slot) : Range(a) \subseteq Slot
    BY DEF Range
  <2>3. QED
    BY <2>1, <2>2 DEF Slot
<1>2. ASSUME NEW s, Proper(s)
      PROVE  s \in Slices /\ s.len <= Capacity(s)
  BY <1>2 DEF Proper, Slices, Shape
<1>3. NoSlice \in Slices
  BY DEF NoSlice, Slices, Shape
<1>4. \A s \in {cache} \cup copies \cup Range(resp) :
        s \in Slices /\ (s # NoSlice => s.len <= Capacity(s))
  <2>1. \A s \in Range(resp) : s = NoSlice \/ Proper(s)
    BY DEF Shape, Range
  <2>2. \A s \in {cache} \cup copies : s = NoSlice \/ Proper(s)
    BY DEF Shape
  <2>3. QED
    BY <1>2, <1>3, <2>1, <2>2
<1>5. QED
  BY <1>1, <1>4 DEF TypeOK, Shape

\* Slices stay within their arrays, whatever requests append at the same time.
THEOREM SharedAnswersTypeCorrect == Spec => []TypeOK
<1>1. Inv => TypeOK
  BY ShapeImpliesTypeOK DEF Inv
<1>2. QED
  BY <1>1, Correct, PTL

\* The records of a cache entry never change, though requests append to the array
\* it refers to (handler.go:250) and the filler copies it while they do (handler.go:208).
THEOREM CachedStaysCached == Spec => []EntryIntact
<1>1. Inv => EntryIntact
  BY DEF Inv
<1>2. QED
  BY <1>1, Correct, PTL
=============================================================================
