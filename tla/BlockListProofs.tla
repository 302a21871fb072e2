-------------------------- MODULE BlockListProofs --------------------------
(***************************************************************************)
(* What a block cache holds, for any sources, keys and patterns and any    *)
(* number of requests, updates and crashes.  The invariants below go from  *)
(* the files to the cache that is built, and from there to the one in use. *)
(***************************************************************************)
EXTENDS BlockList, FiniteSetTheorems, TLAPS

\* The stages of the requests that name a key.
KeyStages == {"toggle", "set", "append", "unset", "scan", "truncate", "write", "remove"}

\* Lines, of which only one with something in it is left without a newline.
ProperList(p) ==
  /\ p.lines \in Seq(Seq(Keys)) /\ p.open \in BOOLEAN
  /\ p.open => p.lines # <<>> /\ Last(p.lines) # <<>>

\* An update names at most N files after a host.
FilesOK ==
  /\ DOMAIN store \subseteq Names /\ \A f \in DOMAIN store : store[f] \subseteq Keys
  /\ timesSeen \in [Hosts -> Nat]
  /\ dl \in [Sources -> {"none", "create", "get", "done", "failed"}]
  /\ DOMAIN name = Sources
  /\ \A i \in Sources : dl[i] # "none" => name[i] \in Names
  /\ updates \in 0..MaxUpdates
  /\ \A h \in Hosts : timesSeen[h] <= N * updates

CachesOK ==
  /\ got \subseteq Keys /\ building \subseteq Keys \ Invalid /\ inuse \subseteq Keys \ Invalid
  /\ main \in {"update", "fetch", "stop", "drain", "idle"}
  /\ boot \in BOOLEAN /\ reloads \in Nat

\* Where a request is goes with what it asks.
RequestsOK ==
  /\ ProperList(personal)
  /\ op \in [Clients -> Ops \cup {NoOp}]
  /\ at \in [Clients -> KeyStages \cup {"idle", "update"}]
  /\ kept \in [Clients -> Seq(Seq(Keys))]
  /\ \A c \in Clients : at[c] = "idle" <=> op[c] = NoOp
  /\ \A c \in Clients : at[c] \in KeyStages => op[c].key \in Keys
  /\ added \subseteq Keys

Shape == FilesOK /\ CachesOK /\ RequestsOK

\* The sources of an update have files of their own.
Apart ==
  \A i, j \in Sources :
    i # j /\ dl[i] # "none" /\ dl[j] # "none" => name[i] # name[j]

\* What a complete download brought is in its file.
Brought ==
  \A k \in got : \E i \in Sources :
    dl[i] = "done" /\ name[i] \in DOMAIN store /\ k \in store[name[i]]

Downloads ==
  /\ Apart /\ Brought
  /\ main \in {"stop", "drain"} => Fetched

\* The cache that is built has the config's blocklist, and no whitelisted key but
\* for that or for capitals.
Built ==
  /\ main \in {"fetch", "stop", "drain"} => Blocklist \ Invalid \subseteq building
  /\ building \cap Whitelist \subseteq Blocklist \cup Capitals

\* The keys that are in the cache in use or were: a key the API blocks again
\* goes from removed to the cache, unless it cannot be compiled.
Settled == (inuse \cup removed) \ Invalid

UseInv ==
  ~boot => \A k \in Wanted(served) \cup (Blocklist \ Invalid) :
             k \in Settled \/ Exists(Settled, k)

\* Until the file is rewritten or a write to it is cut short, it ends with a
\* newline, and has a line for every key the API has written.
Listing ==
  ~torn =>
    /\ ~personal.open
    /\ \A c \in Clients : at[c] # "write"
    /\ saved \subseteq Listed(personal)

\* The keys of personal.list that are not whitelisted.
Admissible(K) == (K \ Whitelist) \ Invalid

\* What was written before the update came to the file is in the cache it builds,
\* and was in the one in use when that was built.
Applying ==
  /\ ~torn /\ main \in {"stop", "drain"} =>
       \A k \in Admissible(walked) : k \in building \/ Exists(building, k)
  /\ ~torn /\ ~boot =>
       \A k \in Admissible(applied) : k \in Settled \/ Exists(Settled, k)

Inv == /\ Shape /\ Downloads /\ Built /\ ImportsAll /\ WhitelistHolds /\ UseInv
       /\ Listing /\ Applying
-----------------------------------------------------------------------------
(* The names of the files *)

LEMMA OfFinite ==
  ASSUME NEW h, NEW n \in Nat
  PROVE  /\ IsFiniteSet(Of(h, n))
         /\ Cardinality(Of(h, n)) \in Nat /\ Cardinality(Of(h, n)) <= n
<1>1. IsFiniteSet(1..n) /\ Cardinality(1..n) = n
  BY FS_Interval
<1>2. Of(h, n) \in SUBSET (1..n)
  BY DEF Of
<1>3. QED
  BY <1>1, <1>2, FS_Subset, FS_CardinalityType

\* A source of the host counts.
LEMMA OfGrows ==
  ASSUME NEW h, NEW m \in Nat, NEW n \in Nat, m < n, Host[n] = h
  PROVE  Cardinality(Of(h, m)) < Cardinality(Of(h, n))
<1>1. Of(h, m) \in SUBSET Of(h, n) /\ n \in Of(h, n) /\ n \notin Of(h, m)
  BY DEF Of
<1>2. Cardinality(Of(h, m)) <= Cardinality(Of(h, n))
  BY <1>1, OfFinite, FS_Subset
<1>3. Cardinality(Of(h, m)) # Cardinality(Of(h, n))
  BY <1>1, OfFinite, FS_Subset
<1>4. QED
  BY <1>2, <1>3, OfFinite

\* Room for the files of one more update.
LEMMA OneMoreUpdate ==
  ASSUME NEW u \in Nat, NEW m \in Nat, u < m
  PROVE  N * u + N = N * (u + 1) /\ N * (u + 1) <= N * m /\ N * u \in Nat
<1>1. N \in Nat
  BY SourcesAssumption
<1>2. PICK d \in Nat : m = (u + 1) + d
  <2>1. m - (u + 1) \in Nat /\ m = (u + 1) + (m - (u + 1))
    OBVIOUS
  <2>2. QED
    BY <2>1
<1>3. N * m = N * (u + 1) + N * d
  BY <1>1, <1>2
<1>4. N * d \in Nat /\ N * (u + 1) \in Nat /\ N * u \in Nat
  BY <1>1
<1>5. N * u + N = N * (u + 1)
  BY <1>1
<1>6. QED
  BY <1>3, <1>4, <1>5

LEMMA FileNames ==
  ASSUME FilesOK, updates < MaxUpdates
  PROVE  /\ \A i \in Sources : FileName(i) \in Names
         /\ \A i, j \in Sources : i # j => FileName(i) # FileName(j)
<1>0. N \in Nat /\ MaxUpdates \in Nat /\ updates \in Nat
  BY SourcesAssumption, BoundsAssumption DEF FilesOK
<1>1. ASSUME NEW i \in Sources
      PROVE  FileName(i) \in Names
  <2>1. i \in Nat /\ i - 1 \in Nat /\ i - 1 < i /\ i <= N /\ Host[i] \in Hosts
    BY <1>0 DEF Sources, Hosts
  <2> DEFINE n == Cardinality(Of(Host[i], i))
  <2>2. n \in Nat /\ n <= i
    BY <2>1, OfFinite
  <2>3. n > 0
    <3>1. Cardinality(Of(Host[i], i - 1)) < n
      BY <2>1, OfGrows
    <3>2. Cardinality(Of(Host[i], i - 1)) \in Nat
      BY <2>1, OfFinite
    <3>3. QED
      BY <2>2, <3>1, <3>2
  <2>4. timesSeen[Host[i]] \in Nat /\ timesSeen[Host[i]] <= N * updates
    BY <2>1 DEF FilesOK
  <2>5. N * updates + N <= N * MaxUpdates /\ N * updates \in Nat
    BY <1>0, OneMoreUpdate
  <2> HIDE DEF n
  <2>6. timesSeen[Host[i]] + n \in 1..N * MaxUpdates
    <3>1. N * MaxUpdates \in Nat
      BY <1>0
    <3>2. QED
      BY <1>0, <2>1, <2>2, <2>3, <2>4, <2>5, <3>1
  <2>7. QED
    BY <2>1, <2>6 DEF FileName, Names, n
<1>2. ASSUME NEW i \in Sources, NEW j \in Sources, i < j
      PROVE  FileName(i) # FileName(j)
  <2>1. i \in Nat /\ j \in Nat /\ Host[i] \in Hosts
    BY <1>0 DEF Sources, Hosts
  <2>2. CASE Host[i] # Host[j]
    BY <2>2 DEF FileName
  <2>3. CASE Host[i] = Host[j]
    <3>1. Cardinality(Of(Host[i], i)) < Cardinality(Of(Host[i], j))
      BY <1>2, <2>1, <2>3, OfGrows
    <3>2. /\ Cardinality(Of(Host[i], i)) \in Nat /\ Cardinality(Of(Host[i], j)) \in Nat
          /\ timesSeen[Host[i]] \in Nat
      BY <2>1, OfFinite DEF FilesOK
    <3>3. timesSeen[Host[i]] + Cardinality(Of(Host[i], i))
            # timesSeen[Host[i]] + Cardinality(Of(Host[i], j))
      BY <3>1, <3>2
    <3>4. QED
      BY <2>3, <3>3 DEF FileName
  <2>4. QED
    BY <2>2, <2>3
<1>3. \A i, j \in Sources : i # j => i < j \/ j < i
  BY <1>0 DEF Sources
<1>4. QED
  BY <1>1, <1>2, <1>3
-----------------------------------------------------------------------------
(* personal.list *)

LEMMA AppendedProper ==
  ASSUME NEW p, ProperList(p), NEW k \in Keys
  PROVE  ProperList(Appended(p, k))
<1>1. <<k>> \in Seq(Keys)
  OBVIOUS
<1>2. CASE p.open
  <2>1. Len(p.lines) \in 1..Len(p.lines) /\ p.lines[Len(p.lines)] \in Seq(Keys)
    BY <1>2 DEF ProperList
  <2>2. Append(p.lines[Len(p.lines)], k) \in Seq(Keys)
    BY <2>1
  <2>3. [p.lines EXCEPT ![Len(p.lines)] = Append(@, k)] \in Seq(Seq(Keys))
    BY <2>1, <2>2 DEF ProperList
  <2>4. QED
    BY <1>2, <2>3 DEF ProperList, Appended
<1>3. CASE ~p.open
  BY <1>1, <1>3 DEF ProperList, Appended
<1>4. QED
  BY <1>2, <1>3

\* The same line without its newline.
LEMMA AppendedCutProper ==
  ASSUME NEW p, ProperList(p), NEW k \in Keys
  PROVE  ProperList([Appended(p, k) EXCEPT !.open = TRUE])
<1> DEFINE lines == Appended(p, k).lines
<1>1. lines \in Seq(Seq(Keys))
  BY AppendedProper DEF ProperList
<1>2. lines # <<>> /\ Last(lines) # <<>>
  <2>1. CASE p.open
    <3>1. /\ p.lines \in Seq(Seq(Keys)) /\ Len(p.lines) \in 1..Len(p.lines)
          /\ p.lines[Len(p.lines)] \in Seq(Keys)
      BY <2>1 DEF ProperList
    <3>2. lines = [p.lines EXCEPT ![Len(p.lines)] = Append(@, k)]
      BY <2>1 DEF Appended
    <3>3. Len(lines) = Len(p.lines) /\ lines[Len(lines)] = Append(p.lines[Len(p.lines)], k)
      BY <3>1, <3>2
    <3>4. Append(p.lines[Len(p.lines)], k) # <<>>
      <4>1. Len(Append(p.lines[Len(p.lines)], k)) # 0 /\ Len(<<>>) = 0
        BY <3>1
      <4>2. QED
        BY <4>1
    <3>5. Len(lines) # 0
      BY <3>1, <3>3
    <3> HIDE DEF lines
    <3>6. QED
      BY <3>3, <3>4, <3>5 DEF Last
  <2>2. CASE ~p.open
    <3>1. p.lines \in Seq(Seq(Keys)) /\ lines = Append(p.lines, <<k>>) /\ <<k>> \in Seq(Keys)
      BY <2>2 DEF ProperList, Appended
    <3>2. lines[Len(lines)] = <<k>> /\ Len(lines) # 0
      BY <3>1
    <3> HIDE DEF lines
    <3>3. <<k>> # <<>>
      <4>1. Len(<<k>>) = 1 /\ Len(<<>>) = 0
        OBVIOUS
      <4>2. QED
        BY <4>1
    <3>4. QED
      BY <3>2, <3>3 DEF Last
  <2>3. QED
    BY <2>1, <2>2
<1>3. \E s : Appended(p, k) = [lines |-> s, open |-> FALSE]
  BY DEF Appended
<1> HIDE DEF lines
<1>4. /\ [Appended(p, k) EXCEPT !.open = TRUE].lines = lines
      /\ [Appended(p, k) EXCEPT !.open = TRUE].open = TRUE
  BY <1>3 DEF lines
<1>5. QED
  BY <1>1, <1>2, <1>4, Zenon DEF ProperList

LEMMA RewrittenProper ==
  ASSUME NEW p, ProperList(p), NEW lines \in Seq(Seq(Keys))
  PROVE  ProperList(Rewritten(p, lines))
<1>1. CASE lines = <<>>
  BY <1>1 DEF Rewritten
<1>2. CASE lines # <<>>
  <2> DEFINE gap  == IF p.open THEN <<>> ELSE << <<>> >>
             rest == IF Last(lines) = <<>> THEN Front(lines) ELSE lines
  <2>1. gap \in Seq(Seq(Keys))
    <3>1. <<>> \in Seq(Keys)
      OBVIOUS
    <3>2. << <<>> >> \in Seq(Seq(Keys)) /\ <<>> \in Seq(Seq(Keys))
      BY <3>1
    <3>3. QED
      BY <3>2
  <2>2. rest \in Seq(Seq(Keys))
    <3>1. Front(lines) \in Seq(Seq(Keys))
      BY <1>2 DEF Front
    <3>2. QED
      BY <3>1
  <2>3. Last(lines) # <<>> => rest # <<>> /\ rest[Len(rest)] # <<>>
    BY <1>2 DEF Last
  <2>4. Rewritten(p, lines) = [lines |-> p.lines \o gap \o rest, open |-> Last(lines) # <<>>]
    BY <1>2 DEF Rewritten
  <2> HIDE DEF gap, rest
  <2>5. p.lines \in Seq(Seq(Keys))
    BY DEF ProperList
  <2>6. p.lines \o gap \o rest \in Seq(Seq(Keys))
    BY <2>1, <2>2, <2>5
  <2>7. rest # <<>> => /\ p.lines \o gap \o rest # <<>>
                       /\ Last(p.lines \o gap \o rest) = rest[Len(rest)]
    BY <2>1, <2>2, <2>5 DEF Last
  <2> DEFINE new == p.lines \o gap \o rest
  <2>8. /\ new \in Seq(Seq(Keys))
        /\ Last(lines) # <<>> => new # <<>> /\ Last(new) # <<>>
    BY <2>3, <2>6, <2>7
  <2>9. Rewritten(p, lines) = [lines |-> new, open |-> Last(lines) # <<>>]
    BY <2>4
  <2> HIDE DEF new
  <2>10. /\ Rewritten(p, lines).lines = new
         /\ Rewritten(p, lines).open = (Last(lines) # <<>>)
    BY <2>9
  <2>11. QED
    BY <2>8, <2>10, Zenon DEF ProperList
<1>3. QED
  BY <1>1, <1>2

\* What the scanner keeps.
LEMMA KeptLines ==
  ASSUME NEW lines \in Seq(Seq(Keys)), NEW rows \in SUBSET DOMAIN lines,
         NEW row \in [1..Cardinality(rows) -> rows]
  PROVE  [n \in DOMAIN row |-> lines[row[n]]] \in Seq(Seq(Keys))
<1>1. IsFiniteSet(1..Len(lines)) /\ rows \in SUBSET (1..Len(lines))
  BY FS_Interval
<1>2. Cardinality(rows) \in Nat
  BY <1>1, FS_Subset, FS_CardinalityType
<1>3. \A n \in 1..Cardinality(rows) : lines[row[n]] \in Seq(Keys)
  BY <1>1
<1>4. DOMAIN row = 1..Cardinality(rows)
  OBVIOUS
<1>5. QED
  BY <1>2, <1>3, <1>4
-----------------------------------------------------------------------------
(* Steps *)

LEMMA OpKinds ==
  /\ \A o \in Ops : /\ o.kind \in {"toggle", "remove", "update"} /\ o # NoOp
                    /\ o.kind \in {"toggle", "remove"} => o.key \in Keys
<1>1. ASSUME NEW o \in Ops
      PROVE  /\ o.kind \in {"toggle", "remove", "update"}
             /\ o.kind \in {"toggle", "remove"} => o.key \in Keys
  BY <1>1 DEF Ops
<1>2. NoOp.kind = "none"
  BY DEF NoOp
<1>3. QED
  BY <1>1, <1>2

\* A request leaves the files of the sources and the update alone.
LEMMA RequestFrame ==
  ASSUME NEW c \in Clients, Handle(c) \/ \E o \in Ops : Request(c, o)
  PROVE  /\ UNCHANGED <<store, timesSeen, dl, name, got, building, main, boot, served>>
         /\ UNCHANGED <<walked, applied, updates, crashes>>
         /\ torn => torn'
<1>1. CASE Handle(c)
  <2>1. CASE RemoveKey(c) \/ SetGet(c) \/ SetSet(c) \/ SetRemove(c) \/ PostUpdate(c)
    BY <2>1 DEF RemoveKey, SetGet, SetSet, SetRemove, PostUpdate, Block, Unblock,
                disk, fetch, history, bounds
  <2>2. CASE SetAppend(c) \/ SetAppendFails(c) \/ SetAppendCut(c)
    BY <2>2 DEF SetAppend, SetAppendFails, SetAppendCut, disk, fetch, history, bounds
  <2>3. CASE SetScan(c) \/ SetScanFails(c) \/ SetTruncate(c) \/ SetWrite(c)
    BY <2>3 DEF SetScan, SetScanFails, SetTruncate, SetWrite, disk, fetch, history, bounds
  <2>4. QED
    BY <1>1, <2>1, <2>2, <2>3 DEF Handle
<1>2. CASE \E o \in Ops : Request(c, o)
  BY <1>2 DEF Request, disk, fetch, api, history, bounds
<1>3. QED
  BY <1>1, <1>2

\* What a request does to the cache in use.
LEMMA RequestCaches ==
  ASSUME RequestsOK, NEW c \in Clients, Handle(c) \/ \E o \in Ops : Request(c, o)
  PROVE  \/ UNCHANGED <<inuse, added, removed>>
         \/ \E k \in Keys : Block(k) \/ Unblock(k)
<1>1. CASE RemoveKey(c)
  BY <1>1 DEF RemoveKey, RequestsOK, KeyStages
<1>2. CASE SetSet(c)
  BY <1>2 DEF SetSet, RequestsOK, KeyStages
<1>3. CASE SetRemove(c)
  BY <1>3 DEF SetRemove, RequestsOK, KeyStages
<1>4. CASE SetGet(c) \/ SetAppend(c) \/ SetAppendFails(c) \/ SetAppendCut(c) \/ SetScan(c)
             \/ SetScanFails(c) \/ SetTruncate(c) \/ SetWrite(c) \/ PostUpdate(c)
  BY <1>4 DEF SetGet, SetAppend, SetAppendFails, SetAppendCut, SetScan, SetScanFails,
              SetTruncate, SetWrite, PostUpdate, history
<1>5. CASE \E o \in Ops : Request(c, o)
  BY <1>5 DEF Request, history
<1>6. QED
  BY <1>1, <1>2, <1>3, <1>4, <1>5 DEF Handle
-----------------------------------------------------------------------------
(* Shape *)

LEMMA ShapeInit == Init => Shape
<1> SUFFICES ASSUME Init PROVE Shape
  OBVIOUS
<1>1. FilesOK
  <2>1. N \in Nat /\ MaxUpdates \in Nat /\ N * 0 = 0
    BY SourcesAssumption, BoundsAssumption
  <2>2. DOMAIN store = {}
    BY DEF Init
  <2>3. QED
    BY <2>1, <2>2 DEF Init, FilesOK
<1>2. CachesOK
  BY DEF Init, CachesOK
<1>3. ProperList(personal)
  BY DEF Init, EmptyList, ProperList
<1>4. RequestsOK
  BY <1>3 DEF Init, RequestsOK, KeyStages
<1>5. QED
  BY <1>1, <1>2, <1>4 DEF Shape

\* A file of the update is written.
LEMMA WriteFileOK ==
  ASSUME FilesOK, NEW i \in Sources, dl[i] # "none", NEW keys \in SUBSET Keys,
         WriteFile(i, keys)
  PROVE  DOMAIN store' \subseteq Names /\ \A f \in DOMAIN store' : store'[f] \subseteq Keys
BY DEF WriteFile, FilesOK

LEMMA FilesStep ==
  ASSUME FilesOK, [Next]_vars
  PROVE  FilesOK'
<1>0. N \in Nat /\ MaxUpdates \in Nat /\ updates \in Nat /\ updates <= MaxUpdates
  BY SourcesAssumption, BoundsAssumption DEF FilesOK
<1>1. CASE Update
  <2>1. updates < MaxUpdates /\ updates' = updates + 1 /\ store' = store
    BY <1>1 DEF Update, disk
  <2>2. \A i \in Sources : name'[i] \in Names
    BY <1>1, <2>1, FileNames DEF Update
  <2>3. timesSeen' = [h \in Hosts |-> timesSeen[h] + Cardinality(Of(h, N))]
    BY <1>1 DEF Update
  <2>4. ASSUME NEW h \in Hosts
        PROVE  timesSeen'[h] \in Nat /\ timesSeen'[h] <= N * updates'
    <3>1. Cardinality(Of(h, N)) \in Nat /\ Cardinality(Of(h, N)) <= N
      BY <1>0, OfFinite
    <3>2. timesSeen[h] \in Nat /\ timesSeen[h] <= N * updates
      BY DEF FilesOK
    <3>3. N * updates + N = N * updates' /\ N * updates \in Nat
      BY <1>0, <2>1, OneMoreUpdate
    <3>4. timesSeen'[h] = timesSeen[h] + Cardinality(Of(h, N))
      BY <2>3
    <3>5. QED
      BY <1>0, <3>1, <3>2, <3>3, <3>4
  <2>5. timesSeen' \in [Hosts -> Nat]
    BY <2>3, <2>4
  <2>6. updates' \in 0..MaxUpdates
    BY <1>0, <2>1
  <2>7. dl' \in [Sources -> {"none", "create", "get", "done", "failed"}]
    BY <1>1 DEF Update
  <2>8. DOMAIN name' = Sources
    BY <1>1 DEF Update
  <2>9. QED
    BY <2>1, <2>2, <2>4, <2>5, <2>6, <2>7, <2>8 DEF FilesOK, Names
<1>2. ASSUME NEW i \in Sources, Create(i)
      PROVE  FilesOK'
  <2>1. dl[i] # "none" /\ UNCHANGED <<timesSeen, name, updates>>
    BY <1>2 DEF Create, bounds
  <2>2. DOMAIN store' \subseteq Names /\ \A f \in DOMAIN store' : store'[f] \subseteq Keys
    <3>1. CASE WriteFile(i, {})
      BY <2>1, <3>1, WriteFileOK
    <3>2. CASE UNCHANGED store
      BY <3>2 DEF FilesOK
    <3>3. QED
      BY <1>2, <3>1, <3>2 DEF Create
  <2>3. /\ dl' \in [Sources -> {"none", "create", "get", "done", "failed"}]
        /\ \A j \in Sources : dl'[j] # "none" => dl[j] # "none"
    BY <1>2 DEF Create, FilesOK
  <2>4. QED
    BY <2>1, <2>2, <2>3 DEF FilesOK, Names
<1>3. ASSUME NEW i \in Sources, Download(i)
      PROVE  FilesOK'
  <2>1. dl[i] # "none" /\ UNCHANGED <<timesSeen, name, updates>>
    BY <1>3 DEF Download, bounds
  <2>2. DOMAIN store' \subseteq Names /\ \A f \in DOMAIN store' : store'[f] \subseteq Keys
    <3>1. PICK keys \in SUBSET Keys : WriteFile(i, keys)
      BY <1>3, SourcesAssumption DEF Download, Sources
    <3>2. QED
      BY <2>1, <3>1, WriteFileOK
  <2>3. /\ dl' \in [Sources -> {"none", "create", "get", "done", "failed"}]
        /\ \A j \in Sources : dl'[j] # "none" => dl[j] # "none"
    BY <1>3 DEF Download, FilesOK
  <2>4. QED
    BY <2>1, <2>2, <2>3 DEF FilesOK, Names
<1>4. CASE Crash
  <2>1. N * updates \in Nat
    BY <1>0
  <2>2. /\ UNCHANGED <<store, updates>> /\ timesSeen' = [h \in Hosts |-> 0]
        /\ dl' = [i \in Sources |-> "none"] /\ name' = [i \in Sources |-> << >>]
    BY <1>4 DEF Crash, disk
  <2>3. \A h \in Hosts : timesSeen'[h] <= N * updates'
    BY <2>1, <2>2
  <2>4. QED
    BY <2>2, <2>3 DEF FilesOK, Names
<1>5. CASE UNCHANGED <<store, timesSeen, dl, name, updates>>
  BY <1>5 DEF FilesOK, Names
<1>6. CASE Walk \/ Shutdown \/ Swap \/ Reload \/ UNCHANGED vars
  BY <1>5, <1>6 DEF Walk, Shutdown, Swap, Reload, vars, disk, fetch, bounds
<1>7. ASSUME NEW c \in Clients, Handle(c) \/ \E o \in Ops : Request(c, o)
      PROVE  FilesOK'
  BY <1>5, <1>7, RequestFrame
<1>8. QED
  BY <1>1, <1>2, <1>3, <1>4, <1>6, <1>7 DEF Next

LEMMA LoadedKeys ==
  ASSUME Shape, NEW S \in Loaded
  PROVE  S \subseteq Keys \ Invalid /\ building \subseteq S /\ S \subseteq building \cup Admitted
<1>1. Admitted \subseteq Keys
  BY DEF Admitted, StoredLines, Listed, Shape, FilesOK
<1>2. PICK A \in SUBSET (Admitted \ Invalid) : S = building \cup A
  BY DEF Loaded
<1>3. QED
  BY <1>1, <1>2 DEF Shape, CachesOK

LEMMA CachesStep ==
  ASSUME Shape, [Next]_vars
  PROVE  CachesOK'
<1> USE DEF CachesOK
<1>0. CachesOK /\ RequestsOK
  BY DEF Shape
<1>1. CASE Update
  BY <1>0, <1>1, ConfigAssumption DEF Update, Put
<1>2. ASSUME NEW i \in Sources, Create(i)
      PROVE  CachesOK'
  BY <1>0, <1>2 DEF Create
<1>3. ASSUME NEW i \in Sources, Download(i)
      PROVE  CachesOK'
  <2>1. got' \subseteq Keys
    BY <1>0, <1>3, SourcesAssumption DEF Download, Sources
  <2>2. QED
    BY <1>0, <1>3, <2>1 DEF Download
<1>4. CASE Walk
  <2>1. building' \subseteq Keys \ Invalid
    BY <1>4, LoadedKeys DEF Walk
  <2>2. QED
    BY <1>0, <1>4, <2>1 DEF Walk
<1>5. CASE Shutdown \/ Swap \/ Reload \/ Crash
  <2>1. CASE Shutdown
    BY <1>0, <2>1 DEF Shutdown, fetch
  <2>2. CASE Swap
    BY <1>0, <2>2 DEF Swap, fetch
  <2>3. CASE Reload
    BY <1>0, <2>3 DEF Reload, fetch
  <2>4. CASE Crash
    BY <1>0, <2>4 DEF Crash
  <2>5. QED
    BY <1>5, <2>1, <2>2, <2>3, <2>4
<1>6. ASSUME NEW c \in Clients, Handle(c) \/ \E o \in Ops : Request(c, o)
      PROVE  CachesOK'
  <2>1. UNCHANGED <<got, building, main, boot>>
    BY <1>6, RequestFrame
  <2>2. inuse' \subseteq Keys \ Invalid
    BY <1>0, <1>6, RequestCaches DEF Block, Unblock, Put
  <2>3. reloads' \in Nat
    BY <1>0, <1>6 DEF Handle, Request, RemoveKey, SetGet, SetSet, SetAppend, SetAppendFails,
                       SetAppendCut, SetRemove, SetScan, SetScanFails, SetTruncate, SetWrite, PostUpdate
  <2>4. QED
    BY <1>0, <2>1, <2>2, <2>3
<1>7. CASE UNCHANGED vars
  BY <1>0, <1>7 DEF vars, fetch
<1>8. QED
  BY <1>1, <1>2, <1>3, <1>4, <1>5, <1>6, <1>7 DEF Next

\* A request that is over, and one that goes on, fit the rest of the state.
LEMMA ReturnOK ==
  ASSUME RequestsOK, NEW c \in Clients, Return(c), ProperList(personal'), added' \subseteq Keys
  PROVE  RequestsOK'
<1>1. at' = [at EXCEPT ![c] = "idle"] /\ op' = [op EXCEPT ![c] = NoOp]
  BY DEF Return, GoOn
<1>2. kept' \in [Clients -> Seq(Seq(Keys))]
  <2>1. <<>> \in Seq(Seq(Keys))
    OBVIOUS
  <2>2. QED
    BY <2>1 DEF Return, RequestsOK
<1>3. /\ op' \in [Clients -> Ops \cup {NoOp}]
      /\ at' \in [Clients -> KeyStages \cup {"idle", "update"}]
  BY <1>1 DEF RequestsOK
<1>4. ASSUME NEW d \in Clients
      PROVE  /\ at'[d] = "idle" <=> op'[d] = NoOp
             /\ at'[d] \in KeyStages => op'[d].key \in Keys
  <2>1. CASE d = c
    BY <1>1, <2>1 DEF RequestsOK, KeyStages
  <2>2. CASE d # c
    <3>1. at'[d] = at[d] /\ op'[d] = op[d]
      BY <1>1, <2>2 DEF RequestsOK
    <3>2. QED
      BY <3>1 DEF RequestsOK
  <2>3. QED
    BY <2>1, <2>2
<1>5. QED
  BY <1>2, <1>3, <1>4 DEF RequestsOK

LEMMA GoOnOK ==
  ASSUME RequestsOK, NEW c \in Clients, at[c] \in KeyStages, NEW l \in KeyStages, GoOn(c, l),
         op' = op, kept' \in [Clients -> Seq(Seq(Keys))], ProperList(personal'),
         added' \subseteq Keys
  PROVE  RequestsOK'
<1>1. at' = [at EXCEPT ![c] = l]
  BY DEF GoOn
<1>2. /\ op' \in [Clients -> Ops \cup {NoOp}]
      /\ at' \in [Clients -> KeyStages \cup {"idle", "update"}]
  BY <1>1 DEF RequestsOK
<1>3. ASSUME NEW d \in Clients
      PROVE  /\ at'[d] = "idle" <=> op'[d] = NoOp
             /\ at'[d] \in KeyStages => op'[d].key \in Keys
  <2>1. CASE d = c
    <3>1. at'[d] = l /\ at[d] \in KeyStages
      BY <1>1, <2>1 DEF RequestsOK
    <3>2. l # "idle" /\ at[d] # "idle"
      BY <3>1 DEF KeyStages
    <3>3. QED
      BY <3>1, <3>2 DEF RequestsOK
  <2>2. CASE d # c
    <3>1. at'[d] = at[d]
      BY <1>1, <2>2 DEF RequestsOK
    <3>2. QED
      BY <3>1 DEF RequestsOK
  <2>3. QED
    BY <2>1, <2>2
<1>4. QED
  BY <1>2, <1>3 DEF RequestsOK

LEMMA RequestOK ==
  ASSUME RequestsOK, NEW c \in Clients, NEW o \in Ops, Request(c, o)
  PROVE  RequestsOK'
<1>1. /\ at' = [at EXCEPT ![c] = o.kind] /\ op' = [op EXCEPT ![c] = o]
      /\ UNCHANGED <<personal, kept, added>>
  BY DEF Request, GoOn, disk, history
<1>2. /\ o.kind \in KeyStages \cup {"idle", "update"} /\ o.kind # "idle" /\ o # NoOp
      /\ o.kind \in KeyStages => o.key \in Keys
  BY OpKinds DEF KeyStages
<1>3. /\ op' \in [Clients -> Ops \cup {NoOp}]
      /\ at' \in [Clients -> KeyStages \cup {"idle", "update"}]
  BY <1>1, <1>2 DEF RequestsOK
<1>4. ASSUME NEW d \in Clients
      PROVE  /\ at'[d] = "idle" <=> op'[d] = NoOp
             /\ at'[d] \in KeyStages => op'[d].key \in Keys
  <2>1. CASE d = c
    <3>1. at'[d] = o.kind /\ op'[d] = o
      BY <1>1, <2>1 DEF RequestsOK
    <3>2. QED
      BY <1>2, <3>1
  <2>2. CASE d # c
    <3>1. at'[d] = at[d] /\ op'[d] = op[d]
      BY <1>1, <2>2 DEF RequestsOK
    <3>2. QED
      BY <3>1 DEF RequestsOK
  <2>3. QED
    BY <2>1, <2>2
<1>5. QED
  BY <1>1, <1>3, <1>4 DEF RequestsOK, ProperList

LEMMA HandleOK ==
  ASSUME RequestsOK, NEW c \in Clients, Handle(c)
  PROVE  RequestsOK'
<1>1. added' \subseteq Keys
  <2>1. added \subseteq Keys
    BY DEF RequestsOK
  <2>2. QED
    BY <2>1, RequestCaches DEF Block, Unblock
<1>2. CASE RemoveKey(c) \/ SetGet(c) \/ SetSet(c) \/ SetRemove(c) \/ SetScan(c)
             \/ SetScanFails(c) \/ SetAppendFails(c) \/ PostUpdate(c)
  <2> personal' = personal
    BY <1>2 DEF RemoveKey, SetGet, SetSet, SetRemove, SetScan, SetScanFails, SetAppendFails,
                PostUpdate, disk
  <2>0. ProperList(personal') /\ kept \in [Clients -> Seq(Seq(Keys))]
    BY DEF RequestsOK
  <2>1. CASE RemoveKey(c) \/ SetScanFails(c) \/ SetAppendFails(c) \/ PostUpdate(c)
    BY <1>1, <2>0, <2>1, ReturnOK DEF RemoveKey, SetScanFails, SetAppendFails, PostUpdate
  <2>2. CASE SetGet(c)
    <3>1. PICK l \in {"set", "unset"} : GoOn(c, l)
      BY <2>2 DEF SetGet
    <3>2. at[c] \in KeyStages /\ l \in KeyStages /\ UNCHANGED <<op, kept>>
      BY <2>2 DEF SetGet, KeyStages
    <3>3. QED
      BY <1>1, <2>0, <3>1, <3>2, GoOnOK
  <2>3. CASE SetSet(c)
    <3>1. at[c] \in KeyStages /\ "append" \in KeyStages /\ UNCHANGED <<op, kept>>
          /\ GoOn(c, "append")
      BY <2>3 DEF SetSet, KeyStages
    <3>2. QED
      BY <1>1, <2>0, <3>1, GoOnOK
  <2>4. CASE SetRemove(c)
    <3>1. at[c] \in KeyStages /\ "scan" \in KeyStages /\ UNCHANGED <<op, kept>>
          /\ GoOn(c, "scan")
      BY <2>4 DEF SetRemove, KeyStages
    <3>2. QED
      BY <1>1, <2>0, <3>1, GoOnOK
  <2>5. CASE SetScan(c)
    <3>1. at[c] \in KeyStages /\ "truncate" \in KeyStages /\ UNCHANGED op
          /\ GoOn(c, "truncate")
      BY <2>5 DEF SetScan, KeyStages
    <3>2. PICK others \in SUBSET DOMAIN personal.lines :
            \E row \in [1..Cardinality(others) -> others] :
              kept' = [kept EXCEPT ![c] = [n \in DOMAIN row |-> personal.lines[row[n]]]]
      BY <2>5 DEF SetScan
    <3>3. PICK row \in [1..Cardinality(others) -> others] :
            kept' = [kept EXCEPT ![c] = [n \in DOMAIN row |-> personal.lines[row[n]]]]
      BY <3>2
    <3>4. [n \in DOMAIN row |-> personal.lines[row[n]]] \in Seq(Seq(Keys))
      BY KeptLines DEF RequestsOK, ProperList
    <3>5. kept' \in [Clients -> Seq(Seq(Keys))]
      BY <2>0, <3>3, <3>4
    <3>6. QED
      BY <1>1, <2>0, <3>1, <3>5, GoOnOK
  <2>6. QED
    BY <1>2, <2>1, <2>2, <2>3, <2>4, <2>5
<1>3. CASE SetAppend(c) \/ SetAppendCut(c)
  <2>1. op[c].key \in Keys /\ ProperList(personal)
    BY <1>3 DEF SetAppend, SetAppendCut, RequestsOK, KeyStages
  <2>2. /\ Return(c)
        /\ \/ personal' = Appended(personal, op[c].key)
           \/ personal' = [Appended(personal, op[c].key) EXCEPT !.open = TRUE]
    BY <1>3 DEF SetAppend, SetAppendCut
  <2>3. ProperList(personal')
    BY <2>1, <2>2, AppendedProper, AppendedCutProper
  <2>4. QED
    BY <1>1, <2>2, <2>3, ReturnOK
<1>4. CASE SetTruncate(c)
  <2>1. /\ at[c] \in KeyStages /\ "write" \in KeyStages /\ UNCHANGED <<op, kept>>
        /\ GoOn(c, "write") /\ (personal' = EmptyList \/ personal' = personal)
    BY <1>4 DEF SetTruncate, KeyStages
  <2>2. ProperList(EmptyList) /\ ProperList(personal)
    BY DEF RequestsOK, ProperList, EmptyList
  <2>3. kept' \in [Clients -> Seq(Seq(Keys))]
    BY <2>1 DEF RequestsOK
  <2>4. ProperList(personal')
    BY <2>1, <2>2
  <2>5. QED
    BY <1>1, <2>1, <2>3, <2>4, GoOnOK
<1>5. CASE SetWrite(c)
  <2>1. kept[c] \in Seq(Seq(Keys)) /\ ProperList(personal)
    BY DEF RequestsOK
  <2>2. PICK n \in 0..Len(kept[c]) : personal' = Rewritten(personal, SubSeq(kept[c], 1, n))
    BY <1>5 DEF SetWrite
  <2>3. SubSeq(kept[c], 1, n) \in Seq(Seq(Keys))
    BY <2>1
  <2>4. ProperList(personal') /\ Return(c)
    BY <1>5, <2>1, <2>2, <2>3, RewrittenProper DEF SetWrite
  <2>5. QED
    BY <1>1, <2>4, ReturnOK
<1>6. QED
  BY <1>2, <1>3, <1>4, <1>5 DEF Handle

LEMMA RequestsStep ==
  ASSUME RequestsOK, [Next]_vars
  PROVE  RequestsOK'
<1>1. CASE UNCHANGED <<personal, op, at, kept, added>>
  BY <1>1 DEF RequestsOK, ProperList
<1>2. CASE Update \/ Walk \/ Shutdown \/ Reload \/ UNCHANGED vars
  BY <1>1, <1>2 DEF Update, Walk, Shutdown, Reload, vars, disk, api, history
<1>3. ASSUME NEW i \in Sources, Create(i) \/ Download(i)
      PROVE  RequestsOK'
  BY <1>1, <1>3 DEF Create, Download, api, history
<1>4. CASE Swap
  <2>1. UNCHANGED <<personal, op, at, kept>> /\ added' = {}
    BY <1>4 DEF Swap, disk, api
  <2>2. QED
    BY <2>1 DEF RequestsOK, ProperList
<1>5. CASE Crash
  <2>1. /\ personal' = personal /\ added' = {} /\ at' = [c \in Clients |-> "idle"]
        /\ op' = [c \in Clients |-> NoOp] /\ kept' = [c \in Clients |-> <<>>]
    BY <1>5 DEF Crash, disk
  <2>2. \A c \in Clients : at'[c] = "idle" /\ op'[c] = NoOp
    BY <2>1
  <2>3. QED
    BY <2>1, <2>2 DEF RequestsOK, ProperList, KeyStages
<1>6. QED
  BY <1>2, <1>3, <1>4, <1>5, HandleOK, RequestOK DEF Next

LEMMA ShapeStep ==
  ASSUME Shape, [Next]_vars
  PROVE  Shape'
BY FilesStep, CachesStep, RequestsStep DEF Shape
-----------------------------------------------------------------------------
(* The downloads *)

\* The files of the downloads that are done survive the writing of another.
LEMMA OtherFiles ==
  ASSUME Apart, NEW i \in Sources, NEW j \in Sources, i # j, dl[i] # "none", dl[j] # "none",
         NEW keys, WriteFile(i, keys), name[j] \in DOMAIN store
  PROVE  name[j] \in DOMAIN store' /\ store'[name[j]] = store[name[j]]
BY DEF Apart, WriteFile

LEMMA DownloadsStep ==
  ASSUME Shape, Downloads, [Next]_vars
  PROVE  Downloads'
<1>0. /\ FilesOK /\ Apart /\ Brought
      /\ main \in {"stop", "drain"} => Fetched
  BY DEF Shape, Downloads
<1>1. CASE Update
  <2>1. updates < MaxUpdates /\ name' = [i \in Sources |-> FileName(i)] /\ got' = {}
        /\ main' = "fetch"
    BY <1>1 DEF Update
  <2>2. Apart'
    BY <1>0, <2>1, FileNames DEF Apart
  <2>3. QED
    BY <2>1, <2>2 DEF Downloads, Brought
<1>2. ASSUME NEW i \in Sources, Create(i)
      PROVE  Downloads'
  <2>1. dl[i] = "create" /\ UNCHANGED <<name, got, main>>
    BY <1>2 DEF Create
  <2>2. PICK l \in {"get", "failed"} : dl' = [dl EXCEPT ![i] = l]
    BY <1>2 DEF Create
  <2>3. Apart'
    BY <1>0, <2>1, <2>2 DEF Apart, FilesOK
  <2>4. main' \notin {"stop", "drain"}
    BY <1>0, <2>1 DEF Fetched
  <2>5. ASSUME NEW k \in got
        PROVE  \E j \in Sources :
                 dl'[j] = "done" /\ name[j] \in DOMAIN store' /\ k \in store'[name[j]]
    <3>1. PICK j \in Sources :
            dl[j] = "done" /\ name[j] \in DOMAIN store /\ k \in store[name[j]]
      BY <1>0 DEF Brought
    <3>2. j # i /\ dl'[j] = "done"
      BY <2>1, <2>2, <3>1 DEF FilesOK
    <3>3. name[j] \in DOMAIN store' /\ store'[name[j]] = store[name[j]]
      <4>1. CASE UNCHANGED store
        BY <3>1, <4>1
      <4>2. CASE WriteFile(i, {})
        BY <1>0, <2>1, <3>1, <3>2, <4>2, OtherFiles
      <4>3. QED
        BY <1>2, <4>1, <4>2 DEF Create
    <3>4. QED
      BY <3>1, <3>2, <3>3
  <2>6. QED
    BY <2>1, <2>3, <2>4, <2>5 DEF Downloads, Brought
<1>3. ASSUME NEW i \in Sources, Download(i)
      PROVE  Downloads'
  <2>1. dl[i] = "get" /\ UNCHANGED <<name, main>>
    BY <1>3 DEF Download
  <2>2. PICK keys :
          /\ WriteFile(i, keys)
          /\ \/ got' = got \cup keys /\ dl' = [dl EXCEPT ![i] = "done"]
             \/ got' = got /\ dl' = [dl EXCEPT ![i] = "failed"]
    BY <1>3 DEF Download
  <2>3. Apart'
    BY <1>0, <2>1, <2>2 DEF Apart, FilesOK
  <2>4. main' \notin {"stop", "drain"}
    BY <1>0, <2>1 DEF Fetched
  <2>5. ASSUME NEW k \in got'
        PROVE  \E j \in Sources :
                 dl'[j] = "done" /\ name[j] \in DOMAIN store' /\ k \in store'[name[j]]
    <3>1. CASE k \in got
      <4>1. PICK j \in Sources :
              dl[j] = "done" /\ name[j] \in DOMAIN store /\ k \in store[name[j]]
        BY <1>0, <3>1 DEF Brought
      <4>2. j # i /\ dl'[j] = "done"
        BY <1>0, <2>1, <2>2, <4>1 DEF FilesOK
      <4>3. name[j] \in DOMAIN store' /\ store'[name[j]] = store[name[j]]
        BY <1>0, <2>1, <2>2, <4>1, <4>2, OtherFiles
      <4>4. QED
        BY <4>1, <4>2, <4>3
    <3>2. CASE k \notin got
      <4>1. k \in keys /\ dl'[i] = "done"
        BY <1>0, <2>2, <3>2 DEF FilesOK
      <4>2. name[i] \in DOMAIN store' /\ store'[name[i]] = keys
        BY <2>2 DEF WriteFile
      <4>3. QED
        BY <4>1, <4>2
    <3>3. QED
      BY <3>1, <3>2
  <2>6. QED
    BY <2>1, <2>3, <2>4, <2>5 DEF Downloads, Brought
<1>4. CASE Crash
  BY <1>4 DEF Crash, Downloads, Apart, Brought
<1>5. CASE Walk
  <2>1. UNCHANGED <<store, dl, name, got>> /\ Fetched
    BY <1>5 DEF Walk, disk
  <2>2. QED
    BY <1>0, <2>1 DEF Downloads, Apart, Brought, Fetched
<1>6. ASSUME UNCHANGED <<store, dl, name, got>>,
             main' \in {"stop", "drain"} => main \in {"stop", "drain"}
      PROVE  Downloads'
  BY <1>0, <1>6 DEF Downloads, Apart, Brought, Fetched
<1>7. CASE Shutdown \/ Swap \/ Reload \/ UNCHANGED vars
  BY <1>6, <1>7 DEF Shutdown, Swap, Reload, vars, disk, fetch
<1>8. ASSUME NEW c \in Clients, Handle(c) \/ \E o \in Ops : Request(c, o)
      PROVE  Downloads'
  BY <1>6, <1>8, RequestFrame
<1>9. QED
  BY <1>1, <1>2, <1>3, <1>4, <1>5, <1>7, <1>8 DEF Next
-----------------------------------------------------------------------------
(* The cache that is built *)

LEMMA ExistsMonotone ==
  ASSUME NEW S, NEW T, S \subseteq T, NEW k, Exists(S, k)
  PROVE  Exists(T, k)
BY DEF Exists

LEMMA LoadedAll ==
  ASSUME NEW S \in Loaded, NEW k \in Admitted \ Invalid
  PROVE  k \in S \/ Exists(S, k)
<1>1. building \subseteq S
  BY DEF Loaded
<1>2. CASE Exists(building, k)
  BY <1>1, <1>2, ExistsMonotone
<1>3. CASE ~Exists(building, k)
  BY <1>3 DEF Loaded
<1>4. QED
  BY <1>2, <1>3

LEMMA BuiltStep ==
  ASSUME Shape, Built, [Next]_vars
  PROVE  Built'
<1>1. CASE Update
  BY <1>1 DEF Update, Put, Built
<1>2. CASE Walk
  <2>1. building \subseteq building' /\ building' \subseteq building \cup Admitted
    BY <1>2, LoadedKeys DEF Walk
  <2>2. Admitted \cap Whitelist \subseteq Capitals
    BY DEF Admitted
  <2>3. main = "fetch"
    BY <1>2 DEF Walk
  <2>4. QED
    BY <2>1, <2>2, <2>3 DEF Built
<1>3. CASE Crash
  BY <1>3 DEF Crash, Built
<1>4. ASSUME building' = building,
             main' \in {"fetch", "stop", "drain"} => main \in {"fetch", "stop", "drain"}
      PROVE  Built'
  BY <1>4 DEF Built
<1>5. CASE Shutdown \/ Swap \/ Reload \/ UNCHANGED vars
  BY <1>4, <1>5 DEF Shutdown, Swap, Reload, vars, fetch
<1>6. ASSUME NEW i \in Sources, Create(i) \/ Download(i)
      PROVE  Built'
  BY <1>4, <1>6 DEF Create, Download
<1>7. ASSUME NEW c \in Clients, Handle(c) \/ \E o \in Ops : Request(c, o)
      PROVE  Built'
  BY <1>4, <1>7, RequestFrame
<1>8. QED
  BY <1>1, <1>2, <1>3, <1>5, <1>6, <1>7 DEF Next

LEMMA ImportsStep ==
  ASSUME Shape, Downloads, ImportsAll, [Next]_vars
  PROVE  ImportsAll'
<1>1. CASE Walk
  <2>1. building' \in Loaded /\ got' = got
    BY <1>1 DEF Walk
  <2>2. got \subseteq StoredLines
    BY DEF Downloads, Brought, StoredLines
  <2>3. Wanted(got) \subseteq Admitted \ Invalid
    BY <2>2 DEF Wanted, Admitted
  <2>4. \A k \in Wanted(got) : k \in building' \/ Exists(building', k)
    BY <2>1, <2>3, LoadedAll
  <2>5. QED
    BY <2>1, <2>4 DEF ImportsAll
<1>2. ASSUME UNCHANGED <<got, building>>,
             main' \in {"stop", "drain"} => main \in {"stop", "drain"}
      PROVE  ImportsAll'
  BY <1>2 DEF ImportsAll
<1>3. CASE Shutdown \/ Swap \/ Reload \/ UNCHANGED vars
  BY <1>2, <1>3 DEF Shutdown, Swap, Reload, vars, fetch
<1>4. CASE Update \/ Crash
  BY <1>4 DEF Update, Crash, ImportsAll
<1>5. ASSUME NEW i \in Sources, Create(i) \/ Download(i)
      PROVE  ImportsAll'
  <2>1. main' = main /\ ~Fetched
    BY <1>5 DEF Create, Download, Fetched
  <2>2. QED
    BY <2>1 DEF Downloads, ImportsAll
<1>6. ASSUME NEW c \in Clients, Handle(c) \/ \E o \in Ops : Request(c, o)
      PROVE  ImportsAll'
  BY <1>2, <1>6, RequestFrame
<1>7. QED
  BY <1>1, <1>3, <1>4, <1>5, <1>6 DEF Next
-----------------------------------------------------------------------------
(* The cache in use *)

\* The steps of the update but Swap and Crash leave the cache in use alone.
LEMMA UpdateFrame ==
  ASSUME \/ Update \/ Walk \/ Shutdown \/ Reload \/ UNCHANGED vars
         \/ \E i \in Sources : Create(i) \/ Download(i)
  PROVE  UNCHANGED <<inuse, boot, served, added, removed, saved, applied, torn, personal, at, op>>
<1>1. CASE Update \/ Walk \/ Shutdown \/ Reload \/ UNCHANGED vars
  BY <1>1 DEF Update, Walk, Shutdown, Reload, vars, disk, api, history
<1>2. CASE \E i \in Sources : Create(i) \/ Download(i)
  BY <1>2 DEF Create, Download, api, history
<1>3. QED
  BY <1>1, <1>2

LEMMA WhitelistStep ==
  ASSUME Shape, Built, WhitelistHolds, [Next]_vars
  PROVE  WhitelistHolds'
<1>1. CASE Swap
  BY <1>1 DEF Swap, Built, WhitelistHolds
<1>2. CASE Crash
  BY <1>2 DEF Crash, WhitelistHolds
<1>3. ASSUME NEW c \in Clients, Handle(c) \/ \E o \in Ops : Request(c, o)
      PROVE  WhitelistHolds'
  BY <1>3, RequestCaches DEF Shape, Block, Unblock, Put, WhitelistHolds
<1>4. CASE UNCHANGED <<inuse, added>>
  BY <1>4 DEF WhitelistHolds
<1>5. QED
  BY <1>1, <1>2, <1>3, <1>4, UpdateFrame DEF Next

LEMMA UseStep ==
  ASSUME Shape, Built, ImportsAll, UseInv, [Next]_vars
  PROVE  UseInv'
<1>1. CASE Swap
  <2>1. main = "drain" /\ inuse' = building /\ removed' = {} /\ served' = got
    BY <1>1 DEF Swap
  <2>2. Settled' = building
    BY <2>1 DEF Settled, Shape, CachesOK
  <2>3. \A k \in Wanted(got) : k \in building \/ Exists(building, k)
    BY <2>1 DEF ImportsAll
  <2>4. Blocklist \ Invalid \subseteq building
    BY <2>1 DEF Built
  <2>5. QED
    BY <2>1, <2>2, <2>3, <2>4 DEF UseInv
<1>2. CASE Crash
  BY <1>2 DEF Crash, UseInv
<1>3. ASSUME UNCHANGED <<boot, served>>, Settled \subseteq Settled'
      PROVE  UseInv'
  BY <1>3, ExistsMonotone DEF UseInv
<1>4. ASSUME NEW c \in Clients, Handle(c) \/ \E o \in Ops : Request(c, o)
      PROVE  UseInv'
  <2>1. UNCHANGED <<boot, served>>
    BY <1>4, RequestFrame
  <2>2. Settled \subseteq Settled'
    BY <1>4, RequestCaches DEF Shape, Block, Unblock, Put, Settled
  <2>3. QED
    BY <1>3, <2>1, <2>2
<1>5. CASE UNCHANGED <<inuse, boot, served, removed>>
  BY <1>3, <1>5 DEF Settled
<1>6. QED
  BY <1>1, <1>2, <1>4, <1>5, UpdateFrame DEF Next
-----------------------------------------------------------------------------
(* personal.list and the cache *)

\* A line appended to a file that ends with a newline is a line of its own.
LEMMA AppendedLine ==
  ASSUME NEW p, ProperList(p), ~p.open, NEW k \in Keys
  PROVE  /\ ~Appended(p, k).open
         /\ Listed(p) \subseteq Listed(Appended(p, k)) /\ k \in Listed(Appended(p, k))
<1>1. Appended(p, k).lines = Append(p.lines, <<k>>) /\ Appended(p, k).open = FALSE
  BY DEF Appended
<1>2. p.lines \in Seq(Seq(Keys)) /\ <<k>> \in Seq(Keys)
  BY DEF ProperList
<1> DEFINE more == Append(p.lines, <<k>>)
<1>3. /\ Len(more) = Len(p.lines) + 1 /\ more[Len(more)] = <<k>> /\ Len(p.lines) \in Nat
      /\ \A i \in 1..Len(p.lines) : more[i] = p.lines[i]
  BY <1>2
<1> HIDE DEF more
<1>4. /\ Contains(more, <<k>>)
      /\ \A line : Contains(p.lines, line) => Contains(more, line)
  BY <1>3 DEF Contains
<1>5. Appended(p, k).lines = more
  BY <1>1 DEF more
<1>6. QED
  BY <1>1, <1>4, <1>5 DEF Listed

\* A step that writes nothing, and after which no request is about to.
LEMMA ListingKept ==
  ASSUME Listing, UNCHANGED <<personal, saved, torn>>,
         \A c \in Clients : at'[c] = "write" => at[c] = "write"
  PROVE  Listing'
BY DEF Listing

LEMMA ListingHandle ==
  ASSUME RequestsOK, Listing, NEW c \in Clients, Handle(c)
  PROVE  Listing'
<1>0. DOMAIN at = Clients
  BY DEF RequestsOK
<1>1. CASE RemoveKey(c) \/ SetScanFails(c) \/ SetAppendFails(c) \/ PostUpdate(c)
  <2>1. UNCHANGED <<personal, saved, torn>> /\ at' = [at EXCEPT ![c] = "idle"]
    BY <1>1 DEF RemoveKey, SetScanFails, SetAppendFails, PostUpdate, Unblock, Return, GoOn,
                disk, history
  <2>2. QED
    BY <1>0, <2>1, ListingKept
<1>2. CASE SetGet(c) \/ SetSet(c) \/ SetRemove(c) \/ SetScan(c)
  <2>1. UNCHANGED <<personal, saved, torn>>
    BY <1>2 DEF SetGet, SetSet, SetRemove, SetScan, Block, Unblock, disk, history
  <2>2. PICK l \in {"set", "unset", "append", "scan", "truncate"} : at' = [at EXCEPT ![c] = l]
    BY <1>2 DEF SetGet, SetSet, SetRemove, SetScan, GoOn
  <2>3. QED
    BY <1>0, <2>1, <2>2, ListingKept
<1>3. CASE SetAppend(c)
  <2>1. /\ at' = [at EXCEPT ![c] = "idle"] /\ at[c] = "append" /\ torn' = torn
        /\ personal' = Appended(personal, op[c].key) /\ saved' = saved \cup {op[c].key}
    BY <1>3 DEF SetAppend, Return, GoOn
  <2>2. op[c].key \in Keys /\ ProperList(personal)
    BY <2>1 DEF RequestsOK, KeyStages
  <2>3. SUFFICES ASSUME ~torn PROVE Listing'
    BY <2>1 DEF Listing
  <2>4. ~personal.open /\ saved \subseteq Listed(personal) /\ \A d \in Clients : at[d] # "write"
    BY <2>3 DEF Listing
  <2>5. /\ ~personal'.open /\ Listed(personal) \subseteq Listed(personal')
        /\ op[c].key \in Listed(personal')
    BY <2>1, <2>2, <2>4, AppendedLine
  <2>6. \A d \in Clients : at'[d] # "write"
    BY <1>0, <2>1, <2>4
  <2>7. QED
    BY <2>1, <2>4, <2>5, <2>6 DEF Listing
<1>4. CASE SetAppendCut(c) \/ SetTruncate(c)
  BY <1>4 DEF SetAppendCut, SetTruncate, Listing
<1>5. CASE SetWrite(c)
  <2>1. torn /\ torn' = torn
    BY <1>5 DEF SetWrite, Listing, history
  <2>2. QED
    BY <2>1 DEF Listing
<1>6. QED
  BY <1>1, <1>2, <1>3, <1>4, <1>5 DEF Handle

LEMMA ListingStep ==
  ASSUME Shape, Listing, [Next]_vars
  PROVE  Listing'
<1>0. RequestsOK
  BY DEF Shape
<1>1. CASE Swap
  BY <1>1, ListingKept DEF Swap, disk, api
<1>2. CASE Crash
  <2>1. UNCHANGED <<personal, saved, torn>> /\ at' = [c \in Clients |-> "idle"]
    BY <1>2 DEF Crash, disk
  <2>2. QED
    BY <2>1, ListingKept
<1>3. ASSUME NEW c \in Clients, NEW o \in Ops, Request(c, o)
      PROVE  Listing'
  <2>1. UNCHANGED <<personal, saved, torn>> /\ at' = [at EXCEPT ![c] = o.kind]
    BY <1>3 DEF Request, GoOn, disk, history
  <2>2. o.kind # "write"
    BY OpKinds
  <2>3. QED
    BY <1>0, <2>1, <2>2, ListingKept DEF RequestsOK
<1>4. CASE UNCHANGED <<personal, saved, torn, at>>
  BY <1>4, ListingKept
<1>5. QED
  BY <1>0, <1>1, <1>2, <1>3, <1>4, ListingHandle, UpdateFrame DEF Next

\* Walk reads what is written by then, Swap puts it to use.
LEMMA ApplyingStep ==
  ASSUME Shape, Downloads, Listing, Applying, [Next]_vars
  PROVE  Applying'
<1>1. CASE Walk
  <2>1. /\ building' \in Loaded /\ walked' = saved
        /\ UNCHANGED <<inuse, removed, boot, applied, torn>>
    BY <1>1 DEF Walk
  <2>2. ~torn => Admissible(saved) \subseteq Admitted \ Invalid
    BY DEF Listing, Admissible, Admitted
  <2>3. ~torn => \A k \in Admissible(saved) : k \in building' \/ Exists(building', k)
    BY <2>1, <2>2, LoadedAll
  <2>4. Settled' = Settled
    BY <2>1 DEF Settled
  <2>5. QED
    BY <2>1, <2>3, <2>4 DEF Applying
<1>2. CASE Swap
  <2>1. /\ main = "drain" /\ main' = "idle" /\ inuse' = building /\ removed' = {}
        /\ applied' = walked /\ torn' = torn
    BY <1>2 DEF Swap
  <2>2. Settled' = building
    BY <2>1 DEF Settled, Shape, CachesOK
  <2>3. QED
    BY <2>1, <2>2 DEF Applying
<1>3. CASE Crash
  BY <1>3 DEF Crash, Applying
<1>4. ASSUME UNCHANGED <<boot, applied>>, torn => torn', Settled \subseteq Settled',
             \/ main' \notin {"stop", "drain"}
             \/ main \in {"stop", "drain"} /\ UNCHANGED <<walked, building>>
      PROVE  Applying'
  <2>1. ASSUME ~torn', ~boot', NEW k \in Admissible(applied')
        PROVE  k \in Settled' \/ Exists(Settled', k)
    <3>1. k \in Settled \/ Exists(Settled, k)
      BY <1>4, <2>1 DEF Applying
    <3>2. QED
      BY <1>4, <3>1, ExistsMonotone
  <2>2. ASSUME ~torn', main' \in {"stop", "drain"}, NEW k \in Admissible(walked')
        PROVE  k \in building' \/ Exists(building', k)
    BY <1>4, <2>2 DEF Applying
  <2>3. QED
    BY <2>1, <2>2 DEF Applying
<1>5. CASE Update \/ Shutdown \/ Reload
  <2>1. UNCHANGED <<boot, applied, torn, inuse, removed>>
    BY <1>5, UpdateFrame
  <2>2. \/ main' \notin {"stop", "drain"}
        \/ main \in {"stop", "drain"} /\ UNCHANGED <<walked, building>>
    BY <1>5 DEF Update, Shutdown, Reload, fetch, history
  <2>3. QED
    BY <1>4, <2>1, <2>2 DEF Settled
<1>6. ASSUME NEW i \in Sources, Create(i) \/ Download(i)
      PROVE  Applying'
  <2>1. UNCHANGED <<boot, applied, torn, inuse, removed>>
    BY <1>6, UpdateFrame
  <2>2. main' = main /\ ~Fetched
    BY <1>6 DEF Create, Download, Fetched
  <2>3. main' \notin {"stop", "drain"}
    BY <2>2 DEF Downloads
  <2>4. QED
    BY <1>4, <2>1, <2>3 DEF Settled
<1>7. ASSUME NEW c \in Clients, Handle(c) \/ \E o \in Ops : Request(c, o)
      PROVE  Applying'
  <2>1. UNCHANGED <<boot, applied, walked, main, building>> /\ (torn => torn')
    BY <1>7, RequestFrame
  <2>2. Settled \subseteq Settled'
    BY <1>7, RequestCaches DEF Shape, Block, Unblock, Put, Settled
  <2>3. QED
    BY <1>4, <2>1, <2>2
<1>8. CASE UNCHANGED vars
  <2>1. UNCHANGED <<boot, applied, torn, inuse, removed, walked, building, main>>
    BY <1>8 DEF vars, fetch, history
  <2>2. QED
    BY <1>4, <2>1 DEF Settled
<1>9. QED
  BY <1>1, <1>2, <1>3, <1>5, <1>6, <1>7, <1>8 DEF Next
-----------------------------------------------------------------------------
(* Theorems *)

LEMMA InvInit == Init => Inv
<1> SUFFICES ASSUME Init PROVE Inv
  OBVIOUS
<1>1. Shape
  BY ShapeInit
<1>2. Downloads
  BY DEF Init, Downloads, Apart, Brought
<1>3. Built /\ ImportsAll /\ WhitelistHolds /\ UseInv
  BY DEF Init, Built, ImportsAll, WhitelistHolds, UseInv
<1>4. Listing /\ Applying
  BY DEF Init, Listing, Applying, EmptyList
<1>5. QED
  BY <1>1, <1>2, <1>3, <1>4 DEF Inv

LEMMA InvStep == Inv /\ [Next]_vars => Inv'
<1> SUFFICES ASSUME Inv, [Next]_vars PROVE Inv'
  OBVIOUS
<1>1. Shape'
  BY ShapeStep DEF Inv
<1>2. Downloads'
  BY DownloadsStep DEF Inv
<1>3. Built' /\ ImportsAll'
  BY BuiltStep, ImportsStep DEF Inv
<1>4. WhitelistHolds' /\ UseInv'
  BY WhitelistStep, UseStep DEF Inv
<1>5. Listing' /\ Applying'
  BY ListingStep, ApplyingStep DEF Inv
<1>6. QED
  BY <1>1, <1>2, <1>3, <1>4, <1>5 DEF Inv

LEMMA InvHolds == Spec => []Inv
BY InvInit, InvStep, PTL DEF Spec

\* Every variable keeps its shape, personal.list among them, whatever requests
\* rewrite it at once (api.go).
THEOREM BlockListTypeCorrect == Spec => []TypeOK
<1>1. Inv => TypeOK
  BY DEF Inv, Shape, FilesOK, CachesOK, RequestsOK, ProperList, TypeOK
<1>2. QED
  BY <1>1, InvHolds, PTL

\* What the complete downloads of an update brought is in the cache it builds:
\* fetchSources waits for all of them, and gives each a file of its own, however
\* many sources have the same host (updater.go).
THEOREM DownloadsAreImported == Spec => []ImportsAll
<1>1. Inv => ImportsAll
  BY DEF Inv
<1>2. QED
  BY <1>1, InvHolds, PTL

\* The whitelist keeps its keys out of the cache in use, but for what the config
\* or the API blocks and for capitals (updater.go, api.go).
THEOREM WhitelistIsKept == Spec => []WhitelistHolds
<1>1. Inv => WhitelistHolds
  BY DEF Inv
<1>2. QED
  BY <1>1, InvHolds, PTL

\* After the first update, the cache in use is at no moment half built, also while
\* the next one is fetched and requests change the cache (main.go, updater.go).
THEOREM CacheIsWhole == Spec => []NeverHalfBuilt
<1>1. Inv => NeverHalfBuilt
  <2> SUFFICES ASSUME Inv, ~boot, NEW k \in Wanted(served) \cup (Blocklist \ Invalid)
               PROVE  \/ k \in inuse \/ Exists(inuse, k)
                      \/ k \in removed \/ Exists(removed, k)
    BY DEF NeverHalfBuilt
  <2>1. k \in Settled \/ Exists(Settled, k)
    BY DEF Inv, UseInv
  <2>2. QED
    BY <2>1 DEF Settled, Exists
<1>2. QED
  BY <1>1, InvHolds, PTL

\* What the API has written to personal.list stays there, and is blocked by every
\* cache built from the file since, through any number of requests at once,
\* updates and crashes, until a request rewrites the file or a write to it is cut
\* short (api.go, updater.go).
THEOREM UserListPersists == Spec => []UserListKept
<1>1. Inv => UserListKept
  <2> SUFFICES ASSUME Inv, ~torn
               PROVE  /\ saved \subseteq Listed(personal)
                      /\ ~boot => \A k \in (applied \ Whitelist) \ Invalid :
                                    \/ k \in inuse \/ Exists(inuse, k)
                                    \/ k \in removed \/ Exists(removed, k)
    BY DEF UserListKept
  <2>1. saved \subseteq Listed(personal)
    BY DEF Inv, Listing
  <2>2. ASSUME ~boot, NEW k \in (applied \ Whitelist) \ Invalid
        PROVE  \/ k \in inuse \/ Exists(inuse, k)
               \/ k \in removed \/ Exists(removed, k)
    <3>1. k \in Settled \/ Exists(Settled, k)
      BY <2>2 DEF Inv, Applying, Admissible
    <3>2. QED
      BY <3>1 DEF Settled, Exists
  <2>3. QED
    BY <2>1, <2>2
<1>2. QED
  BY <1>1, InvHolds, PTL
=============================================================================
