--------------------------- MODULE SharedAnswers ---------------------------
(***************************************************************************)
(* The memory behind the answer section (handler.go).  A reply made from   *)
(* the cache is a shallow copy: its Answer is a slice of the array of the  *)
(* entry, and so is the entry's of the array of the response it was filled *)
(* from.  Requests that follow CNAMEs append to their slices, in place as  *)
(* long as the array has room, at the same time as others.  Handler, where *)
(* an answer section is a value, cannot show what comes of it.             *)
(*                                                                         *)
(* One question, asked by several requests.  What following a CNAME brings *)
(* is chosen freely, for it comes from other questions.  An append stores  *)
(* the length before the record, as compiled code does; a slice is copied  *)
(* in one step.                                                            *)
(***************************************************************************)
EXTENDS Integers, Sequences, FiniteSets, Functions

CONSTANTS
  Reqs,             \* requests
  Records,          \* resource records
  Addresses,        \* those of type A or AAAA; the others are CNAMEs
  NoRecord,         \* the nil of a slot that was never written
  Answers,          \* what a lookup may return: sequences of records
  Followed,         \* what a round of following may return: sequences of records
  FollowCnameDepth, \* config.FollowCnameDepth
  MaxLookups        \* bound: requests that find no entry

ASSUME RecordsAssumption == Addresses \subseteq Records /\ NoRecord \notin Records
ASSUME AnswersAssumption == Answers \subseteq Seq(Records) /\ Followed \subseteq Seq(Records)
ASSUME FollowAssumption  == FollowCnameDepth \in Nat /\ MaxLookups \in Nat

NoSlice == [arr |-> 0, len |-> 0]

VARIABLES
  arrays,   \* the backing arrays made so far, each a sequence of slots
  cache,    \* the entry of the question, as the slice of its answers, or NoSlice
  kept,     \* history: the records of the entry when it was set
  fillers,  \* requests whose goroutine has yet to copy *resp
  copies,   \* the copies made, on their way through h.cache.Set
  pc,       \* where each request is
  resp,     \* resp.Answer of each request
  todo,     \* records of followed.Answer it has yet to go through
  depth,    \* depthSoFar
  own,      \* history: the records the request has put together
  lookups,  \* counter for the bound
  crashed   \* the process has panicked

requests == <<pc, resp, todo, depth, own>>
world == <<cache, kept, fillers, copies, lookups, crashed>>
vars == <<arrays, requests, world>>

Init ==
  /\ arrays = <<>>
  /\ cache = NoSlice /\ kept = <<>>
  /\ fillers = {} /\ copies = {}
  /\ pc = [r \in Reqs |-> "begin"]
  /\ resp = [r \in Reqs |-> NoSlice]
  /\ todo = [r \in Reqs |-> <<>>]
  /\ depth = [r \in Reqs |-> 0]
  /\ own = [r \in Reqs |-> <<>>]
  /\ lookups = 0 /\ crashed = FALSE

Goto(r, l) == pc' = [pc EXCEPT ![r] = l]

\* The records a slice shows.
View(s) == [i \in 1..s.len |-> arrays[s.arr][i]]

Capacity(s) == Len(arrays[s.arr])

-----------------------------------------------------------------------------
(* Slices *)

\* A slip of Grown: room for no more than what is there.
GrownTight(records) == records

\* The array append allocates: double the size, until 256 slots.
Grown(records) ==
  records \o [i \in 1..IF records = <<>> THEN 1 ELSE Len(records) |-> NoRecord]

\* The slots that are free when n records were appended one by one: the array
\* has as many as the next power of two.
Room(n) ==
  Cardinality({size \in (n + 1)..(2 * n) : \A k \in 0..n : 2^k \notin n..(size - 1)})

\* A slice as unpacking a response has made it.
Unpacked(records) == records \o [i \in 1..Room(Len(records)) |-> NoRecord]

-----------------------------------------------------------------------------
(* responseFor *)

\* A slip of Hit: what comes from the cache is cached again.
HitAndFill(r) ==
  /\ pc[r] = "begin" /\ cache # NoSlice
  /\ resp' = [resp EXCEPT ![r] = cache]
  /\ own' = [own EXCEPT ![r] = View(cache)]
  /\ fillers' = fillers \cup {r}
  /\ Goto(r, "round")
  /\ UNCHANGED <<arrays, cache, kept, copies, todo, depth, lookups, crashed>>

\* msg := *mesg: the slice is copied, the array is not.
Hit(r) ==
  /\ pc[r] = "begin" /\ cache # NoSlice
  /\ resp' = [resp EXCEPT ![r] = cache]
  /\ own' = [own EXCEPT ![r] = View(cache)]
  /\ Goto(r, "round")
  /\ UNCHANGED <<arrays, todo, depth, world>>

Miss(r) ==
  /\ pc[r] = "begin" /\ cache = NoSlice /\ lookups < MaxLookups
  /\ lookups' = lookups + 1
  /\ Goto(r, "lookup")
  /\ UNCHANGED <<arrays, cache, kept, fillers, copies, resp, todo, depth, own, crashed>>

\* A response with an array of its own, and the goroutine that is to cache it.
Lookup(r) ==
  /\ pc[r] = "lookup"
  /\ \E answer \in Answers :
       /\ arrays' = Append(arrays, Unpacked(answer))
       /\ resp' = [resp EXCEPT ![r] = [arr |-> Len(arrays'), len |-> Len(answer)]]
       /\ own' = [own EXCEPT ![r] = answer]
       /\ fillers' = IF answer = <<>> THEN fillers ELSE fillers \cup {r}
  /\ Goto(r, "round")
  /\ UNCHANGED <<cache, kept, copies, todo, depth, lookups, crashed>>

-----------------------------------------------------------------------------
(* doRequest *)

\* Some CNAME and no address: the records of the slice as they are now.
canFollow(r) ==
  LET seen == Range(View(resp[r])) IN seen # {} /\ seen \cap Addresses = {}

Round(r) ==
  /\ pc[r] = "round" /\ depth[r] < FollowCnameDepth /\ canFollow(r)
  /\ todo' \in {[todo EXCEPT ![r] = f] : f \in Followed}
  /\ depth' = [depth EXCEPT ![r] = @ + 1]
  /\ Goto(r, "append")
  /\ UNCHANGED <<arrays, resp, own, world>>

EndRounds(r) ==
  /\ pc[r] = "round" /\ (depth[r] = FollowCnameDepth \/ ~canFollow(r))
  /\ Goto(r, "reply")
  /\ UNCHANGED <<arrays, resp, todo, depth, own, world>>

Contained(r) == Head(todo[r]) \in Range(View(resp[r]))

\* The first half of append: the length, and an array with room if there was none.
AppendLen(r) ==
  /\ pc[r] = "append" /\ todo[r] # <<>> /\ ~Contained(r)
  /\ IF resp[r].len < Capacity(resp[r])
       THEN /\ resp' = [resp EXCEPT ![r].len = @ + 1]
            /\ UNCHANGED arrays
       ELSE /\ arrays' = Append(arrays, Grown(View(resp[r])))
            /\ resp' = [resp EXCEPT ![r] = [arr |-> Len(arrays'), len |-> @.len + 1]]
  /\ own' = [own EXCEPT ![r] = Append(@, Head(todo[r]))]
  /\ Goto(r, "store")
  /\ UNCHANGED <<todo, depth, world>>

\* The second half: the record, into an array others may share.
AppendStore(r) ==
  /\ pc[r] = "store"
  /\ arrays' = [arrays EXCEPT ![resp[r].arr][resp[r].len] = Head(todo[r])]
  /\ todo' = [todo EXCEPT ![r] = Tail(@)]
  /\ Goto(r, "append")
  /\ UNCHANGED <<resp, depth, own, world>>

\* A record that is there already.
Skip(r) ==
  /\ pc[r] = "append" /\ todo[r] # <<>> /\ Contained(r)
  /\ todo' = [todo EXCEPT ![r] = Tail(@)]
  /\ UNCHANGED <<arrays, pc, resp, depth, own, world>>

EndRound(r) ==
  /\ pc[r] = "append" /\ todo[r] = <<>>
  /\ Goto(r, "round")
  /\ UNCHANGED <<arrays, resp, todo, depth, own, world>>

\* WriteReplyMsg packs what the slice shows by then; the request is over.
Reply(r) ==
  /\ pc[r] = "reply"
  /\ Goto(r, "done")
  /\ depth' = [depth EXCEPT ![r] = 0]
  /\ own' = [own EXCEPT ![r] = <<>>]
  /\ UNCHANGED <<arrays, resp, todo, world>>

-----------------------------------------------------------------------------
(* The goroutine that fills the cache, and the cache *)

\* DefaultEntry{Msg: *resp}: the slice as the request has made it so far.
FillCopy(r) ==
  /\ r \in fillers
  /\ fillers' = fillers \ {r}
  /\ copies' = copies \cup {resp[r]}
  /\ UNCHANGED <<arrays, cache, kept, requests, lookups, crashed>>

\* Set asks every record for its TTL, a slot without a record too; a full cache
\* refuses what it does not know.
FillSet(s) ==
  /\ s \in copies
  /\ copies' = copies \ {s}
  /\ \/ /\ NoRecord \in Range(View(s))
        /\ crashed' = TRUE /\ UNCHANGED <<cache, kept>>
     \/ /\ NoRecord \notin Range(View(s))
        /\ cache' = s /\ kept' = View(s) /\ UNCHANGED crashed
     \/ cache = NoSlice /\ UNCHANGED <<cache, kept, crashed>>
  /\ UNCHANGED <<arrays, fillers, requests, lookups>>

Expire ==
  /\ cache # NoSlice
  /\ cache' = NoSlice /\ kept' = <<>>
  /\ UNCHANGED <<arrays, fillers, copies, requests, lookups, crashed>>

-----------------------------------------------------------------------------

RequestStep(r) ==
  \/ Hit(r) \/ Miss(r) \/ Lookup(r)
  \/ Round(r) \/ EndRounds(r) \/ EndRound(r)
  \/ AppendLen(r) \/ AppendStore(r) \/ Skip(r)
  \/ Reply(r)

Next ==
  /\ ~crashed
  /\ \/ \E r \in Reqs : RequestStep(r) \/ FillCopy(r)
     \/ \E s \in copies : FillSet(s)
     \/ Expire

Spec == Init /\ [][Next]_vars

-----------------------------------------------------------------------------
(* Properties *)

Slices == [arr : 0..Len(arrays), len : Nat]

\* Slices stay within their arrays, and arrays hold records or nothing.
TypeOK ==
  /\ \A a \in Range(arrays) : Range(a) \subseteq Records \cup {NoRecord}
  /\ \A s \in {cache} \cup copies \cup Range(resp) :
       s \in Slices /\ (s # NoSlice => s.len <= Capacity(s))
  /\ fillers \subseteq Reqs
  /\ pc \in [Reqs -> {"begin", "lookup", "round", "append", "store", "reply", "done"}]
  /\ depth \in [Reqs -> 0..FollowCnameDepth]
  /\ \A r \in Reqs : todo[r] \in Seq(Records) /\ own[r] \in Seq(Records)
  /\ lookups \in 0..MaxLookups /\ crashed \in BOOLEAN

\* What is cached stays as it was cached: no request that appends to the array it
\* shares with the entry, whether it was made from the entry or the entry from it,
\* ever overwrites or adds a record of the entry.
EntryIntact == cache # NoSlice => View(cache) = kept

\* A reply holds the records its own request has put together, in their order, and
\* none that another request has stored in an array both refer to.
RepliesOwn == \A r \in Reqs : pc[r] = "reply" => View(resp[r]) = own[r]
=============================================================================
