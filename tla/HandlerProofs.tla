--------------------------- MODULE HandlerProofs ---------------------------
(***************************************************************************)
(* Proofs about Handler, for any number of requests, any names, blocklist, *)
(* custom records and upstream, and any depth of CNAME following.          *)
(***************************************************************************)
EXTENDS Handler, TLAPS

\* A request that has begun has a question, and so has responseFor.
Asking ==
  \A r \in Reqs : pc[r] \notin {"idle", "done"} => q[r] # NoQuestion /\ cur[r] # NoQuestion

TypeInv == TypeOK /\ Asking

-----------------------------------------------------------------------------
(* The operators the actions are built from *)

LEMMA NoMsgType == NoMsg \in Msgs
  BY DEF NoMsg, Msgs

\* What custom records there are for a name are records of the current config.
LEMMA CustomForType ==
  ASSUME config \in 1..Len(Custom), NEW n \in Names
  PROVE  /\ CustomFor(n) \subseteq RRs
         /\ \A rr \in CustomFor(n) : rr.source = config
<1>1. Suffixes[n] \in Seq(Names)
  BY SuffixAssumption
<1>2. \A i \in 1..Len(Suffixes[n]) : Suffixes[n][i] \in Names
  BY <1>1
<1>3. Custom[config] \in [Names -> SUBSET RRs]
  BY CustomAssumption
<1>4. \A rr \in CustomFor(n) :
        \E i \in 1..Len(Suffixes[n]) : rr \in Custom[config][Suffixes[n][i]]
  BY DEF CustomFor
<1> QED BY <1>2, <1>3, <1>4, CustomAssumption

LEMMA SetReplyType ==
  ASSUME NEW m \in Msgs
  PROVE  SetReply(m) \in Msgs /\ SetReply(m).answer = m.answer
BY DEF SetReply, Msgs

\* The reply to a blocked question is a message with no record of the upstream.
LEMMA BlockedResponseType ==
  ASSUME NEW n \in Names
  PROVE  /\ SetReply(blockedResponseFor(n)) \in Msgs
         /\ \A rr \in SetReply(blockedResponseFor(n)).answer : rr.source = FromBlocking
<1> DEFINE null == [owner |-> n, type |-> "A", target |-> NoName, source |-> FromBlocking]
<1>1. null \in RRs /\ null.source = FromBlocking
  BY DEF RRs, Sources
<1>2. CASE NXDomain
  BY <1>2 DEF SetReply, blockedResponseFor, NoMsg, Msgs
<1>3. CASE ~NXDomain
  <2>1. blockedResponseFor(n) = [rcode |-> "noerror", answer |-> {null}, truncated |-> FALSE]
    BY <1>3 DEF blockedResponseFor, NoMsg
  <2> HIDE DEF null
  <2>2. blockedResponseFor(n) \in Msgs
    BY <2>1, <1>1 DEF Msgs
  <2>3. blockedResponseFor(n).answer = {null}
    BY <2>1
  <2> QED BY <2>2, <2>3, <1>1, SetReplyType
<1> QED BY <1>2, <1>3

\* Got leaves r with a well-formed response.
LEMMA GotType ==
  ASSUME TypeInv, NEW r \in Reqs, NEW m \in Msgs, Got(r, m)
  PROVE  /\ pc' \in [Reqs -> {"idle", "local", "cache", "negcache", "lookup",
                              "retry", "round", "next", "done"}]
         /\ resp' \in [Reqs -> Msgs]
         /\ \A x \in Reqs \ {r} : pc'[x] = pc[x]
         /\ pc'[r] \in {"round", "next"}
         /\ UNCHANGED <<depth, todo, cur, crashed>>
<1> DEFINE new == IF Following(r) THEN Extended(resp[r], m.answer) ELSE m
<1>1. new \in Msgs
  BY DEF TypeInv, TypeOK, Msgs, Extended
<1>2. resp' = [resp EXCEPT ![r] = new]
  BY DEF Got
<1> HIDE DEF new
<1>3. resp' \in [Reqs -> Msgs]
  BY <1>1, <1>2 DEF TypeInv, TypeOK
<1> QED BY <1>3 DEF Got, Goto, TypeInv, TypeOK

\* So does Failed, if the process survives.
LEMMA FailedType ==
  ASSUME TypeInv, NEW r \in Reqs, Failed(r)
  PROVE  /\ pc' \in [Reqs -> {"idle", "local", "cache", "negcache", "lookup",
                              "retry", "round", "next", "done"}]
         /\ resp' \in [Reqs -> Msgs]
         /\ crashed' \in BOOLEAN
         /\ \A x \in Reqs \ {r} : pc'[x] = pc[x]
         /\ pc'[r] \in {pc[r], "done"}
         /\ UNCHANGED <<depth, todo, cur>>
<1>1. [NoMsg EXCEPT !.rcode = "servfail"] \in Msgs
  BY DEF NoMsg, Msgs
<1> QED BY <1>1 DEF Failed, Goto, TypeInv, TypeOK

-----------------------------------------------------------------------------
(* Type correctness *)

LEMMA TypeInit == Init => TypeInv
<1> SUFFICES ASSUME Init
             PROVE  TypeInv
    OBVIOUS
<1>1. 1 \in 1..Len(Custom)
  BY CustomAssumption
<1>2. TypeOK
  <2>1. DOMAIN cache = {}
    BY DEF Init
  <2>2. 0 \in 0..FollowCnameDepth
    BY DepthAssumption
  <2>3. /\ DOMAIN cache \subseteq Names /\ \A k \in DOMAIN cache : cache[k] \in Msgs
        /\ negCache \subseteq Questions
        /\ fillers \subseteq [key : Names, of : SUBSET Reqs, msg : Msgs]
    BY <2>1 DEF Init
  <2>4. /\ resp \in [Reqs -> Msgs]
        /\ depth \in [Reqs -> 0..FollowCnameDepth]
        /\ since \in [Reqs -> 1..Len(Custom)]
    BY <1>1, <2>2, NoMsgType DEF Init
  <2>5. /\ q \in [Reqs -> Questions \cup {NoQuestion}]
        /\ cur \in [Reqs -> Questions \cup {NoQuestion}]
        /\ todo \in [Reqs -> SUBSET Names]
        /\ crashed \in BOOLEAN
    BY DEF Init
  <2> QED BY <1>1, <2>3, <2>4, <2>5 DEF Init, TypeOK
<1>3. Asking
  BY DEF Init, Asking
<1> QED BY <1>2, <1>3 DEF TypeInv

\* A step of r that leaves the shared state alone and ends in Got or Failed.
LEMMA OutcomeType ==
  ASSUME TypeInv, NEW r \in Reqs, UNCHANGED <<config, cache, local>>,
         pc[r] \in {"local", "cache", "negcache", "lookup", "retry"},
         negCache' \subseteq Questions,
         fillers' \subseteq [key : Names, of : SUBSET Reqs, msg : Msgs],
         \/ Failed(r)
         \/ \E m \in Msgs : Got(r, m) /\ cur[r] # NoQuestion
  PROVE  TypeInv'
<1>1. CASE Failed(r)
  <2>1. TypeOK'
    BY <1>1, FailedType DEF TypeInv, TypeOK, local
  <2>2. Asking'
    BY <1>1, FailedType DEF TypeInv, Asking, local
  <2> QED BY <2>1, <2>2 DEF TypeInv
<1>2. ASSUME NEW m \in Msgs, Got(r, m), cur[r] # NoQuestion
      PROVE  TypeInv'
  <2>1. TypeOK'
    BY <1>2, GotType DEF TypeInv, TypeOK, local
  <2>2. Asking'
    BY <1>2, GotType DEF TypeInv, Asking, local
  <2> QED BY <2>1, <2>2 DEF TypeInv
<1> QED BY <1>1, <1>2

\* A step of r that only moves it on.
LEMMA MoveType ==
  ASSUME TypeInv, NEW r \in Reqs, UNCHANGED <<shared, local, cur, resp, depth, todo, crashed>>,
         pc[r] \in {"local", "cache", "negcache", "lookup", "retry"}, cur[r] # NoQuestion,
         NEW l \in {"cache", "negcache", "lookup", "retry"}, Goto(r, l)
  PROVE  TypeInv'
<1>1. TypeOK'
  BY DEF TypeInv, TypeOK, shared, local, Goto
<1>2. Asking'
  BY DEF TypeInv, TypeOK, Asking, shared, local, Goto
<1> QED BY <1>1, <1>2 DEF TypeInv

LEMMA TryLocalType ==
  ASSUME TypeInv, NEW r \in Reqs, TryLocal(r)
  PROVE  TypeInv'
<1> DEFINE n == cur[r].name
<1> USE DEF TryLocal
<1>1. /\ UNCHANGED <<config, cache, local>>
      /\ negCache' \subseteq Questions
      /\ fillers' \subseteq [key : Names, of : SUBSET Reqs, msg : Msgs]
  BY DEF TypeInv, TypeOK, shared, local
<1>2. cur[r] # NoQuestion /\ n \in Names
  BY DEF TypeInv, TypeOK, Asking, Questions
<1>3. CASE Got(r, [NoMsg EXCEPT !.answer = CustomFor(n)])
  <2>1. CustomFor(n) \subseteq RRs
    BY <1>2, <1>3, CustomForType DEF TypeInv, TypeOK
  <2>2. [NoMsg EXCEPT !.answer = CustomFor(n)] \in Msgs
    BY <2>1 DEF NoMsg, Msgs
  <2> QED BY <1>1, <1>2, <1>3, <2>2, OutcomeType
<1>4. CASE Got(r, SetReply(blockedResponseFor(n)))
  BY <1>1, <1>2, <1>4, BlockedResponseType, OutcomeType
<1>5. CASE /\ Goto(r, IF IPQuery(cur[r]) THEN "cache" ELSE "lookup")
           /\ UNCHANGED <<resp, depth, todo, cur, crashed>>
  BY <1>2, <1>5, MoveType
<1> QED BY <1>3, <1>4, <1>5

LEMMA TryCacheType ==
  ASSUME TypeInv, NEW r \in Reqs, TryCache(r)
  PROVE  TypeInv'
<1> USE DEF TryCache
<1>1. cur[r] # NoQuestion
  BY DEF TypeInv, Asking
<1>2. CASE cur[r].name \in DOMAIN cache /\ Got(r, SetReply(cache[cur[r].name]))
  <2>1. SetReply(cache[cur[r].name]) \in Msgs
    BY <1>2, SetReplyType DEF TypeInv, TypeOK
  <2>2. /\ UNCHANGED <<config, cache, local>>
        /\ negCache' \subseteq Questions
        /\ fillers' \subseteq [key : Names, of : SUBSET Reqs, msg : Msgs]
    BY DEF TypeInv, TypeOK, shared, local
  <2> QED BY <1>1, <1>2, <2>1, <2>2, OutcomeType
<1>3. CASE Goto(r, "negcache") /\ UNCHANGED <<resp, depth, todo, cur, crashed>>
  BY <1>1, <1>3, MoveType
<1> QED BY <1>2, <1>3

LEMMA TryNegCacheType ==
  ASSUME TypeInv, NEW r \in Reqs, TryNegCache(r)
  PROVE  TypeInv'
<1> USE DEF TryNegCache
<1>1. cur[r] # NoQuestion
  BY DEF TypeInv, Asking
<1>2. CASE Failed(r)
  <2>1. /\ UNCHANGED <<config, cache, local>>
        /\ negCache' \subseteq Questions
        /\ fillers' \subseteq [key : Names, of : SUBSET Reqs, msg : Msgs]
    BY DEF TypeInv, TypeOK, shared, local
  <2> QED BY <1>2, <2>1, OutcomeType
<1>3. CASE Goto(r, "lookup") /\ UNCHANGED <<resp, depth, todo, cur, crashed>>
  BY <1>1, <1>3, MoveType
<1> QED BY <1>2, <1>3

\* What an upstream returns for the question r is working on.
LEMMA LookupResult ==
  ASSUME TypeInv, NEW r \in Reqs, pc[r] \in {"lookup", "retry"}, NEW m \in Upstream[cur[r]]
  PROVE  /\ cur[r] # NoQuestion /\ cur[r] \in Questions
         /\ m # LookupError => m \in Msgs /\ \A rr \in m.answer : rr.source = FromUpstream
<1>1. cur[r] # NoQuestion /\ cur[r] \in Questions
  BY DEF TypeInv, TypeOK, Asking
<1> QED BY <1>1, UpstreamAssumption

LEMMA FetchedType ==
  ASSUME TypeInv, NEW r \in Reqs, pc[r] \in {"lookup", "retry"}, UNCHANGED <<config, cache, local>>,
         NEW m \in Upstream[cur[r]], m # LookupError, Fetched(r, m)
  PROVE  TypeInv'
<1>1. cur[r] # NoQuestion /\ cur[r].name \in Names /\ m \in Msgs
  BY LookupResult DEF Questions
<1>2. Filler(r, m) \in [key : Names, of : SUBSET Reqs, msg : Msgs]
  BY <1>1, NoMsgType DEF Filler
<1>3. fillers' \subseteq [key : Names, of : SUBSET Reqs, msg : Msgs]
  BY <1>2 DEF Fetched, TypeInv, TypeOK
<1>4. SetReply(m) \in Msgs /\ Got(r, SetReply(m))
  BY <1>1, SetReplyType DEF Fetched
<1>5. negCache' \subseteq Questions
  BY DEF Fetched, TypeInv, TypeOK
<1> QED BY <1>1, <1>3, <1>4, <1>5, OutcomeType

LEMMA LookupFailedType ==
  ASSUME TypeInv, NEW r \in Reqs, pc[r] \in {"lookup", "retry"}, UNCHANGED <<config, cache, local>>,
         NEW m \in Upstream[cur[r]], LookupFailed(r)
  PROVE  TypeInv'
<1>1. cur[r] \in Questions
  BY LookupResult
<1>2. negCache' \subseteq Questions
  BY <1>1 DEF LookupFailed, TypeInv, TypeOK
<1>3. fillers' \subseteq [key : Names, of : SUBSET Reqs, msg : Msgs]
  BY DEF LookupFailed, TypeInv, TypeOK
<1>4. Failed(r)
  BY DEF LookupFailed
<1> QED BY <1>2, <1>3, <1>4, OutcomeType

LEMMA LookupType ==
  ASSUME TypeInv, NEW r \in Reqs, Lookup(r) \/ RetryTcp(r)
  PROVE  TypeInv'
<1>1. pc[r] \in {"lookup", "retry"} /\ UNCHANGED <<config, cache, local>>
  BY DEF Lookup, RetryTcp
<1>2. PICK m \in Upstream[cur[r]] :
        \/ LookupFailed(r)
        \/ Goto(r, "retry") /\ UNCHANGED <<fillers, negCache, resp, depth, todo, cur, crashed>>
        \/ m # LookupError /\ Fetched(r, m)
  BY DEF Lookup, RetryTcp
<1>3. CASE LookupFailed(r)
  BY <1>1, <1>3, LookupFailedType
<1>4. CASE Goto(r, "retry") /\ UNCHANGED <<fillers, negCache, resp, depth, todo, cur, crashed>>
  <2>1. cur[r] # NoQuestion
    BY <1>1, LookupResult
  <2>2. UNCHANGED <<shared, local, cur, resp, depth, todo, crashed>>
    BY <1>1, <1>4 DEF shared, local
  <2> QED BY <1>1, <1>4, <2>1, <2>2, MoveType
<1>5. CASE m # LookupError /\ Fetched(r, m)
  BY <1>1, <1>5, FetchedType
<1> QED BY <1>2, <1>3, <1>4, <1>5

LEMMA BeginType ==
  ASSUME TypeInv, NEW r \in Reqs, NEW request \in Asked, Begin(r, request)
  PROVE  TypeInv'
<1>1. /\ request.question \in Questions /\ request.question # NoQuestion
      /\ request.net \in {"udp", "tcp", "http"}
  BY AskedAssumption, NamesAssumption DEF Requests, Questions, NoQuestion
<1>2. TypeOK'
  BY <1>1 DEF Begin, TypeInv, TypeOK, shared, Goto
<1>3. Asking'
  BY <1>1 DEF Begin, TypeInv, TypeOK, Asking, Goto
<1> QED BY <1>2, <1>3 DEF TypeInv

LEMMA RoundType ==
  ASSUME TypeInv, NEW r \in Reqs, Round(r)
  PROVE  TypeInv'
<1>1. {rr.target : rr \in Cnames(resp[r].answer)} \subseteq Names
  BY DEF TypeInv, TypeOK, Msgs, RRs, Cnames
<1>2. depth' \in [Reqs -> 0..FollowCnameDepth] /\ todo' \in [Reqs -> SUBSET Names]
  <2>1. depth \in [Reqs -> 0..FollowCnameDepth] /\ todo \in [Reqs -> SUBSET Names]
    BY DEF TypeInv, TypeOK
  <2>2. CASE UNCHANGED <<depth, todo>>
    BY <2>1, <2>2
  <2> DEFINE targets == {rr.target : rr \in Cnames(resp[r].answer)}
  <2>3. CASE /\ MoreRounds(r)
             /\ depth' = [depth EXCEPT ![r] = Counted(@)]
             /\ todo' = [todo EXCEPT ![r] = targets]
    <3> HIDE DEF targets
    <3>1. targets \subseteq Names
      BY <1>1 DEF targets
    <3>2. Counted(depth[r]) \in 0..FollowCnameDepth
      BY <2>1, <2>3, DepthAssumption DEF MoreRounds, Counted
    <3> QED BY <2>1, <2>3, <3>1, <3>2
  <2> QED BY <2>2, <2>3 DEF Round
<1>3. TypeOK'
  BY <1>2 DEF Round, TypeInv, TypeOK, shared, local, Goto
<1>4. Asking'
  BY DEF Round, TypeInv, TypeOK, Asking, local, Goto
<1> QED BY <1>3, <1>4 DEF TypeInv

LEMMA FollowNextType ==
  ASSUME TypeInv, NEW r \in Reqs, FollowNext(r)
  PROVE  TypeInv'
<1>1. q[r] \in Questions /\ q[r] # NoQuestion
  BY DEF FollowNext, TypeInv, TypeOK, Asking
<1>2. CASE todo[r] = {} /\ Goto(r, "round") /\ UNCHANGED <<cur, todo>>
  <2>1. TypeOK'
    BY <1>2 DEF FollowNext, TypeInv, TypeOK, shared, local, Goto
  <2>2. Asking'
    BY <1>2 DEF FollowNext, TypeInv, TypeOK, Asking, local, Goto
  <2> QED BY <2>1, <2>2 DEF TypeInv
<1>3. ASSUME NEW n \in todo[r],
             cur' = [cur EXCEPT ![r] = [name |-> n, type |-> q[r].type]],
             todo' = [todo EXCEPT ![r] = @ \ {n}],
             Goto(r, "local")
      PROVE  TypeInv'
  <2> DEFINE question == [name |-> n, type |-> q[r].type]
  <2>1. n \in Names
    BY DEF TypeInv, TypeOK
  <2>2. question \in Questions /\ question # NoQuestion
    BY <1>1, <2>1, NamesAssumption DEF Questions, NoQuestion
  <2> HIDE DEF question
  <2>3. cur' = [cur EXCEPT ![r] = question]
    BY <1>3 DEF question
  <2>4. TypeOK'
    BY <1>3, <2>2, <2>3 DEF FollowNext, TypeInv, TypeOK, shared, local, Goto
  <2>5. Asking'
    BY <1>1, <1>3, <2>2, <2>3 DEF FollowNext, TypeInv, TypeOK, Asking, local, Goto
  <2> QED BY <2>4, <2>5 DEF TypeInv
<1> QED BY <1>2, <1>3 DEF FollowNext

LEMMA CloseType ==
  ASSUME TypeInv, NEW r \in Reqs, Close(r)
  PROVE  TypeInv'
<1>1. \A f \in fillers : [f EXCEPT !.of = {}, !.msg = resp[r]]
                          \in [key : Names, of : SUBSET Reqs, msg : Msgs]
  <2>1. resp[r] \in Msgs /\ fillers \subseteq [key : Names, of : SUBSET Reqs, msg : Msgs]
    BY DEF TypeInv, TypeOK
  <2> QED BY <2>1
<1>2. fillers' \subseteq [key : Names, of : SUBSET Reqs, msg : Msgs]
  <2>1. fillers \subseteq [key : Names, of : SUBSET Reqs, msg : Msgs]
    BY DEF TypeInv, TypeOK
  <2>2. fillers' = {IF f.of = {r} THEN [f EXCEPT !.of = {}, !.msg = resp[r]] ELSE f : f \in fillers}
    BY DEF Close
  <2> QED BY <1>1, <2>1, <2>2
<1>3. 0 \in 0..FollowCnameDepth /\ 1 \in 1..Len(Custom)
  BY DepthAssumption, CustomAssumption
<1>4. /\ resp' \in [Reqs -> Msgs]
      /\ depth' \in [Reqs -> 0..FollowCnameDepth]
      /\ since' \in [Reqs -> 1..Len(Custom)]
      /\ todo' \in [Reqs -> SUBSET Names]
  BY <1>3, NoMsgType DEF Close, TypeInv, TypeOK
<1>5. TypeOK'
  BY <1>2, <1>4 DEF Close, TypeInv, TypeOK, Goto
<1>6. Asking'
  BY DEF Close, TypeInv, TypeOK, Asking, Goto
<1> QED BY <1>5, <1>6 DEF TypeInv

\* What a filler puts into the cache.
LEMMA SnapshotType ==
  ASSUME TypeInv, NEW f \in fillers
  PROVE  /\ f.key \in Names
         /\ Snapshot(f) \in Msgs
         /\ Snapshot(f) = f.msg \/ \E r \in Reqs : Snapshot(f) = resp[r]
<1>1. f \in [key : Names, of : SUBSET Reqs, msg : Msgs]
  BY DEF TypeInv, TypeOK
<1>2. CASE f.of = {}
  BY <1>1, <1>2 DEF Snapshot
<1>3. CASE f.of # {}
  <2>1. (CHOOSE r \in f.of : TRUE) \in Reqs
    BY <1>1, <1>3
  <2> QED BY <1>1, <1>3, <2>1 DEF Snapshot, TypeInv, TypeOK
<1> QED BY <1>2, <1>3

LEMMA FillType ==
  ASSUME TypeInv, NEW f \in fillers, Fill(f)
  PROVE  TypeInv'
<1>1. DOMAIN cache' \subseteq Names /\ \A k \in DOMAIN cache' : cache'[k] \in Msgs
  BY SnapshotType DEF Fill, TypeInv, TypeOK
<1>2. TypeOK'
  BY <1>1 DEF Fill, TypeInv, TypeOK, local
<1>3. Asking'
  BY DEF Fill, TypeInv, Asking, local
<1> QED BY <1>2, <1>3 DEF TypeInv

LEMMA ExpireType ==
  ASSUME TypeInv, NEW k \in DOMAIN cache, Expire(k)
  PROVE  TypeInv'
<1>1. DOMAIN cache' \subseteq Names /\ \A n \in DOMAIN cache' : cache'[n] \in Msgs
  BY DEF Expire, TypeInv, TypeOK
<1>2. TypeOK'
  BY <1>1 DEF Expire, TypeInv, TypeOK, local
<1>3. Asking'
  BY DEF Expire, TypeInv, Asking, local
<1> QED BY <1>2, <1>3 DEF TypeInv

LEMMA ReloadConfigType ==
  ASSUME TypeInv, ReloadConfig
  PROVE  TypeInv'
<1>1. config' \in 1..Len(Custom)
  BY CustomAssumption DEF ReloadConfig, TypeInv, TypeOK
<1>2. TypeOK'
  BY <1>1 DEF ReloadConfig, TypeInv, TypeOK, local
<1>3. Asking'
  BY DEF ReloadConfig, TypeInv, Asking, local
<1> QED BY <1>2, <1>3 DEF TypeInv

LEMMA TypeStep == TypeInv /\ [Next]_vars => TypeInv'
<1> SUFFICES ASSUME TypeInv, [Next]_vars
             PROVE  TypeInv'
    OBVIOUS
<1>1. CASE UNCHANGED vars
  BY <1>1 DEF vars, shared, local, TypeInv, TypeOK, Asking
<1>2. ASSUME NEW r \in Reqs, Work(r)
      PROVE  TypeInv'
  BY <1>2, TryLocalType, TryCacheType, TryNegCacheType, LookupType, RoundType,
     FollowNextType DEF Work
<1> QED BY <1>1, <1>2, BeginType, CloseType, FillType, ExpireType, ReloadConfigType DEF Next

\* For any requests, names, upstream and depth, every variable keeps its shape:
\* no request follows CNAMEs deeper than FollowCnameDepth, and responseFor looks
\* up nothing but a question of a message that has one.
THEOREM HandlerTypeCorrect == Spec => []TypeOK
<1>1. TypeInv => TypeOK
  BY DEF TypeInv
<1> QED BY <1>1, TypeInit, TypeStep, PTL DEF Spec

-----------------------------------------------------------------------------
(* Blocking *)

\* Where responseFor is at work on cur, and where it is past the blocklist.
WorkStages == {"local", "cache", "negcache", "lookup", "retry"}
PastList   == {"cache", "negcache", "lookup", "retry"}

\* An answer for n all of whose records from the upstream were asked for with a
\* name that is not blocked, n or the target of an alias in the answer.
Sourced(n, S) ==
  \A rr \in S : rr.source = FromUpstream =>
    \E m \in ({n} \cup Targets(S)) \ Blocked : MayAnswer(m, rr)

\* What is true of a request for x, at p, with the answer S, in round d, working
\* on c, and with the targets T to go.
Sound(p, x, c, S, d, T) ==
  /\ p = "idle" => S = {} /\ d = 0
  /\ d = 0 => T = {}
  /\ T \subseteq Targets(S)
  /\ p \in WorkStages => /\ c.type = x.type
                         /\ IF d = 0 THEN c = x ELSE c.name \in Targets(S)
  /\ p \in PastList /\ IPQuery(c) => c.name \notin Blocked
  /\ IPQuery(x) => Sourced(x.name, S)

\* What a filler will put into the cache: an answer, or that of a request for the
\* name, which is not over.
FillerSound(f) ==
  \/ f.of = {} /\ Sourced(f.key, f.msg.answer)
  \/ \E r \in Reqs : f.of = {r} /\ pc[r] # "idle" /\ IPQuery(q[r]) /\ q[r].name = f.key

BlockInv ==
  /\ \A r \in Reqs : Sound(pc[r], q[r], cur[r], resp[r].answer, depth[r], todo[r])
  /\ \A k \in DOMAIN cache : Sourced(k, cache[k].answer)
  /\ \A f \in fillers : FillerSound(f)

LEMMA TargetsOfUnion ==
  ASSUME NEW S, NEW T
  PROVE  Targets(S \cup T) = Targets(S) \cup Targets(T)
BY DEF Targets, Cnames

LEMMA TargetsMonotone ==
  ASSUME NEW S, NEW T, S \subseteq T
  PROVE  Targets(S) \subseteq Targets(T)
BY DEF Targets, Cnames

\* An answer with nothing from the upstream.
LEMMA SourcedLocally ==
  ASSUME NEW n, NEW S, \A rr \in S : rr.source # FromUpstream
  PROVE  Sourced(n, S)
BY DEF Sourced

\* An answer stays so when the answer for one of its targets is added to it.
LEMMA SourcedUnion ==
  ASSUME NEW n, NEW S, NEW t \in Targets(S), NEW T, Sourced(n, S), Sourced(t, T)
  PROVE  Sourced(n, S \cup T)
<1> SUFFICES ASSUME NEW rr \in S \cup T, rr.source = FromUpstream
             PROVE  \E m \in ({n} \cup Targets(S \cup T)) \ Blocked : MayAnswer(m, rr)
  BY DEF Sourced
<1>1. Targets(S \cup T) = Targets(S) \cup Targets(T)
  BY TargetsOfUnion
<1>2. CASE rr \in S
  <2>1. \E m \in ({n} \cup Targets(S)) \ Blocked : MayAnswer(m, rr)
    BY <1>2 DEF Sourced
  <2>2. QED
    BY <1>1, <2>1
<1>3. CASE rr \in T
  <2>1. \E m \in ({t} \cup Targets(T)) \ Blocked : MayAnswer(m, rr)
    BY <1>3 DEF Sourced
  <2>2. QED
    BY <1>1, <2>1
<1>4. QED
  BY <1>2, <1>3

LEMMA BlockInit == Init => BlockInv
<1> SUFFICES ASSUME Init
             PROVE  BlockInv
    OBVIOUS
<1>1. DOMAIN cache = {} /\ fillers = {}
  BY DEF Init
<1>2. ASSUME NEW r \in Reqs
      PROVE  Sound(pc[r], q[r], cur[r], resp[r].answer, depth[r], todo[r])
  <2>1. /\ pc[r] = "idle" /\ q[r] = NoQuestion /\ resp[r].answer = {}
        /\ depth[r] = 0 /\ todo[r] = {}
    BY DEF Init, NoMsg
  <2>2. QED
    BY <2>1 DEF Sound, WorkStages, PastList, NoQuestion, IPQuery
<1>3. QED
  BY <1>1, <1>2 DEF BlockInv

\* A step that changes no request but r.
LEMMA BlockStepOf ==
  ASSUME TypeInv, BlockInv, NEW r \in Reqs,
         \A x \in Reqs \ {r} : /\ pc'[x] = pc[x] /\ q'[x] = q[x] /\ cur'[x] = cur[x]
                               /\ resp'[x] = resp[x] /\ depth'[x] = depth[x]
                               /\ todo'[x] = todo[x],
         Sound(pc'[r], q'[r], cur'[r], resp'[r].answer, depth'[r], todo'[r]),
         \A k \in DOMAIN cache' : Sourced(k, cache'[k].answer),
         \A f \in fillers' : FillerSound(f)'
  PROVE  BlockInv'
<1>1. ASSUME NEW x \in Reqs
      PROVE  Sound(pc'[x], q'[x], cur'[x], resp'[x].answer, depth'[x], todo'[x])
  <2>1. CASE x = r
    BY <2>1
  <2>2. CASE x # r
    BY <2>2 DEF BlockInv
  <2>3. QED
    BY <2>1, <2>2
<1>2. QED
  BY <1>1 DEF BlockInv

\* The fillers there are keep what they will take while their requests are not
\* over.
LEMMA FillersKept ==
  ASSUME BlockInv, \A x \in Reqs : pc[x] # "idle" => pc'[x] # "idle" /\ q'[x] = q[x]
  PROVE  \A f \in fillers : FillerSound(f)'
<1> SUFFICES ASSUME NEW f \in fillers
             PROVE  FillerSound(f)'
  OBVIOUS
<1>1. CASE f.of = {} /\ Sourced(f.key, f.msg.answer)
  BY <1>1 DEF FillerSound
<1>2. CASE \E r \in Reqs : f.of = {r} /\ pc[r] # "idle" /\ IPQuery(q[r]) /\ q[r].name = f.key
  BY <1>2 DEF FillerSound, IPQuery
<1>3. QED
  BY <1>1, <1>2 DEF BlockInv, FillerSound

\* What is known of a request at work.
LEMMA WorkSound ==
  ASSUME TypeInv, BlockInv, NEW r \in Reqs, pc[r] \in WorkStages
  PROVE  /\ Sound(pc[r], q[r], cur[r], resp[r].answer, depth[r], todo[r])
         /\ cur[r] \in Questions /\ cur[r].name \in Names /\ cur[r].type = q[r].type
         /\ ~Following(r) => depth[r] = 0 /\ cur[r] = q[r]
         /\ Following(r) => depth[r] # 0 /\ cur[r].name \in Targets(resp[r].answer)
<1>1. Sound(pc[r], q[r], cur[r], resp[r].answer, depth[r], todo[r])
  BY DEF BlockInv
<1>2. cur[r] \in Questions
  BY DEF TypeInv, TypeOK, Asking, WorkStages
<1>3. depth[r] \in Nat
  BY DepthAssumption DEF TypeInv, TypeOK
<1>4. QED
  BY <1>1, <1>2, <1>3 DEF Sound, Following, Questions

\* Got, with an answer that has its sources, and with a filler for it or none.
LEMMA GotBlock ==
  ASSUME TypeInv, BlockInv, NEW r \in Reqs, pc[r] \in WorkStages,
         NEW m \in Msgs, Got(r, m), UNCHANGED <<cache, local>>,
         IPQuery(cur[r]) => Sourced(cur[r].name, m.answer),
         \/ fillers' = fillers
         \/ \E g \in Msgs : /\ g.answer = m.answer /\ IPQuery(cur[r])
                            /\ fillers' = fillers \cup {Filler(r, g)}
  PROVE  BlockInv'
<1>1. UNCHANGED <<q, depth, todo, cur>>
  BY DEF Got, local
<1>2. /\ \A x \in Reqs \ {r} : pc'[x] = pc[x] /\ resp'[x] = resp[x]
      /\ pc'[r] = IF Following(r) THEN "next" ELSE "round"
      /\ resp'[r] = IF Following(r) THEN Extended(resp[r], m.answer) ELSE m
  BY DEF Got, Goto, TypeInv, TypeOK
<1>3. resp'[r].answer = IF Following(r) THEN resp[r].answer \cup m.answer ELSE m.answer
  <2>1. resp[r] \in Msgs
    BY DEF TypeInv, TypeOK
  <2>2. Extended(resp[r], m.answer).answer = resp[r].answer \cup m.answer
    BY <2>1 DEF Extended, Msgs
  <2>3. QED
    BY <1>2, <2>2
<1>4. Sound(pc'[r], q[r], cur[r], resp'[r].answer, depth[r], todo[r])
  <2>1. Sound(pc[r], q[r], cur[r], resp[r].answer, depth[r], todo[r])
    BY WorkSound
  <2>2. IPQuery(q[r]) => Sourced(cur[r].name, m.answer)
    BY WorkSound DEF IPQuery
  <2>3. CASE Following(r)
    <3>1. IPQuery(q[r]) => Sourced(q[r].name, resp'[r].answer)
      BY <1>3, <2>1, <2>2, <2>3, WorkSound, SourcedUnion DEF Sound
    <3>2. Targets(resp[r].answer) \subseteq Targets(resp'[r].answer)
      BY <1>3, <2>3, TargetsMonotone
    <3>3. depth[r] # 0
      BY <2>3, WorkSound
    <3>4. QED
      BY <1>2, <2>1, <2>3, <3>1, <3>2, <3>3 DEF Sound, WorkStages, PastList
  <2>4. CASE ~Following(r)
    <3>1. depth[r] = 0 /\ cur[r] = q[r] /\ todo[r] = {}
      BY <2>1, <2>4, WorkSound DEF Sound
    <3>2. QED
      BY <1>2, <1>3, <2>2, <2>4, <3>1 DEF Sound, WorkStages, PastList
  <2>5. QED
    BY <2>3, <2>4
<1>5. \A x \in Reqs : pc[x] # "idle" => pc'[x] # "idle" /\ q'[x] = q[x]
  BY <1>1, <1>2
<1>6. \A f \in fillers : FillerSound(f)'
  BY <1>5, FillersKept
<1>7. ASSUME NEW g \in Msgs, g.answer = m.answer, IPQuery(cur[r])
      PROVE  FillerSound(Filler(r, g))'
  <2> DEFINE f == Filler(r, g)
  <2>1. CASE Following(r)
    <3>1. f = [key |-> cur[r].name, of |-> {}, msg |-> g]
      BY <2>1 DEF Filler
    <3>2. f.of = {} /\ f.key = cur[r].name /\ f.msg = g
      BY <3>1
    <3> HIDE DEF f
    <3>3. f' = f
      BY <1>1, <2>1 DEF f, Filler, Following
    <3>4. QED
      BY <1>7, <3>2, <3>3 DEF FillerSound, f
  <2>2. CASE ~Following(r)
    <3>1. f = [key |-> cur[r].name, of |-> {r}, msg |-> NoMsg]
      BY <2>2 DEF Filler
    <3>2. f.of = {r} /\ f.key = cur[r].name
      BY <3>1
    <3>3. cur[r] = q[r] /\ pc'[r] # "idle" /\ IPQuery(q'[r])
      BY <1>1, <1>2, <1>7, <2>2, WorkSound DEF IPQuery
    <3> HIDE DEF f
    <3>4. f' = f
      BY <1>1, <2>2 DEF f, Filler, Following
    <3>5. QED
      BY <1>1, <3>2, <3>3, <3>4 DEF FillerSound, f
  <2>3. QED
    BY <2>1, <2>2
<1>8. \A f \in fillers' : FillerSound(f)'
  <2>1. CASE fillers' = fillers
    BY <1>6, <2>1
  <2>2. ASSUME NEW g \in Msgs, g.answer = m.answer, IPQuery(cur[r]),
               fillers' = fillers \cup {Filler(r, g)}
        PROVE  \A f \in fillers' : FillerSound(f)'
    <3> DEFINE new == Filler(r, g)
    <3>1. new' = new
      BY <1>1 DEF Filler, Following
    <3>2. FillerSound(new)'
      BY <1>7, <2>2
    <3> HIDE DEF new
    <3>3. \A f : f = new => FillerSound(f)'
      BY <3>1, <3>2 DEF FillerSound
    <3>4. fillers' = fillers \cup {new}
      BY <2>2 DEF new
    <3>5. QED
      BY <1>6, <3>3, <3>4
  <2>3. QED
    BY <2>1, <2>2
<1>9. QED
  BY <1>1, <1>2, <1>4, <1>8, BlockStepOf DEF BlockInv

\* Failed leaves an answer with no records, or the one there was.
LEMMA FailedBlock ==
  ASSUME TypeInv, BlockInv, NEW r \in Reqs, pc[r] \in WorkStages, Failed(r),
         UNCHANGED <<cache, fillers, local>>
  PROVE  BlockInv'
<1>1. UNCHANGED <<q, depth, todo, cur>>
  BY DEF Failed, local
<1>2. /\ \A x \in Reqs \ {r} : pc'[x] = pc[x] /\ resp'[x] = resp[x]
      /\ \/ pc'[r] = pc[r] /\ resp'[r] = resp[r]
         \/ ~Following(r) /\ pc'[r] = "done" /\ resp'[r].answer = {}
  <2> DEFINE m == [NoMsg EXCEPT !.rcode = "servfail"]
  <2>1. m.answer = {}
    BY DEF NoMsg
  <2> HIDE DEF m
  <2>2. \/ UNCHANGED <<resp, pc>>
        \/ /\ ~Following(r)
           /\ resp' = [resp EXCEPT ![r] = m] /\ pc' = [pc EXCEPT ![r] = "done"]
    BY DEF Failed, Goto, m
  <2>3. pc \in [Reqs -> {"idle", "local", "cache", "negcache", "lookup",
                         "retry", "round", "next", "done"}] /\ resp \in [Reqs -> Msgs]
    BY DEF TypeInv, TypeOK
  <2>4. QED
    BY <2>1, <2>2, <2>3
<1>3. Sound(pc'[r], q[r], cur[r], resp'[r].answer, depth[r], todo[r])
  <2>1. Sound(pc[r], q[r], cur[r], resp[r].answer, depth[r], todo[r])
    BY WorkSound
  <2>2. CASE ~Following(r) /\ pc'[r] = "done" /\ resp'[r].answer = {}
    <3>1. todo[r] = {}
      BY <2>1, <2>2, WorkSound DEF Sound
    <3>2. QED
      BY <2>2, <3>1 DEF Sound, WorkStages, PastList, Sourced
  <2>3. QED
    BY <1>2, <2>1, <2>2
<1>4. \A x \in Reqs : pc[x] # "idle" => pc'[x] # "idle" /\ q'[x] = q[x]
  BY <1>1, <1>2
<1>5. \A f \in fillers' : FillerSound(f)'
  BY <1>4, FillersKept
<1>6. QED
  BY <1>1, <1>2, <1>3, <1>5, BlockStepOf DEF BlockInv

\* A request at work goes on, past the blocklist if its name is not blocked.
LEMMA MoveBlock ==
  ASSUME TypeInv, BlockInv, NEW r \in Reqs, pc[r] \in WorkStages,
         NEW l \in PastList, Goto(r, l), IPQuery(cur[r]) => cur[r].name \notin Blocked,
         UNCHANGED <<cache, fillers, local, cur, resp, depth, todo>>
  PROVE  BlockInv'
<1>1. UNCHANGED q /\ l \in WorkStages
  BY DEF local, WorkStages, PastList
<1>2. pc'[r] = l /\ \A x \in Reqs \ {r} : pc'[x] = pc[x]
  BY DEF Goto, TypeInv, TypeOK
<1>3. Sound(l, q[r], cur[r], resp[r].answer, depth[r], todo[r])
  BY <1>1, WorkSound DEF Sound, WorkStages, PastList
<1>4. \A x \in Reqs : pc[x] # "idle" => pc'[x] # "idle" /\ q'[x] = q[x]
  BY <1>1, <1>2 DEF PastList
<1>5. \A f \in fillers' : FillerSound(f)'
  BY <1>4, FillersKept
<1>6. QED
  BY <1>1, <1>2, <1>3, <1>5, BlockStepOf DEF BlockInv

LEMMA TryLocalBlock ==
  ASSUME TypeInv, BlockInv, NEW r \in Reqs, TryLocal(r)
  PROVE  BlockInv'
<1> DEFINE n == cur[r].name
<1>0. pc[r] \in WorkStages /\ UNCHANGED <<cache, fillers, local>>
  BY DEF TryLocal, shared, WorkStages
<1>1. n \in Names
  BY <1>0, WorkSound
<1>2. CASE Got(r, [NoMsg EXCEPT !.answer = CustomFor(n)])
  <2> DEFINE m == [NoMsg EXCEPT !.answer = CustomFor(n)]
  <2>1. config \in 1..Len(Custom)
    BY DEF TypeInv, TypeOK
  <2>2. CustomFor(n) \subseteq RRs /\ \A rr \in CustomFor(n) : rr.source # FromUpstream
    BY <1>1, <2>1, CustomForType, CustomAssumption DEF FromUpstream
  <2>3. m \in Msgs /\ m.answer = CustomFor(n)
    BY <2>2 DEF NoMsg, Msgs
  <2> HIDE DEF m
  <2>4. Got(r, m) /\ Sourced(n, m.answer)
    BY <1>2, <2>2, <2>3, SourcedLocally DEF m
  <2>5. QED
    BY <1>0, <2>3, <2>4, GotBlock
<1>3. CASE Got(r, SetReply(blockedResponseFor(n)))
  <2> DEFINE m == SetReply(blockedResponseFor(n))
  <2>1. m \in Msgs /\ \A rr \in m.answer : rr.source # FromUpstream
    BY <1>1, BlockedResponseType DEF FromUpstream, FromBlocking
  <2> HIDE DEF m
  <2>2. Got(r, m) /\ Sourced(n, m.answer)
    BY <1>3, <2>1, SourcedLocally DEF m
  <2>3. QED
    BY <1>0, <2>1, <2>2, GotBlock
<1>4. CASE /\ ~IsBlocked(r)
           /\ Goto(r, IF IPQuery(cur[r]) THEN "cache" ELSE "lookup")
           /\ UNCHANGED <<resp, depth, todo, cur, crashed>>
  <2>1. PICK l \in PastList : Goto(r, l)
    BY <1>4 DEF PastList
  <2>2. IPQuery(cur[r]) => n \notin Blocked
    BY <1>4 DEF IsBlocked
  <2>3. QED
    BY <1>0, <1>4, <2>1, <2>2, MoveBlock
<1>5. QED
  BY <1>2, <1>3, <1>4 DEF TryLocal

LEMMA TryCachesBlock ==
  ASSUME TypeInv, BlockInv, NEW r \in Reqs, TryCache(r) \/ TryNegCache(r)
  PROVE  BlockInv'
<1>0. /\ pc[r] \in WorkStages /\ pc[r] \in PastList
      /\ UNCHANGED <<cache, fillers, local>>
  BY DEF TryCache, TryNegCache, shared, WorkStages, PastList
<1>1. CASE cur[r].name \in DOMAIN cache /\ Got(r, SetReply(cache[cur[r].name]))
  <2> DEFINE m == SetReply(cache[cur[r].name])
  <2>1. cache[cur[r].name] \in Msgs
    BY <1>1 DEF TypeInv, TypeOK
  <2>2. m \in Msgs /\ m.answer = cache[cur[r].name].answer
    BY <2>1, SetReplyType
  <2> HIDE DEF m
  <2>3. Got(r, m) /\ Sourced(cur[r].name, m.answer)
    BY <1>1, <2>2 DEF m, BlockInv
  <2>4. QED
    BY <1>0, <2>2, <2>3, GotBlock
<1>2. CASE Failed(r)
  BY <1>0, <1>2, FailedBlock
<1>3. ASSUME NEW l \in PastList, Goto(r, l), UNCHANGED <<resp, depth, todo, cur, crashed>>
      PROVE  BlockInv'
  <2>1. IPQuery(cur[r]) => cur[r].name \notin Blocked
    BY <1>0, WorkSound DEF Sound
  <2>2. QED
    BY <1>0, <1>3, <2>1, MoveBlock
<1>4. QED
  BY <1>1, <1>2, <1>3 DEF TryCache, TryNegCache, PastList

\* The name asked for is not blocked, and so everything in the answer, about
\* whatever names it is, has been asked for with a name that is not.
LEMMA LookupBlock ==
  ASSUME TypeInv, BlockInv, NEW r \in Reqs, Lookup(r) \/ RetryTcp(r)
  PROVE  BlockInv'
<1>0. /\ pc[r] \in {"lookup", "retry"} /\ pc[r] \in WorkStages /\ pc[r] \in PastList
      /\ UNCHANGED <<cache, local>>
  BY DEF Lookup, RetryTcp, WorkStages, PastList
<1>1. /\ cur[r] \in Questions
      /\ IPQuery(cur[r]) => cur[r].name \notin Blocked
  BY <1>0, WorkSound DEF Sound
<1>2. PICK m \in Upstream[cur[r]] :
        \/ LookupFailed(r)
        \/ Goto(r, "retry") /\ UNCHANGED <<fillers, negCache, resp, depth, todo, cur, crashed>>
        \/ m # LookupError /\ Fetched(r, m)
  BY DEF Lookup, RetryTcp
<1>3. CASE LookupFailed(r)
  BY <1>0, <1>3, FailedBlock DEF LookupFailed
<1>4. CASE Goto(r, "retry") /\ UNCHANGED <<fillers, negCache, resp, depth, todo, cur, crashed>>
  <2>1. "retry" \in PastList
    BY DEF PastList
  <2>2. QED
    BY <1>0, <1>1, <1>4, <2>1, MoveBlock
<1>5. CASE m # LookupError /\ Fetched(r, m)
  <2>1. m \in Msgs
    BY <1>0, <1>2, <1>5, LookupResult
  <2> DEFINE g == SetReply(m)
  <2>2. g \in Msgs /\ g.answer = m.answer
    BY <2>1, SetReplyType
  <2> HIDE DEF g
  <2>3. Got(r, g)
    BY <1>5 DEF Fetched, g
  <2>4. fillers' = fillers \/ (IPQuery(cur[r]) /\ fillers' = fillers \cup {Filler(r, m)})
    BY <1>5 DEF Fetched
  <2>5. IPQuery(cur[r]) => Sourced(cur[r].name, g.answer)
    <3> SUFFICES ASSUME IPQuery(cur[r])
                 PROVE  Sourced(cur[r].name, m.answer)
      BY <2>2
    <3>1. cur[r] = [name |-> cur[r].name, type |-> "A"]
      BY <1>1 DEF Questions, IPQuery
    <3>2. \A rr \in m.answer : MayAnswer(cur[r].name, rr)
      BY <1>2, <3>1 DEF MayAnswer
    <3>3. QED
      BY <1>1, <3>2 DEF Sourced
  <2>6. QED
    BY <1>0, <2>1, <2>2, <2>3, <2>4, <2>5, GotBlock
<1>6. QED
  BY <1>2, <1>3, <1>4, <1>5

LEMMA RoundBlock ==
  ASSUME TypeInv, BlockInv, NEW r \in Reqs, Round(r)
  PROVE  BlockInv'
<1>0. pc[r] = "round" /\ UNCHANGED <<cache, fillers, q, cur, resp>> /\ depth[r] \in Nat
  BY DepthAssumption DEF Round, shared, local, TypeInv, TypeOK
<1>1. Sound("round", q[r], cur[r], resp[r].answer, depth[r], todo[r])
  BY <1>0 DEF BlockInv
<1>2. \A x \in Reqs \ {r} : pc'[x] = pc[x] /\ depth'[x] = depth[x] /\ todo'[x] = todo[x]
  BY DEF Round, Goto, TypeInv, TypeOK
<1>3. \/ /\ pc'[r] = "next" /\ depth'[r] = depth[r] + 1
         /\ todo'[r] = Targets(resp[r].answer)
      \/ pc'[r] = "done" /\ depth'[r] = depth[r] /\ todo'[r] = todo[r]
  BY DEF Round, Goto, Counted, Targets, TypeInv, TypeOK
<1>4. Sound(pc'[r], q[r], cur[r], resp[r].answer, depth'[r], todo'[r])
  BY <1>0, <1>1, <1>3 DEF Sound, WorkStages, PastList
<1>5. \A x \in Reqs : pc[x] # "idle" => pc'[x] # "idle" /\ q'[x] = q[x]
  BY <1>0, <1>2, <1>3
<1>6. \A f \in fillers' : FillerSound(f)'
  BY <1>0, <1>5, FillersKept
<1>7. QED
  BY <1>0, <1>2, <1>4, <1>6, BlockStepOf DEF BlockInv

LEMMA FollowNextBlock ==
  ASSUME TypeInv, BlockInv, NEW r \in Reqs, FollowNext(r)
  PROVE  BlockInv'
<1>0. pc[r] = "next" /\ UNCHANGED <<cache, fillers, q, resp, depth>>
  BY DEF FollowNext, shared, local
<1>1. Sound("next", q[r], cur[r], resp[r].answer, depth[r], todo[r])
  BY <1>0 DEF BlockInv
<1>2. \A x \in Reqs \ {r} : pc'[x] = pc[x] /\ cur'[x] = cur[x] /\ todo'[x] = todo[x]
  BY DEF FollowNext, Goto, TypeInv, TypeOK
<1>3. \/ pc'[r] = "round" /\ cur'[r] = cur[r] /\ todo'[r] = todo[r]
      \/ \E n \in todo[r] : /\ pc'[r] = "local" /\ todo'[r] = todo[r] \ {n}
                            /\ cur'[r] = [name |-> n, type |-> q[r].type]
  BY DEF FollowNext, Goto, TypeInv, TypeOK
<1>4. Sound(pc'[r], q[r], cur'[r], resp[r].answer, depth[r], todo'[r])
  <2>1. CASE pc'[r] = "round" /\ cur'[r] = cur[r] /\ todo'[r] = todo[r]
    BY <1>1, <2>1 DEF Sound, WorkStages, PastList
  <2>2. ASSUME NEW n \in todo[r], pc'[r] = "local", todo'[r] = todo[r] \ {n},
               cur'[r] = [name |-> n, type |-> q[r].type]
        PROVE  Sound(pc'[r], q[r], cur'[r], resp[r].answer, depth[r], todo'[r])
    <3>1. n \in Targets(resp[r].answer) /\ depth[r] # 0
      BY <1>1, <2>2 DEF Sound
    <3>2. cur'[r].name = n /\ cur'[r].type = q[r].type
      BY <2>2
    <3>3. QED
      BY <1>1, <2>2, <3>1, <3>2 DEF Sound, WorkStages, PastList
  <2>3. QED
    BY <1>3, <2>1, <2>2
<1>5. \A x \in Reqs : pc[x] # "idle" => pc'[x] # "idle" /\ q'[x] = q[x]
  BY <1>0, <1>2, <1>3
<1>6. \A f \in fillers' : FillerSound(f)'
  BY <1>0, <1>5, FillersKept
<1>7. QED
  BY <1>0, <1>2, <1>4, <1>6, BlockStepOf DEF BlockInv

LEMMA BeginBlock ==
  ASSUME TypeInv, BlockInv, NEW r \in Reqs, NEW request \in Asked, Begin(r, request)
  PROVE  BlockInv'
<1> DEFINE x == request.question
<1>0. pc[r] = "idle" /\ UNCHANGED <<cache, fillers, resp, depth, todo>>
  BY DEF Begin, shared
<1>1. resp[r].answer = {} /\ depth[r] = 0 /\ todo[r] = {}
  BY <1>0 DEF BlockInv, Sound
<1>2. /\ pc'[r] = "local" /\ q'[r] = x /\ cur'[r] = x
      /\ \A y \in Reqs \ {r} : pc'[y] = pc[y] /\ q'[y] = q[y] /\ cur'[y] = cur[y]
  BY DEF Begin, Goto, TypeInv, TypeOK
<1> HIDE DEF x
<1>3. Sound(pc'[r], q'[r], cur'[r], resp'[r].answer, depth'[r], todo'[r])
  BY <1>0, <1>1, <1>2 DEF Sound, Sourced, WorkStages, PastList
<1>4. \A y \in Reqs : pc[y] # "idle" => pc'[y] # "idle" /\ q'[y] = q[y]
  BY <1>0, <1>2
<1>5. \A f \in fillers' : FillerSound(f)'
  BY <1>0, <1>4, FillersKept
<1>6. QED
  BY <1>0, <1>2, <1>3, <1>5, BlockStepOf DEF BlockInv

\* What a filler takes, whenever it runs.
LEMMA SnapshotSourced ==
  ASSUME BlockInv, NEW f \in fillers
  PROVE  Sourced(f.key, Snapshot(f).answer)
<1>1. CASE f.of = {} /\ Sourced(f.key, f.msg.answer)
  BY <1>1 DEF Snapshot
<1>2. ASSUME NEW r \in Reqs, f.of = {r}, IPQuery(q[r]), q[r].name = f.key
      PROVE  Sourced(f.key, Snapshot(f).answer)
  <2>1. (CHOOSE y \in f.of : TRUE) = r
    BY <1>2
  <2>2. Snapshot(f) = resp[r]
    BY <1>2, <2>1 DEF Snapshot
  <2>3. Sourced(q[r].name, resp[r].answer)
    BY <1>2 DEF BlockInv, Sound
  <2>4. QED
    BY <1>2, <2>2, <2>3
<1>3. QED
  BY <1>1, <1>2 DEF BlockInv, FillerSound

LEMMA CloseBlock ==
  ASSUME TypeInv, BlockInv, NEW r \in Reqs, Close(r)
  PROVE  BlockInv'
<1>1. /\ pc'[r] = "idle" /\ q'[r] = NoQuestion /\ cur'[r] = NoQuestion
      /\ resp'[r].answer = {} /\ depth'[r] = 0 /\ todo'[r] = {}
      /\ \A x \in Reqs \ {r} : /\ pc'[x] = pc[x] /\ q'[x] = q[x] /\ cur'[x] = cur[x]
                               /\ resp'[x] = resp[x] /\ depth'[x] = depth[x]
                               /\ todo'[x] = todo[x]
  BY DEF Close, Goto, NoMsg, TypeInv, TypeOK
<1>2. Sound(pc'[r], q'[r], cur'[r], resp'[r].answer, depth'[r], todo'[r])
  BY <1>1 DEF Sound, NoQuestion, IPQuery, WorkStages, PastList
<1>3. ASSUME NEW g \in fillers'
      PROVE  FillerSound(g)'
  <2>1. PICK f \in fillers :
          g = IF f.of = {r} THEN [f EXCEPT !.of = {}, !.msg = resp[r]] ELSE f
    BY <1>3 DEF Close
  <2>2. f \in [key : Names, of : SUBSET Reqs, msg : Msgs]
    BY DEF TypeInv, TypeOK
  <2>3. CASE f.of = {r}
    <3>1. g.of = {} /\ g.key = f.key /\ g.msg = resp[r]
      BY <2>1, <2>2, <2>3
    <3>2. (CHOOSE y \in f.of : TRUE) = r
      BY <2>3
    <3>3. Snapshot(f) = resp[r]
      BY <2>3, <3>2 DEF Snapshot
    <3>4. Sourced(g.key, g.msg.answer)
      BY <3>1, <3>3, SnapshotSourced
    <3>5. QED
      BY <3>1, <3>4 DEF FillerSound
  <2>4. CASE f.of # {r}
    <3>1. g = f /\ FillerSound(f)
      BY <2>1, <2>4 DEF BlockInv
    <3>2. CASE f.of = {} /\ Sourced(f.key, f.msg.answer)
      BY <3>1, <3>2 DEF FillerSound
    <3>3. ASSUME NEW x \in Reqs, f.of = {x}, pc[x] # "idle", IPQuery(q[x]), q[x].name = f.key
          PROVE  FillerSound(g)'
      <4>1. pc'[x] = pc[x] /\ q'[x] = q[x]
        BY <1>1, <2>4, <3>3
      <4>2. QED
        BY <3>1, <3>3, <4>1 DEF FillerSound, IPQuery
    <3>4. QED
      BY <3>1, <3>2, <3>3 DEF FillerSound
  <2>5. QED
    BY <2>3, <2>4
<1>4. cache' = cache
  BY DEF Close
<1>5. QED
  BY <1>1, <1>2, <1>3, <1>4, BlockStepOf DEF BlockInv

LEMMA BesideBlock ==
  ASSUME TypeInv, BlockInv,
         \/ \E f \in fillers : Fill(f)
         \/ \E k \in DOMAIN cache : Expire(k)
         \/ ReloadConfig
  PROVE  BlockInv'
<1>0. UNCHANGED <<pc, q, cur, resp, depth, todo>> /\ fillers' \subseteq fillers
  BY DEF Fill, Expire, ReloadConfig, local
<1>1. \A k \in DOMAIN cache' : Sourced(k, cache'[k].answer)
  <2>1. ASSUME NEW f \in fillers, Fill(f)
        PROVE  \A k \in DOMAIN cache' : Sourced(k, cache'[k].answer)
    BY <2>1, SnapshotSourced DEF Fill, BlockInv
  <2>2. ASSUME NEW n \in DOMAIN cache, Expire(n)
        PROVE  \A k \in DOMAIN cache' : Sourced(k, cache'[k].answer)
    BY <2>2 DEF Expire, BlockInv
  <2>3. QED
    BY <2>1, <2>2 DEF ReloadConfig, BlockInv
<1>2. \A f \in fillers' : FillerSound(f)'
  BY <1>0, FillersKept
<1>3. QED
  BY <1>0, <1>1, <1>2 DEF BlockInv

LEMMA BlockStep == TypeInv /\ BlockInv /\ [Next]_vars => BlockInv'
<1> SUFFICES ASSUME TypeInv, BlockInv, [Next]_vars
             PROVE  BlockInv'
    OBVIOUS
<1>1. CASE UNCHANGED vars
  BY <1>1, FillersKept DEF vars, shared, local, BlockInv
<1>2. ASSUME NEW r \in Reqs, Work(r)
      PROVE  BlockInv'
  BY <1>2, TryLocalBlock, TryCachesBlock, LookupBlock, RoundBlock, FollowNextBlock DEF Work
<1>3. QED
  BY <1>1, <1>2, BeginBlock, CloseBlock, BesideBlock DEF Next

\* Whatever the requests, the aliases, the depth, the upstream and the races of
\* the cache fillers with the requests they belong to, and whatever the upstream
\* resolves by itself: what a reply has from it was said of a name that is not
\* blocked, and that the reply asks about or leads to.
THEOREM BlockingHolds == Spec => []AskedUnblocked
<1>1. Init => TypeInv /\ BlockInv
  BY TypeInit, BlockInit
<1>2. TypeInv /\ BlockInv /\ [Next]_vars => (TypeInv /\ BlockInv)'
  BY TypeStep, BlockStep
<1>3. BlockInv => AskedUnblocked
  BY DEF BlockInv, Sound, Sourced, AskedUnblocked
<1>4. QED
  BY <1>1, <1>2, <1>3, PTL DEF Spec
=============================================================================
