------------------------------ MODULE Handler ------------------------------
(***************************************************************************)
(* How a request is answered (handler.go doRequest, responseFor, canFollow *)
(* and blockedResponseFor; records.go): custom records, then the           *)
(* blocklist, the cache, the negative cache and the upstream, and then the *)
(* same again for the target of every CNAME, round after round.  Requests  *)
(* run in goroutines of their own, share the caches, and leave behind the  *)
(* goroutines that fill the cache, which read the response while the       *)
(* request may still be adding answers to it.                              *)
(*                                                                         *)
(* A name is a value, a resource record an owner, a type, a target and a   *)
(* source; the answer section is a set of them, for doRequest appends a    *)
(* record only if an equal one is not there.  "A" stands for A and AAAA,   *)
(* the types that are blocked and cached.  Records expire at any moment.   *)
(* The blocklist does not change, and lengActive is always true.           *)
(***************************************************************************)
EXTENDS Integers, Sequences, FiniteSets

CONSTANTS
  Reqs,              \* requests
  Names, NoName,     \* domain names; NoName is the target of an A record
  Suffixes,          \* name -> the name and its parent domains, longest first
  Qtypes,            \* question types asked: "A", "CNAME"
  Blocked,           \* names in the blocklist
  NXDomain,          \* config.Blocking.NXDomain
  FollowCnameDepth,  \* config.FollowCnameDepth
  Asked,             \* the requests clients send: a protocol and a question
  Upstream,          \* question -> the results a lookup of it may have
  MaxFillers,        \* bound: no request begins while so many fillers are pending
  Custom             \* custom records (name -> set of RRs), one per config loaded

ASSUME NamesAssumption == NoName \notin Names /\ Blocked \subseteq Names
ASSUME SuffixAssumption == Suffixes \in [Names -> Seq(Names)]
ASSUME DepthAssumption == FollowCnameDepth \in Nat /\ NXDomain \in BOOLEAN
ASSUME BoundAssumption == MaxFillers \in Nat

\* The question of a request that has not begun.  Every message that gets here has
\* one: dns.ServeMux refuses the others before the event loop sees them.
NoQuestion == [name |-> NoName, type |-> "none"]

Questions == [name : Names, type : Qtypes]

Requests == [net : {"udp", "tcp", "http"}, question : Questions]

ASSUME AskedAssumption == Asked \subseteq Requests

\* Where a record comes from: a lookup, the blocking, or the custom records of
\* the i-th config.
FromUpstream == 0
FromBlocking == -1

Sources == {FromUpstream, FromBlocking} \cup (1..Len(Custom))

RRs ==      [owner : Names, type : {"A"}, target : {NoName}, source : Sources]
       \cup [owner : Names, type : {"CNAME"}, target : Names, source : Sources]

Msgs == [rcode : {"noerror", "nxdomain", "servfail"}, answer : SUBSET RRs,
         truncated : BOOLEAN]

\* A lookup fails, or returns a message.
LookupError == [rcode |-> "error", answer |-> {}, truncated |-> FALSE]

ASSUME UpstreamAssumption ==
  /\ DOMAIN Upstream = Questions
  /\ \A x \in Questions : \A m \in Upstream[x] :
       \/ m = LookupError
       \/ /\ m \in Msgs
          /\ \A rr \in m.answer : rr.source = FromUpstream
ASSUME CustomAssumption ==
  /\ Custom \in Seq([Names -> SUBSET RRs])
  /\ Custom # <<>>
  /\ \A i \in 1..Len(Custom), n \in Names : \A rr \in Custom[i][n] : rr.source = i

NoMsg == [rcode |-> "noerror", answer |-> {}, truncated |-> FALSE]

VARIABLES
  config,    \* which of Custom the resolver of custom records was made from
  cache,     \* h.cache: the names whose "A" question has an entry, with it
  negCache,  \* h.negCache: questions
  fillers,   \* goroutines that will call h.cache.Set
  pc,        \* where each request is
  q,         \* its question
  net,       \* the protocol it came by
  cur,       \* the question responseFor is working on
  resp,      \* its response so far
  depth,     \* depthSoFar
  todo,      \* CNAME targets left to follow in this round
  since,     \* history: the config in force when the request began
  crashed    \* the process has panicked

shared == <<config, cache, negCache, fillers>>
local  == <<q, net, since>>
vars   == <<shared, pc, local, cur, resp, depth, todo, crashed>>

Init ==
  /\ config = 1
  /\ cache = << >>
  /\ negCache = {}
  /\ fillers = {}
  /\ pc = [r \in Reqs |-> "idle"]
  /\ q = [r \in Reqs |-> NoQuestion]
  /\ net = [r \in Reqs |-> "udp"]
  /\ cur = [r \in Reqs |-> NoQuestion]
  /\ resp = [r \in Reqs |-> NoMsg]
  /\ depth = [r \in Reqs |-> 0]
  /\ todo = [r \in Reqs |-> {}]
  /\ since = [r \in Reqs |-> 1]
  /\ crashed = FALSE

Goto(r, l) == pc' = [pc EXCEPT ![r] = l]

IPQuery(question) == question.type = "A"

\* responseFor is at work on a CNAME target, not on the client's question.
Following(r) == depth[r] > 0

-----------------------------------------------------------------------------
(* What responseFor returns, and what doRequest does with it *)

\* The deferred resp.SetReply(req), which also resets the Rcode.
SetReply(m) == [m EXCEPT !.rcode = "noerror"]

Extended(m, answer) == [m EXCEPT !.answer = @ \cup answer]

\* Success: the first response is the reply to be; a later one adds its answers.
Got(r, m) ==
  /\ resp' = [resp EXCEPT ![r] = IF Following(r)
                                   THEN Extended(@, m.answer)
                                   ELSE m]
  /\ Goto(r, IF Following(r) THEN "next" ELSE "round")
  /\ UNCHANGED <<depth, todo, cur, crashed>>

\* No success: SERVFAIL for the client's question.  For a CNAME target the
\* loop over followed.Answer dereferences the nil that came with it.
Failed(r) ==
  /\ IF Following(r)
       THEN crashed' = TRUE /\ UNCHANGED <<resp, pc>>
       ELSE /\ resp' = [resp EXCEPT ![r] = [NoMsg EXCEPT !.rcode = "servfail"]]
            /\ Goto(r, "done")
            /\ UNCHANGED crashed
  /\ UNCHANGED <<depth, todo, cur>>

-----------------------------------------------------------------------------
(* responseFor *)

\* The records of the nearest suffix that has any: dns.ServeMux matches zones.
CustomFor(n) ==
  LET hit     == {i \in 1..Len(Suffixes[n]) : Custom[config][Suffixes[n][i]] # {}}
      nearest == {i \in hit : \A j \in hit : i <= j}
  IN  UNION {Custom[config][Suffixes[n][i]] : i \in nearest}

\* NXDOMAIN without answers, or the null route.
blockedResponseFor(n) ==
  IF NXDomain
    THEN [NoMsg EXCEPT !.rcode = "nxdomain"]
    ELSE [NoMsg EXCEPT !.answer =
            {[owner |-> n, type |-> "A", target |-> NoName, source |-> FromBlocking]}]

\* A slip of IsBlocked: only the client's own question is held against the list.
IsBlockedFirstOnly(r) == IPQuery(cur[r]) /\ cur[r].name \in Blocked /\ ~Following(r)

\* isIPQuery > 0 && lengActive && h.blockCache.Exists
IsBlocked(r) == IPQuery(cur[r]) /\ cur[r].name \in Blocked

\* h.customDns.Resolve, then the blocklist: custom records go before it.
TryLocal(r) ==
  /\ pc[r] = "local"
  /\ \/ /\ CustomFor(cur[r].name) # {}
        /\ Got(r, [NoMsg EXCEPT !.answer = CustomFor(cur[r].name)])
     \/ /\ CustomFor(cur[r].name) = {} /\ IsBlocked(r)
        /\ Got(r, SetReply(blockedResponseFor(cur[r].name)))
     \/ /\ CustomFor(cur[r].name) = {} /\ ~IsBlocked(r)
        /\ Goto(r, IF IPQuery(cur[r]) THEN "cache" ELSE "lookup")
        /\ UNCHANGED <<resp, depth, todo, cur, crashed>>
  /\ UNCHANGED <<shared, local>>

\* h.cache.Get: a copy of the cached message.
TryCache(r) ==
  /\ pc[r] = "cache"
  /\ \/ /\ cur[r].name \in DOMAIN cache
        /\ Got(r, SetReply(cache[cur[r].name]))
     \/ /\ cur[r].name \notin DOMAIN cache
        /\ Goto(r, "negcache")
        /\ UNCHANGED <<resp, depth, todo, cur, crashed>>
  /\ UNCHANGED <<shared, local>>

\* h.negCache.Get: a hit is a failure.
TryNegCache(r) ==
  /\ pc[r] = "negcache"
  /\ \/ /\ cur[r] \in negCache
        /\ Failed(r)
     \/ /\ cur[r] \notin negCache
        /\ Goto(r, "lookup")
        /\ UNCHANGED <<resp, depth, todo, cur, crashed>>
  /\ UNCHANGED <<shared, local>>

\* The goroutine that will cache *resp under the key of the question: for the
\* client's own question that is the response doRequest goes on to extend.
Filler(r, m) ==
  IF Following(r) THEN [key |-> cur[r].name, of |-> {},  msg |-> m]
                  ELSE [key |-> cur[r].name, of |-> {r}, msg |-> NoMsg]

Fetched(r, m) ==
  /\ fillers' = IF IPQuery(cur[r]) /\ m.answer # {} THEN fillers \cup {Filler(r, m)}
                                                    ELSE fillers
  /\ Got(r, SetReply(m))
  /\ UNCHANGED negCache

\* The failure is cached, unless negCache is full.
LookupFailed(r) ==
  /\ \/ negCache' = negCache \cup {cur[r]}
     \/ UNCHANGED negCache
  /\ Failed(r)
  /\ UNCHANGED fillers

\* resolver.Lookup; a truncated answer over UDP is asked for again over TCP.
Lookup(r) ==
  /\ pc[r] = "lookup"
  /\ \E m \in Upstream[cur[r]] :
       \/ /\ m = LookupError
          /\ LookupFailed(r)
       \/ /\ m # LookupError /\ m.truncated /\ net[r] = "udp"
          /\ Goto(r, "retry")
          /\ UNCHANGED <<fillers, negCache, resp, depth, todo, cur, crashed>>
       \/ /\ m # LookupError /\ ~(m.truncated /\ net[r] = "udp")
          /\ Fetched(r, m)
  /\ UNCHANGED <<config, cache, local>>

\* The second lookup: what it returns is used, truncated or not.
RetryTcp(r) ==
  /\ pc[r] = "retry"
  /\ \E m \in Upstream[cur[r]] :
       \/ m = LookupError /\ LookupFailed(r)
       \/ m # LookupError /\ Fetched(r, m)
  /\ UNCHANGED <<config, cache, local>>

-----------------------------------------------------------------------------
(* doRequest *)

Begin(r, request) ==
  /\ pc[r] = "idle"
  /\ Cardinality(fillers) < MaxFillers
  /\ q' = [q EXCEPT ![r] = request.question]
  /\ net' = [net EXCEPT ![r] = request.net]
  /\ cur' = [cur EXCEPT ![r] = request.question]
  /\ since' = [since EXCEPT ![r] = config]
  /\ Goto(r, "local")
  /\ UNCHANGED <<shared, resp, depth, todo, crashed>>

Cnames(answer) == {rr \in answer : rr.type = "CNAME"}

\* Not for CNAME questions, only if there is a CNAME and no address.
canFollow(question, answer) ==
  /\ question.type # "CNAME"
  /\ \A rr \in answer : rr.type # "A"
  /\ Cnames(answer) # {}

\* Slips of MoreRounds: the depth counted before it is compared, and >= for >.
MoreRoundsTooFew(r)  == FollowCnameDepth > depth[r] + 1
MoreRoundsTooMany(r) == FollowCnameDepth >= depth[r]

\* The condition of the loop.
MoreRounds(r) == FollowCnameDepth > depth[r]

\* A slip of Counted: rounds after the first are not counted.
CountedOnce(n) == 1

\* depthSoFar++
Counted(n) == n + 1

\* The head of the loop: another round, or WriteReplyMsg(w, resp).
Round(r) ==
  /\ pc[r] = "round"
  /\ \/ /\ MoreRounds(r) /\ canFollow(q[r], resp[r].answer)
        /\ depth' = [depth EXCEPT ![r] = Counted(@)]
        /\ todo' = [todo EXCEPT ![r] = {rr.target : rr \in Cnames(resp[r].answer)}]
        /\ Goto(r, "next")
     \/ /\ ~(MoreRounds(r) /\ canFollow(q[r], resp[r].answer))
        /\ Goto(r, "done")
        /\ UNCHANGED <<depth, todo>>
  /\ UNCHANGED <<shared, local, cur, resp, crashed>>

\* The next CNAME of the round: the client's question type, class INET.
FollowNext(r) ==
  /\ pc[r] = "next"
  /\ \/ /\ todo[r] = {}
        /\ Goto(r, "round")
        /\ UNCHANGED <<cur, todo>>
     \/ \E n \in todo[r] :
          /\ cur' = [cur EXCEPT ![r] = [name |-> n, type |-> q[r].type]]
          /\ todo' = [todo EXCEPT ![r] = @ \ {n}]
          /\ Goto(r, "local")
  /\ UNCHANGED <<shared, local, resp, depth, crashed>>

\* w.Close(); the goroutine ends, and r stands for a later request.  Fillers it
\* started keep its response, which changes no more.
Close(r) ==
  /\ pc[r] = "done"
  /\ fillers' = {IF f.of = {r} THEN [f EXCEPT !.of = {}, !.msg = resp[r]] ELSE f : f \in fillers}
  /\ q' = [q EXCEPT ![r] = NoQuestion]
  /\ net' = [net EXCEPT ![r] = "udp"]
  /\ since' = [since EXCEPT ![r] = 1]
  /\ cur' = [cur EXCEPT ![r] = NoQuestion]
  /\ resp' = [resp EXCEPT ![r] = NoMsg]
  /\ depth' = [depth EXCEPT ![r] = 0]
  /\ todo' = [todo EXCEPT ![r] = {}]
  /\ Goto(r, "idle")
  /\ UNCHANGED <<config, cache, negCache, crashed>>

-----------------------------------------------------------------------------
(* Beside the requests *)

Snapshot(f) == IF f.of = {} THEN f.msg ELSE resp[CHOOSE r \in f.of : TRUE]

\* h.cache.Set takes *resp as it is by now, or refuses: the cache is full.
Fill(f) ==
  /\ fillers' = fillers \ {f}
  /\ \/ cache' = [k \in DOMAIN cache \cup {f.key} |->
                    IF k = f.key THEN Snapshot(f) ELSE cache[k]]
     \/ f.key \notin DOMAIN cache /\ UNCHANGED cache
  /\ UNCHANGED <<config, negCache, pc, local, cur, resp, depth, todo, crashed>>

\* An entry expires.  Entries of negCache have no records and outlive us all.
Expire(k) ==
  /\ cache' = [n \in DOMAIN cache \ {k} |-> cache[n]]
  /\ UNCHANGED <<config, negCache, fillers, pc, local, cur, resp, depth, todo, crashed>>

\* Server.ReloadConfig: a new resolver of custom records, and nothing else.
ReloadConfig ==
  /\ config < Len(Custom)
  /\ config' = config + 1
  /\ UNCHANGED <<cache, negCache, fillers, pc, local, cur, resp, depth, todo, crashed>>

-----------------------------------------------------------------------------

Work(r) ==
  \/ TryLocal(r) \/ TryCache(r) \/ TryNegCache(r)
  \/ Lookup(r) \/ RetryTcp(r) \/ Round(r) \/ FollowNext(r)

Next ==
  /\ ~crashed
  /\ \/ \E r \in Reqs :
          \/ Work(r)
          \/ Close(r)
          \/ \E request \in Asked : Begin(r, request)
     \/ \E f \in fillers : Fill(f)
     \/ \E k \in DOMAIN cache : Expire(k)
     \/ ReloadConfig

Spec == Init /\ [][Next]_vars

\* The scheduler runs every request; lookups end by their timeouts.
FairSpec == Spec /\ \A r \in Reqs : WF_vars(~crashed /\ Work(r))

-----------------------------------------------------------------------------
(* Properties *)

Done(r) == pc[r] = "done"

\* Every variable has the shape the code gives it.
TypeOK ==
  /\ config \in 1..Len(Custom)
  /\ DOMAIN cache \subseteq Names /\ \A k \in DOMAIN cache : cache[k] \in Msgs
  /\ negCache \subseteq Questions
  /\ fillers \subseteq [key : Names, of : SUBSET Reqs, msg : Msgs]
  /\ pc \in [Reqs -> {"idle", "local", "cache", "negcache", "lookup",
                      "retry", "round", "next", "done"}]
  /\ q \in [Reqs -> Questions \cup {NoQuestion}]
  /\ net \in [Reqs -> {"udp", "tcp", "http"}]
  /\ cur \in [Reqs -> Questions \cup {NoQuestion}]
  /\ resp \in [Reqs -> Msgs]
  /\ depth \in [Reqs -> 0..FollowCnameDepth]
  /\ todo \in [Reqs -> SUBSET Names]
  /\ since \in [Reqs -> 1..Len(Custom)]
  /\ crashed \in BOOLEAN

\* "If any of the domains involved in the CNAME-following is part of a blocklist
\* [...] then the entire request blocked": no reply has an address that the
\* upstream gave for a blocked name.
BlockedStaysBlocked ==
  \A r \in Reqs : Done(r) => \A rr \in resp[r].answer :
    rr.type = "A" /\ rr.source = FromUpstream => rr.owner \notin Blocked

\* The answer for one name, were nothing cached: custom, blocked or upstream.
Direct(n) ==
  IF CustomFor(n) # {} THEN CustomFor(n)
  ELSE IF n \in Blocked THEN blockedResponseFor(n).answer
  ELSE UNION {m.answer : m \in Upstream[[name |-> n, type |-> "A"]]}

Targets(answer) == {rr.target : rr \in Cnames(answer)}

\* An answer for n with the targets of its CNAMEs followed once.
FollowedOnce(n, answer) ==
  IF canFollow([name |-> n, type |-> "A"], answer)
    THEN answer \cup UNION {Direct(m) : m \in Targets(answer)}
    ELSE answer

\* The answers after each round of following, by definition.
Rounds(n) ==
  LET R[d \in 0..FollowCnameDepth] ==
        IF d = 0 THEN Direct(n) ELSE FollowedOnce(n, R[d - 1])
  IN  R

Resolved(n) == Rounds(n)[FollowCnameDepth]

\* While nothing changes upstream, the reply "returns all necessary CNAME and A
\* records to fully resolve the query", as deep as FollowCnameDepth allows: no
\* state of the cache, whatever half-extended responses the fillers put there,
\* makes an answer less complete.
AnswersComplete ==
  \A r \in Reqs : Done(r) /\ IPQuery(q[r]) => Resolved(q[r].name) \subseteq resp[r].answer

\* The upstream may answer so when it is asked for the address of n.
MayAnswer(n, rr) == \E m \in Upstream[[name |-> n, type |-> "A"]] : rr \in m.answer

\* No way leads around the blocklist test: what a reply has from the upstream was
\* said of a name that is not blocked, the client's or the target of an alias
\* in the same reply.  Nothing that was asked for a blocked name, or for another
\* request's, comes in as the target of a CNAME, from the cache, from an entry
\* that was cached half extended, or after the upstream has changed its mind.
AskedUnblocked ==
  \A r \in Reqs : Done(r) /\ IPQuery(q[r]) =>
    \A rr \in resp[r].answer : rr.source = FromUpstream =>
      \E n \in ({q[r].name} \cup Targets(resp[r].answer)) \ Blocked : MayAnswer(n, rr)

\* A request that began is answered, whatever circles the CNAMEs run in, unless
\* the process dies.
Answered == \A r \in Reqs : pc[r] # "idle" ~> Done(r) \/ crashed

\* What the guard "ok &&" on the answers of a followed CNAME is for: a target
\* that cannot be resolved does not take the process down.
NeverCrashes == ~crashed

\* "reload the config file at run-time and apply the new config": a request that
\* begins after the reload sees no custom record of an earlier config.
NoStaleCustom ==
  \A r \in Reqs : Done(r) => \A rr \in resp[r].answer :
    rr.source \in 1..Len(Custom) => rr.source >= since[r]
=============================================================================
