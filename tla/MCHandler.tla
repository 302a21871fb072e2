----------------------------- MODULE MCHandler -----------------------------
(* Handler on small zones of names. *)
EXTENDS Handler, TLC

CONSTANTS a, b, c, d, e, f, x, y

\* No name is below another.
Flat == [n \in Names |-> <<n>>]

\* d is below c.
DBelowC == [n \in Names |-> IF n = d THEN <<d, c>> ELSE <<n>>]

RR(n, t, target, s) == [owner |-> n, type |-> t, target |-> target, source |-> s]
Address(n)  == RR(n, "A", NoName, FromUpstream)
Alias(n, m) == RR(n, "CNAME", m, FromUpstream)

Reply(answer) == [NoMsg EXCEPT !.answer = answer]
NxReply == [NoMsg EXCEPT !.rcode = "nxdomain"]
TruncatedReply(answer) == [NoMsg EXCEPT !.answer = answer, !.truncated = TRUE]

\* Upstreams that answer one link at a time, zone giving the records of each name.
OneLink(zone) ==
  [z \in Questions |->
     {Reply(IF z.type = "CNAME" THEN Cnames(zone[z.name]) ELSE zone[z.name])}]

\* a -> b -> c, an address.
Chain == OneLink([n \in Names |-> CASE n = a -> {Alias(a, b)}
                                    [] n = b -> {Alias(b, c)}
                                    [] OTHER -> {Address(n)}])

\* An upstream that may fail, truncate or change its mind.
Moody ==
  [z \in Questions |->
     {LookupError, NxReply} \cup
          CASE z.type = "CNAME" -> {Reply({})}
            [] z.name = a -> {TruncatedReply({Alias(a, b)}), Reply({Alias(a, c)})}
            [] OTHER      -> {Reply({Address(z.name)})}]

\* The default kind, which resolves aliases itself: all other names are
\* aliases of b.
Recursive ==
  [z \in Questions |->
     {Reply(IF z.name = b THEN {Address(b)} ELSE {Alias(z.name, b), Address(b)})}]

\* Some of everything, the same each time but for what fails: a -> b -> x, of
\* which only the first links are told at once; e is an alias of itself; y is an
\* alias of x that the upstream has resolved; f cannot be resolved.
Various ==
  [z \in Questions |->
     CASE z.type = "CNAME" -> {LookupError, NxReply, Reply({})}
       [] z.name = a -> {Reply({Alias(a, b)})}
       [] z.name = b -> {Reply({Alias(b, x)})}
       [] z.name = e -> {Reply({Alias(e, e)})}
       [] z.name = f -> {LookupError, NxReply, TruncatedReply({})}
       [] z.name = y -> {Reply({Alias(y, x), Address(x)})}
       [] OTHER      -> {Reply({Address(z.name)})}]

\* Requests for the address of a name.
AskA(nets, names) == {[net |-> p, question |-> [name |-> n, type |-> "A"]] : p \in nets, n \in names}

AskAB == AskA({"udp"}, {a, b})

AskVarious == AskA({"udp"}, {a, b, e, f, y}) \cup AskA({"tcp"}, {f}) \cup
              {[net |-> "http", question |-> [name |-> d, type |-> "CNAME"]]}

NoCustom == << [n \in Names |-> {}] >>

\* c has a custom address, which a reload changes.
CustomC == [i \in 1..2 |-> [n \in Names |->
              IF n = c THEN {RR(c, "A", NoName, i)} ELSE {}]]

\* c gets a custom address with a reload.
CustomLater == << NoCustom[1], CustomC[2] >>

Symm == Permutations(Reqs)
=============================================================================
