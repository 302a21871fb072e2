--------------------------- MODULE AbstractLookup ---------------------------
(***************************************************************************)
(* What Resolver.Lookup promises its caller: "It returns an error if no    *)
(* request has succeeded", an answer of one of the upstreams it asked      *)
(* otherwise, and it makes up its mind once.                               *)
(***************************************************************************)
CONSTANTS
  Upstreams,  \* everything Lookup may ask
  NoReply,    \* Lookup has not returned
  Failure     \* Lookup returned an error

VARIABLES
  verdict,  \* upstream -> "pending", "usable" (it answered) or "failed"
  reply     \* what Lookup returned: NoReply, Failure or an upstream

vars == <<verdict, reply>>

Init ==
  /\ verdict = [u \in Upstreams |-> "pending"]
  /\ reply = NoReply

\* An upstream answers or fails, possibly after Lookup returned.
Settle(u) ==
  /\ verdict[u] = "pending"
  /\ \E v \in {"usable", "failed"} : verdict' = [verdict EXCEPT ![u] = v]
  /\ UNCHANGED reply

\* An upstream answers and Lookup returns that answer at once.
SettleAndReply(u) ==
  /\ verdict[u] = "pending"
  /\ reply = NoReply
  /\ verdict' = [verdict EXCEPT ![u] = "usable"]
  /\ reply' = u

ReplyAnswer(u) ==
  /\ reply = NoReply
  /\ verdict[u] = "usable"
  /\ reply' = u
  /\ UNCHANGED verdict

ReplyFailure ==
  /\ reply = NoReply
  /\ \A u \in Upstreams : verdict[u] = "failed"
  /\ reply' = Failure
  /\ UNCHANGED verdict

Next ==
  \/ ReplyFailure
  \/ \E u \in Upstreams : Settle(u) \/ SettleAndReply(u) \/ ReplyAnswer(u)

Spec == Init /\ [][Next]_vars
=============================================================================
