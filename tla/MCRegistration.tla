--------------------------- MODULE MCRegistration ---------------------------
(* Registration on a small instance, in one of two scenarios that limit    *)
(* its inputs.                                                             *)
EXTENDS Registration, TLC

CONSTANTS t1, t2, k1, k2, c1, c2, c3, v1

VARIABLE scenario

TwoTargets == k1 :> t1 @@ k2 :> t2
Sizes == c1 :> 1 @@ c2 :> 2 @@ c3 :> 1
QueueUnsafe == Targets \X {c3}

Sent == {r \in Requests : request[r] # Idle}
Within ==
  CASE \* two requests of one Target: three declarations under two revisions
       scenario = "publish" ->
         /\ capacity = 2
         /\ Cardinality({k \in Tokens : token[k] # "unissued"}) =< 1
         /\ \A k \in Tokens, i \in Keys : token[k] = "expired" => stored[k][i].kept # "expired"
         /\ \A r \in Sent :
              /\ request[r].body.content # c3
              /\ request[r].body.content = c1 \/ request[r].body.revision = v1
    [] \* two requests of any Target compete for the last place
       scenario = "capacity" ->
         /\ \A k \in Tokens :
              /\ token[k] # "expired"
              /\ \A i \in Keys : stored[k][i].kept # "expired"
         /\ \A r \in Sent :
              request[r].body.revision = v1 /\ request[r].body.content # c2

MCInit == scenario \in {"publish", "capacity"} /\ Init /\ Within
MCNext == UNCHANGED scenario /\ Next /\ Within'
MCSpec == MCInit /\ [][MCNext]_<<scenario, vars>>

\* The requests are alike; so are the two targets, each with its token.
Swap == t1 :> t2 @@ t2 :> t1 @@ k1 :> k2 @@ k2 :> k1
Same == t1 :> t1 @@ t2 :> t2 @@ k1 :> k1 @@ k2 :> k2
Symmetric == {f @@ g : f \in Permutations(Requests), g \in {Swap, Same}}
=============================================================================
