------------------------ MODULE MCRegistrationTokens ------------------------
(* RegistrationTokens on a small instance: three requests, of which r0     *)
(* issues the token that the others find, in one of two scenarios that     *)
(* limit their inputs.                                                     *)
EXTENDS RegistrationTokens, TLC

CONSTANTS r0, k1, k2, k3, i1

VARIABLE scenario

Sent == {r \in Requests : request[r] # Idle}
OneIsIssued ==
  Sent # {} =>
    /\ r0 \in Sent
    /\ request[r0].op = "issue" /\ request[r0].key = i1
    /\ request[r0].answer \in {"none", "ok"}
    /\ Sent # {r0} => request[r0].phase = "done"

Within ==
  CASE \* two requests rotate, revoke and issue with two keys
       scenario = "rotate" ->
         /\ secret = 1
         /\ \A s \in Scopes, i \in Keys : stored[s][i].kept # "expired"
         /\ \A r \in Sent :
              /\ request[r].body.lifetime \in {"days", "inherit", "none"}
              /\ request[r].op = "issue" => request[r].body.target \in SyncedTargets
    [] \* all use one key; answers are forgotten, the secret changes, no token runs out
       scenario = "replay" ->
         /\ row[k3] = NoRow
         /\ \A r \in Sent : request[r].key = i1 /\ request[r].body.lifetime # "days"

MCInit == scenario \in {"rotate", "replay"} /\ Init
MCNext == UNCHANGED scenario /\ Next /\ OneIsIssued' /\ Within'
MCSpec == MCInit /\ [][MCNext]_<<scenario, vars>>

\* The requests after the first are alike.
Symmetric == Permutations(Requests \ {r0})
=============================================================================
