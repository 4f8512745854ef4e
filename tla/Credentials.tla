----------------------------- MODULE Credentials -----------------------------
(***************************************************************************)
(* What the registration tokens promise the rest of the platform: a token  *)
(* is issued once, runs out or is revoked, and never comes back.  A        *)
(* rotation replaces one active token by another in one step.              *)
(***************************************************************************)
CONSTANTS Tokens, NoToken

VARIABLES
  token, \* unissued, active, expired, revoked
  heir   \* the token that replaced each

credentials == <<token, heir>>

Statuses == {"unissued", "active", "expired", "revoked"}

InitCredentials ==
  /\ token = [k \in Tokens |-> "unissued"]
  /\ heir = [k \in Tokens |-> NoToken]

Issue(k) ==
  /\ token[k] = "unissued"
  /\ token' = [token EXCEPT ![k] = "active"]
  /\ UNCHANGED heir

Expire(some) ==
  /\ \A k \in some : token[k] = "active"
  /\ token' = [k \in Tokens |-> IF k \in some THEN "expired" ELSE token[k]]
  /\ UNCHANGED heir

Revoke(k) ==
  /\ token[k] \in {"active", "expired"}
  /\ token' = [token EXCEPT ![k] = "revoked"]
  /\ UNCHANGED heir

\* The predecessor was active when the rotation read the clock.
Rotate(old, new) ==
  /\ token[old] \in {"active", "expired"} /\ token[new] = "unissued"
  /\ token' = [token EXCEPT ![old] = "revoked", ![new] = "active"]
  /\ heir' = [heir EXCEPT ![old] = new]

Manage ==
  \/ \E k \in Tokens : Issue(k) \/ Revoke(k)
  \/ \E some \in SUBSET Tokens : Expire(some)
  \/ \E old, new \in Tokens : Rotate(old, new)

Spec == InitCredentials /\ [][Manage]_credentials
=============================================================================
