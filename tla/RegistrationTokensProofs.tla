----------------------- MODULE RegistrationTokensProofs -----------------------
(***************************************************************************)
(* Proofs about RegistrationTokens: its inductive invariant, which says    *)
(* what the rows, the stored answers and each request know of each other,  *)
(* and the step simulation that makes it implement Credentials.            *)
(*                                                                         *)
(* A step writes at most one place of each table and one request, so most  *)
(* lemmas are about one write: what it keeps (RowsInv, StoredInv), and     *)
(* that it never takes back what a request has learned (RowsMove).         *)
(***************************************************************************)
EXTENDS RegistrationTokens, TLAPS
-----------------------------------------------------------------------------
(* The rows *)

RowsTyped == row \in [Tokens -> Rows \cup {NoRow}]

\* The token that a row replaces is named in what its raw token is derived from.
ParentIsNamed ==
  \A k \in Tokens : Exists(k) => row[k].raw.scope.id = row[k].rotatedFrom

RowsInv == RowsTyped /\ ChainsAreLinked /\ RawTokensAreDistinct /\ ParentIsNamed

\* No row is deleted, and no revocation or expiry is taken back.
RowsMove ==
  \A k \in Tokens : Exists(k) =>
    /\ Exists(k)'
    /\ row'[k].raw = row[k].raw
    /\ row[k].revoked => row'[k].revoked
    /\ row[k].expired => row'[k].expired

\* A row is no missing row.
LEMMA RowExists ==
  ASSUME NEW rw \in Rows PROVE rw # NoRow
BY DEF Rows, NoRow

\* What the columns of a row are.
LEMMA RowFields ==
  ASSUME NEW rw \in Rows
  PROVE  /\ rw.target \in Targets /\ rw.raw \in RawTokens
         /\ rw.noExpire \in BOOLEAN /\ rw.expired \in BOOLEAN /\ rw.revoked \in BOOLEAN
         /\ rw.rotatedFrom \in Tokens \cup {NoToken} /\ rw.replacedBy \in Tokens \cup {NoToken}
BY DEF Rows

\* The rows of tokens after one of them is written.
Writes(k, rw) ==
  /\ rw \in Rows
  /\ row' = [row EXCEPT ![k] = rw]

\* Writing one row leaves the others as they were.
LEMMA Written ==
  ASSUME RowsTyped, NEW k \in Tokens, NEW rw, Writes(k, rw)
  PROVE  /\ RowsTyped' /\ row'[k] = rw /\ Exists(k)'
         /\ \A l \in Tokens \ {k} : row'[l] = row[l] /\ (Exists(l)' <=> Exists(l))
<1>1. row'[k] = rw /\ \A l \in Tokens \ {k} : row'[l] = row[l]
  BY DEF Writes, RowsTyped
<1>2. RowsTyped'
  BY DEF Writes, RowsTyped
<1>. QED  BY <1>1, <1>2, RowExists DEF Exists, Writes

\* A new row that replaces none.
LEMMA CreatedRows ==
  ASSUME RowsInv, NEW k \in Tokens, NEW rw, Writes(k, rw), ~Exists(k),
         rw.rotatedFrom = NoToken, rw.replacedBy = NoToken, rw.raw.scope.id = NoToken,
         \A l \in Tokens : Exists(l) => row[l].raw # rw.raw
  PROVE  RowsInv' /\ RowsMove
<1>1. /\ RowsTyped' /\ row'[k] = rw /\ Exists(k)'
      /\ \A l \in Tokens \ {k} : row'[l] = row[l] /\ (Exists(l)' <=> Exists(l))
  BY Written DEF RowsInv
<1>2. \A l \in Tokens : Exists(l) => l # k /\ Exists(l)' /\ row'[l] = row[l]
  BY <1>1
<1>3. RowsMove
  BY <1>2 DEF RowsMove
<1>4. \A l \in Tokens : Exists(l)' => l = k \/ (Exists(l) /\ row'[l] = row[l])
  BY <1>1
<1>5. ChainsAreLinked'
  <2>. SUFFICES ASSUME NEW l \in Tokens, Exists(l)'
       PROVE  /\ row'[l].rotatedFrom # NoToken =>
                   row'[row'[l].rotatedFrom] # NoRow /\ row'[row'[l].rotatedFrom].replacedBy = l
              /\ row'[l].replacedBy # NoToken =>
                   /\ row'[l].revoked
                   /\ row'[row'[l].replacedBy] # NoRow /\ row'[row'[l].replacedBy].rotatedFrom = l
                   /\ row'[row'[l].replacedBy].target = row'[l].target
    BY DEF ChainsAreLinked, Exists
  <2>1. CASE l = k
    BY <1>1, <2>1
  <2>2. CASE Exists(l) /\ row'[l] = row[l]
    <3>1. row[l] \in Rows
      BY <2>2 DEF RowsInv, RowsTyped, Exists
    <3>2. row[l].rotatedFrom # NoToken => row[l].rotatedFrom \in Tokens
      BY <3>1, RowFields
    <3>3. row[l].replacedBy # NoToken => row[l].replacedBy \in Tokens
      BY <3>1, RowFields
    <3>. QED  BY <1>2, <2>2, <3>2, <3>3 DEF RowsInv, ChainsAreLinked, Exists
  <2>. QED  BY <1>4, <2>1, <2>2
<1>6. RawTokensAreDistinct'
  <2>. SUFFICES ASSUME NEW l \in Tokens, NEW m \in Tokens, Exists(l)', Exists(m)',
                       row'[l].raw = row'[m].raw
       PROVE  l = m
    BY DEF RawTokensAreDistinct, Exists
  <2>. QED  BY <1>1, <1>4 DEF RowsInv, RawTokensAreDistinct
<1>7. ParentIsNamed'
  <2>. SUFFICES ASSUME NEW l \in Tokens, Exists(l)'
       PROVE  row'[l].raw.scope.id = row'[l].rotatedFrom
    BY DEF ParentIsNamed, Exists
  <2>. QED  BY <1>1, <1>4 DEF RowsInv, ParentIsNamed
<1>. QED  BY <1>1, <1>3, <1>5, <1>6, <1>7 DEF RowsInv

\* A row that is marked as revoked or expired.
LEMMA MarkedRows ==
  ASSUME RowsInv, NEW k \in Tokens, NEW rw, Writes(k, rw), Exists(k),
         rw.raw = row[k].raw, rw.target = row[k].target,
         rw.rotatedFrom = row[k].rotatedFrom, rw.replacedBy = row[k].replacedBy,
         row[k].revoked => rw.revoked, row[k].expired => rw.expired
  PROVE  RowsInv' /\ RowsMove
<1>1. /\ RowsTyped' /\ row'[k] = rw /\ Exists(k)'
      /\ \A l \in Tokens \ {k} : row'[l] = row[l] /\ (Exists(l)' <=> Exists(l))
  BY Written DEF RowsInv
<1>2. \A l \in Tokens :
        /\ Exists(l)' <=> Exists(l)
        /\ row'[l].raw = row[l].raw /\ row'[l].target = row[l].target
        /\ row'[l].rotatedFrom = row[l].rotatedFrom /\ row'[l].replacedBy = row[l].replacedBy
        /\ row[l].revoked => row'[l].revoked
        /\ row[l].expired => row'[l].expired
  BY <1>1
<1>3. RowsMove
  BY <1>2 DEF RowsMove
<1>4. ChainsAreLinked'
  <2>. SUFFICES ASSUME NEW l \in Tokens, Exists(l)'
       PROVE  /\ row'[l].rotatedFrom # NoToken =>
                   row'[row'[l].rotatedFrom] # NoRow /\ row'[row'[l].rotatedFrom].replacedBy = l
              /\ row'[l].replacedBy # NoToken =>
                   /\ row'[l].revoked
                   /\ row'[row'[l].replacedBy] # NoRow /\ row'[row'[l].replacedBy].rotatedFrom = l
                   /\ row'[row'[l].replacedBy].target = row'[l].target
    BY DEF ChainsAreLinked, Exists
  <2>1. Exists(l) /\ row[l] \in Rows
    BY <1>2 DEF RowsInv, RowsTyped, Exists
  <2>2. row[l].rotatedFrom # NoToken => row[l].rotatedFrom \in Tokens
    BY <2>1, RowFields
  <2>3. row[l].replacedBy # NoToken => row[l].replacedBy \in Tokens
    BY <2>1, RowFields
  <2>. QED  BY <1>2, <2>1, <2>2, <2>3 DEF RowsInv, ChainsAreLinked, Exists
<1>5. RawTokensAreDistinct'
  <2>. SUFFICES ASSUME NEW l \in Tokens, NEW m \in Tokens, Exists(l)', Exists(m)',
                       row'[l].raw = row'[m].raw
       PROVE  l = m
    BY DEF RawTokensAreDistinct, Exists
  <2>. QED  BY <1>2 DEF RowsInv, RawTokensAreDistinct
<1>6. ParentIsNamed'
  <2>. SUFFICES ASSUME NEW l \in Tokens, Exists(l)'
       PROVE  row'[l].raw.scope.id = row'[l].rotatedFrom
    BY DEF ParentIsNamed, Exists
  <2>. QED  BY <1>2 DEF RowsInv, ParentIsNamed
<1>. QED  BY <1>1, <1>3, <1>4, <1>5, <1>6 DEF RowsInv

-----------------------------------------------------------------------------
\* The predecessor after a rotation.
LEMMA RetiredFields ==
  ASSUME NEW old \in Rows, NEW k \in Tokens
  PROVE  LET rw == Retired(old, k)
         IN /\ rw \in Rows /\ rw.revoked /\ rw.replacedBy = k
            /\ rw.target = old.target /\ rw.raw = old.raw /\ rw.rotatedFrom = old.rotatedFrom
            /\ rw.expired = old.expired
BY DEF Retired, Rows

\* A rotation writes both rows.
RawIsNew(raw) == \A l \in Tokens : Exists(l) => row[l].raw # raw
WritesBoth(old, k, rw) ==
  row' = [row EXCEPT ![k] = rw, ![old] = Retired(row[old], k)]

\* The rows after a rotation are linked, distinct and typed.
LEMMA RotatedRows ==
  ASSUME NEW old \in Tokens, NEW k \in Tokens, NEW rw \in Rows,
         RowsInv, Exists(old), ~Exists(k), row[old].replacedBy = NoToken,
         rw.rotatedFrom = old, rw.replacedBy = NoToken, rw.raw.scope.id = old,
         rw.target = row[old].target,
         RawIsNew(rw.raw),
         WritesBoth(old, k, rw)
  PROVE  /\ RowsInv' /\ RowsMove
         /\ row'[k] = rw /\ row'[old].revoked /\ row'[old].replacedBy = k
         /\ \A l \in Tokens \ {k, old} : row'[l] = row[l]
<1>. DEFINE gone == Retired(row[old], k)
<1>1. row[old] \in Rows /\ k # old
  BY DEF RowsInv, RowsTyped, Exists
<1>2. /\ gone \in Rows /\ gone.revoked /\ gone.replacedBy = k
      /\ gone.target = row[old].target /\ gone.raw = row[old].raw
      /\ gone.rotatedFrom = row[old].rotatedFrom /\ gone.expired = row[old].expired
  BY <1>1, RetiredFields
<1>. HIDE DEF gone
<1>3. /\ row' \in [Tokens -> Rows \cup {NoRow}]
      /\ row'[k] = rw /\ row'[old] = gone
      /\ \A l \in Tokens \ {k, old} : row'[l] = row[l]
  BY <1>1, <1>2 DEF RowsInv, RowsTyped, WritesBoth, gone
<1>4. RowsTyped' /\ row'[k] # NoRow /\ row'[old] # NoRow
  BY <1>2, <1>3, RowExists DEF RowsTyped
<1>5. \A l \in Tokens :
        /\ l = k \/ (row'[l] # NoRow <=> row[l] # NoRow)
        /\ l # k => /\ row'[l].raw = row[l].raw /\ row'[l].target = row[l].target
                    /\ row'[l].rotatedFrom = row[l].rotatedFrom
                    /\ l # old => row'[l] = row[l]
        /\ row[l] # NoRow => l # k /\ row'[l] # NoRow
  BY <1>1, <1>2, <1>3, <1>4 DEF Exists
<1>6. RowsMove
  <2>. SUFFICES ASSUME NEW l \in Tokens, Exists(l)
       PROVE  /\ Exists(l)' /\ row'[l].raw = row[l].raw
              /\ row[l].revoked => row'[l].revoked
              /\ row[l].expired => row'[l].expired
    BY DEF RowsMove
  <2>1. CASE l = old
    BY <1>2, <1>3, <1>4, <2>1 DEF Exists
  <2>2. CASE l # old
    BY <1>5, <2>2 DEF Exists
  <2>. QED  BY <2>1, <2>2
<1>7. ChainsAreLinked'
  <2>. SUFFICES ASSUME NEW l \in Tokens, row'[l] # NoRow
       PROVE  /\ row'[l].rotatedFrom # NoToken =>
                   row'[row'[l].rotatedFrom] # NoRow /\ row'[row'[l].rotatedFrom].replacedBy = l
              /\ row'[l].replacedBy # NoToken =>
                   /\ row'[l].revoked
                   /\ row'[row'[l].replacedBy] # NoRow /\ row'[row'[l].replacedBy].rotatedFrom = l
                   /\ row'[row'[l].replacedBy].target = row'[l].target
    BY DEF ChainsAreLinked, Exists
  <2>1. CASE l = k
    BY <1>2, <1>3, <1>4, <2>1
  <2>2. CASE l # k /\ row[l] # NoRow
    <3>1. row[l] \in Rows
      BY <2>2 DEF RowsInv, RowsTyped
    <3>2. /\ row[l].rotatedFrom # NoToken => row[l].rotatedFrom \in Tokens
          /\ row[l].replacedBy # NoToken => row[l].replacedBy \in Tokens
      BY <3>1, RowFields
    <3>3. /\ row[l].rotatedFrom # NoToken =>
               /\ row[row[l].rotatedFrom] # NoRow /\ row[row[l].rotatedFrom].replacedBy = l
               /\ row[l].rotatedFrom # old
          /\ row[l].replacedBy # NoToken =>
               /\ row[l].revoked
               /\ row[row[l].replacedBy] # NoRow /\ row[row[l].replacedBy].rotatedFrom = l
               /\ row[row[l].replacedBy].target = row[l].target
      BY <2>2, NoTokenIsNone DEF RowsInv, ChainsAreLinked, Exists
    <3>4. row'[l].rotatedFrom # NoToken =>
            row'[row'[l].rotatedFrom] # NoRow /\ row'[row'[l].rotatedFrom].replacedBy = l
      <4>1. row'[l].rotatedFrom = row[l].rotatedFrom
        BY <1>5, <2>2
      <4>2. ASSUME row[l].rotatedFrom # NoToken
            PROVE  row'[row[l].rotatedFrom] = row[row[l].rotatedFrom]
        BY <1>3, <1>5, <3>2, <3>3, <4>2
      <4>. QED  BY <3>3, <4>1, <4>2
    <3>5. CASE l = old
      BY <1>1, <1>2, <1>3, <1>4, <3>4, <3>5
    <3>6. CASE l # old
      <4>1. row'[l] = row[l]
        BY <1>3, <2>2, <3>6
      <4>2. ASSUME row[l].replacedBy # NoToken
            PROVE  /\ row'[row[l].replacedBy] # NoRow
                   /\ row'[row[l].replacedBy].rotatedFrom = row[row[l].replacedBy].rotatedFrom
                   /\ row'[row[l].replacedBy].target = row[row[l].replacedBy].target
        BY <1>5, <3>2, <3>3, <4>2
      <4>. QED  BY <3>3, <3>4, <4>1, <4>2
    <3>. QED  BY <3>5, <3>6
  <2>. QED  BY <1>5, <2>1, <2>2
<1>8. RawTokensAreDistinct'
  <2>. SUFFICES ASSUME NEW l \in Tokens, NEW m \in Tokens, row'[l] # NoRow, row'[m] # NoRow,
                       row'[l].raw = row'[m].raw
       PROVE  l = m
    BY DEF RawTokensAreDistinct, Exists
  <2>. QED  BY <1>3, <1>5 DEF RowsInv, RawTokensAreDistinct, RawIsNew, Exists
<1>9. ParentIsNamed'
  <2>. SUFFICES ASSUME NEW l \in Tokens, row'[l] # NoRow
       PROVE  row'[l].raw.scope.id = row'[l].rotatedFrom
    BY DEF ParentIsNamed, Exists
  <2>. QED  BY <1>3, <1>5 DEF RowsInv, ParentIsNamed, Exists
<1>. QED  BY <1>2, <1>3, <1>4, <1>6, <1>7, <1>8, <1>9 DEF RowsInv

-----------------------------------------------------------------------------
(* What is true of a request, given the rows *)

Ops == {"issue", "rotate", "revoke"}
Causes == {"none", "constraint", "malformed", "other"}
Said == {"none", "ok", "invalid", "not_found", "not_active", "key_conflict", "error", "lost"}
SomeBodies == IssueBodies \cup RotateBodies \cup {RevokeBody}

Inactive(rows, k) == rows[k] # NoRow /\ (rows[k].revoked \/ rows[k].expired)

\* RawOf, of the record.
RawFor(q) == [scope |-> [op |-> q.op, id |-> q.id], key |-> q.key, body |-> q.body,
              secret |-> q.secret]

\* A request names what its route takes.
WellAddressed(q) ==
  /\ q.op = "issue" => q.id = NoToken /\ q.body \in IssueBodies
  /\ q.op = "rotate" => q.id \in Tokens /\ q.body \in RotateBodies
  /\ q.op = "revoke" => q.id \in Tokens

ShowsWhatIsKept(q, rows) ==
  q.shown # NoToken =>
    /\ rows[q.shown] # NoRow
    /\ rows[q.shown].raw.secret = q.secret => rows[q.shown].raw = RawFor(q)

RequestSound(q, rows) ==
  q.phase # "idle" =>
    /\ WellAddressed(q)
    /\ q.phase = "look" => q.op # "revoke"
    /\ q.phase = "read" => q.op # "issue"
    /\ q.phase \in {"apply", "failed"} /\ q.op # "issue" => rows[q.id] # NoRow
    /\ q.expired => q.id \in Tokens /\ rows[q.id] # NoRow /\ rows[q.id].expired
    /\ q.phase = "failed" => q.cause # "none"
    /\ q.phase = "failed" /\ q.op = "rotate" /\ q.cause # "other" => Inactive(rows, q.id)
    /\ q.phase = "done" => ShowsWhatIsKept(q, rows)
    /\ q.phase = "done" /\ q.answer = "not_active" => q.id \in Tokens /\ Inactive(rows, q.id)
    /\ q.phase = "done" /\ q.op = "revoke" /\ q.answer = "ok" =>
         rows[q.id] # NoRow /\ rows[q.id].revoked

RequestsTyped == request \in [Requests -> Request \cup {Idle}]

\* What is true of a request stays true whatever the other requests do to the rows.
LEMMA SoundStays ==
  ASSUME RowsMove, NEW q \in Request \cup {Idle}, RequestSound(q, row)
  PROVE  RequestSound(q, row')
<1>1. CASE q = Idle
  BY <1>1 DEF RequestSound, Idle
<1>2. CASE q \in Request
  <2>. SUFFICES ASSUME q.phase # "idle" PROVE RequestSound(q, row')
    BY DEF RequestSound
  <2>1. q.op \in Ops /\ q.id \in Tokens \cup {NoToken} /\ q.shown \in Tokens \cup {NoToken}
          /\ WellAddressed(q)
    BY <1>2 DEF Request, RequestSound, Ops
  <2>2. \A k \in Tokens : row[k] # NoRow =>
          /\ row'[k] # NoRow /\ row'[k].raw = row[k].raw
          /\ row[k].revoked => row'[k].revoked
          /\ row[k].expired => row'[k].expired
    BY DEF RowsMove, Exists
  <2>3. \A k \in Tokens : Inactive(row, k) => Inactive(row', k)
    BY <2>2 DEF Inactive
  <2>4. q.op # "issue" => q.id \in Tokens
    BY <2>1 DEF WellAddressed, Ops
  <2>5. ShowsWhatIsKept(q, row) => ShowsWhatIsKept(q, row')
    BY <2>1, <2>2 DEF ShowsWhatIsKept
  <2>6. /\ q.phase \in {"apply", "failed"} /\ q.op # "issue" => row'[q.id] # NoRow
        /\ q.expired => q.id \in Tokens /\ row'[q.id] # NoRow /\ row'[q.id].expired
        /\ q.phase = "done" /\ q.op = "revoke" /\ q.answer = "ok" =>
             row'[q.id] # NoRow /\ row'[q.id].revoked
    BY <2>2, <2>4 DEF RequestSound
  <2>7. /\ q.phase = "failed" /\ q.op = "rotate" /\ q.cause # "other" => Inactive(row', q.id)
        /\ q.phase = "done" /\ q.answer = "not_active" => q.id \in Tokens /\ Inactive(row', q.id)
    BY <2>3, <2>4 DEF RequestSound
  <2>. QED  BY <2>5, <2>6, <2>7 DEF RequestSound
<1>. QED  BY <1>1, <1>2

-----------------------------------------------------------------------------
(* The records of requests *)

\* A request that has begun has every field.
LEMMA ActiveRequest ==
  ASSUME RequestsTyped, NEW r \in Requests, request[r].phase # "idle"
  PROVE  /\ request[r] \in Request
         /\ request[r].op \in Ops /\ request[r].id \in Tokens \cup {NoToken}
         /\ request[r].key \in Keys /\ request[r].body \in SomeBodies
         /\ request[r].secret \in 1..MaxSecret /\ request[r].expired \in BOOLEAN
         /\ request[r].cause \in Causes
<1>1. request[r] \in Request
  BY DEF RequestsTyped, Idle
<1>. QED  BY <1>1 DEF Request, Ops, Causes, SomeBodies

\* A request takes a new value, and no other does.
Becomes(r, q) ==
  /\ q \in Request
  /\ request' = [request EXCEPT ![r] = q]

\* Replacing one request by a typed one leaves the others as they were.
LEMMA BecomesTyped ==
  ASSUME RequestsTyped, NEW r \in Requests, NEW q, Becomes(r, q)
  PROVE  /\ RequestsTyped' /\ request'[r] = q
         /\ \A o \in Requests \ {r} : request'[o] = request[o]
BY DEF RequestsTyped, Becomes

Went(r, phase) == [request[r] EXCEPT !.phase = phase]
Failed(r, cause) == [request[r] EXCEPT !.phase = "failed", !.cause = cause]
Finished(r, answer, k) ==
  [request[r] EXCEPT !.phase = "done", !.answer = answer, !.shown = k, !.expired = FALSE,
                     !.cause = "none"]

\* The record of a request that goes on.
LEMMA WentFields ==
  ASSUME NEW r \in Requests, request[r] \in Request, NEW phase \in Phases
  PROVE  LET q == Went(r, phase)
         IN /\ q \in Request /\ q.phase = phase
            /\ q.op = request[r].op /\ q.id = request[r].id
            /\ q.body = request[r].body /\ q.expired = request[r].expired
BY DEF Went, Request

\* The record after a batch that failed.
LEMMA FailedFields ==
  ASSUME NEW r \in Requests, request[r] \in Request, NEW cause \in Causes
  PROVE  LET q == Failed(r, cause)
         IN /\ q \in Request /\ q.phase = "failed" /\ q.cause = cause
            /\ q.op = request[r].op /\ q.id = request[r].id
            /\ q.body = request[r].body /\ q.expired = request[r].expired
BY DEF Failed, Request, Phases, Causes

\* The record after an answer.
LEMMA FinishedFields ==
  ASSUME NEW r \in Requests, request[r] \in Request,
         NEW answer \in Said, NEW k \in Tokens \cup {NoToken}
  PROVE  LET q == Finished(r, answer, k)
         IN /\ q \in Request /\ q.phase = "done" /\ q.answer = answer /\ q.shown = k
            /\ q.op = request[r].op /\ q.id = request[r].id /\ q.key = request[r].key
            /\ q.body = request[r].body /\ q.secret = request[r].secret /\ ~q.expired
<1>. DEFINE q == Finished(r, answer, k)
            p == request[r]
            made == [phase |-> "done", op |-> p.op, id |-> p.id, key |-> p.key, body |-> p.body,
                     secret |-> p.secret, expired |-> FALSE, cause |-> "none",
                     answer |-> answer, shown |-> k]
<1>1. q = made
  <2>1. p = [phase |-> p.phase, op |-> p.op, id |-> p.id, key |-> p.key, body |-> p.body,
             secret |-> p.secret, expired |-> p.expired, cause |-> p.cause,
             answer |-> p.answer, shown |-> p.shown]
    BY DEF Request
  <2>. HIDE DEF p
  <2>2. q = [p EXCEPT !.phase = "done", !.answer = answer, !.shown = k, !.expired = FALSE,
                      !.cause = "none"]
    BY DEF Finished, p
  <2>. HIDE DEF q
  <2>. QED  BY <2>1, <2>2
<1>2. /\ p.op \in {"issue", "rotate", "revoke"} /\ p.id \in Tokens \cup {NoToken}
      /\ p.key \in Keys /\ p.body \in IssueBodies \cup RotateBodies \cup {RevokeBody}
      /\ p.secret \in 1..MaxSecret
  BY DEF Request
<1>3. made \in Request
  BY <1>2 DEF Request, Phases, Said
<1>. QED  BY <1>1, <1>3

Begun(op, k, i, body, key, expired) ==
  [phase |-> "begun", op |-> op, id |-> k, key |-> i, body |-> body, secret |-> key,
   expired |-> expired, cause |-> "none", answer |-> "none", shown |-> NoToken]

\* The record of a request that has arrived.
LEMMA BegunFields ==
  ASSUME NEW op \in Ops, NEW k \in Tokens \cup {NoToken}, NEW i \in Keys,
         NEW body \in SomeBodies, NEW key \in 1..MaxSecret, NEW expired \in BOOLEAN
  PROVE  LET q == Begun(op, k, i, body, key, expired)
         IN /\ q \in Request /\ q.phase = "begun" /\ q.op = op /\ q.id = k
            /\ q.body = body /\ q.expired = expired
BY DEF Begun, Request, Phases, Ops, SomeBodies

-----------------------------------------------------------------------------
(* Steps of a request *)

\* A request takes a value that is sound for the rows of the next state.
Moves(r) == \E q \in Request : Becomes(r, q) /\ RequestSound(q, row')

\* What every step of a request may use.
Running(r) ==
  /\ RequestsTyped
  /\ request[r].phase # "idle"
  /\ RequestSound(request[r], row')

Onward == {"look", "read", "apply"}

\* Going on keeps what is known of the request.
LEMMA GotoMoves ==
  ASSUME NEW r \in Requests, NEW phase \in Onward, Running(r),
         Goto(r, phase), phase = "look" => request[r].op # "revoke",
         phase = "read" => request[r].op # "issue",
         phase = "apply" /\ request[r].op # "issue" => row'[request[r].id] # NoRow
  PROVE  Moves(r)
<1>. DEFINE q == Went(r, phase)
<1>1. request[r] \in Request
  BY ActiveRequest DEF Running
<1>2. phase \in Phases /\ phase \in {"look", "read", "apply"}
  BY DEF Phases, Onward
<1>3. /\ q \in Request /\ q.phase = phase
      /\ q.op = request[r].op /\ q.id = request[r].id
      /\ q.body = request[r].body /\ q.expired = request[r].expired
  BY <1>1, <1>2, WentFields
<1>4. Becomes(r, q)
  BY <1>3 DEF Becomes, Goto, Went
<1>. HIDE DEF q
<1>5. RequestSound(q, row')
  BY <1>2, <1>3 DEF RequestSound, Running, WellAddressed
<1>. QED  BY <1>3, <1>4, <1>5 DEF Moves

\* A batch that failed leaves a cause, and one of a rotation that is not "other" says
\* that the token is not active.
LEMMA FailMoves ==
  ASSUME NEW r \in Requests, NEW cause \in Causes \ {"none"}, Running(r), Fail(r, cause),
         request[r].op # "issue" => row'[request[r].id] # NoRow,
         request[r].op = "rotate" /\ cause # "other" => Inactive(row', request[r].id)
  PROVE  Moves(r)
<1>. DEFINE q == Failed(r, cause)
<1>1. request[r] \in Request
  BY ActiveRequest DEF Running
<1>2. cause \in Causes /\ cause # "none"
  OBVIOUS
<1>3. /\ q \in Request /\ q.phase = "failed" /\ q.cause = cause
      /\ q.op = request[r].op /\ q.id = request[r].id
      /\ q.body = request[r].body /\ q.expired = request[r].expired
  BY <1>1, <1>2, FailedFields
<1>4. Becomes(r, q)
  BY <1>3 DEF Becomes, Fail, Failed
<1>. HIDE DEF q
<1>5. RequestSound(q, row')
  BY <1>2, <1>3 DEF RequestSound, Running, WellAddressed
<1>. QED  BY <1>3, <1>4, <1>5 DEF Moves

\* An answer is true of the rows of the next state.
AnswerFits(r, answer, k, rows) ==
  /\ k # NoToken =>
       /\ rows[k] # NoRow
       /\ rows[k].raw.secret = request[r].secret => rows[k].raw = RawOf(r)
  /\ answer = "not_active" => request[r].id \in Tokens /\ Inactive(rows, request[r].id)
  /\ request[r].op = "revoke" /\ answer = "ok" =>
       rows[request[r].id] # NoRow /\ rows[request[r].id].revoked

\* Giving an answer that fits.
LEMMA FinishMoves ==
  ASSUME NEW r \in Requests, NEW answer \in Said, NEW k \in Tokens \cup {NoToken},
         Running(r), Finish(r, answer, k), AnswerFits(r, answer, k, row')
  PROVE  Moves(r)
<1>. DEFINE q == Finished(r, answer, k)
<1>1. request[r] \in Request
  BY ActiveRequest DEF Running
<1>2. /\ q \in Request /\ q.phase = "done" /\ q.answer = answer /\ q.shown = k
      /\ q.op = request[r].op /\ q.id = request[r].id /\ q.key = request[r].key
      /\ q.body = request[r].body /\ q.secret = request[r].secret /\ ~q.expired
  BY <1>1, FinishedFields
<1>3. Becomes(r, q)
  BY <1>2 DEF Becomes, Finish, Finished
<1>. HIDE DEF q
<1>4. RawFor(q) = RawOf(r)
  BY <1>2 DEF RawFor, RawOf, ScopeOf
<1>5. ShowsWhatIsKept(q, row')
  BY <1>2, <1>4 DEF AnswerFits, ShowsWhatIsKept
<1>6. RequestSound(q, row')
  BY <1>2, <1>5 DEF RequestSound, Running, WellAddressed, AnswerFits
<1>. QED  BY <1>2, <1>3, <1>6 DEF Moves

\* An answer that shows no token and claims nothing.
LEMMA AnswerMoves ==
  ASSUME NEW r \in Requests, NEW answer \in Said, Running(r), Answer(r, answer),
         answer # "not_active", answer # "ok"
  PROVE  Moves(r)
<1>1. AnswerFits(r, answer, NoToken, row')
  BY DEF AnswerFits
<1>2. NoToken \in Tokens \cup {NoToken} /\ Finish(r, answer, NoToken)
  BY DEF Answer
<1>. QED  BY <1>1, <1>2, FinishMoves

-----------------------------------------------------------------------------
(* The stored answers *)

\* A stored answer names the row that its key and body made.
KeepsItsToken(s, i, a, rows) ==
  a # NoAnswer =>
    /\ rows[a.id] # NoRow
    /\ rows[a.id].raw.scope = s /\ rows[a.id].raw.key = i /\ rows[a.id].raw.body = a.body

StoredTyped == stored \in [Scopes -> [Keys -> Answers]]
StoredSound == \A s \in Scopes, i \in Keys : KeepsItsToken(s, i, stored[s][i], row)
StoredInv == StoredTyped /\ StoredSound

\* What is known of an answer in the table.
LEMMA AnswerFields ==
  ASSUME NEW a \in Answers
  PROVE  /\ a.kept = "none" <=> a = NoAnswer
         /\ a # NoAnswer => /\ a.kept \in {"valid", "expired"} /\ a.id \in Tokens
                            /\ a.body \in IssueBodies \cup RotateBodies
BY DEF Answers, NoAnswer

\* Stored answers do not suffer from what happens to the rows.
LEMMA StoredStays ==
  ASSUME StoredInv, RowsMove, UNCHANGED stored
  PROVE  StoredInv'
<1>1. StoredTyped'
  BY DEF StoredInv, StoredTyped
<1>2. ASSUME NEW s \in Scopes, NEW i \in Keys
      PROVE  KeepsItsToken(s, i, stored[s][i], row')
  <2>1. stored[s][i] \in Answers
    BY DEF StoredInv, StoredTyped
  <2>2. stored[s][i] # NoAnswer => stored[s][i].id \in Tokens
    BY <2>1, AnswerFields
  <2>3. KeepsItsToken(s, i, stored[s][i], row)
    BY DEF StoredInv, StoredSound
  <2>. QED  BY <2>2, <2>3 DEF KeepsItsToken, RowsMove, Exists
<1>3. StoredSound'
  BY <1>2 DEF StoredSound
<1>. QED  BY <1>1, <1>3 DEF StoredInv

\* One place of the table is written.
PutAnswer(s, i, a) ==
  stored' = [stored EXCEPT ![s] = [@ EXCEPT ![i] = a]]

\* An answer that names its row may be stored.
LEMMA StoredWritten ==
  ASSUME StoredInv, RowsMove, NEW s \in Scopes, NEW i \in Keys, NEW a \in Answers,
         PutAnswer(s, i, a), KeepsItsToken(s, i, a, row')
  PROVE  StoredInv'
<1>1. /\ StoredTyped'
      /\ stored'[s][i] = a
      /\ \A t \in Scopes, j \in Keys : (t = s /\ j = i) \/ stored'[t][j] = stored[t][j]
  BY DEF StoredInv, StoredTyped, PutAnswer
<1>2. ASSUME NEW t \in Scopes, NEW j \in Keys
      PROVE  KeepsItsToken(t, j, stored[t][j], row')
  <2>1. stored[t][j] \in Answers
    BY DEF StoredInv, StoredTyped
  <2>2. stored[t][j] # NoAnswer => stored[t][j].id \in Tokens
    BY <2>1, AnswerFields
  <2>3. KeepsItsToken(t, j, stored[t][j], row)
    BY DEF StoredInv, StoredSound
  <2>. QED  BY <2>2, <2>3 DEF KeepsItsToken, RowsMove, Exists
<1>3. ASSUME NEW t \in Scopes, NEW j \in Keys
      PROVE  KeepsItsToken(t, j, stored'[t][j], row')
  <2>1. CASE t = s /\ j = i
    BY <1>1, <2>1
  <2>2. CASE stored'[t][j] = stored[t][j]
    BY <1>2, <2>2
  <2>. QED  BY <1>1, <2>1, <2>2
<1>4. StoredSound'
  BY <1>3 DEF StoredSound
<1>. QED  BY <1>1, <1>4 DEF StoredInv

-----------------------------------------------------------------------------
(* What a request finds *)

\* The place of a request's answer.
LEMMA PlaceOfRequest ==
  ASSUME NEW r \in Requests, request[r] \in Request,
         WellAddressed(request[r]), request[r].op # "revoke"
  PROVE  /\ ScopeOf(r) \in Scopes /\ request[r].key \in Keys
         /\ request[r].body \in IssueBodies \cup RotateBodies
         /\ RawOf(r) \in RawTokens
         /\ RawOf(r).scope = ScopeOf(r) /\ RawOf(r).scope.id = request[r].id
         /\ RawOf(r).key = request[r].key /\ RawOf(r).body = request[r].body
         /\ RawOf(r).secret = request[r].secret
<1>1. /\ request[r].op \in {"issue", "rotate", "revoke"} /\ request[r].key \in Keys
      /\ request[r].secret \in 1..MaxSecret
  BY DEF Request
<1>2. ScopeOf(r) \in Scopes /\ ScopeOf(r).id = request[r].id
  BY <1>1 DEF ScopeOf, Scopes, WellAddressed
<1>3. request[r].body \in IssueBodies \cup RotateBodies
  BY <1>1 DEF WellAddressed
<1>. QED  BY <1>1, <1>2, <1>3 DEF RawOf, RawTokens

\* A stored answer that a request takes shows the token the request derives, unless
\* it derives it from another secret.
LEMMA ReplayIsTrue ==
  ASSUME RowsInv, StoredInv, NEW r \in Requests, request[r] \in Request,
         WellAddressed(request[r]), request[r].op # "revoke",
         StoredFor(r).kept = "valid", StoredFor(r).body = request[r].body
  PROVE  /\ StoredFor(r).id \in Tokens
         /\ AnswerFits(r, "ok", StoredFor(r).id, row)
<1>. DEFINE a == StoredFor(r)
<1>1. /\ ScopeOf(r) \in Scopes /\ request[r].key \in Keys /\ RawOf(r) \in RawTokens
      /\ RawOf(r).scope = ScopeOf(r) /\ RawOf(r).key = request[r].key
      /\ RawOf(r).body = request[r].body /\ RawOf(r).secret = request[r].secret
  BY PlaceOfRequest
<1>2. a \in Answers /\ KeepsItsToken(ScopeOf(r), request[r].key, a, row)
  BY <1>1 DEF StoredInv, StoredTyped, StoredSound, StoredFor
<1>3. a.kept = "valid" /\ a.body = request[r].body
  OBVIOUS
<1>. HIDE DEF a
<1>4. a # NoAnswer /\ a.id \in Tokens
  BY <1>2, <1>3, AnswerFields
<1>5. /\ row[a.id] # NoRow /\ row[a.id].raw.scope = ScopeOf(r)
      /\ row[a.id].raw.key = request[r].key /\ row[a.id].raw.body = request[r].body
  BY <1>2, <1>3, <1>4 DEF KeepsItsToken
<1>6. row[a.id].raw \in RawTokens
  BY <1>4, <1>5, RowFields DEF RowsInv, RowsTyped
<1>7. ASSUME NEW x \in RawTokens, NEW y \in RawTokens, x.scope = y.scope, x.key = y.key,
             x.body = y.body, x.secret = y.secret
      PROVE  x = y
  BY <1>7 DEF RawTokens
<1>8. row[a.id].raw.secret = request[r].secret => row[a.id].raw = RawOf(r)
  BY <1>1, <1>5, <1>6, <1>7
<1>9. AnswerFits(r, "ok", a.id, row)
  BY <1>5, <1>8 DEF AnswerFits
<1>. QED  BY <1>4, <1>9 DEF a

\* A token that another row replaced is not active.
LEMMA ReplacedIsInactive ==
  ASSUME RowsInv, NEW k \in Tokens, row[k] # NoRow,
         NEW id \in Tokens, row[k].raw.scope.id = id
  PROVE  Inactive(row, id)
<1>1. row[k].rotatedFrom = id /\ id # NoToken /\ k # NoToken
  BY NoTokenIsNone DEF RowsInv, ParentIsNamed, Exists
<1>2. row[id] # NoRow /\ row[id].replacedBy = k
  BY <1>1 DEF RowsInv, ChainsAreLinked, Exists
<1>3. row[id].revoked
  BY <1>1, <1>2 DEF RowsInv, ChainsAreLinked, Exists
<1>. QED  BY <1>2, <1>3 DEF Inactive

\* A rotation's batch that fails for a reason of the tables fails since its token is
\* not active.
LEMMA FailureIsTrue ==
  ASSUME RowsInv, StoredInv, NEW r \in Requests,
         request[r] \in Request, RequestSound(request[r], row),
         request[r].phase = "apply", request[r].op = "rotate",
         NEW cause \in BatchFailures(r)
  PROVE  Inactive(row, request[r].id)
<1>1. /\ WellAddressed(request[r]) /\ request[r].id \in Tokens
      /\ row[request[r].id] # NoRow
      /\ request[r].expired => row[request[r].id].expired
  BY DEF RequestSound, WellAddressed
<1>2. /\ ScopeOf(r) \in Scopes /\ request[r].key \in Keys
      /\ RawOf(r).scope = ScopeOf(r) /\ RawOf(r).scope.id = request[r].id
  BY <1>1, PlaceOfRequest
<1>3. \/ ~KeyIsFree(r) \/ ~HashIsNew(r) \/ ~IsFirstSuccessor(r) \/ ~Rotatable(r)
  BY DEF BatchFailures
<1>4. CASE ~KeyIsFree(r)
  <2>. DEFINE a == StoredFor(r)
  <2>1. a \in Answers /\ KeepsItsToken(ScopeOf(r), request[r].key, a, row) /\ a.kept # "none"
    BY <1>2, <1>4 DEF StoredInv, StoredTyped, StoredSound, StoredFor, KeyIsFree
  <2>. HIDE DEF a
  <2>2. a # NoAnswer /\ a.id \in Tokens
    BY <2>1, AnswerFields
  <2>3. row[a.id] # NoRow /\ row[a.id].raw.scope = ScopeOf(r)
    BY <2>1, <2>2 DEF KeepsItsToken
  <2>4. row[a.id].raw.scope.id = request[r].id
    BY <1>2, <2>3
  <2>. QED  BY <1>1, <2>2, <2>3, <2>4, ReplacedIsInactive
<1>5. CASE ~HashIsNew(r)
  <2>1. PICK k \in Tokens : Exists(k) /\ row[k].raw = RawOf(r)
    BY <1>5 DEF HashIsNew
  <2>2. row[k] # NoRow /\ row[k].raw.scope.id = request[r].id
    BY <1>2, <2>1 DEF Exists
  <2>. QED  BY <1>1, <2>2, ReplacedIsInactive
<1>6. CASE ~IsFirstSuccessor(r)
  <2>1. PICK k \in Tokens : Exists(k) /\ row[k].rotatedFrom = request[r].id
    BY <1>6 DEF IsFirstSuccessor
  <2>2. row[k] # NoRow /\ row[k].raw.scope.id = request[r].id
    BY <2>1 DEF Exists, RowsInv, ParentIsNamed
  <2>. QED  BY <1>1, <2>2, ReplacedIsInactive
<1>7. CASE ~Rotatable(r)
  <2>1. \/ row[request[r].id].revoked \/ row[request[r].id].replacedBy # NoToken
        \/ request[r].expired
    BY <1>1, <1>7 DEF Rotatable
  <2>2. row[request[r].id].replacedBy # NoToken => row[request[r].id].revoked
    BY <1>1 DEF RowsInv, ChainsAreLinked, Exists
  <2>. QED  BY <1>1, <2>1, <2>2 DEF Inactive
<1>. QED  BY <1>3, <1>4, <1>5, <1>6, <1>7

-----------------------------------------------------------------------------
(* The inductive invariant *)

SecretTyped == secret \in 1..MaxSecret
AllSound == \A r \in Requests : RequestSound(request[r], row)

TokensInv == RowsInv /\ StoredInv /\ SecretTyped /\ RequestsTyped /\ AllSound

\* Rows that nobody writes.
LEMMA RowsStay ==
  ASSUME RowsInv, UNCHANGED row
  PROVE  RowsInv' /\ RowsMove
<1>1. RowsMove
  BY DEF RowsMove, Exists
<1>2. RowsInv'
  BY DEF RowsInv, RowsTyped, ChainsAreLinked, RawTokensAreDistinct, ParentIsNamed, Exists
<1>. QED  BY <1>1, <1>2

\* A request in a step that respects the rows.
LEMMA RequestRuns ==
  ASSUME TokensInv, RowsMove, NEW r \in Requests, request[r].phase # "idle"
  PROVE  Running(r)
<1>1. request[r] \in Request \cup {Idle} /\ RequestSound(request[r], row)
  BY DEF TokensInv, RequestsTyped, AllSound
<1>2. RequestSound(request[r], row')
  BY <1>1, SoundStays
<1>. QED  BY <1>2 DEF Running, TokensInv

\* A step of one request keeps the invariant.
LEMMA RequestStep ==
  ASSUME TokensInv, RowsInv', RowsMove, StoredInv', UNCHANGED secret, NEW r \in Requests,
         Moves(r)
  PROVE  TokensInv'
<1>1. PICK q \in Request : Becomes(r, q) /\ RequestSound(q, row')
  BY DEF Moves
<1>2. /\ RequestsTyped' /\ request'[r] = q
      /\ \A o \in Requests \ {r} : request'[o] = request[o]
  BY <1>1, BecomesTyped DEF TokensInv
<1>3. ASSUME NEW o \in Requests PROVE RequestSound(request'[o], row')
  <2>1. CASE o = r
    BY <1>1, <1>2, <2>1
  <2>2. CASE o # r
    <3>1. request'[o] = request[o]
      BY <1>2, <2>2
    <3>2. request[o] \in Request \cup {Idle} /\ RequestSound(request[o], row)
      BY DEF TokensInv, RequestsTyped, AllSound
    <3>3. RequestSound(request[o], row')
      BY <3>2, SoundStays
    <3>. QED  BY <3>1, <3>3
  <2>. QED  BY <2>1, <2>2
<1>4. AllSound'
  BY <1>3 DEF AllSound
<1>5. SecretTyped'
  BY DEF TokensInv, SecretTyped
<1>. QED  BY <1>2, <1>4, <1>5 DEF TokensInv

\* A step of the tables that leaves the requests alone keeps it, too.
LEMMA TableStep ==
  ASSUME TokensInv, RowsInv', RowsMove, StoredInv', SecretTyped', UNCHANGED request
  PROVE  TokensInv'
<1>1. ASSUME NEW o \in Requests PROVE RequestSound(request'[o], row')
  <2>1. request[o] \in Request \cup {Idle} /\ RequestSound(request[o], row)
    BY DEF TokensInv, RequestsTyped, AllSound
  <2>. QED  BY <2>1, SoundStays
<1>2. AllSound'
  BY <1>1 DEF AllSound
<1>3. RequestsTyped'
  BY DEF TokensInv, RequestsTyped
<1>. QED  BY <1>2, <1>3 DEF TokensInv

\* A step of a request that reads the tables.
LEMMA ReadingStep ==
  ASSUME TokensInv, UNCHANGED <<row, stored, secret>>, NEW r \in Requests, Moves(r)
  PROVE  TokensInv'
<1>1. RowsInv' /\ RowsMove
  BY RowsStay DEF TokensInv
<1>2. StoredInv'
  BY <1>1, StoredStays DEF TokensInv
<1>. QED  BY <1>1, <1>2, RequestStep

\* What is known of a request in a step that writes no row.
LEMMA ReaderRuns ==
  ASSUME TokensInv, UNCHANGED row, NEW r \in Requests, request[r].phase # "idle"
  PROVE  /\ Running(r) /\ request[r] \in Request
         /\ RequestSound(request[r], row) /\ WellAddressed(request[r])
         /\ request[r].op \in Ops
<1>1. RowsMove
  BY RowsStay DEF TokensInv
<1>2. Running(r)
  BY <1>1, RequestRuns
<1>3. request[r] \in Request /\ request[r].op \in Ops
  BY ActiveRequest DEF TokensInv
<1>4. RequestSound(request[r], row)
  BY DEF TokensInv, AllSound
<1>5. WellAddressed(request[r])
  BY <1>4 DEF RequestSound
<1>. QED  BY <1>2, <1>3, <1>4, <1>5

-----------------------------------------------------------------------------
(* The steps that read *)

\* An arrival keeps the invariant: its clock is read with the rows as they are.
LEMMA BeginStep ==
  ASSUME TokensInv, NEW r \in Requests, Begin(r)
  PROVE  TokensInv'
<1>1. PICK i \in Keys, op \in Ops, k \in Tokens \cup {NoToken}, body \in SomeBodies :
        /\ request' = [request EXCEPT ![r] =
             Begun(op, k, i, body, secret, k # NoToken /\ Exists(k) /\ row[k].expired)]
        /\ op = "issue" => k = NoToken /\ body \in IssueBodies
        /\ op = "rotate" => k \in Tokens /\ body \in RotateBodies
        /\ op = "revoke" => k \in Tokens
  BY DEF Begin, Begun, Ops, SomeBodies
<1>. DEFINE expired == k # NoToken /\ Exists(k) /\ row[k].expired
            q == Begun(op, k, i, body, secret, expired)
<1>2. expired \in BOOLEAN
  <2>1. CASE k # NoToken /\ Exists(k)
    <3>1. row[k] \in Rows
      BY <2>1 DEF TokensInv, RowsInv, RowsTyped, Exists
    <3>. QED  BY <2>1, <3>1, RowFields
  <2>. QED  BY <2>1
<1>3. expired => k \in Tokens /\ row[k] # NoRow /\ row[k].expired
  BY DEF Exists
<1>4. request' = [request EXCEPT ![r] = q]
  BY <1>1
<1>. HIDE DEF expired
<1>5. /\ q \in Request /\ q.phase = "begun" /\ q.op = op /\ q.id = k
      /\ q.body = body /\ q.expired = expired
  BY <1>2, BegunFields DEF TokensInv, SecretTyped
<1>. HIDE DEF q
<1>6. row' = row
  BY DEF Begin
<1>7. WellAddressed(q)
  BY <1>1, <1>5 DEF WellAddressed
<1>8. RequestSound(q, row)
  BY <1>3, <1>5, <1>7 DEF RequestSound
<1>9. Moves(r)
  BY <1>4, <1>5, <1>6, <1>8 DEF Moves, Becomes
<1>. QED  BY <1>9, ReadingStep DEF Begin

\* Admit sends each route to its first read.
LEMMA AdmitStep ==
  ASSUME TokensInv, NEW r \in Requests, Admit(r)
  PROVE  TokensInv'
<1>1. UNCHANGED <<row, stored, secret>> /\ request[r].phase # "idle"
  BY DEF Admit
<1>. SUFFICES Moves(r)
  BY <1>1, ReadingStep
<1>2. Running(r) /\ request[r].op \in Ops
  BY <1>1, ReaderRuns
<1>3. CASE Goto(r, "look") /\ request[r].op # "revoke"
  <2>1. "look" \in Onward
    BY DEF Onward
  <2>. QED  BY <1>2, <1>3, <2>1, GotoMoves
<1>4. CASE Goto(r, "read") /\ request[r].op # "issue"
  <2>1. "read" \in Onward
    BY DEF Onward
  <2>. QED  BY <1>2, <1>4, <2>1, GotoMoves
<1>5. CASE Answer(r, "invalid")
  <2>1. "invalid" \in Said
    BY DEF Said
  <2>. QED  BY <1>2, <1>5, <2>1, AnswerMoves
<1>6. \/ Goto(r, "look") /\ request[r].op # "revoke"
      \/ Goto(r, "read") /\ request[r].op # "issue"
      \/ Answer(r, "invalid")
  BY <1>2 DEF Admit, Ops
<1>. QED  BY <1>3, <1>4, <1>5, <1>6

\* Taking the stored answer, right away or after a batch that failed.
LEMMA ReplayMoves ==
  ASSUME TokensInv, UNCHANGED row, NEW r \in Requests,
         request[r].phase # "idle", request[r].op # "revoke",
         StoredFor(r).kept = "valid", Replay(r)
  PROVE  Moves(r)
<1>1. Running(r) /\ request[r] \in Request /\ WellAddressed(request[r])
  BY ReaderRuns
<1>2. CASE StoredFor(r).body = request[r].body
  <2>1. StoredFor(r).id \in Tokens /\ AnswerFits(r, "ok", StoredFor(r).id, row)
    BY <1>1, <1>2, ReplayIsTrue DEF TokensInv
  <2>2. PICK k \in Tokens \cup {NoToken} : k = StoredFor(r).id
    BY <2>1
  <2>3. Finish(r, "ok", k) /\ AnswerFits(r, "ok", k, row') /\ "ok" \in Said
    BY <1>2, <2>1, <2>2 DEF Replay, Show, Said
  <2>. QED  BY <1>1, <2>3, FinishMoves
<1>3. CASE StoredFor(r).body # request[r].body
  <2>1. Answer(r, "key_conflict") /\ "key_conflict" \in Said
    BY <1>3 DEF Replay, Said
  <2>. QED  BY <1>1, <2>1, AnswerMoves
<1>. QED  BY <1>2, <1>3

\* FindStored: a repeated request is answered from the table.
LEMMA FindStoredStep ==
  ASSUME TokensInv, NEW r \in Requests, FindStored(r)
  PROVE  TokensInv'
<1>1. UNCHANGED <<row, stored, secret>> /\ request[r].phase = "look"
  BY DEF FindStored
<1>. SUFFICES Moves(r)
  BY <1>1, ReadingStep
<1>2. Running(r) /\ RequestSound(request[r], row)
  BY <1>1, ReaderRuns
<1>3. request[r].op # "revoke"
  BY <1>1, <1>2 DEF RequestSound
<1>4. CASE StoredFor(r).kept = "valid"
  <2>1. Replay(r) /\ row' = row /\ request[r].phase # "idle"
    BY <1>1, <1>4 DEF FindStored
  <2>. QED  BY <1>3, <1>4, <2>1, ReplayMoves
<1>5. CASE StoredFor(r).kept # "valid"
  <2>1. CASE request[r].op = "issue"
    <3>1. Goto(r, "apply") /\ "apply" \in Onward
      BY <1>5, <2>1 DEF FindStored, Onward
    <3>. QED  BY <1>2, <2>1, <3>1, GotoMoves
  <2>2. CASE request[r].op # "issue"
    <3>1. Goto(r, "read") /\ "read" \in Onward
      BY <1>5, <2>2 DEF FindStored, Onward
    <3>. QED  BY <1>2, <2>2, <3>1, GotoMoves
  <2>. QED  BY <2>1, <2>2
<1>. QED  BY <1>4, <1>5

\* ReadToken: "not active" and "revoked" are read from the row.
LEMMA ReadTokenStep ==
  ASSUME TokensInv, NEW r \in Requests, ReadToken(r)
  PROVE  TokensInv'
<1>1. UNCHANGED <<row, stored, secret>> /\ request[r].phase = "read"
  BY DEF ReadToken
<1>. SUFFICES Moves(r)
  BY <1>1, ReadingStep
<1>. DEFINE old == row[request[r].id]
<1>2. /\ Running(r) /\ RequestSound(request[r], row) /\ request[r].phase # "idle"
      /\ request[r].op \in Ops /\ WellAddressed(request[r])
  BY <1>1, ReaderRuns
<1>3. CASE old = NoRow
  <2>1. Answer(r, "not_found") /\ "not_found" \in Said
    BY <1>3 DEF ReadToken, Exists, Said
  <2>. QED  BY <1>1, <1>2, <2>1, AnswerMoves
<1>4. CASE old # NoRow /\ Goto(r, "apply")
  <2>1. "apply" \in Onward
    BY DEF Onward
  <2>. QED  BY <1>1, <1>2, <1>4, <2>1, GotoMoves
<1>5. CASE old # NoRow /\ request[r].op = "revoke" /\ old.revoked /\ Answer(r, "ok")
  <2>1. AnswerFits(r, "ok", NoToken, row')
    BY <1>1, <1>5 DEF AnswerFits
  <2>2. NoToken \in Tokens \cup {NoToken} /\ Finish(r, "ok", NoToken) /\ "ok" \in Said
    BY <1>5 DEF Answer, Said
  <2>. QED  BY <1>1, <1>2, <2>1, <2>2, FinishMoves
<1>6. CASE /\ old # NoRow /\ request[r].op # "revoke" /\ Answer(r, "not_active")
           /\ old.revoked \/ old.replacedBy # NoToken \/ request[r].expired
  <2>1. request[r].id \in Tokens
    BY <1>1, <1>2, <1>6 DEF RequestSound, WellAddressed, Ops
  <2>2. Inactive(row, request[r].id)
    BY <1>2, <1>6, <2>1 DEF Inactive, RequestSound, TokensInv, RowsInv, ChainsAreLinked, Exists
  <2>3. AnswerFits(r, "not_active", NoToken, row')
    BY <1>1, <2>1, <2>2 DEF AnswerFits
  <2>4. /\ NoToken \in Tokens \cup {NoToken} /\ Finish(r, "not_active", NoToken)
        /\ "not_active" \in Said
    BY <1>6 DEF Answer, Said
  <2>. QED  BY <1>1, <1>2, <2>3, <2>4, FinishMoves
<1>7. \/ old = NoRow
      \/ old # NoRow /\ Goto(r, "apply")
      \/ old # NoRow /\ request[r].op = "revoke" /\ old.revoked /\ Answer(r, "ok")
      \/ /\ old # NoRow /\ request[r].op # "revoke" /\ Answer(r, "not_active")
         /\ old.revoked \/ old.replacedBy # NoToken \/ request[r].expired
  BY DEF ReadToken, Exists
<1>. QED  BY <1>3, <1>4, <1>5, <1>6, <1>7

-----------------------------------------------------------------------------

\* FindRaced: after a failed batch, the answer is the other request's or is earned.
LEMMA FindRacedStep ==
  ASSUME TokensInv, NEW r \in Requests, FindRaced(r)
  PROVE  TokensInv'
<1>1. UNCHANGED <<row, stored, secret>> /\ request[r].phase = "failed"
  BY DEF FindRaced
<1>. SUFFICES Moves(r)
  BY <1>1, ReadingStep
<1>2. /\ Running(r) /\ RequestSound(request[r], row) /\ request[r].phase # "idle"
      /\ request[r].op \in Ops /\ WellAddressed(request[r]) /\ request[r] \in Request
      /\ row' = row
  BY <1>1, ReaderRuns
<1>3. NoToken \in Tokens \cup {NoToken} /\ {"ok", "not_active", "error"} \subseteq Said
  BY DEF Said
<1>4. CASE Answer(r, "error")
  BY <1>2, <1>3, <1>4, AnswerMoves
<1>5. CASE request[r].op = "revoke" /\ row[request[r].id].revoked /\ Answer(r, "ok")
  <2>1. AnswerFits(r, "ok", NoToken, row')
    BY <1>1, <1>2, <1>5 DEF AnswerFits, RequestSound
  <2>. QED  BY <1>2, <1>3, <1>5, <2>1, FinishMoves DEF Answer
<1>6. CASE request[r].op # "revoke" /\ StoredFor(r).kept = "valid" /\ Replay(r)
  BY <1>2, <1>6, ReplayMoves
<1>7. CASE request[r].op = "rotate" /\ request[r].cause # "other" /\ Answer(r, "not_active")
  <2>1. request[r].id \in Tokens /\ Inactive(row, request[r].id)
    BY <1>1, <1>2, <1>7 DEF RequestSound, WellAddressed
  <2>2. AnswerFits(r, "not_active", NoToken, row')
    BY <1>2, <1>7, <2>1 DEF AnswerFits
  <2>. QED  BY <1>2, <1>3, <1>7, <2>2, FinishMoves DEF Answer
<1>8. \/ Answer(r, "error")
      \/ request[r].op = "revoke" /\ row[request[r].id].revoked /\ Answer(r, "ok")
      \/ request[r].op # "revoke" /\ StoredFor(r).kept = "valid" /\ Replay(r)
      \/ request[r].op = "rotate" /\ request[r].cause # "other" /\ Answer(r, "not_active")
  BY <1>2 DEF FindRaced, RotationFailure, Ops
<1>. QED  BY <1>4, <1>5, <1>6, <1>7, <1>8

\* Abandon claims nothing.
LEMMA AbandonStep ==
  ASSUME TokensInv, NEW r \in Requests, Abandon(r)
  PROVE  TokensInv'
<1>1. UNCHANGED <<row, stored, secret>> /\ request[r].phase # "idle" /\ Answer(r, "lost")
  BY DEF Abandon
<1>2. Running(r) /\ "lost" \in Said
  BY <1>1, ReaderRuns DEF Said
<1>3. Moves(r)
  BY <1>1, <1>2, AnswerMoves
<1>. QED  BY <1>1, <1>3, ReadingStep

\* CommitFails: the cause it leaves says what the tables say.
LEMMA CommitFailsStep ==
  ASSUME TokensInv, NEW r \in Requests, CommitFails(r)
  PROVE  TokensInv'
<1>1. UNCHANGED <<row, stored, secret>> /\ request[r].phase = "apply"
  BY DEF CommitFails
<1>. SUFFICES Moves(r)
  BY <1>1, ReadingStep
<1>2. /\ Running(r) /\ RequestSound(request[r], row) /\ request[r] \in Request
      /\ row' = row /\ RowsInv /\ StoredInv
  BY <1>1, ReaderRuns DEF TokensInv
<1>3. request[r].op # "issue" => row'[request[r].id] # NoRow
  BY <1>1, <1>2 DEF RequestSound
<1>4. PICK cause \in BatchFailures(r) \cup {"other"} : Fail(r, cause)
  BY DEF CommitFails
<1>5. cause \in Causes \ {"none"}
  BY <1>4 DEF BatchFailures, Causes
<1>6. ASSUME request[r].op = "rotate", cause # "other" PROVE Inactive(row, request[r].id)
  BY <1>1, <1>2, <1>4, <1>6, FailureIsTrue
<1>. QED  BY <1>2, <1>3, <1>4, <1>5, <1>6, FailMoves

-----------------------------------------------------------------------------
(* The batches that commit *)

\* A new row is one of the table's, with the token that its request derives.
LEMMA NewRowFields ==
  ASSUME NEW r \in Requests, RawOf(r) \in RawTokens,
         request[r].id \in Tokens \cup {NoToken},
         NEW target \in Targets, NEW noExpire \in BOOLEAN
  PROVE  LET rw == NewRow(r, target, noExpire)
         IN /\ rw \in Rows /\ rw.raw = RawOf(r) /\ rw.target = target
            /\ rw.rotatedFrom = request[r].id /\ rw.replacedBy = NoToken
            /\ ~rw.revoked /\ ~rw.expired
BY DEF NewRow, Rows

\* The answer that goes with it.
KeptAnswer(r, k) == [kept |-> "valid", body |-> request[r].body, id |-> k]

\* The answer that a batch stores names the row it made.
LEMMA KeptAnswerFits ==
  ASSUME StoredInv, NEW r \in Requests, request[r] \in Request,
         WellAddressed(request[r]), request[r].op # "revoke", NEW k \in Tokens, RowsMove,
         row'[k] # NoRow, row'[k].raw = RawOf(r), Keep(r, k)
  PROVE  StoredInv'
<1>. DEFINE a == KeptAnswer(r, k)
            s == ScopeOf(r)
            i == request[r].key
<1>1. /\ s \in Scopes /\ i \in Keys
      /\ request[r].body \in IssueBodies \cup RotateBodies
      /\ RawOf(r).scope = s /\ RawOf(r).key = i /\ RawOf(r).body = request[r].body
  BY PlaceOfRequest
<1>2. a \in Answers /\ a.id = k /\ a.body = request[r].body
  BY <1>1 DEF KeptAnswer, Answers
<1>3. PutAnswer(s, i, a)
  BY DEF Keep, PutAnswer, KeptAnswer
<1>. HIDE DEF a, s, i
<1>4. KeepsItsToken(s, i, a, row')
  BY <1>1, <1>2 DEF KeepsItsToken
<1>. QED  BY <1>1, <1>2, <1>3, <1>4, StoredWritten

\* An acknowledged batch shows the token it made; a lost one is looked for.
LEMMA CommittedMoves ==
  ASSUME NEW r \in Requests, Running(r), NEW k \in Tokens \cup {NoToken}, Committed(r, k),
         request[r].op # "issue" => row'[request[r].id] # NoRow,
         AnswerFits(r, "ok", k, row')
  PROVE  Moves(r)
<1>1. "ok" \in Said /\ "other" \in Causes \ {"none"}
  BY DEF Said, Causes
<1>2. CASE Show(r, k)
  BY <1>1, <1>2, FinishMoves DEF Show
<1>3. CASE Fail(r, "other")
  BY <1>1, <1>3, FailMoves
<1>. QED  BY <1>2, <1>3 DEF Committed

\* What is known of a request whose batch is to commit.
LEMMA BatchFields ==
  ASSUME TokensInv, NEW r \in Requests, request[r].phase = "apply"
  PROVE  /\ request[r] \in Request /\ request[r].op \in Ops
         /\ request[r].id \in Tokens \cup {NoToken}
         /\ RequestSound(request[r], row) /\ WellAddressed(request[r])
         /\ request[r].op # "issue" => request[r].id \in Tokens /\ row[request[r].id] \in Rows
         /\ request[r].op # "issue" => row[request[r].id] # NoRow
         /\ request[r].op # "revoke" =>
              RawOf(r) \in RawTokens /\ RawOf(r).scope.id = request[r].id
<1>1. /\ request[r] \in Request /\ request[r].op \in Ops
      /\ request[r].id \in Tokens \cup {NoToken}
  BY ActiveRequest DEF TokensInv
<1>2. RequestSound(request[r], row)
  BY DEF TokensInv, AllSound
<1>3. WellAddressed(request[r])
  BY <1>2 DEF RequestSound
<1>4. request[r].op # "issue" => request[r].id \in Tokens
  BY <1>1, <1>3 DEF WellAddressed, Ops
<1>5. request[r].op # "issue" => row[request[r].id] # NoRow
  BY <1>2 DEF RequestSound
<1>6. request[r].op # "issue" => row[request[r].id] \in Rows
  BY <1>4, <1>5 DEF TokensInv, RowsInv, RowsTyped
<1>7. request[r].op # "revoke" =>
        RawOf(r) \in RawTokens /\ RawOf(r).scope.id = request[r].id
  BY <1>1, <1>3, PlaceOfRequest
<1>. QED  BY <1>1, <1>2, <1>3, <1>4, <1>5, <1>6, <1>7

\* Issue adds one row and its answer.
LEMMA IssueStep ==
  ASSUME TokensInv, NEW r \in Requests, Issue(r)
  PROVE  TokensInv' /\ RowsMove
<1>1. request[r].phase = "apply" /\ request[r].op = "issue" /\ secret' = secret /\ HashIsNew(r)
  BY DEF Issue
<1>2. /\ request[r] \in Request /\ WellAddressed(request[r])
      /\ RawOf(r) \in RawTokens /\ RawOf(r).scope.id = request[r].id
      /\ request[r].id = NoToken /\ request[r].body \in IssueBodies
  BY <1>1, BatchFields DEF WellAddressed
<1>3. /\ request[r].body.target \in Targets
      /\ NoExpire(request[r].body.lifetime, FALSE) \in BOOLEAN
  BY <1>2 DEF IssueBodies, NoExpire
<1>. DEFINE rw == NewRow(r, request[r].body.target, NoExpire(request[r].body.lifetime, FALSE))
<1>4. PICK k \in Tokens : /\ ~Exists(k)
                          /\ row' = [row EXCEPT ![k] = rw]
                          /\ Keep(r, k)
                          /\ Committed(r, k)
  BY DEF Issue
<1>5. /\ rw \in Rows /\ rw.raw = RawOf(r)
      /\ rw.rotatedFrom = NoToken /\ rw.replacedBy = NoToken
  BY <1>2, <1>3, NewRowFields
<1>. HIDE DEF rw
<1>6. Writes(k, rw)
  BY <1>4, <1>5 DEF Writes
<1>7. \A l \in Tokens : Exists(l) => row[l].raw # rw.raw
  BY <1>1, <1>5 DEF HashIsNew
<1>8. RowsInv' /\ RowsMove
  BY <1>2, <1>4, <1>5, <1>6, <1>7, CreatedRows DEF TokensInv
<1>9. row'[k] = rw /\ row'[k] # NoRow
  BY <1>5, <1>6, Written, RowExists DEF TokensInv, RowsInv
<1>10. StoredInv'
  BY <1>1, <1>2, <1>4, <1>5, <1>8, <1>9, KeptAnswerFits DEF TokensInv
<1>11. Running(r)
  BY <1>1, <1>8, RequestRuns
<1>12. AnswerFits(r, "ok", k, row')
  BY <1>1, <1>5, <1>9 DEF AnswerFits
<1>13. k \in Tokens \cup {NoToken}
  OBVIOUS
<1>14. Moves(r)
  BY <1>1, <1>4, <1>11, <1>12, <1>13, CommittedMoves
<1>. QED  BY <1>1, <1>8, <1>10, <1>14, RequestStep

\* Rotate retires one row, adds its successor and stores the answer.
LEMMA RotateStep ==
  ASSUME TokensInv, NEW r \in Requests, Rotate(r)
  PROVE  TokensInv' /\ RowsMove
<1>1. /\ request[r].phase = "apply" /\ request[r].op = "rotate" /\ secret' = secret
      /\ HashIsNew(r) /\ Rotatable(r)
  BY DEF Rotate
<1>2. PICK id \in Tokens : id = request[r].id
  BY <1>1, BatchFields
<1>3. /\ request[r] \in Request /\ WellAddressed(request[r])
      /\ RawOf(r) \in RawTokens /\ RawOf(r).scope.id = id
      /\ request[r].body \in RotateBodies
      /\ row[id] \in Rows /\ row[id] # NoRow /\ row[id].replacedBy = NoToken
      /\ request[r].id \in Tokens \cup {NoToken}
  BY <1>1, <1>2, BatchFields DEF WellAddressed, Rotatable
<1>4. /\ row[id].target \in Targets
      /\ NoExpire(request[r].body.lifetime, row[id].noExpire) \in BOOLEAN
  BY <1>3, RowFields DEF NoExpire
<1>. DEFINE rw == NewRow(r, row[id].target, NoExpire(request[r].body.lifetime, row[id].noExpire))
<1>5. PICK k \in Tokens : /\ ~Exists(k)
                          /\ row' = [row EXCEPT ![k] = rw, ![id] = Retired(row[id], k)]
                          /\ Keep(r, k)
                          /\ Committed(r, k)
  BY <1>2 DEF Rotate
<1>6. /\ rw \in Rows /\ rw.raw = RawOf(r) /\ rw.target = row[id].target
      /\ rw.rotatedFrom = id /\ rw.replacedBy = NoToken
  BY <1>2, <1>3, <1>4, NewRowFields
<1>. HIDE DEF rw
<1>7. RowsInv /\ RawIsNew(rw.raw)
  BY <1>1, <1>6 DEF TokensInv, HashIsNew, RawIsNew
<1>8. /\ Exists(id) /\ ~Exists(k) /\ row[id].replacedBy = NoToken
      /\ rw.raw.scope.id = id /\ WritesBoth(id, k, rw)
  BY <1>3, <1>5, <1>6 DEF Exists, WritesBoth
<1>9. RowsInv' /\ RowsMove /\ row'[k] = rw
  BY <1>6, <1>7, <1>8, RotatedRows
<1>10. row'[k] # NoRow
  BY <1>6, <1>9, RowExists
<1>11. StoredInv'
  BY <1>1, <1>3, <1>5, <1>6, <1>9, <1>10, KeptAnswerFits DEF TokensInv
<1>12. Running(r)
  BY <1>1, <1>9, RequestRuns
<1>13. AnswerFits(r, "ok", k, row')
  BY <1>1, <1>6, <1>9, <1>10 DEF AnswerFits
<1>14. k \in Tokens \cup {NoToken} /\ row'[request[r].id] # NoRow
  BY <1>2, <1>8, <1>9 DEF RowsMove, Exists
<1>15. Moves(r)
  BY <1>5, <1>12, <1>13, <1>14, CommittedMoves
<1>. QED  BY <1>1, <1>9, <1>11, <1>15, RequestStep

\* A row marked as revoked or expired keeps everything else.
LEMMA MarkedFields ==
  ASSUME NEW rw \in Rows
  PROVE  /\ LET gone == [rw EXCEPT !.revoked = TRUE]
            IN /\ gone \in Rows /\ gone.revoked /\ gone.expired = rw.expired
               /\ gone.raw = rw.raw /\ gone.target = rw.target
               /\ gone.rotatedFrom = rw.rotatedFrom /\ gone.replacedBy = rw.replacedBy
         /\ LET gone == [rw EXCEPT !.expired = TRUE]
            IN /\ gone \in Rows /\ gone.expired /\ gone.revoked = rw.revoked
               /\ gone.raw = rw.raw /\ gone.target = rw.target
               /\ gone.rotatedFrom = rw.rotatedFrom /\ gone.replacedBy = rw.replacedBy
BY DEF Rows

\* Revoke marks one row.
LEMMA RevokeStep ==
  ASSUME TokensInv, NEW r \in Requests, Revoke(r)
  PROVE  TokensInv' /\ RowsMove
<1>1. /\ request[r].phase = "apply" /\ request[r].op = "revoke"
      /\ UNCHANGED <<stored, secret>> /\ Committed(r, NoToken)
  BY DEF Revoke
<1>2. PICK id \in Tokens : id = request[r].id
  BY <1>1, BatchFields
<1>3. row[id] \in Rows /\ row[id] # NoRow
  BY <1>1, <1>2, BatchFields
<1>. DEFINE rw == [row[id] EXCEPT !.revoked = TRUE]
<1>4. /\ rw \in Rows /\ rw.revoked /\ rw.expired = row[id].expired
      /\ rw.raw = row[id].raw /\ rw.target = row[id].target
      /\ rw.rotatedFrom = row[id].rotatedFrom /\ rw.replacedBy = row[id].replacedBy
  BY <1>3, MarkedFields
<1>5. Writes(id, rw)
  BY <1>2, <1>4 DEF Revoke, Writes
<1>. HIDE DEF rw
<1>6. Exists(id)
  BY <1>3 DEF Exists
<1>7. RowsInv' /\ RowsMove
  BY <1>4, <1>5, <1>6, MarkedRows DEF TokensInv
<1>8. row'[id] = rw /\ row'[id] # NoRow
  BY <1>4, <1>5, Written, RowExists DEF TokensInv, RowsInv
<1>9. StoredInv'
  BY <1>1, <1>7, StoredStays DEF TokensInv
<1>10. Running(r)
  BY <1>1, <1>7, RequestRuns
<1>11. AnswerFits(r, "ok", NoToken, row')
  BY <1>2, <1>4, <1>8 DEF AnswerFits
<1>12. NoToken \in Tokens \cup {NoToken} /\ row'[request[r].id] # NoRow
  BY <1>2, <1>8
<1>13. Moves(r)
  BY <1>1, <1>10, <1>11, <1>12, CommittedMoves
<1>. QED  BY <1>1, <1>7, <1>9, <1>13, RequestStep

-----------------------------------------------------------------------------
(* Time and the deployment *)

\* Expire marks one row.
LEMMA ExpireStep ==
  ASSUME TokensInv, NEW k \in Tokens, Expire(k)
  PROVE  TokensInv' /\ RowsMove
<1>1. row[k] \in Rows /\ Exists(k)
  BY DEF Expire, TokensInv, RowsInv, RowsTyped, Exists
<1>. DEFINE rw == [row[k] EXCEPT !.expired = TRUE]
<1>2. /\ rw \in Rows /\ rw.expired /\ rw.revoked = row[k].revoked
      /\ rw.raw = row[k].raw /\ rw.target = row[k].target
      /\ rw.rotatedFrom = row[k].rotatedFrom /\ rw.replacedBy = row[k].replacedBy
  BY <1>1, MarkedFields
<1>3. Writes(k, rw)
  BY <1>2 DEF Expire, Writes
<1>. HIDE DEF rw
<1>4. RowsInv' /\ RowsMove
  BY <1>1, <1>2, <1>3, MarkedRows DEF TokensInv
<1>5. UNCHANGED <<stored, secret, request>>
  BY DEF Expire
<1>6. StoredInv' /\ SecretTyped'
  BY <1>4, <1>5, StoredStays DEF TokensInv, SecretTyped
<1>. QED  BY <1>4, <1>5, <1>6, TableStep

\* Stored answers run out and are deleted.
LEMMA AnswerStep ==
  ASSUME TokensInv, NEW s \in Scopes, NEW i \in Keys, AnswerExpires(s, i) \/ CleanupAnswer(s, i)
  PROVE  TokensInv'
<1>1. UNCHANGED <<row, secret, request>>
  BY DEF AnswerExpires, CleanupAnswer
<1>2. RowsInv' /\ RowsMove
  BY <1>1, RowsStay DEF TokensInv
<1>3. stored[s][i] \in Answers /\ KeepsItsToken(s, i, stored[s][i], row)
  BY DEF TokensInv, StoredInv, StoredTyped, StoredSound
<1>4. CASE AnswerExpires(s, i)
  <2>. DEFINE a == [stored[s][i] EXCEPT !.kept = "expired"]
  <2>1. stored[s][i].kept = "valid" /\ stored[s][i] # NoAnswer
    BY <1>3, <1>4, AnswerFields DEF AnswerExpires
  <2>2. a \in Answers /\ a.id = stored[s][i].id /\ a.body = stored[s][i].body
    BY <1>3, <2>1 DEF Answers
  <2>3. PutAnswer(s, i, a)
    BY <1>4 DEF AnswerExpires, PutAnswer
  <2>. HIDE DEF a
  <2>4. KeepsItsToken(s, i, a, row')
    BY <1>1, <1>3, <2>1, <2>2 DEF KeepsItsToken
  <2>5. StoredInv'
    BY <1>2, <2>2, <2>3, <2>4, StoredWritten DEF TokensInv
  <2>. QED  BY <1>1, <1>2, <2>5, TableStep DEF TokensInv, SecretTyped
<1>5. CASE CleanupAnswer(s, i)
  <2>1. NoAnswer \in Answers /\ KeepsItsToken(s, i, NoAnswer, row')
    BY DEF Answers, KeepsItsToken
  <2>2. PutAnswer(s, i, NoAnswer)
    BY <1>5 DEF CleanupAnswer, PutAnswer
  <2>3. StoredInv'
    BY <1>2, <2>1, <2>2, StoredWritten DEF TokensInv
  <2>. QED  BY <1>1, <1>2, <2>3, TableStep DEF TokensInv, SecretTyped
<1>. QED  BY <1>4, <1>5

\* Another secret changes no table.
LEMMA SecretStep ==
  ASSUME TokensInv, ChangeSecret
  PROVE  TokensInv'
<1>1. UNCHANGED <<row, stored, request>>
  BY DEF ChangeSecret
<1>2. RowsInv' /\ RowsMove
  BY <1>1, RowsStay DEF TokensInv
<1>3. StoredInv'
  BY <1>1, <1>2, StoredStays DEF TokensInv
<1>4. SecretTyped'
  BY SecretsAreCounted DEF ChangeSecret, TokensInv, SecretTyped
<1>. QED  BY <1>1, <1>2, <1>3, <1>4, TableStep

-----------------------------------------------------------------------------
(* The invariant and what follows from it *)

\* Empty tables satisfy the invariant.
LEMMA InitTokens ==
  ASSUME Init
  PROVE  TokensInv
<1>1. \A k \in Tokens : row[k] = NoRow
  BY DEF Init
<1>2. RowsInv
  <2>1. RowsTyped
    BY DEF Init, RowsTyped
  <2>. QED  BY <1>1, <2>1 DEF RowsInv, ChainsAreLinked, RawTokensAreDistinct, ParentIsNamed, Exists
<1>3. \A s \in Scopes, i \in Keys : stored[s][i] = NoAnswer
  BY DEF Init
<1>4. StoredInv
  <2>1. NoAnswer \in Answers
    BY DEF Answers
  <2>2. StoredTyped
    BY <2>1 DEF Init, StoredTyped
  <2>. QED  BY <1>3, <2>2 DEF StoredInv, StoredSound, KeepsItsToken
<1>5. SecretTyped
  BY SecretsAreCounted DEF Init, SecretTyped
<1>6. \A r \in Requests : request[r] = Idle
  BY DEF Init
<1>7. RequestsTyped
  BY DEF Init, RequestsTyped
<1>8. AllSound
  BY <1>6 DEF AllSound, RequestSound, Idle
<1>. QED  BY <1>2, <1>4, <1>5, <1>7, <1>8 DEF TokensInv

\* Every step keeps the invariant.
LEMMA NextTokens ==
  ASSUME TokensInv, [Next]_vars
  PROVE  TokensInv'
<1>1. ASSUME NEW r \in Requests,
             \/ Begin(r) \/ Admit(r) \/ FindStored(r) \/ ReadToken(r)
             \/ Issue(r) \/ Rotate(r) \/ Revoke(r) \/ CommitFails(r) \/ FindRaced(r)
             \/ Abandon(r)
      PROVE  TokensInv'
  <2>1. CASE Begin(r)
    BY <2>1, BeginStep
  <2>2. CASE Admit(r)
    BY <2>2, AdmitStep
  <2>3. CASE FindStored(r)
    BY <2>3, FindStoredStep
  <2>4. CASE ReadToken(r)
    BY <2>4, ReadTokenStep
  <2>5. CASE Issue(r)
    BY <2>5, IssueStep
  <2>6. CASE Rotate(r)
    BY <2>6, RotateStep
  <2>7. CASE Revoke(r)
    BY <2>7, RevokeStep
  <2>8. CASE CommitFails(r)
    BY <2>8, CommitFailsStep
  <2>9. CASE FindRaced(r)
    BY <2>9, FindRacedStep
  <2>10. CASE Abandon(r)
    BY <2>10, AbandonStep
  <2>. QED  BY <1>1, <2>1, <2>2, <2>3, <2>4, <2>5, <2>6, <2>7, <2>8, <2>9, <2>10
<1>2. ASSUME NEW k \in Tokens, Expire(k) PROVE TokensInv'
  BY <1>2, ExpireStep
<1>3. ASSUME NEW s \in Scopes, NEW i \in Keys, AnswerExpires(s, i) \/ CleanupAnswer(s, i)
      PROVE  TokensInv'
  BY <1>3, AnswerStep
<1>4. CASE ChangeSecret
  BY <1>4, SecretStep
<1>5. CASE UNCHANGED vars
  <2>1. UNCHANGED <<row, stored, secret, request>>
    BY <1>5 DEF vars
  <2>2. RowsInv' /\ RowsMove
    BY <2>1, RowsStay DEF TokensInv
  <2>3. StoredInv'
    BY <2>1, <2>2, StoredStays DEF TokensInv
  <2>. QED  BY <2>1, <2>2, <2>3, TableStep DEF TokensInv, SecretTyped
<1>. QED  BY <1>1, <1>2, <1>3, <1>4, <1>5 DEF Next

\* The inductive invariant of the registration token routes.
THEOREM TokensInvariant ==
  Spec => []TokensInv
<1>1. Init => TokensInv
  BY InitTokens
<1>2. TokensInv /\ [Next]_vars => TokensInv'
  BY NextTokens
<1>. QED  BY <1>1, <1>2, PTL DEF Spec

\* The tables and requests of the token routes keep their shape
\* (migrations 0001, 0002, 0003 and 0008; registration-token-repository.ts).
THEOREM TokensTypeCorrect ==
  Spec => []TypeOK
<1>1. TokensInv => TypeOK
  BY DEF TokensInv, TypeOK, RowsInv, RowsTyped, StoredInv, StoredTyped, SecretTyped,
         RequestsTyped
<1>2. Spec => []TokensInv
  BY TokensInvariant
<1>. QED  BY <1>1, <1>2, PTL

\* Two of its consequences, which speak of answers that were given.
LEMMA SoundAnswers ==
  ASSUME TokensInv
  PROVE  ShownTokenIsKept /\ AnswersAreTrue
<1>1. ASSUME NEW r \in Requests, request[r].phase = "done"
      PROVE  /\ request[r].shown # NoToken =>
                  (row[request[r].shown].raw.secret = request[r].secret =>
                     row[request[r].shown].raw = RawOf(r))
             /\ request[r].answer = "not_active" => Status(request[r].id) # "active"
             /\ request[r].op = "revoke" /\ request[r].answer = "ok" =>
                  row[request[r].id].revoked
  <2>1. RequestSound(request[r], row) /\ request[r].phase # "idle"
    BY <1>1 DEF TokensInv, AllSound
  <2>2. ShowsWhatIsKept(request[r], row)
    BY <1>1, <2>1 DEF RequestSound
  <2>3. RawFor(request[r]) = RawOf(r)
    BY DEF RawFor, RawOf, ScopeOf
  <2>4. request[r].answer = "not_active" => Inactive(row, request[r].id)
    BY <1>1, <2>1 DEF RequestSound
  <2>5. Inactive(row, request[r].id) => Status(request[r].id) # "active"
    BY DEF Inactive, Status, Exists
  <2>6. request[r].op = "revoke" /\ request[r].answer = "ok" => row[request[r].id].revoked
    BY <1>1, <2>1 DEF RequestSound
  <2>. QED  BY <2>2, <2>3, <2>4, <2>5, <2>6 DEF ShowsWhatIsKept
<1>2. ShownTokenIsKept
  BY <1>1 DEF ShownTokenIsKept
<1>3. AnswersAreTrue
  BY <1>1 DEF AnswersAreTrue
<1>. QED  BY <1>2, <1>3

\* For any number of tokens, requests, keys and secrets: a rotation links both tokens and
\* retires the old one, a raw token names one row, an answer shows the token whose hash is
\* kept, and "not active" and "revoked" are true when they are said.
THEOREM TokensStaySound ==
  Spec => []TokensAreSound
<1>1. TokensInv => TokensAreSound
  BY SoundAnswers DEF TokensInv, RowsInv, TokensAreSound
<1>2. Spec => []TokensInv
  BY TokensInvariant
<1>. QED  BY <1>1, <1>2, PTL

-----------------------------------------------------------------------------
(* The promises of Credentials *)

Heir(k) == IF Exists(k) THEN row[k].replacedBy ELSE NoToken

\* A step that writes no row is none for Credentials.
LEMMA CredentialsStay ==
  ASSUME UNCHANGED row
  PROVE  UNCHANGED Credentials!credentials
<1>1. \A k \in Tokens : Status(k)' = Status(k) /\ Heir(k)' = Heir(k)
  BY DEF Status, Heir, Exists
<1>. QED  BY <1>1 DEF Credentials!credentials, Heir

-----------------------------------------------------------------------------
\* A row seen as a token of Credentials.
StatusOf(rw) ==
  IF rw = NoRow THEN "unissued" ELSE IF rw.revoked THEN "revoked"
  ELSE IF rw.expired THEN "expired" ELSE "active"
HeirOf(rw) == IF rw = NoRow THEN NoToken ELSE rw.replacedBy

Shown(rows) == [k \in Tokens |-> StatusOf(rows[k])]
Heirs(rows) == [k \in Tokens |-> HeirOf(rows[k])]

\* Credentials' variables and actions, in these words.
LEMMA Mapping ==
  /\ [k \in Tokens |-> Status(k)] = Shown(row)
  /\ [k \in Tokens |-> IF Exists(k) THEN row[k].replacedBy ELSE NoToken] = Heirs(row)
  /\ [k \in Tokens |-> Status(k)]' = Shown(row')
  /\ [k \in Tokens |-> IF Exists(k) THEN row[k].replacedBy ELSE NoToken]' = Heirs(row')
BY DEF Shown, Heirs, StatusOf, HeirOf, Status, Exists

\* One row changes its status and nothing else that Credentials knows.
LEMMA OneShown ==
  ASSUME NEW k \in Tokens, NEW status,
         StatusOf(row'[k]) = status, HeirOf(row'[k]) = HeirOf(row[k]),
         \A l \in Tokens : l # k => row'[l] = row[l]
  PROVE  Shown(row') = [Shown(row) EXCEPT ![k] = status] /\ Heirs(row') = Heirs(row)
<1>1. \A l \in Tokens : StatusOf(row'[l]) = IF l = k THEN status ELSE StatusOf(row[l])
  OBVIOUS
<1>2. \A l \in Tokens : HeirOf(row'[l]) = HeirOf(row[l])
  OBVIOUS
<1>. QED  BY <1>1, <1>2 DEF Shown, Heirs

\* An issued token is one that was never issued before.
LEMMA IssueShows ==
  ASSUME TokensInv, NEW r \in Requests, Issue(r)
  PROVE  \E k \in Tokens : Credentials!Issue(k)
<1>1. request[r].phase = "apply" /\ request[r].op = "issue"
  BY DEF Issue
<1>2. /\ request[r] \in Request /\ WellAddressed(request[r]) /\ RawOf(r) \in RawTokens
      /\ request[r].id \in Tokens \cup {NoToken} /\ request[r].body \in IssueBodies
  BY <1>1, BatchFields DEF WellAddressed
<1>3. /\ request[r].body.target \in Targets
      /\ NoExpire(request[r].body.lifetime, FALSE) \in BOOLEAN
  BY <1>2 DEF IssueBodies, NoExpire
<1>. DEFINE rw == NewRow(r, request[r].body.target, NoExpire(request[r].body.lifetime, FALSE))
<1>4. PICK k \in Tokens : ~Exists(k) /\ row' = [row EXCEPT ![k] = rw]
  BY DEF Issue
<1>5. rw \in Rows /\ rw.replacedBy = NoToken /\ ~rw.revoked /\ ~rw.expired
  BY <1>2, <1>3, NewRowFields
<1>. HIDE DEF rw
<1>6. row[k] = NoRow /\ row'[k] = rw /\ \A l \in Tokens : l # k => row'[l] = row[l]
  BY <1>4 DEF Exists, TokensInv, RowsInv, RowsTyped
<1>7. /\ StatusOf(row[k]) = "unissued" /\ StatusOf(row'[k]) = "active"
      /\ HeirOf(row'[k]) = HeirOf(row[k])
  BY <1>5, <1>6, RowExists DEF StatusOf, HeirOf
<1>8. Shown(row') = [Shown(row) EXCEPT ![k] = "active"] /\ Heirs(row') = Heirs(row)
  BY <1>6, <1>7, OneShown
<1>9. Shown(row)[k] = "unissued"
  BY <1>7 DEF Shown
<1>10. Credentials!Issue(k)
  BY <1>8, <1>9, Mapping DEF Credentials!Issue
<1>. QED  BY <1>10

\* A rotation revokes the old token and activates the new one in one step.
LEMMA RotateShows ==
  ASSUME TokensInv, NEW r \in Requests, Rotate(r)
  PROVE  \E old, k \in Tokens : Credentials!Rotate(old, k)
<1>1. request[r].phase = "apply" /\ request[r].op = "rotate" /\ Rotatable(r)
  BY DEF Rotate
<1>2. PICK id \in Tokens : id = request[r].id
  BY <1>1, BatchFields
<1>3. /\ request[r] \in Request /\ WellAddressed(request[r])
      /\ RawOf(r) \in RawTokens /\ request[r].body \in RotateBodies
      /\ row[id] \in Rows /\ row[id] # NoRow /\ ~row[id].revoked
      /\ request[r].id \in Tokens \cup {NoToken}
  BY <1>1, <1>2, BatchFields DEF WellAddressed, Rotatable
<1>4. /\ row[id].target \in Targets
      /\ NoExpire(request[r].body.lifetime, row[id].noExpire) \in BOOLEAN
  BY <1>3, RowFields DEF NoExpire
<1>. DEFINE rw == NewRow(r, row[id].target, NoExpire(request[r].body.lifetime, row[id].noExpire))
<1>5. PICK k \in Tokens :
        ~Exists(k) /\ row' = [row EXCEPT ![k] = rw, ![id] = Retired(row[id], k)]
  BY <1>2 DEF Rotate
<1>6. rw \in Rows /\ rw.replacedBy = NoToken /\ ~rw.revoked /\ ~rw.expired
  BY <1>2, <1>3, <1>4, NewRowFields
<1>. HIDE DEF rw
<1>7. PICK gone \in Rows : gone = Retired(row[id], k) /\ gone.revoked /\ gone.replacedBy = k
  BY <1>3, RetiredFields
<1>8. /\ k # id /\ row[k] = NoRow /\ row'[k] = rw /\ row'[id] = gone
      /\ \A l \in Tokens : l # k /\ l # id => row'[l] = row[l]
  BY <1>3, <1>5, <1>7 DEF Exists, TokensInv, RowsInv, RowsTyped
<1>9. /\ StatusOf(row[k]) = "unissued" /\ StatusOf(row'[k]) = "active"
      /\ StatusOf(row[id]) \in {"active", "expired"} /\ StatusOf(row'[id]) = "revoked"
      /\ HeirOf(row'[k]) = HeirOf(row[k]) /\ HeirOf(row'[id]) = k
  BY <1>3, <1>6, <1>7, <1>8, RowExists DEF StatusOf, HeirOf
<1>10. Shown(row') = [Shown(row) EXCEPT ![id] = "revoked", ![k] = "active"]
  BY <1>8, <1>9 DEF Shown
<1>11. Heirs(row') = [Heirs(row) EXCEPT ![id] = k]
  BY <1>8, <1>9 DEF Heirs
<1>12. Shown(row)[k] = "unissued" /\ Shown(row)[id] \in {"active", "expired"}
  BY <1>9 DEF Shown
<1>13. Credentials!Rotate(id, k)
  BY <1>10, <1>11, <1>12, Mapping DEF Credentials!Rotate
<1>. QED  BY <1>13

\* A revocation is one.
LEMMA RevokeShows ==
  ASSUME TokensInv, NEW r \in Requests, Revoke(r)
  PROVE  \E k \in Tokens : Credentials!Revoke(k)
<1>1. request[r].phase = "apply" /\ request[r].op = "revoke"
  BY DEF Revoke
<1>2. PICK id \in Tokens : id = request[r].id
  BY <1>1, BatchFields
<1>3. row[id] \in Rows /\ row[id] # NoRow /\ ~row[id].revoked
  BY <1>1, <1>2, BatchFields DEF Revoke
<1>4. PICK rw \in Rows : /\ rw = [row[id] EXCEPT !.revoked = TRUE]
                         /\ rw.revoked /\ rw.replacedBy = row[id].replacedBy
  BY <1>3, MarkedFields
<1>5. row'[id] = rw /\ \A l \in Tokens : l # id => row'[l] = row[l]
  BY <1>2, <1>4 DEF Revoke, TokensInv, RowsInv, RowsTyped
<1>6. /\ StatusOf(row[id]) \in {"active", "expired"} /\ StatusOf(row'[id]) = "revoked"
      /\ HeirOf(row'[id]) = HeirOf(row[id])
  BY <1>3, <1>4, <1>5, RowExists DEF StatusOf, HeirOf
<1>7. Shown(row') = [Shown(row) EXCEPT ![id] = "revoked"] /\ Heirs(row') = Heirs(row)
  BY <1>5, <1>6, OneShown
<1>8. Shown(row)[id] \in {"active", "expired"}
  BY <1>6 DEF Shown
<1>9. Credentials!Revoke(id)
  BY <1>7, <1>8, Mapping DEF Credentials!Revoke
<1>. QED  BY <1>9

\* A revoked token that runs out stays revoked: Credentials sees no step.
LEMMA ExpireShows ==
  ASSUME TokensInv, NEW k \in Tokens, Expire(k)
  PROVE  Credentials!Expire({k}) \/ UNCHANGED Credentials!credentials
<1>1. row[k] \in Rows /\ row[k] # NoRow /\ ~row[k].expired
  BY DEF Expire, TokensInv, RowsInv, RowsTyped, Exists
<1>2. PICK rw \in Rows : /\ rw = [row[k] EXCEPT !.expired = TRUE]
                         /\ rw.expired /\ rw.revoked = row[k].revoked
                         /\ rw.replacedBy = row[k].replacedBy
  BY <1>1, MarkedFields
<1>3. row'[k] = rw /\ \A l \in Tokens : l # k => row'[l] = row[l]
  BY <1>2 DEF Expire, TokensInv, RowsInv, RowsTyped
<1>4. HeirOf(row'[k]) = HeirOf(row[k])
  BY <1>1, <1>2, <1>3, RowExists DEF HeirOf
<1>5. CASE ~row[k].revoked
  <2>1. StatusOf(row[k]) = "active" /\ StatusOf(row'[k]) = "expired"
    BY <1>1, <1>2, <1>3, <1>5, RowExists DEF StatusOf
  <2>2. Shown(row') = [Shown(row) EXCEPT ![k] = "expired"] /\ Heirs(row') = Heirs(row)
    BY <1>3, <1>4, <2>1, OneShown
  <2>3. Shown(row)[k] = "active"
    BY <2>1 DEF Shown
  <2>4. Shown(row') = [l \in Tokens |-> IF l \in {k} THEN "expired" ELSE Shown(row)[l]]
    BY <2>2 DEF Shown
  <2>5. Credentials!Expire({k})
    BY <2>2, <2>3, <2>4, Mapping DEF Credentials!Expire
  <2>. QED  BY <2>5
<1>6. CASE row[k].revoked
  <2>1. \A l \in Tokens : StatusOf(row'[l]) = StatusOf(row[l]) /\ HeirOf(row'[l]) = HeirOf(row[l])
    BY <1>1, <1>2, <1>3, <1>4, <1>6, RowExists DEF StatusOf
  <2>2. Shown(row') = Shown(row) /\ Heirs(row') = Heirs(row)
    BY <2>1 DEF Shown, Heirs
  <2>. QED  BY <2>2, Mapping DEF Credentials!credentials
<1>. QED  BY <1>5, <1>6

\* Every step is one of Credentials, or none.
LEMMA NextImplementsCredentials ==
  ASSUME TokensInv, [Next]_vars
  PROVE  [Credentials!Manage]_(Credentials!credentials)
<1>1. CASE UNCHANGED row
  BY <1>1, CredentialsStay
<1>2. ASSUME NEW r \in Requests, Issue(r)
      PROVE  Credentials!Manage
  BY <1>2, IssueShows DEF Credentials!Manage
<1>3. ASSUME NEW r \in Requests, Rotate(r)
      PROVE  Credentials!Manage
  BY <1>3, RotateShows DEF Credentials!Manage
<1>4. ASSUME NEW r \in Requests, Revoke(r)
      PROVE  Credentials!Manage
  BY <1>4, RevokeShows DEF Credentials!Manage
<1>5. ASSUME NEW k \in Tokens, Expire(k)
      PROVE  Credentials!Manage \/ UNCHANGED Credentials!credentials
  <2>1. {k} \in SUBSET Tokens
    OBVIOUS
  <2>. QED  BY <1>5, <2>1, ExpireShows DEF Credentials!Manage
<1>6. \/ UNCHANGED row
      \/ \E r \in Requests : Issue(r) \/ Rotate(r) \/ Revoke(r)
      \/ \E k \in Tokens : Expire(k)
  BY DEF Next, vars, Begin, Admit, FindStored, ReadToken, CommitFails, FindRaced, Abandon,
         AnswerExpires, CleanupAnswer, ChangeSecret
<1>. QED  BY <1>1, <1>2, <1>3, <1>4, <1>5, <1>6

\* The token routes implement the promises of Credentials, which Registration is built
\* on: no token is issued twice, and a revoked one never comes back.
THEOREM TokensImplementCredentials ==
  Spec => ImplementsCredentials
<1>1. Init => Credentials!InitCredentials
  BY DEF Init, Credentials!InitCredentials, Status, Exists
<1>2. TokensInv /\ [Next]_vars => [Credentials!Manage]_(Credentials!credentials)
  BY NextImplementsCredentials
<1>3. Spec => []TokensInv
  BY TokensInvariant
<1>. QED  BY <1>1, <1>2, <1>3, PTL DEF Spec, ImplementsCredentials, Credentials!Spec
===============================================================================
