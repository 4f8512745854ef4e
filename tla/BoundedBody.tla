----------------------------- MODULE BoundedBody -----------------------------
(***************************************************************************)
(* readBoundedJson: a body of unknown length is read in chunks, kept up to *)
(* a limit, put together again and decoded as UTF-8 JSON.  The platform    *)
(* reads every mutation and the SDK every registration answer with it; the *)
(* example website reads its test control the same way.                    *)
(*                                                                         *)
(* A body is a sequence of bytes that know their character; whether the    *)
(* whole is JSON is a bit of its own.  The stream cuts it anywhere.        *)
(***************************************************************************)
EXTENDS Integers, Sequences, SequencesExt

CONSTANTS MaxBytes,      \* the limit
          Widths,        \* bytes of a character
          MaxCharacters  \* bound: characters of a body

BodyAssumption ==
    /\ MaxBytes \in Nat /\ MaxCharacters \in Nat
    /\ Widths \subseteq Nat \ {0}

Byte(char, part, of) == [char |-> char, part |-> part, of |-> of]
Character(i, width) == [p \in 1..width |-> Byte(i, p, width)]
Texts ==
    {FlattenSeq([i \in DOMAIN widths |-> Character(i, widths[i])]) :
        widths \in UNION {[1..n -> Widths] : n \in 0..MaxCharacters}}

VARIABLES text,      \* the body as it was written
          isJson,    \* whether it is JSON, and its bytes UTF-8
          declared,  \* Content-Length, or Undeclared
          sent,      \* bytes that have left the sender
          chunks,    \* what the reader keeps
          size,      \* bytes the reader has counted
          outcome

vars == <<text, isJson, declared, sent, chunks, size, outcome>>

Undeclared == -1

----------------------------------------------------------------------------
Decide(o) ==
    /\ outcome' = o
    /\ UNCHANGED <<text, isJson, declared, sent, chunks, size>>

(* The header alone is enough to refuse, never to accept. *)
CheckLength ==
    /\ outcome = "begun"
    /\ Decide(IF declared > MaxBytes THEN "too_large" ELSE "reading")

Counted(n) == size + n

(* One read: too much cancels the stream, the rest is kept. *)
Receive ==
    /\ outcome = "reading"
    /\ \E n \in 1..Len(text) - sent :
         /\ sent' = sent + n
         /\ size' = Counted(n)
         /\ IF size' > MaxBytes
            THEN outcome' = "too_large" /\ UNCHANGED chunks
            ELSE /\ chunks' = Append(chunks, SubSeq(text, sent + 1, sent + n))
                 /\ UNCHANGED outcome
    /\ UNCHANGED <<text, isJson, declared>>

(* read rejects: neither value nor refusal, the request fails. *)
Break == outcome = "reading" /\ Decide("broken")

(* The bytes of whole characters, in order. *)
IsUtf8(bytes) ==
    \A i \in DOMAIN bytes :
        /\ bytes[i].part > 1 =>
             i > 1 /\ bytes[i - 1] = [bytes[i] EXCEPT !.part = @ - 1]
        /\ bytes[i].part < bytes[i].of =>
             i < Len(bytes) /\ bytes[i + 1] = [bytes[i] EXCEPT !.part = @ + 1]

(* Mutant: every chunk is decoded on its own. *)
EachDecodes(kept) == \A i \in DOMAIN kept : IsUtf8(kept[i])

Decodes(kept) == IsUtf8(FlattenSeq(kept))

(* The stream ends: nothing is null, anything else must decode and parse. *)
End ==
    /\ outcome = "reading" /\ sent = Len(text)
    /\ Decide(IF size = 0 THEN "null"
              ELSE IF Decodes(chunks) /\ isJson THEN "value"
              ELSE "invalid_json")

Init ==
    /\ text \in Texts
    /\ isJson \in BOOLEAN
    /\ declared \in {Undeclared, 0, Len(text), MaxBytes, MaxBytes + 1}
    /\ sent = 0
    /\ chunks = <<>>
    /\ size = 0
    /\ outcome = "begun"

Next == CheckLength \/ Receive \/ Break \/ End

(* No fairness: a client may stop in the middle and never go on. *)
Spec == Init /\ [][Next]_vars

----------------------------------------------------------------------------
(* Properties                                                              *)

Raw == FlattenSeq(chunks)

(* The types; what is counted is what is kept. *)
TypeOK ==
    /\ sent \in 0..Len(text)
    /\ size \in Nat
    /\ outcome # "too_large" => size = Len(Raw)
    /\ outcome \in {"begun", "reading", "value", "null", "too_large",
                    "invalid_json", "broken"}

(* Whatever the header says and however the stream is cut, the reader never *)
(* keeps more than the limit (readBoundedJson; test plan R6-003).           *)
KeptIsBounded == Len(Raw) <= MaxBytes

(* The answer is the body's, not the stream's: a value is the whole text   *)
(* byte for byte, a refusal is true of the text or of its header, whatever *)
(* the cuts (readBoundedJson keeps the raw bytes registrations are hashed  *)
(* by).                                                                    *)
AnswerIsOfTheBody ==
    /\ outcome = "value" => Raw = text /\ isJson /\ text # <<>>
    /\ outcome = "null" => text = <<>>
    /\ outcome = "too_large" => Len(text) > MaxBytes \/ declared > MaxBytes
    /\ outcome = "invalid_json" => ~isJson
============================================================================
