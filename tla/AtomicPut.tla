------------------------------ MODULE AtomicPut ------------------------------
(***************************************************************************)
(* What a streaming upload promises the path it writes to.  The document   *)
(* at the path goes from the old version to the new one at most once, by   *)
(* way of a moment in which readers find it torn: whoever fails or dies in *)
(* that moment leaves it torn.  A success answer to a body means that the  *)
(* document is the whole body.  A body that was cut short may be stored as *)
(* far as it came, but then the answer is a failure.                       *)
(*                                                                         *)
(* An upload of nothing replaces nothing.  It covers the document with a   *)
(* placeholder: readers see an empty file until the placeholder expires,   *)
(* and then the old document again.  Once an answer has been given, that   *)
(* is the only change left.                                                *)
(***************************************************************************)
EXTENDS Integers

CONSTANT Lengths   \* request body lengths that clients send

VARIABLES body,    \* length of the body
          doc,     \* the document: "old", "torn" or "new"
          docSize, \* how much of the body the new document has
          covered, \* readers see an empty file instead of the document
          reply    \* the answer: "none" until it is given

vars == <<body, doc, docSize, covered, reply>>

\* An earlier upload of nothing may have left its placeholder.
Init ==
    /\ body \in Lengths
    /\ doc = "old" /\ docSize = 0 /\ reply = "none"
    /\ covered \in BOOLEAN

Unanswered == reply = "none" /\ UNCHANGED body

\* The placeholder expires, gives way to an upload, or dies with the process.
Uncover ==
    /\ covered /\ covered' = FALSE
    /\ UNCHANGED <<body, doc, docSize, reply>>

\* The old document is given up; nothing is replaced for an empty body.
Truncate ==
    /\ Unanswered /\ doc = "old" /\ body > 0 /\ ~covered
    /\ doc' = "torn"
    /\ UNCHANGED <<docSize, covered, reply>>

Replace ==
    /\ Unanswered /\ doc = "torn" /\ ~covered
    /\ doc' = "new" /\ docSize' \in 1..body
    /\ UNCHANGED <<covered, reply>>

Succeed ==
    /\ Unanswered /\ body > 0
    /\ doc = "new" /\ docSize = body /\ ~covered
    /\ reply' = "ok"
    /\ UNCHANGED <<doc, docSize, covered>>

Fail == Unanswered /\ reply' = "err" /\ UNCHANGED <<doc, docSize, covered>>

\* Nothing was received: of an empty body that is a success.
Cover ==
    /\ Unanswered /\ doc = "old"
    /\ covered' = TRUE
    /\ reply' = IF body = 0 THEN "ok" ELSE "err"
    /\ UNCHANGED <<doc, docSize>>

Next == Uncover \/ Truncate \/ Replace \/ Succeed \/ Fail \/ Cover

Spec == Init /\ [][Next]_vars
=============================================================================
