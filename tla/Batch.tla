------------------------------- MODULE Batch -------------------------------
(***************************************************************************)
(* What a bulk request promises (api/listing.py, "so one refused device    *)
(* does not silently abandon the rest"): every item asked for gets one     *)
(* outcome, in the order of the request, whatever became of those before,  *)
(* and the answer is sent when all have one.  BulkActions implements it.   *)
(***************************************************************************)
EXTENDS Sequences, Naturals

CONSTANT Id

VARIABLES
  asked,     \* the items of the request, << >> while there is none
  outcomes   \* whether each of the first items succeeded

vars == <<asked, outcomes>>

Init == asked = << >> /\ outcomes = << >>

Ask ==
  /\ asked = << >>
  /\ asked' \in Seq(Id) \ {<< >>}
  /\ outcomes' = << >>

Settle ==
  /\ Len(outcomes) < Len(asked)
  /\ \E ok \in BOOLEAN : outcomes' = Append(outcomes, ok)
  /\ UNCHANGED asked

Answer ==
  /\ asked # << >>
  /\ Len(outcomes) = Len(asked)
  /\ asked' = << >> /\ outcomes' = << >>

Next == Ask \/ Settle \/ Answer

(* A request is answered in the end. *)
EveryRequestAnswered == asked # << >> ~> asked = << >>

Spec == Init /\ [][Next]_vars /\ EveryRequestAnswered
=============================================================================
