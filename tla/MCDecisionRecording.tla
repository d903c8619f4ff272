--------------------------- MODULE MCDecisionRecording -------------------------
(****************************************************************************)
(* One architect who submits twice, the second time beside the first or     *)
(* after it, and one who submits once.                                      *)
(****************************************************************************)
EXTENDS DecisionRecording

CONSTANTS a1, a2, r1, r2, r3

MCSessionOf == [r \in Submissions |-> IF r = r3 THEN a2 ELSE a1]
================================================================================
