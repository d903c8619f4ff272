---------------------------- MODULE MCChangeApproval ---------------------------
(****************************************************************************)
(* Two clients: the first with two handlers (two logins, or two clicks in   *)
(* one browser), the second with one.                                       *)
(****************************************************************************)
EXTENDS ChangeApproval, TLC

CONSTANTS c1, c2, h1, h2, h3, p1, p2

MCClientOf == [h \in Handlers |-> IF h = h3 THEN c2 ELSE c1]
MCOwnerOf  == [p \in Projects |-> IF p = p2 THEN c2 ELSE c1]

\* The handlers of the first client behave alike.
Symmetry == Permutations({h1, h2})
================================================================================
