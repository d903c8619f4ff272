----------------------------- MODULE MCProjectFiles ----------------------------
(****************************************************************************)
(* Two clients with a project each; two of three file names differ only in  *)
(* characters that _safe_file_name replaces.                                *)
(****************************************************************************)
EXTENDS ProjectFiles, TLC

CONSTANTS c1, c2, p1, p2

MCOwnerOf  == [p \in Projects |-> IF p = p1 THEN c1 ELSE c2]
MCSafeName == [n \in FileNames |-> IF n = "hall.pdf" THEN "hall.pdf" ELSE "plan_1.pdf"]

\* Architects are interchangeable.
ArchitectSymmetry == Permutations(Architects)
================================================================================
