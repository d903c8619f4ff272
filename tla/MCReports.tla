------------------------------- MODULE MCReports -------------------------------
(****************************************************************************)
(* Instances of Reports for TLC.                                            *)
(****************************************************************************)
EXTENDS MCCustomerFile, Reports

\* Managers are interchangeable.
ManagerSymmetry == Permutations(Managers)
================================================================================
