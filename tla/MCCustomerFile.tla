----------------------------- MODULE MCCustomerFile ----------------------------
(****************************************************************************)
(* Instances of CustomerFile for TLC: whose the handlers are and which      *)
(* names the e-mails lead to.                                               *)
(****************************************************************************)
EXTENDS CustomerFile, Sequences, TLC

CONSTANT Portals    \* the handlers of portal users; the others are the office's

MCRoleOf == [s \in Handlers |-> IF s \in Portals THEN "Client" ELSE "OfficeManager"]

\* All e-mails have the local part "client", the name of a seeded account: the
\* first name tried is always taken and every creation competes for the rest.
Names == <<"client", "client2", "client3", "client4", "client5">>

MCUsernames  == {Names[k] : k \in 1 .. MaxProbe}
MCStaff      == {"client"}
MCCandidates == [e \in Emails |-> [k \in 1 .. MaxProbe |-> Names[k]]]

\* Handlers of one role are interchangeable.
HandlerSymmetry == Permutations(Handlers)

\* Phones and e-mails are only compared for equality.
DetailSymmetry == Permutations(Phones) \cup Permutations(Emails)
Symmetry       == HandlerSymmetry \cup DetailSymmetry
================================================================================
