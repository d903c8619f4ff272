------------------------------ MODULE MCAppSession -----------------------------
(****************************************************************************)
(* Instances of AppSession for TLC: two browsers, the office's and a portal *)
(* user's, and the handlers that each may have in progress.                 *)
(****************************************************************************)
EXTENDS MCCustomerFile, AppSession

CONSTANTS OfficeBrowser, PortalBrowser

MCBrowsers    == {OfficeBrowser, PortalBrowser}
MCBrowserOf   == [s \in Handlers |-> IF s \in Portals THEN PortalBrowser ELSE OfficeBrowser]
MCBrowserRole == [b \in MCBrowsers |-> IF b = PortalBrowser THEN "Client"
                                                            ELSE "OfficeManager"]

\* The handlers of one browser are interchangeable.
ThreadSymmetry == Permutations(Handlers \ Portals)
================================================================================
