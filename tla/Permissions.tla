------------------------------ MODULE Permissions ------------------------------
(****************************************************************************)
(* The role based permission model of utils/permissions.py: a fixed map     *)
(* from the role of the logged-in user to the actions it may perform.  Every *)
(* controller method starts with require_permission(role, permission).      *)
(****************************************************************************)

\* RoleEnum (models/user.py).
Roles == {"OfficeManager", "Architect", "Client"}

\* The PERMISSIONS dictionary.
PERMISSIONS ==
    [OfficeManager |-> {"Login", "ManageClients", "GenerateReports", "ViewReports",
                        "ViewProjects", "ScheduleMeetings", "SendReminders",
                        "ViewOversight"},
     Architect     |-> {"Login", "RecordDecisions", "ViewProjects",
                        "ManageProjectContent"},
     Client        |-> {"Login", "ViewOwnProject", "SubmitInquiry", "ApproveChanges"}]

HasPermission(role, permission) == permission \in PERMISSIONS[role]
================================================================================
