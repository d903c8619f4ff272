SPECIFICATION ReportsSpec
CONSTANTS
    Handlers = {h1}
    Portals = {}
    RoleOf <- MCRoleOf
    Ops = {"create", "link", "delete", "status"}
    Faults = {"crash", "lockTimeout"}
    MaxClients = 1
    MaxProjects = 1
    Phones = {p1}
    Emails = {e1}
    None = None
    Usernames <- MCUsernames
    StaffUsernames <- MCStaff
    Candidates <- MCCandidates
    MaxProbe = 2
    Managers = {m1, m2}
    Nothing = Nothing
    MaxReports = 2
    DiskFails = TRUE
SYMMETRY ManagerSymmetry
INVARIANTS ReportsTypeOK ShownIsStored ProjectsNamed ExportsApart
