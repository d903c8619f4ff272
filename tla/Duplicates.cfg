SPECIFICATION Spec
CONSTANTS
    Handlers = {h1, h2}
    Portals = {}
    RoleOf <- MCRoleOf
    Ops = {"create", "update", "delete"}
    Faults = {}
    MaxClients = 3
    MaxProjects = 0
    Phones = {p1, p2}
    Emails = {e1, e2}
    None = None
    Usernames <- MCUsernames
    StaffUsernames <- MCStaff
    Candidates <- MCCandidates
    MaxProbe = 5
SYMMETRY Symmetry
INVARIANTS SharingBounded
