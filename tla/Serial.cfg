SPECIFICATION Spec
CONSTANTS
    Handlers = {h1, h2}
    Portals = {h2}
    RoleOf <- MCRoleOf
    Ops = {"create", "update", "delete", "link", "status", "meeting", "remind", "inquire"}
    Faults = {}
    MaxClients = 2
    MaxProjects = 1
    Phones = {p1, p2}
    Emails = {e1, e2}
    None = None
    Usernames <- MCUsernames
    StaffUsernames <- MCStaff
    Candidates <- MCCandidates
    MaxProbe = 4
SYMMETRY DetailSymmetry
PROPERTIES ImplementsRegistry
