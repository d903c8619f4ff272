SPECIFICATION Spec
CONSTANTS
    Handlers = {h1, h2}
    Portals = {}
    RoleOf <- MCRoleOf
    Ops = {"create", "link", "update", "delete"}
    Faults = {}
    MaxClients = 1
    MaxProjects = 1
    Phones = {p1}
    Emails = {e1}
    None = None
    Usernames <- MCUsernames
    StaffUsernames <- MCStaff
    Candidates <- MCCandidates
    MaxProbe = 3
PROPERTIES ArchivedIsFrozen
