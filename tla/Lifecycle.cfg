SPECIFICATION Spec
CONSTANTS
    Handlers = {h1, h2}
    Portals = {}
    RoleOf <- MCRoleOf
    Ops = {"create", "update", "delete", "link", "status", "remind"}
    Faults = {"crash", "lockTimeout"}
    MaxClients = 2
    MaxProjects = 1
    Phones = {p1}
    Emails = {e1}
    None = None
    Usernames <- MCUsernames
    StaffUsernames <- MCStaff
    Candidates <- MCCandidates
    MaxProbe = 4
SYMMETRY HandlerSymmetry
INVARIANTS TypeOK ArchivedHasHistory AuditTrail OneAccountPerClient ReferentialIntegrity
PROPERTIES DeletedStaysDeleted AccountGoesWithClient UnarchivingRunsOut ReopeningRunsOut
