SPECIFICATION AppSpec
CONSTANTS
    Handlers = {h1, h2, h3}
    Portals = {h3}
    RoleOf <- MCRoleOf
    OfficeBrowser = office
    PortalBrowser = portal
    Browsers <- MCBrowsers
    BrowserOf <- MCBrowserOf
    BrowserRole <- MCBrowserRole
    Ops = {"create", "delete", "link", "inquire"}
    Faults = {"crash", "lockTimeout"}
    MaxClients = 2
    MaxProjects = 1
    Phones = {p1}
    Emails = {e1}
    None = None
    Usernames <- MCUsernames
    StaffUsernames <- MCStaff
    Candidates <- MCCandidates
    MaxProbe = 3
SYMMETRY ThreadSymmetry
INVARIANTS AppTypeOK GhostsPowerless
