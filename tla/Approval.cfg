SPECIFICATION Spec
CONSTANTS
    c1 = c1
    c2 = c2
    h1 = h1
    h2 = h2
    h3 = h3
    p1 = p1
    p2 = p2
    Clients = {c1, c2}
    Handlers = {h1, h2, h3}
    ClientOf <- MCClientOf
    Projects = {p1, p2}
    OwnerOf <- MCOwnerOf
    None = None
    MaxRows = 1
SYMMETRY Symmetry
INVARIANTS TypeOK DecidedByOwner
PROPERTIES OverturnsRunOut MeetingsConfirmedByOwner
