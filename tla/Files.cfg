SPECIFICATION Spec
CONSTANTS
    Architects = {a1, a2}
    c1 = c1
    c2 = c2
    p1 = p1
    p2 = p2
    Projects = {p1, p2}
    Clients = {c1, c2}
    OwnerOf <- MCOwnerOf
    FileNames = {"plan 1.pdf", "plan?1.pdf", "hall.pdf"}
    SafeNames = {"plan_1.pdf", "hall.pdf"}
    SafeName <- MCSafeName
    NoFile = NoFile
    Faults = {"crash", "ioError", "lockTimeout"}
    MaxUploads = 3
SYMMETRY ArchitectSymmetry
INVARIANTS TypeOK OwnContentOnly DrawingsKept
