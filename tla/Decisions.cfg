SPECIFICATION FairSpec
CONSTANTS
    a1 = a1
    a2 = a2
    r1 = r1
    r2 = r2
    r3 = r3
    Sessions = {a1, a2}
    Submissions = {r1, r2, r3}
    SessionOf <- MCSessionOf
    Projects = {p1}
    Texts = {t1}
    Nobody = Nobody
    Faults = {"crash", "ioError"}
INVARIANTS TypeOK ScreenBacked LockInsideTransaction
PROPERTIES ImplementsLedger SaveEnds
