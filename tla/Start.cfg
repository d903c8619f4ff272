SPECIFICATION FairSpec
CONSTANTS
    Processes = {server, script}
    NoProcess = NoProcess
    Earlier <- MCEarlier
    Faults = {"crash", "ioError"}
INVARIANTS TypeOK ReadyComplete DemoWhole DemoBounded
PROPERTIES StartEnds
