SPECIFICATION FairSpec
CONSTANTS
    Keys = {"v", "b"}
    Domains = {"valve", "switch"}
    Late = {"valve"}
    Ports = {0, 1, 2}
    Declared <- MCDeclared
    RunStates <- MCRunStates
    PortCount <- MCPortCount
    Trusted = {}
    Faulty <- MCFaulty
INVARIANTS NoUnannouncedControl
PROPERTIES ReannouncedOnlyIfMissed UnconsentedIsAnnounced
