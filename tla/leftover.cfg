SPECIFICATION FairSpec
CONSTANTS
    Rows = {"temp", "quiet", "zone"}
    Platforms = {"sensor", "valve"}
    KeyIndexed = "sensor"
    PlatformOf <- MCPlatformOf
    Emits <- MCEmits
    Outlets = {"zone"}
    LeftoverDebounce = 2
INVARIANTS NothingOfferedTwice LedgerBacked LeftoverCardOwned
PROPERTIES ConsentKept LeftoverOfferEarned DepartedCardKept DeadRowIsOffered DepartedCardFollows
