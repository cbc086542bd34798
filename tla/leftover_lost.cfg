SPECIFICATION Spec
CONSTANTS
    Rows = {"temp", "quiet", "zone"}
    Platforms = {"sensor", "valve"}
    KeyIndexed = "sensor"
    PlatformOf <- MCPlatformOf
    Emits <- MCEmits
    Outlets = {"zone"}
    LeftoverDebounce = 2
PROPERTY SurvivorsAreOfferedAgain
