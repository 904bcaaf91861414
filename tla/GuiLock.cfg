SPECIFICATION Spec
CONSTANTS
    Tasks = {"gui", "shoutcast"}
    NoTask = "nobody"
    GUI_MAXTASK = 2
    Contexts = {"font1", "font2"}
    Initial = "font1"
    MAXNEST = 2
INVARIANTS
    MutualExclusion
    NeverWaitsForItself
PROPERTIES
    ViewSpec
