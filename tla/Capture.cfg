SPECIFICATION Spec
CONSTANTS
    TextRunMax = 2
    AxisMax = 127
    DelayByteMax = 2
    SlotMax = 9
    PoolMax = 12
    Slots = 3
    Modifiers = {"shift"}
    Printable = {"a", "su"}
    Unsendable = {"sysrq"}
    Commands = {"su"}
    Separators = {}
    Keys = {"shift", "su", "enter"}
    Travels <- MCTravels
    Gaps <- MCGaps
    Late = 2
    Backends = {"evdev", "pynput"}
    Timings = {TRUE, FALSE}
    PadEvents = {TRUE}
    Windows = {TRUE, FALSE}
    Stored <- MCStored
    MaxDone = 4
INVARIANTS
    StrokesAsTyped
    SecretsLeftOut
    HoldsAsHeld
    PointerInPlace
    StoredAsCompiled
CHECK_DEADLOCK FALSE
