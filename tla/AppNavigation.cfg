CONSTANTS
    NoAlert = NoAlert
    MaxSignIns = 2
    MaxTaps = 2
    MaxScreens = 8
SPECIFICATION Spec
INVARIANTS
    OpenerBelow
PROPERTIES
    SwitchAwaitsAnswer
\* The app traps, and the bounds end a behaviour.
CHECK_DEADLOCK FALSE
