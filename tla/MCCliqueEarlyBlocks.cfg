SPECIFICATION MCSpec
CHECK_DEADLOCK FALSE
SYMMETRY MCSymmetry
CONSTANTS
    a1 = a1
    a2 = a2
    a3 = a3
    a4 = a4
    None = None
    Off = Off
    Address <- MCAddress
    GenesisSigners <- MCGenesis
    Epoch = 4
    MaxNumber = 9
    Scenarios = {"early"}
INVARIANT
    NoSignerTooOften
