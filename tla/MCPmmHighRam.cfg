CONSTANTS
    MaxPages = 10
    PageSize = 2
    UptrMod = 32
    Maps <- MCHighMaps
    LowEnd = 2
    KernelStart = 1
    KernelEnd = 3
    BmStart = 2
    BmSize = 1
    MarkRanges <- MCMarkRanges
    Clients = {c1, c2, c3}
SPECIFICATION Spec
SYMMETRY ClientSymmetry
INVARIANTS OnlyUsableHandedOut
CHECK_DEADLOCK FALSE
