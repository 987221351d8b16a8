CONSTANTS
    MaxPages = 8
    PageSize = 2
    UptrMod = 64
    Maps <- MCAllMaps
    LowEnd = 2
    KernelStart = 1
    KernelEnd = 3
    BmStart = 2
    BmSize = 1
    MarkRanges <- MCMarkRanges
    Clients = {c1, vmm}
    PageTables = vmm
    EfiDescriptors <- MCDescriptors
    MaxE820 = 3
    NVirt = 16
    Fans <- MCFans
    IdentityRoots <- MCRoots
    Requests <- MCRequests
SPECIFICATION MSpec
INVARIANTS TypeOK ExclusiveOwnership HeldPagesMarked UsedBytesExact OnlyUsableHandedOut TablesPrivate
PROPERTIES IsAddressSpace
CHECK_DEADLOCK FALSE
