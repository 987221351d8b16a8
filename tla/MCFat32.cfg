CONSTANTS
    Sectors <- MCSectors
    POLLS = 1
    NoSector = NoSector
    SECTOR = 2
    FAT_ENTRIES = 2
    DIRENTS = 2
    MAX_LFN = 2
    PART_LBA = 1
    FAT_EOC = 50
    Bpb <- MCBpb
    FAT <- MCFAT
    Dirs <- MCDirs
    Offsets = {0, 3, 4, 9}
    Sizes = {1, 5, 20}
    GarbageClusters = {0, 50}
    GarbageDirents <- MCGarbageDirents
    MaxEntries = 3
SPECIFICATION Spec
INVARIANTS SectorAsAsked ReadsFile LoadsDirectory NoOverrun
PROPERTIES CallsEnd
CHECK_DEADLOCK FALSE
