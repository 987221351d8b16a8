CONSTANTS
    KEY_BUF_SIZE = 3
    LINE_MAX = 2
    Keys = {"A", "BKSP", "ENTER"}
    ModKeys = {"LSHIFT"}
    sc_ascii <- MCAscii
    sc_shift <- MCShift
    NoEvent = NoEvent
SPECIFICATION Spec
PROPERTIES IsFifo EventuallyRead
