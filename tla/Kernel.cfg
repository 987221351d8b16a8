CONSTANTS
    Threads = {idle, shell}
    Idle = idle
    Shell = shell
    NULL = NULL
    SCHED_QUANTUM_TICKS = 2
    SleepTimes = {}
    MaxTicks = 3
    KeyCapacity = 2
    MaxDue = 2
SPECIFICATION KSpec
INVARIANTS HandlerBeforeUnmask KeyboardStaysOn
PROPERTIES HaltEnds BootEnds
