CONSTANTS
    Threads = {idle, t1, t2, t3}
    Idle = idle
    NULL = NULL
    SCHED_QUANTUM_TICKS = 2
    SleepTimes = {10}
    MaxTicks = 2
SPECIFICATION Spec
INVARIANTS RingOK StateMatchesQueue ContextsValid
PROPERTIES ZombiesStay IsRoundRobin ReadyRuns
