SPECIFICATION TimerSpec
CONSTANTS
    Writer = {w1, w2}
    Applier = {a1, a2}
    Timers = {a1}
    MaxRetries = 2
    Crashes = TRUE
    None = None
    MaxVersions = 3
INVARIANTS TypeOK KernelValidated
PROPERTIES NoLostUpdate ImplementsStore Termination LockReleased CatchesUp
