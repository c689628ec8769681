SPECIFICATION InstallSpec
CONSTANTS
    Procs = {1, 2}
    Launchers = {1}
    URLs = {"u1"}
    MaxVersion = 3
    MaxBackups = 2
INVARIANTS ExecutableKept OnlyVerifiedInstalled 
CHECK_DEADLOCK FALSE
