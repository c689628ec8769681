SPECIFICATION Spec
CONSTANTS
    Ports = {1, 2}
    Procs = {1, 2}
    Checks = {1, 2}
    Clients = {1}
    MaxBackends = 2
    MaxFailures = 1
    IdleTime = 1
INVARIANT OneBackend
PROPERTIES ExitsOnceIdle
CHECK_DEADLOCK FALSE
