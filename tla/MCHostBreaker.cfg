SPECIFICATION HostSpec
CONSTANTS
  Hosts = {h1, h2}
  Callers = {r1, r2, r3}
  HostThreshold = 2
  HostCooldown = 2
  HostProbeTTL = 3
INVARIANT FailedHostStaysGuarded
PROPERTY AdmitsAgain
