\* A restart during a passing fault.
CONSTANTS
  a1 = a1
  a2 = a2
  t1 = t1
  c1 = c1
  c2 = c2
  c3 = c3
  k1 = k1
  k2 = k2
  Boot = Boot
  NoClient = NoClient
  NoKey = NoKey
  Calls = {a1}
  Timers = {}
  Clients = {c1, c2}
  Keys = {k1}
  MaxFaults = 1
  MaxCrashes = 1
SPECIFICATION Spec
PROPERTIES SurvivesRestart
CHECK_DEADLOCK FALSE
