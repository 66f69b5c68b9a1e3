\* Calls one at a time, no timer, nothing fails; revocations and crashes.
CONSTANTS
  a1 = a1
  a2 = a2
  t1 = t1
  c1 = c1
  c2 = c2
  c3 = c3
  k1 = k1
  k2 = k2
  Boot = Boot
  NoClient = NoClient
  NoKey = NoKey
  Calls = {a1}
  Timers = {}
  Clients = {c1, c2, c3}
  Keys = {k1, k2}
  MaxFaults = 0
  MaxCrashes = 2
SPECIFICATION Spec
SYMMETRY Symmetry
INVARIANTS QuietIsConsistent
CHECK_DEADLOCK FALSE
