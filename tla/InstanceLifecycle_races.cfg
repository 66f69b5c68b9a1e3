\* Two calls and the health check at once, a second login over the first.  A
\* statement still throws when the row is gone; passing faults are in _live.
CONSTANTS
  a1 = a1
  a2 = a2
  t1 = t1
  c1 = c1
  c2 = c2
  c3 = c3
  k1 = k1
  k2 = k2
  Boot = Boot
  NoClient = NoClient
  NoKey = NoKey
  Calls = {a1, a2}
  Timers = {t1}
  Clients = {c1, c2}
  Keys = {k1, k2}
  MaxFaults = 0
  MaxCrashes = 0
SPECIFICATION Spec
SYMMETRY Symmetry
INVARIANTS TypeOK LiveIsWatched OneListener LostExclusive
CHECK_DEADLOCK FALSE
