\* One event to two webhooks; no crash, no fault.
CONSTANTS
  e1 = e1
  e2 = e2
  w1 = w1
  w2 = w2
  t1 = t1
  t2 = t2
  Events = {e1}
  Webhooks = {w1, w2}
  Ticks = {t1}
  RetrySteps = 1
  BATCH = 2
  Bounds <- Untouched
SPECIFICATION Spec
INVARIANTS RowPerMatch
