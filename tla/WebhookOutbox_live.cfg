\* Two events to one webhook, one row per batch: each row sent again once and a crash, or
\* a crash, a failing statement and a rotation; no symmetry (liveness).
CONSTANTS
  e1 = e1
  e2 = e2
  w1 = w1
  w2 = w2
  t1 = t1
  t2 = t2
  Events = {e1, e2}
  Webhooks = {w1}
  Ticks = {t1}
  RetrySteps = 1
  BATCH = 1
  Bounds <- ResendsOrFaults
SPECIFICATION FairSpec
PROPERTIES EveryRowSettles
