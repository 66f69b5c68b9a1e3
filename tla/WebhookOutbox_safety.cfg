\* One event to two webhooks, two overlapping ticks: resends, deletions and a
\* crash; failing statements are in WebhookOutbox_live.cfg.
CONSTANTS
  e1 = e1
  e2 = e2
  w1 = w1
  w2 = w2
  t1 = t1
  t2 = t2
  Events = {e1}
  Webhooks = {w1, w2}
  Ticks = {t1, t2}
  RetrySteps = 1
  BATCH = 2
  Bounds <- ResendsAndCrash
SPECIFICATION Spec
SYMMETRY Symmetry
INVARIANTS TypeOK OneLoop CopiesCurrent QueuedForAllOrNone GivenUpOnlyWhenExhausted SuccessWasAccepted CopiesBounded
PROPERTIES OnlyResendReopens KeepsPromise
