\* Two phone logins and a QR login, in every order and overlap.
CONSTANTS
  p1 = p1
  p2 = p2
  q1 = q1
  r1 = r1
  Nobody = Nobody
  Phones = {p1, p2}
  Qrs = {q1}
  Requests = {r1}
  MaxFaults = 1
SPECIFICATION FairSpec
INVARIANTS TypeOK PromptsAreLive OwnCaller FailedLeavesNothing
PROPERTIES CallersAnswered
CHECK_DEADLOCK FALSE
