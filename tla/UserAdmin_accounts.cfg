CONSTANTS
  Ids = {u1, u2, u3}
  u1 = u1
  u2 = u2
  u3 = u3
  Names = {"admin", "ana"}
  SeedName = "admin"
  Secrets = {s1, s2}
  s1 = s1
  s2 = s2
  Bounds <- LongOrBusy
  Requests = {r1, r2}
  r1 = r1
  r2 = r2
SPECIFICATION Spec
SYMMETRY Symmetric
INVARIANTS TypeOK ApiAfterSchema AdminSurvives
PROPERTIES SecretsStable SeedLeavesManaged OwnRoleKept
CHECK_DEADLOCK FALSE
