CONSTANTS
  Licenses = {l1, l2}
  Versions = {1, 2}
  LaterFirst = TRUE
  MayFail = TRUE
  MaxRestarts = 1
  MaxStale = 0
SPECIFICATION Spec
INVARIANTS UsesOnlyLiving RunsWithConsent FatalOnlyAfterFailure
PROPERTY RejectionDisables
