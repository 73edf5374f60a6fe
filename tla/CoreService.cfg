SPECIFICATION FairSpec
CONSTANTS
  r1 = r1
  r2 = r2
  s1 = s1
  s2 = s2
  todo = todo
  bad = bad
  plain = plain
  Requests = {r1, r2}
  Sessions <- MCSessions
  Contents <- MCContents
  Intents <- MCIntents
  Refused = bad
  Lifetime = 1
  MaxTime = 2
  MaxFaults = 1
  MaxRestarts = 1
INVARIANTS
  TypeOK
  ServiceInv
  PendingExactlyWhileAwaiting
  RunsUnderConsent
  ReceiptsTellTheTrail
  LatestReceiptCurrent
  UndisturbedTrails
PROPERTIES
  HistoryIsFinal
  ImplementsContract
  GrantSettles
