SPECIFICATION Spec
CONSTANTS
  r1 = r1
  r2 = r2
  s1 = s1
  s2 = s2
  todo = todo
  bad = bad
  plain = plain
  Requests = {r1, r2}
  Sessions <- MCSessions
  Contents <- MCContents
  Intents <- Effectful
  Refused = bad
  Lifetime = 1
  MaxTime = 1
  MaxFaults = 1
  MaxRestarts = 0
SYMMETRY Symmetric
INVARIANTS
  TokenGrantedOnce
