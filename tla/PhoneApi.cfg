SPECIFICATION Spec
CONSTANTS
  s1 = s1
  s2 = s2
  c1 = c1
  c2 = c2
  h1 = h1
  t1 = t1
  t2 = t2
  Sessions = {s1, s2}
  Codes = {c1, c2}
  PairingLifetime = 1
  SessionLifetime = 1
  Actions = {a1}
  a1 = a1
  Hosts = {h1}
  Threads = {t1, t2}
  AttemptWindow = 2
  AttemptLimit = 2
  MaxTime = 2
  MaxPairings = 2
  MaxAttempts = 3
SYMMETRY Symmetric
INVARIANTS
  ApiInv
  CodePairsOnePhone
  ConsentByOwnersPhone
  AttemptsLimited
PROPERTIES
  EndedStaysOut
