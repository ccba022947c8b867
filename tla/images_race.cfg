SPECIFICATION Spec
CONSTANTS
  k1 = k1
  k2 = k2
  p1 = p1
  p2 = p2
  t1 = t1
  t2 = t2
  None = None
  Keys <- TwoKeys
  Passwords <- OnePassword
  Imported <- NoneOnly
  MaxKills = 0
  Threads <- TwoThreads
  MaxAnswers = 3
  ListLimit = 2
INVARIANTS
  OneOriginal
