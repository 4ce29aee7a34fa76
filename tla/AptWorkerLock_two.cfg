SPECIFICATION LockSpec
CONSTANTS
  NoWorker = NoWorker
  s1 = s1
  w1 = w1
  w2 = w2
  Workers = {s1,w1,w2}
  Strong = {s1}
  Stubborn = {w1}
  MaxLockAttempts = 1
  MaxTermAttempts = 2
  MaxFiles = 3
INVARIANTS
  OneHolder
CHECK_DEADLOCK FALSE
