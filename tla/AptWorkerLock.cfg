SPECIFICATION LockFairSpec
CONSTANTS
  NoWorker = NoWorker
  s1 = s1
  s2 = s2
  w1 = w1
  w2 = w2
  Workers = {s1,s2,w1,w2}
  Strong = {s1,s2}
  Stubborn = {w1}
  MaxLockAttempts = 1
  MaxTermAttempts = 1
  MaxFiles = 4
INVARIANTS
  LockInv
  OnlyWeakHoldersSignalled
  OneHolderUntilUnlink
PROPERTIES
  EveryWorkerDecides
CHECK_DEADLOCK FALSE
