SPECIFICATION FairSpec
CONSTANTS
  Threads = {t1, t2}
  Udata = {u1, u2}
  NoThread = NoThread
  EpochMax = 4
INVARIANTS
  NoUseAfterFree
  EpochsOrdered
  EagerReclaim
  IndInv
PROPERTIES
  GracePeriodSpec
  StaleReclaimed
