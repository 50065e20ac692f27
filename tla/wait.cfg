SPECIFICATION FairSpec
CONSTANTS
  t1 = t1
  t2 = t2
  t3 = t3
  h1 = h1
  h2 = h2
  NoHandle = NoHandle
  NoThread = NoThread
  Threads <- ThreeThreads
  Handles <- TwoHandles
INVARIANT TypeOK
INVARIANT NoLostWakeup
PROPERTY CallsAreAtomic
PROPERTY WaitersReturn
