SPECIFICATION FairSpec
CONSTANTS
  t1 = t1  t2 = t2  t3 = t3
  s1 = s1  s2 = s2
  hdmi = hdmi  absent = absent
  NoThread = NoThread
  NoPcm = NoPcm
  Threads <- ThreeThreads
  Streams <- TwoStreams
  Cards <- TwoNamed
  Present <- OneReal
  Modulus = 1
INVARIANTS LockInv HandleInv FreedReleases
PROPERTIES WriterKeepsHandle SessionSpec WaiterServed DevLockReleased
