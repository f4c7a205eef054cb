SPECIFICATION FairSpec
CONSTANTS
  r1 = r1  r2 = r2
  Readers <- TwoReaders
  Trouble <- Troubles
  MaxPending = 2
INVARIANTS FreshStart NoStaleNumbers
PROPERTIES CalmSessionHeard StopEndsReader
