SPECIFICATION FairSpec
CONSTANTS
  r1 = r1  r2 = r2
  Readers <- TwoReaders
  Trouble <- Restart
  MaxPending = 2
PROPERTIES SessionHeard
