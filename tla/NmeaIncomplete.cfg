SPECIFICATION ReaderSpec
CONSTANTS
  Epochs <- AllEpochs
  MaxEpoch = 1
  MaxLost = 1
  NMEA_MAX_SV_INFO = 2
  GNSS_MAX_SVS = 4
INVARIANTS IncompleteIgnored
