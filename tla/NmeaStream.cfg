SPECIFICATION StreamSpec
CONSTANTS
  Size = 2
  MaxLen = 4
  MaxLines = 21
  Epochs <- AllEpochs
  MaxEpoch = 3
  MaxLost = 4
  NMEA_MAX_SV_INFO = 2
  GNSS_MAX_SVS = 4
  Normal <- LineLength
INVARIANTS WholeLines LossIsBounded SvExact FixExact
