---------------------------- MODULE MCNmeaReader ----------------------------
(* NmeaReader with the epochs of NmeaSentences.                               *)
EXTENDS NmeaReader, NmeaSentences
=============================================================================
