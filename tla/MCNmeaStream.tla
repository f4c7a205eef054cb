---------------------------- MODULE MCNmeaStream ----------------------------
(* NmeaStream with a buffer of two characters: sentences of the position fill *)
(* it, others are a newline alone, and any line may be too long.              *)
EXTENDS NmeaStream, NmeaSentences

LineLength(s) == IF s.type \in {"RMC", "GGA"} THEN 2 ELSE 1
=============================================================================
