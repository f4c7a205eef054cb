--------------------------- MODULE MCGpsLifecycle ---------------------------
(* GpsLifecycle with two reader threads, in every environment or one.        *)
EXTENDS GpsLifecycle

CONSTANTS r1, r2

TwoReaders == {r1, r2}
Restart == {"restart"}
=============================================================================
