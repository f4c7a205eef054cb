----------------------------- MODULE MCBtAttach -----------------------------
(* BtAttach with the speeds of the code, three records and up to six troubles.                     *)
EXTENDS BtAttach
=============================================================================
