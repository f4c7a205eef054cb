---------------------------- MODULE MCTtyReader ----------------------------
(* TtyReader with bytes of four bits and one frame of each interesting kind. *)
EXTENDS TtyReader

\* A key, a charger that is there, voltages without and with 0x5A.
Kinds == {[cmd |-> KEY, data |-> <<1>>], [cmd |-> CHARGE, data |-> <<4>>],
          [cmd |-> VOLTAGE, data |-> <<0, 1>>], [cmd |-> VOLTAGE, data |-> <<7, 5>>]}
=============================================================================
