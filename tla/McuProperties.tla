---------------------------- MODULE McuProperties ----------------------------
(* The properties sys.rpi4.ttyreader.* and what ttyreader                     *)
(* (src/service/cutiepi/ttyreader/readall_mcu.c) promises to those who read   *)
(* them: if it is decided whether there is a microcontroller, then once and   *)
(* for good; nothing is reported before; and what is reported is set one      *)
(* property at a time.  That it is decided at all is not promised: a reader   *)
(* that cannot open the UART sets nothing.  TtyReader implements it, and      *)
(* Battery relies on nothing else.                                            *)
EXTENDS Integers

VARIABLES valid, voltage, charge

mcu == <<valid, voltage, charge>>

Unset == -1

McuInit == valid = Unset /\ voltage = Unset /\ charge = Unset

Validate == valid = Unset /\ valid' = 1 /\ UNCHANGED <<voltage, charge>>

GiveUp == valid = Unset /\ valid' = 0 /\ UNCHANGED <<voltage, charge>>

\* An average that is one of voltages is reported.
Measure(voltages) == valid = 1 /\ voltage' \in voltages /\ UNCHANGED <<valid, charge>>

Charge == valid = 1 /\ charge' \in {0, 1} /\ UNCHANGED <<valid, voltage>>

McuNext(voltages) == Validate \/ GiveUp \/ Measure(voltages) \/ Charge

-----------------------------------------------------------------------------
\* What the health HAL relies on: whether there is a microcontroller is decided
\* at most once, and before anything is reported.
McuSpec == McuInit /\ [][McuNext(Nat)]_mcu
=============================================================================
