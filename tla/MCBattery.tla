----------------------------- MODULE MCBattery -----------------------------
(* Battery with a table of three levels and voltages on and around them.     *)
EXTENDS Battery

ThreeLevels == {<<30, 1>>, <<34, 50>>, <<38, 100>>}
AroundThem == {30, 31, 34, 36, 39}
=============================================================================
