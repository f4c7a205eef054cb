------------------------------- MODULE MCGpio -------------------------------
(* Gpio with two lines, one of which gpiosetd may also be told to set.       *)
EXTENDS Gpio

SomeSettings == {{}, {23}}
=============================================================================
