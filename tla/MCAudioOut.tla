----------------------------- MODULE MCAudioOut -----------------------------
(* AudioOut with three threads, two streams and a card that is not there.    *)
EXTENDS AudioOut

CONSTANTS t1, t2, t3, s1, s2, hdmi, absent

ThreeThreads == {t1, t2, t3}
TwoStreams == {s1, s2}
TwoNamed == {hdmi, absent}
OneReal == {hdmi}
=============================================================================
