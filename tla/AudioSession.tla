--------------------------- MODULE AudioSession ---------------------------
(* What the audio HAL promises about its playback devices, without its locks *)
(* and its threads: a card plays for at most one stream at a time, a stream  *)
(* keeps its card until it gives it back, and only a stream that holds a     *)
(* card gains frames.                                                        *)
EXTENDS Naturals

CONSTANTS Streams,   \* output streams of the device
          Cards,     \* ALSA playback devices
          NoPcm,     \* not a card: the stream holds none
          Modulus    \* the frame counter wraps here

VARIABLES holds,     \* [Streams -> Cards or NoPcm], the card of each stream
          frames     \* [Streams -> 0 .. Modulus-1], the frames it has played

svars == <<holds, frames>>

SInit == /\ holds = [s \in Streams |-> NoPcm]
         /\ frames = [s \in Streams |-> 0]

\* A stream without a card takes one that no stream holds.
Acquire(s, c) == /\ holds[s] = NoPcm
                 /\ \A r \in Streams : holds[r] # c
                 /\ holds' = [holds EXCEPT ![s] = c]
                 /\ UNCHANGED frames

\* A buffer of the stream that holds a card is played.
Play(s) == /\ holds[s] # NoPcm
           /\ frames' = [frames EXCEPT ![s] = (@ + 1) % Modulus]
           /\ UNCHANGED holds

Release(s) == /\ holds[s] # NoPcm
              /\ holds' = [holds EXCEPT ![s] = NoPcm]
              /\ UNCHANGED frames

\* A stream without a card is opened anew and counts from zero.
Renew(s) == /\ holds[s] = NoPcm
            /\ frames' = [frames EXCEPT ![s] = 0]
            /\ UNCHANGED holds

SNext == \E s \in Streams : \/ \E c \in Cards : Acquire(s, c)
                            \/ Play(s)
                            \/ Release(s)
                            \/ Renew(s)

SSpec == SInit /\ [][SNext]_svars
=============================================================================
