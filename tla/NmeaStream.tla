----------------------------- MODULE NmeaStream -----------------------------
(* The reader of the GPS HAL from the bytes of the tty to the reports         *)
(* (src/hal/gps/gnsshal/gps_zkw.c): NmeaLine, which cuts bytes into lines,    *)
(* hands every line it completes to NmeaReader.  The receiver sends each      *)
(* sentence as one line; those the reader never sees are the lines NmeaLine   *)
(* drops, and nothing else is lost.                                           *)
EXTENDS NmeaLine, NmeaReader

CONSTANT Normal(_)  \* the length of a sentence's line, unless it is longer than fits

ASSUME StreamAssumption ==
    \A e \in Epochs : \A i \in DOMAIN e : Normal(e[i]) \in 1 .. MaxLen

streamVars == <<vars, readerVars>>

StreamInit == Init /\ ReaderInit

\* The line of the next sentence begins.  A line that does not fit may take the
\* next one with it, so there is one only while two more may be lost.
SendLine == /\ out # <<>>
            /\ \/ Begin(Normal(Head(out)))
               \/ /\ lost + overflow + 2 <= MaxLost
                  /\ \E n \in Size + 1 .. MaxLen : Begin(n)
            /\ UNCHANGED readerVars

\* nmea_reader_addc inside a line.
Character == /\ ~Newline
             /\ Store \/ Overflow \/ Skip
             /\ UNCHANGED readerVars

\* A newline that completes a line: nmea_reader_addc calls nmea_reader_parse.
Complete == Parse /\ Receive

\* The newline of a line that is dropped.
Dropped == Newline /\ (Overflow \/ Skip) /\ Lose

NextEpoch == NewEpoch /\ UNCHANGED vars

StreamDone == ReaderDone /\ UNCHANGED streamVars

StreamNext == SendLine \/ Character \/ Complete \/ Dropped \/ NextEpoch \/ StreamDone

StreamSpec == StreamInit /\ [][StreamNext]_streamVars
=============================================================================
