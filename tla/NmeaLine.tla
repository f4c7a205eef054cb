------------------------------ MODULE NmeaLine ------------------------------
(* How the GPS HAL cuts the bytes of the tty into sentences                   *)
(* (src/hal/gps/gnsshal/gps_zkw.c, nmea_reader_addc): characters gather in a  *)
(* buffer until a newline, and a line that does not fit is dropped up to its  *)
(* newline.  A character is told from another only by the line it is of and   *)
(* by being a newline.                                                        *)
EXTENDS Naturals, Sequences

CONSTANTS Size,      \* characters the buffer takes: sizeof(r->in) - 1
          MaxLen,    \* longest line sent, with its newline
          MaxLines   \* lines sent

ASSUME LineAssumption == /\ Size \in Nat \ {0}
                         /\ MaxLen \in Nat \ {0}
                         /\ MaxLines \in Nat \ {0}

VARIABLES pos,       \* r->pos
          overflow,  \* r->overflow
          held,      \* the lines that characters of the buffer come from
          lens,      \* the lengths of the lines begun so far
          left,      \* characters of the last one still to come
          parsed     \* the contents handed to nmea_reader_parse

vars == <<pos, overflow, held, lens, left, parsed>>

Init == /\ pos = 0 /\ overflow = 0 /\ held = {}
        /\ lens = <<>> /\ left = 0 /\ parsed = <<>>

\* The receiver begins a line.
Begin(n) == /\ left = 0 /\ Len(lens) < MaxLines
            /\ lens' = Append(lens, n)
            /\ left' = n
            /\ UNCHANGED <<pos, overflow, held, parsed>>

Newline == left = 1

\* A single character is dropped (a mutation).
SkipOnce == /\ left > 0 /\ overflow = 1
            /\ overflow' = 0
            /\ left' = left - 1
            /\ UNCHANGED <<pos, held, lens, parsed>>

\* Characters are dropped until the line ends.
Skip == /\ left > 0 /\ overflow = 1
        /\ overflow' = IF Newline THEN 0 ELSE 1
        /\ left' = left - 1
        /\ UNCHANGED <<pos, held, lens, parsed>>

\* A full buffer that keeps the beginning of the line (a mutation).
OverflowKeeps == /\ left > 0 /\ overflow = 0 /\ pos >= Size
                 /\ overflow' = 1
                 /\ left' = left - 1
                 /\ UNCHANGED <<pos, held, lens, parsed>>

\* The buffer is full: what it holds and this character are dropped.
Overflow == /\ left > 0 /\ overflow = 0 /\ pos >= Size
            /\ overflow' = 1
            /\ pos' = 0 /\ held' = {}
            /\ left' = left - 1
            /\ UNCHANGED <<lens, parsed>>

Store == /\ left > 1 /\ overflow = 0 /\ pos < Size
         /\ pos' = pos + 1
         /\ held' = held \cup {Len(lens)}
         /\ left' = left - 1
         /\ UNCHANGED <<overflow, lens, parsed>>

\* A newline completes the sentence.
Parse == /\ Newline /\ overflow = 0 /\ pos < Size
         /\ parsed' = Append(parsed, [lines |-> held \cup {Len(lens)}, size |-> pos + 1])
         /\ pos' = 0 /\ held' = {}
         /\ left' = 0
         /\ UNCHANGED <<overflow, lens>>

Done == left = 0 /\ Len(lens) = MaxLines /\ UNCHANGED vars

Next == (\E n \in 1 .. MaxLen : Begin(n)) \/ Skip \/ Overflow \/ Store \/ Parse \/ Done

Spec == Init /\ [][Next]_vars

-----------------------------------------------------------------------------
\* The buffer index stays inside the buffer, with room for the closing zero.
TypeOK == /\ pos \in 0 .. Size
          /\ overflow \in {0, 1}
          /\ left \in 0 .. MaxLen

\* "we received a complete sentence": what is parsed is one line, from its
\* first character to its newline, never the rest of one or two in one.
WholeLines == \A i \in 1 .. Len(parsed) : \E n \in 1 .. Len(lens) :
                parsed[i].lines = {n} /\ parsed[i].size = lens[n]

WasParsed(n) == \E i \in 1 .. Len(parsed) : parsed[i].lines = {n}

\* A line that fits is lost only behind one that is longer than the buffer by
\* exactly its newline: the reader takes that newline for an ordinary
\* character and drops the next line as well, but never a second one.
LossIsBounded ==
    left = 0 => \A n \in DOMAIN lens :
      lens[n] <= Size /\ ~WasParsed(n) => n > 1 /\ lens[n - 1] = Size + 1 /\ ~WasParsed(n - 1)
=============================================================================
