------------------------------ MODULE TtyReader ------------------------------
(* ttyreader (src/service/cutiepi/ttyreader/readall_mcu.c): the CutiePi's      *)
(* microcontroller sends frames over a UART,                                  *)
(*   0x5A 0xA5 command length(2) data checksum,                               *)
(* and the reader turns them into properties.  After every batch of bytes it  *)
(* flushes the UART, so whatever arrives while it parses is lost.             *)
EXTENDS McuProperties, Sequences

CONSTANTS Base,        \* values of a byte (256 in the code)
          SOF, HDR,    \* 0x5A and 0xA5
          Frames,      \* what the microcontroller may send: [cmd, data]
          Count,       \* frames it sends
          HistorySize, \* length of mVoltageHistory (10 in the code)
          MaxIdle,     \* idle polls before the reader gives up (20)
          MaxGaps,     \* bound on flushes that lose something
          Garbage      \* numbers that may be left on the stack

Byte == 0 .. Base - 1
KEY == 1
VOLTAGE == 2
CHARGE == 3
LONG == 4              \* a command whose data is not collected

\* The sum of a sequence of numbers, and of its beginnings.
Sums(s) == LET sum[i \in 0 .. Len(s)] == IF i = 0 THEN 0 ELSE sum[i - 1] + s[i] IN sum
Sum(s) == Sums(s)[Len(s)]

\* A frame as it goes over the line.
Body(f) == <<SOF, HDR, f.cmd, Len(f.data) % Base, Len(f.data) \div Base>> \o f.data
Bytes(f) == Append(Body(f), Sum(Body(f)) % Base)

ASSUME TtyAssumption ==
    /\ Base \in Nat /\ SOF \in Byte /\ HDR \in Byte /\ SOF # HDR
    /\ \A f \in Frames : /\ f.cmd \in Byte /\ f.data \in Seq(Byte)
                         /\ Len(f.data) \in 1 .. Base * Base - 1
    /\ Count \in Nat \ {0} /\ HistorySize \in Nat \ {0}
    /\ MaxIdle \in Nat /\ MaxGaps \in Nat
    /\ Garbage \subseteq Int /\ Garbage # {}

\* The data of a frame is a positive int, or not collected; and no 0x5A inside of a
\* frame has an 0xA5 behind it in that frame.
ASSUME FrameAssumption ==
    \A f \in Frames :
      /\ f.cmd # LONG => Len(f.data) <= 4 /\ (Len(f.data) = 4 => 2 * f.data[4] < Base)
      /\ \A i, j \in 3 .. Len(Bytes(f)) : i < j => ~(Bytes(f)[i] = SOF /\ Bytes(f)[j] = HDR)

VARIABLES sent,      \* the frames the microcontroller sends
          here,      \* the place of the next byte to arrive: [frame, at]
          state,     \* where the reader is
          charpos, mCmd, payload_len, mChecksum, mData, mDataBytes,
          history, next,               \* mVoltageHistory and its index
          idle,      \* mCheckCount
          gaps,      \* flushes that lost something
          heard,     \* (history) what was reported, and at which frame's end
          last,      \* (history) the place of the byte parsed last
          whole,     \* (history) bytes of a frame parsed without a gap, or 0
          gap        \* (history) 1 if bytes were lost since the last 0x5A

parser == <<charpos, mCmd, payload_len, mChecksum, mData, mDataBytes>>
props == <<valid, voltage, charge, history, next, heard>>
traces == <<last, whole, gap>>
vars == <<sent, here, state, parser, props, idle, gaps, traces>>

-----------------------------------------------------------------------------
\* The line: the bytes of all frames, one after another.
Place(n, i) == [frame |-> n, at |-> i]
Size(n) == Len(Bytes(sent[n]))
After(x) == IF x.at < Size(x.frame) THEN Place(x.frame, x.at + 1) ELSE Place(x.frame + 1, 1)
Places == {Place(Count + 1, 1)} \cup UNION {{Place(n, i) : i \in 1 .. Size(n)} : n \in 1 .. Count}
Upto(x) == {y \in Places : y.frame > x.frame \/ (y.frame = x.frame /\ y.at >= x.at)}

\* The reader may begin within a frame; charpos and payload_len are used before
\* they are set, and start as whatever is on the stack.
Init == /\ sent \in [1 .. Count -> Frames]
        /\ \E i \in 1 .. Size(1) : here \in {Place(1, i), After(Place(1, i))}
        /\ state = "open" /\ idle = 0 /\ gaps = 0
        /\ charpos \in 0 .. 6 /\ payload_len \in Garbage
        /\ mCmd = 0 /\ mChecksum = 0 /\ mData = 0 /\ mDataBytes = 0
        /\ McuInit
        /\ history = [i \in 0 .. HistorySize - 1 |-> 0] /\ next = 0
        /\ heard = <<>>
        /\ last = Place(0, 0) /\ whole = 0 /\ gap = 1

-----------------------------------------------------------------------------
\* main
Arriving == here.frame <= Count

\* serialOpen succeeds ...
Open == /\ state = "open"
        /\ state' = "poll"
        /\ UNCHANGED <<sent, here, parser, props, idle, gaps, traces>>

\* ... or it fails, and the reader exits and says nothing of a microcontroller.
OpenFails == /\ state = "open"
             /\ state' = "failed"
             /\ UNCHANGED <<sent, here, parser, props, idle, gaps, traces>>

\* serialDataAvail finds some bytes; how many shows when the batch ends.
Batch == /\ state = "poll" /\ Arriving
         /\ state' = "batch"
         /\ UNCHANGED <<sent, here, parser, props, idle, gaps, traces>>

\* Idle polls that count for a validated reader too (a mutation).
IdleCounts ==
        /\ state = "poll"
        /\ idle' = idle + 1
        /\ IF idle' > MaxIdle THEN valid' = 0 /\ state' = "exited" ELSE UNCHANGED <<valid, state>>
        /\ UNCHANGED <<sent, here, parser, voltage, charge, history, next, heard, gaps, traces>>

\* A reader that gives up without saying so (a mutation).
IdleSilent ==
        /\ state = "poll"
        /\ idle' = IF valid = 1 THEN idle ELSE idle + 1
        /\ state' = IF idle' > MaxIdle /\ valid # 1 THEN "exited" ELSE state
        /\ UNCHANGED <<sent, here, parser, props, gaps, traces>>

\* serialDataAvail finds nothing: the reader sleeps, or gives up for good.
Idle == /\ state = "poll"
        /\ idle' = IF valid = 1 THEN idle ELSE idle + 1
        /\ IF idle' > MaxIdle /\ valid # 1
             THEN valid' = 0 /\ state' = "exited"
             ELSE UNCHANGED <<valid, state>>
        /\ UNCHANGED <<sent, here, parser, voltage, charge, history, next, heard, gaps, traces>>

\* The next byte of the batch.
Get == state \in {"batch", "read"} /\ Arriving
gchar == Bytes(sent[here.frame])[here.at]
Follows == last.frame # 0 /\ here = After(last)
Consume == /\ here' = After(here)
           /\ last' = here
           /\ whole' = IF here.at = 1 \/ (Follows /\ whole > 0) THEN here.at ELSE 0
           /\ gap' = IF gchar = SOF THEN 0 ELSE IF Follows THEN gap ELSE 1
           /\ state' = "read"
           /\ UNCHANGED <<sent, idle, gaps>>

\* A start that is only seen between frames (a mutation).
StartBetween == /\ Get /\ gchar = SOF
                /\ Consume
                /\ charpos' = IF charpos = 0 THEN 1 ELSE charpos
                /\ mChecksum' = IF charpos = 0 THEN gchar ELSE mChecksum
                /\ UNCHANGED <<mCmd, payload_len, mData, mDataBytes, props>>

\* Every 0x5A starts a frame, wherever it stands.
Start == /\ Get /\ gchar = SOF
         /\ Consume
         /\ charpos' = 1 /\ mChecksum' = gchar
         /\ UNCHANGED <<mCmd, payload_len, mData, mDataBytes, props>>

\* A byte that is added to the checksum and moves the parser on.
Summed(k) == Consume /\ mChecksum' = mChecksum + gchar /\ charpos' = k

Header == /\ Get /\ gchar = HDR /\ charpos = 1
          /\ Summed(2)
          /\ UNCHANGED <<mCmd, payload_len, mData, mDataBytes, props>>

Command == /\ Get /\ gchar # SOF /\ charpos = 2
           /\ Summed(3)
           /\ mCmd' = gchar
           /\ UNCHANGED <<payload_len, mData, mDataBytes, props>>

LengthLow == /\ Get /\ gchar # SOF /\ charpos = 3
             /\ Summed(4)
             /\ payload_len' = gchar
             /\ UNCHANGED <<mCmd, mData, mDataBytes, props>>

\* Data that is added to that of the frame before (a mutation).
LengthHighKeeps == /\ Get /\ gchar # SOF /\ charpos = 4
                   /\ Summed(5)
                   /\ payload_len' = gchar * Base + payload_len
                   /\ mDataBytes' = 0
                   /\ UNCHANGED <<mCmd, mData, props>>

LengthHigh == /\ Get /\ gchar # SOF /\ charpos = 4
              /\ Summed(5)
              /\ payload_len' = gchar * Base + payload_len
              /\ mData' = 0 /\ mDataBytes' = 0
              /\ UNCHANGED <<mCmd, props>>

\* What a byte that is shifted by k places is multiplied with.
Weight(k) == <<1, Base, Base * Base, Base * Base * Base>>[k + 1]

\* The data is collected, least byte first, until the length is counted down; the
\* processor takes the number of bits to shift modulo 32.
Data == /\ Get /\ gchar # SOF /\ charpos = 5
        /\ Summed(IF payload_len = 1 THEN 6 ELSE 5)
        /\ payload_len' = payload_len - 1
        /\ mData' = IF mCmd # LONG THEN mData + gchar * Weight(mDataBytes % 4) ELSE mData
        /\ mDataBytes' = mDataBytes + 1
        /\ UNCHANGED <<mCmd, props>>

\* An average over the empty places as well (a mutation).
AverageAll(h) == Sum([i \in 1 .. HistorySize |-> h[i - 1]]) \div HistorySize

\* calcMedianVoltage: the average of what is in the history.
Average(h) == LET sum == Sum([i \in 1 .. HistorySize |-> h[i - 1]])
                  values == Sum([i \in 1 .. HistorySize |-> IF h[i - 1] # 0 THEN 1 ELSE 0])
              IN  IF values = 0 THEN 0 ELSE sum \div values

Reset == charpos' = 0 /\ mChecksum' = 0 /\ payload_len' = 0 /\ UNCHANGED <<mCmd, mData, mDataBytes>>

StoreVoltage == /\ history' = [history EXCEPT ![next] = mData]
                /\ next' = IF next = HistorySize - 1 THEN 0 ELSE next + 1
                /\ voltage' = Average(history')

\* The checksum is right: there is a microcontroller ...
Validated == /\ Get /\ gchar # SOF /\ charpos = 6 /\ gchar = mChecksum % Base
             /\ state' = "report" /\ valid' = 1
             /\ UNCHANGED <<sent, here, parser, voltage, charge, history, next, heard, idle, gaps, traces>>

\* ... and the frame is reported, by a property of its own.
GoodFrame ==
    /\ state = "report"
    /\ Consume
    /\ IF mCmd = VOLTAGE THEN StoreVoltage ELSE UNCHANGED <<history, next, voltage>>
    /\ charge' = IF mCmd = CHARGE THEN (IF mData = 4 THEN 1 ELSE 0) ELSE charge
    /\ heard' = Append(heard, [cmd |-> mCmd, data |-> mData, frame |-> here.frame, gap |-> gap'])
    /\ Reset
    /\ UNCHANGED valid

BadFrame == /\ Get /\ gchar # SOF /\ charpos = 6 /\ gchar # mChecksum % Base
            /\ Consume
            /\ Reset
            /\ UNCHANGED props

\* Before a frame, and between its first two bytes, any byte is passed over.
Ignore == /\ Get /\ gchar # SOF /\ (charpos = 0 \/ (charpos = 1 /\ gchar # HDR))
          /\ Consume
          /\ UNCHANGED <<parser, props>>

\* The batch ends, and serialFlush throws away what came meanwhile.
Flush == /\ state = "read"
         /\ here' \in Upto(here)
         /\ gaps' = IF here' = here THEN gaps ELSE gaps + 1
         /\ gaps' <= MaxGaps
         /\ state' = "poll"
         /\ UNCHANGED <<sent, parser, props, idle, traces>>

-----------------------------------------------------------------------------
Reader == \/ Open \/ OpenFails \/ Batch \/ Idle \/ Start \/ Header \/ Command \/ LengthLow \/ LengthHigh
          \/ Data \/ Validated \/ GoodFrame \/ BadFrame \/ Ignore \/ Flush

Spec == Init /\ [][Reader]_vars /\ WF_vars(Reader)

-----------------------------------------------------------------------------
\* The number in a frame's data.
Value(f) == IF f.cmd = LONG THEN 0
            ELSE Sum([i \in 1 .. Len(f.data) |-> f.data[i] * Weight(i - 1)])

\* Whatever was lost before, and wherever the reader began: a report made from
\* bytes with no gap since the last 0x5A is one of a frame that was sent.
OnlySent == \A i \in DOMAIN heard : heard[i].gap = 0 =>
              /\ heard[i].cmd = sent[heard[i].frame].cmd
              /\ heard[i].data = Value(sent[heard[i].frame])

\* A frame without a second 0x5A that is read from end to end, in one batch or
\* in several, is reported, whatever the reader was in the middle of.
Clean(f) == \A i \in 2 .. Len(Bytes(f)) : Bytes(f)[i] # SOF
WholeIsHeard ==
    last.frame # 0 /\ Clean(sent[last.frame]) /\ whole = Len(Bytes(sent[last.frame])) =>
      \E i \in DOMAIN heard : heard[i].frame = last.frame /\ heard[i].gap = 0

\* With no broken frame reported, the voltage lies between voltages measured.
VoltageBetween ==
    voltage # Unset /\ (\A i \in DOMAIN heard : heard[i].gap = 0) => \E low, high \in {sent[heard[i].frame] : i \in DOMAIN heard} :
                         /\ low.cmd = VOLTAGE /\ high.cmd = VOLTAGE
                         /\ Value(low) <= voltage /\ voltage <= Value(high)

\* A reader that has the UART and finds the line silent has decided or comes to
\* decide whether there is a microcontroller, whatever arrived, was lost or was
\* broken before: the health HAL, which waits for it, is answered.
Decided == state = "poll" /\ ~Arriving ~> valid # Unset
=============================================================================
