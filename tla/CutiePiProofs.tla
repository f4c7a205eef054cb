---------------------------- MODULE CutiePiProofs ----------------------------
(* Proofs about a CutiePi's battery: TtyReader for any frames, any size of a  *)
(* byte, any history and any number of gaps; Battery for any table of levels; *)
(* and CutiePi, in which the two meet.  What the reader reports rests on one  *)
(* fact: with no gap since the last 0x5A the parser is in the frame the line  *)
(* is in, at the same place, with all that this frame said so far.            *)
EXTENDS CutiePi, SequenceTheorems, WellFoundedInduction, TLAPS

-----------------------------------------------------------------------------
(* ttyreader                                                                  *)
Report == [cmd : Nat, data : Nat, frame : 1 .. Count, gap : {0, 1}]

OnLine(x) == x.frame \in 1 .. Count /\ x.at \in 1 .. Size(x.frame) /\ x = Place(x.frame, x.at)

PlaceInv ==
    /\ sent \in [1 .. Count -> Frames]
    /\ OnLine(here) \/ here = Place(Count + 1, 1)
    /\ last = Place(0, 0) \/ OnLine(last)
    /\ whole \in Nat /\ gap \in {0, 1}
    /\ last = Place(0, 0) => whole = 0 /\ gap = 1

ParserInv ==
    /\ charpos \in 0 .. 6 /\ mCmd \in Nat /\ payload_len \in Int
    /\ mChecksum \in Nat /\ mData \in Nat /\ mDataBytes \in Nat

PropsInv ==
    /\ valid \in {Unset, 0, 1} /\ voltage \in Nat \cup {Unset} /\ charge \in {Unset, 0, 1}
    /\ history \in [0 .. HistorySize - 1 -> Nat] /\ next \in 0 .. HistorySize - 1
    /\ heard \in Seq(Report)

TypeInv == PlaceInv /\ ParserInv /\ PropsInv

\* The number in the first k bytes of a frame's data.
Collected(f, k) == IF f.cmd = LONG THEN 0
                   ELSE Sums([i \in 1 .. Len(f.data) |-> f.data[i] * Weight(i - 1)])[k]

\* With no gap since the last 0x5A the parser is in the frame the line is in, at
\* the same place, with all that this frame said so far.
InFrame(f, i) ==
    /\ charpos = 1 => /\ mChecksum = SOF
                      /\ i = 1 \/ \E k \in 3 .. i : Bytes(f)[k] = SOF
    /\ charpos \in 2 .. 6 => mChecksum = Sums(Body(f))[i]
    /\ charpos \in 2 .. 4 => i = charpos
    /\ charpos \in 3 .. 6 => mCmd = f.cmd
    /\ charpos = 4 => payload_len = Len(f.data) % Base
    /\ charpos = 5 => /\ mDataBytes \in 0 .. Len(f.data) - 1
                      /\ i = 5 + mDataBytes
                      /\ payload_len = Len(f.data) - mDataBytes
                      /\ mData = Collected(f, mDataBytes)
    /\ charpos = 6 => i = 5 + Len(f.data) /\ mData = Value(f)

SyncInv == gap = 0 => InFrame(sent[last.frame], last.at)

\* A clean frame of which nothing is missing so far is being parsed, or reported.
HeardWhole(n) == \E i \in DOMAIN heard : heard[i].frame = n /\ heard[i].gap = 0
WholeInv == whole > 0 =>
    /\ last.at = whole
    /\ Clean(sent[last.frame]) =>
         /\ gap = 0
         /\ whole = 1 => charpos = 1
         /\ whole > 1 /\ whole < Size(last.frame) => charpos \in 2 .. 6
         /\ whole = Size(last.frame) => HeardWhole(last.frame)

ReportInv == /\ state \in {"open", "failed", "poll", "batch", "read", "report", "exited"}
             /\ state = "report" => /\ Arriving /\ gchar # SOF /\ charpos = 6
                                    /\ gchar = mChecksum % Base /\ valid = 1
             /\ valid # 1 => voltage = Unset /\ charge = Unset
             /\ state = "exited" <=> valid = 0

Measured(v) == \E i \in DOMAIN heard : heard[i].cmd = VOLTAGE /\ heard[i].data = v
VoltageInv ==
    /\ \A j \in 0 .. HistorySize - 1 : history[j] # 0 => Measured(history[j])
    /\ voltage # Unset => \E low, high \in Nat : /\ Measured(low) /\ Measured(high)
                                                 /\ low <= voltage /\ voltage <= high

IInv == TypeInv /\ SyncInv /\ WholeInv /\ ReportInv /\ VoltageInv /\ OnlySent
-----------------------------------------------------------------------------
\* The constants that are numbers.
LEMMA Numbers ==
    /\ Base \in Nat /\ Base > 0 /\ SOF \in Byte /\ HDR \in Byte /\ SOF # HDR
    /\ Count \in Nat \ {0} /\ HistorySize \in Nat \ {0} /\ Garbage \subseteq Int
  BY TtyAssumption DEF TtyAssumption, Byte

\* The sums of the beginnings of a sequence exist, by the well-foundedness of <
\* on the naturals: the set of lengths without them has no least element.
LEMMA SumsOf ==
    ASSUME NEW s \in Seq(Nat)
    PROVE /\ Sums(s) \in [0 .. Len(s) -> Nat]
          /\ Sums(s)[0] = 0
          /\ \A i \in 1 .. Len(s) : Sums(s)[i] = Sums(s)[i - 1] + s[i]
<1> DEFINE Are(g, n) == /\ g \in [0 .. n -> Nat] /\ g[0] = 0
                        /\ \A i \in 1 .. n : g[i] = g[i - 1] + s[i]
           Without == {n \in 0 .. Len(s) : ~ \E g : Are(g, n)}
<1>n. Len(s) \in Nat /\ \A i \in 1 .. Len(s) : s[i] \in Nat
  OBVIOUS
<1>1. Are([i \in 0 .. 0 |-> 0], 0)
  OBVIOUS
<1>2. ASSUME NEW n \in 1 .. Len(s), NEW g, Are(g, n - 1)
      PROVE Are([i \in 0 .. n |-> IF i = n THEN g[n - 1] + s[n] ELSE g[i]], n)
  <2> DEFINE h == [i \in 0 .. n |-> IF i = n THEN g[n - 1] + s[n] ELSE g[i]]
  <2>1. n \in Nat /\ n - 1 \in 0 .. n - 1 /\ s[n] \in Nat
    BY <1>n
  <2>2. h \in [0 .. n -> Nat]
    <3>1. \A i \in 0 .. n : i # n => i \in 0 .. n - 1
      BY <2>1
    <3> QED BY <1>2, <2>1, <3>1
  <2>3. h[0] = 0
    BY <1>2, <2>1
  <2>4. ASSUME NEW i \in 1 .. n PROVE h[i] = h[i - 1] + s[i]
    <3>1. CASE i = n
      BY <3>1, <2>1
    <3>2. CASE i # n
      <4>1. i \in 1 .. n - 1 /\ i - 1 \in 0 .. n /\ i - 1 # n
        BY <3>2, <2>1
      <4> QED BY <4>1, <3>2, <1>2
    <3> QED BY <3>1, <3>2
  <2> QED BY <2>2, <2>3, <2>4
<1>3. Without = {}
  <2> SUFFICES ASSUME Without # {} PROVE FALSE
    OBVIOUS
  <2>1. Without \subseteq Nat
    BY <1>n
  <2> HIDE DEF Without
  <2>2. PICK n \in Without : \A m \in Without : ~ <<m, n>> \in OpToRel(<, Nat)
    BY <2>1, NatLessThanWellFounded, WFMin
  <2>3. n \in 0 .. Len(s) /\ ~ \E g : Are(g, n)
    BY DEF Without
  <2>4. n # 0
    BY <1>1, <2>3
  <2>5. n - 1 \in 0 .. Len(s) /\ n - 1 \in Nat /\ n \in Nat /\ n - 1 < n /\ n \in 1 .. Len(s)
    BY <1>n, <2>3, <2>4
  <2>6. <<n - 1, n>> \in OpToRel(<, Nat)
    BY <2>5, SMT DEF OpToRel
  <2>7. n - 1 \notin Without
    BY <2>2, <2>6, Zenon
  <2>8. PICK g : Are(g, n - 1)
    <3> HIDE DEF Are
    <3> QED BY <2>5, <2>7 DEF Without
  <2>9. Are([i \in 0 .. n |-> IF i = n THEN g[n - 1] + s[n] ELSE g[i]], n)
    <3> HIDE DEF Are
    <3> QED BY <1>2, <2>5, <2>8
  <2> HIDE DEF Are
  <2> QED BY <2>3, <2>9
<1>4. PICK g : Are(g, Len(s))
  <2> HIDE DEF Are
  <2>1. Len(s) \in 0 .. Len(s)
    BY <1>n
  <2> QED BY <1>3, <2>1
<1> DEFINE Solves(h) == h = [i \in 0 .. Len(s) |-> IF i = 0 THEN 0 ELSE h[i - 1] + s[i]]
           sum == CHOOSE h : Solves(h)
<1>5. Solves(g)
  BY <1>4, <1>n
<1>6. Solves(sum)
  <2> HIDE DEF Solves
  <2> QED BY <1>5, Zenon
<1>7. Sums(s) = sum
  BY Zenon DEF Sums
<1>8. sum[0] = 0 /\ \A i \in 1 .. Len(s) : sum[i] = sum[i - 1] + s[i]
  <2> HIDE DEF sum
  <2> QED BY <1>6, <1>n
<1>9. sum \in [0 .. Len(s) -> Nat]
  <2> DEFINE Bad == {i \in 0 .. Len(s) : sum[i] \notin Nat}
  <2> HIDE DEF sum
  <2>1. Bad = {}
    <3> SUFFICES ASSUME Bad # {} PROVE FALSE
      OBVIOUS
    <3>1. Bad \subseteq Nat
      BY <1>n
    <3> HIDE DEF Bad
    <3>2. PICK n \in Bad : \A m \in Bad : ~ <<m, n>> \in OpToRel(<, Nat)
      BY <3>1, NatLessThanWellFounded, WFMin
    <3>3. n \in 0 .. Len(s) /\ sum[n] \notin Nat
      BY DEF Bad
    <3>4. n # 0
      BY <1>8, <3>3
    <3>5. n - 1 \in 0 .. Len(s) /\ n - 1 \in Nat /\ n \in Nat /\ n - 1 < n /\ n \in 1 .. Len(s)
      BY <1>n, <3>3, <3>4
    <3>6. <<n - 1, n>> \in OpToRel(<, Nat)
      BY <3>5, SMT DEF OpToRel
    <3>7. n - 1 \notin Bad
      BY <3>2, <3>6, Zenon
    <3>8. sum[n - 1] \in Nat
      BY <3>5, <3>7 DEF Bad
    <3> QED BY <1>8, <1>n, <3>3, <3>5, <3>8
  <2>2. \A i \in 0 .. Len(s) : sum[i] \in Nat
    BY <2>1
  <2> QED BY <1>6, <2>2
<1> QED BY <1>7, <1>8, <1>9

\* A sum of natural numbers is one.
LEMMA SumOf == ASSUME NEW s \in Seq(Nat) PROVE Sum(s) \in Nat
<1>1. Len(s) \in 0 .. Len(s)
  OBVIOUS
<1> QED BY <1>1, SumsOf DEF Sum

\* Up to four bytes have a weight.
LEMMA WeightOf == \A k \in 0 .. 3 : Weight(k) \in Nat
<1>1. Base * Base \in Nat /\ Base * Base * Base \in Nat
  BY Numbers
<1> QED BY <1>1, Numbers DEF Weight

\* The numbers a frame's data is the sum of.
Digits(f) == [i \in 1 .. Len(f.data) |-> f.data[i] * Weight(i - 1)]

\* Byte by byte the parser collects the number in the frame.
LEMMA CollectedOf ==
    ASSUME NEW f \in Frames
    PROVE /\ Collected(f, 0) = 0
          /\ Collected(f, Len(f.data)) = Value(f)
          /\ \A k \in 1 .. Len(f.data) :
               /\ Collected(f, k) = IF f.cmd # LONG
                                      THEN Collected(f, k - 1) + f.data[k] * Weight((k - 1) % 4)
                                      ELSE Collected(f, k - 1)
          /\ \A k \in 0 .. Len(f.data) : Collected(f, k) \in Nat
<1>1. Len(f.data) \in Nat /\ \A k \in 1 .. Len(f.data) : f.data[k] \in Nat
  BY TtyAssumption DEF TtyAssumption, Byte
<1>2. CASE f.cmd = LONG
  BY <1>1, <1>2 DEF Collected, Value
<1>3. CASE f.cmd # LONG
  <2>1. Len(f.data) <= 4
    BY <1>3, FrameAssumption DEF FrameAssumption
  <2>2. \A k \in 1 .. Len(f.data) : (k - 1) % 4 = k - 1 /\ k - 1 \in 0 .. 3
    BY <2>1, <1>1
  <2>3. ASSUME NEW k \in 1 .. Len(f.data) PROVE f.data[k] * Weight(k - 1) \in Nat
    <3>1. Weight(k - 1) \in Nat
      BY <2>2, WeightOf
    <3>2. f.data[k] \in Nat
      BY <1>1
    <3>3. \A a, b \in Nat : a * b \in Nat
      OBVIOUS
    <3> QED BY <3>1, <3>2, <3>3, Zenon
  <2>4. Digits(f) \in Seq(Nat) /\ Len(Digits(f)) = Len(f.data)
        /\ \A k \in 1 .. Len(f.data) : Digits(f)[k] = f.data[k] * Weight(k - 1)
    BY <2>3, <1>1 DEF Digits
  <2>5. \A k : Collected(f, k) = Sums(Digits(f))[k]
    BY <1>3 DEF Collected, Digits
  <2>6. Value(f) = Sums(Digits(f))[Len(f.data)]
    BY <1>3, <2>4 DEF Value, Digits, Sum
  <2>7. /\ Sums(Digits(f))[0] = 0
        /\ \A k \in 0 .. Len(f.data) : Sums(Digits(f))[k] \in Nat
        /\ \A k \in 1 .. Len(f.data) : Sums(Digits(f))[k] = Sums(Digits(f))[k - 1] + Digits(f)[k]
    BY <2>4, SumsOf
  <2>8. ASSUME NEW k \in 1 .. Len(f.data)
        PROVE Collected(f, k) = Collected(f, k - 1) + f.data[k] * Weight((k - 1) % 4)
    <3>1. (k - 1) % 4 = k - 1
      BY <2>2
    <3>2. Sums(Digits(f))[k] = Sums(Digits(f))[k - 1] + f.data[k] * Weight(k - 1)
      BY <2>4, <2>7
    <3> QED BY <3>1, <3>2, <2>5, Zenon
  <2> QED BY <1>3, <2>5, <2>6, <2>7, <2>8
<1> QED BY <1>2, <1>3

\* The two bytes of a length.
LEMMA DivOf ==
    ASSUME NEW n \in Nat, n < Base * Base
    PROVE /\ n % Base \in 0 .. Base - 1 /\ n \div Base \in 0 .. Base - 1
          /\ (n \div Base) * Base + (n % Base) = n
<1>1. Base \in Nat /\ Base > 0
  BY Numbers DEF Byte
<1>2. n % Base \in 0 .. Base - 1 /\ (n \div Base) * Base + (n % Base) = n /\ n \div Base \in Nat
  BY <1>1
<1>3. n \div Base < Base
  <2> DEFINE q == n \div Base
  <2>1. q \in Nat /\ q * Base <= n
    BY <1>1, <1>2
  <2> HIDE DEF q
  <2>2. q >= Base => q * Base >= Base * Base
    BY <2>1, <1>1
  <2>3. ~ (q >= Base)
    BY <2>1, <2>2, <1>1
  <2>4. q < Base
    BY <2>1, <2>3, <1>1
  <2> QED BY <2>4 DEF q
<1> QED BY <1>1, <1>2, <1>3

\* A frame byte by byte, with the sums of its beginnings.
LEMMA BytesOf ==
    ASSUME NEW f \in Frames
    PROVE /\ Len(f.data) \in Nat \ {0} /\ \A k \in 1 .. Len(f.data) : f.data[k] \in Byte
          /\ Len(Bytes(f)) = 6 + Len(f.data)
          /\ Bytes(f)[1] = SOF /\ Bytes(f)[2] = HDR /\ Bytes(f)[3] = f.cmd
          /\ Bytes(f)[4] = Len(f.data) % Base /\ Bytes(f)[5] = Len(f.data) \div Base
          /\ \A k \in 1 .. Len(f.data) : Bytes(f)[5 + k] = f.data[k]
          /\ Bytes(f)[6 + Len(f.data)] = Sums(Body(f))[5 + Len(f.data)] % Base
          /\ \A i \in 1 .. 6 + Len(f.data) : Bytes(f)[i] \in Byte
          /\ Sums(Body(f))[1] = SOF
          /\ \A i \in 2 .. 5 + Len(f.data) : Sums(Body(f))[i] = Sums(Body(f))[i - 1] + Bytes(f)[i]
          /\ \A i \in 1 .. 5 + Len(f.data) : Sums(Body(f))[i] \in Nat
<1> DEFINE n == Len(f.data)
           first == <<SOF, HDR, f.cmd, n % Base, n \div Base>>
<1>1. /\ n \in Nat \ {0} /\ f.data \in Seq(Byte) /\ n < Base * Base
      /\ \A k \in 1 .. n : f.data[k] \in Byte
  BY TtyAssumption DEF TtyAssumption
<1>2. Base \in Nat /\ Base > 0 /\ SOF \in Byte /\ HDR \in Byte /\ f.cmd \in Byte
  BY TtyAssumption DEF TtyAssumption, Byte
<1>3. n % Base \in Byte /\ n \div Base \in Byte
  BY <1>1, DivOf DEF Byte
<1> HIDE DEF n
<1>4. first \in Seq(Byte) /\ Len(first) = 5
  BY <1>2, <1>3
<1>5. /\ Body(f) \in Seq(Byte) /\ Len(Body(f)) = 5 + n
      /\ \A i \in 1 .. 5 + n : Body(f)[i] = IF i <= 5 THEN first[i] ELSE f.data[i - 5]
  <2>1. Body(f) = first \o f.data
    BY DEF Body, n
  <2> HIDE DEF first
  <2>2. f.data \in Seq(Byte) /\ Len(f.data) = n
    BY <1>1 DEF n
  <2>3. /\ first \o f.data \in Seq(Byte) /\ Len(first \o f.data) = 5 + n
        /\ \A i \in 1 .. 5 + n : (first \o f.data)[i] = IF i <= 5 THEN first[i] ELSE f.data[i - 5]
    <3>1. /\ first \o f.data \in Seq(Byte) /\ Len(first \o f.data) = Len(first) + Len(f.data)
          /\ \A i \in 1 .. Len(first) + Len(f.data) :
                (first \o f.data)[i] = IF i <= Len(first) THEN first[i] ELSE f.data[i - Len(first)]
      BY <2>2, <1>4, ConcatProperties
    <3> QED BY <3>1, <2>2, <1>4
  <2> QED BY <2>1, <2>3
<1>6. Body(f) \in Seq(Nat)
  BY <1>2, <1>5, SeqMonotonic DEF Byte
<1>7. Sums(Body(f))[0] = 0
      /\ (\A i \in 1 .. 5 + n : Sums(Body(f))[i] = Sums(Body(f))[i - 1] + Body(f)[i])
      /\ \A i \in 0 .. 5 + n : Sums(Body(f))[i] \in Nat
  BY <1>5, <1>6, SumsOf
<1>8. Sum(Body(f)) = Sums(Body(f))[5 + n] /\ Sum(Body(f)) \in Nat
  BY <1>1, <1>5, <1>7 DEF Sum
<1>9. Sum(Body(f)) % Base \in Byte
  BY <1>2, <1>8 DEF Byte
<1>10. /\ Len(Bytes(f)) = 6 + n
       /\ Bytes(f)[6 + n] = Sums(Body(f))[5 + n] % Base
       /\ \A i \in 1 .. 5 + n : Bytes(f)[i] = Body(f)[i]
       /\ Bytes(f) \in Seq(Byte)
  <2>1. Bytes(f) = Append(Body(f), Sum(Body(f)) % Base)
    BY DEF Bytes
  <2> QED BY <2>1, <1>1, <1>5, <1>8, <1>9, AppendProperties
<1>11. /\ Bytes(f)[1] = SOF /\ Bytes(f)[2] = HDR /\ Bytes(f)[3] = f.cmd
       /\ Bytes(f)[4] = n % Base /\ Bytes(f)[5] = n \div Base
  BY <1>1, <1>5, <1>10
<1>12. \A k \in 1 .. n : Bytes(f)[5 + k] = f.data[k]
  BY <1>1, <1>5, <1>10
<1>13. Sums(Body(f))[1] = SOF
  <2>1. Sums(Body(f))[1] = Sums(Body(f))[1 - 1] + Body(f)[1]
    BY <1>1, <1>7
  <2>2. Body(f)[1] = SOF /\ SOF \in Nat
    BY <1>1, <1>2, <1>5 DEF Byte
  <2> QED BY <2>1, <2>2, <1>7
<1>14. \A i \in 2 .. 5 + n : Sums(Body(f))[i] = Sums(Body(f))[i - 1] + Bytes(f)[i]
  BY <1>1, <1>7, <1>10
<1>15. \A i \in 1 .. 6 + n : Bytes(f)[i] \in Byte
  BY <1>10
<1> QED BY <1>1, <1>7, <1>10, <1>11, <1>12, <1>13, <1>14, <1>15 DEF n
-----------------------------------------------------------------------------
\* A frame on the line has data.
LEMMA SizeOf ==
    ASSUME sent \in [1 .. Count -> Frames], NEW n \in 1 .. Count
    PROVE sent[n] \in Frames /\ Size(n) = 6 + Len(sent[n].data) /\ Len(sent[n].data) \in Nat \ {0}
  BY BytesOf DEF Size

\* The byte that arrives is one of a frame, and a frame's first byte is 0x5A.
LEMMA HereOf ==
    ASSUME PlaceInv, Arriving
    PROVE OnLine(here) /\ gchar \in Byte /\ gchar \in Nat /\ (here.at = 1 => gchar = SOF)
<1>1. OnLine(here)
  BY Numbers DEF PlaceInv, Arriving, Place
<1>2. Base \in Nat
  BY Numbers
<1>3. sent[here.frame] \in Frames /\ here.at \in 1 .. 6 + Len(sent[here.frame].data)
  BY <1>1, SizeOf DEF OnLine, PlaceInv
<1>4. gchar \in Byte /\ (here.at = 1 => gchar = SOF)
  BY <1>3, BytesOf DEF gchar
<1> QED BY <1>1, <1>2, <1>4 DEF Byte

\* Behind a place is the next of its frame, the first of the next frame or the end.
LEMMA AfterOf ==
    ASSUME sent \in [1 .. Count -> Frames], NEW x, OnLine(x)
    PROVE /\ OnLine(After(x)) \/ After(x) = Place(Count + 1, 1)
          /\ \/ After(x).at = x.at + 1 /\ After(x).frame = x.frame
             \/ After(x).at = 1 /\ After(x).frame = x.frame + 1 /\ x.at = Size(x.frame)
<1>1. x.frame \in 1 .. Count /\ x.at \in 1 .. Size(x.frame) /\ Size(x.frame) \in Nat /\ Count \in Nat
  BY SizeOf, Numbers DEF OnLine
<1>2. CASE x.at < Size(x.frame)
  <2>1. After(x) = Place(x.frame, x.at + 1)
    BY <1>2 DEF After
  <2> QED BY <1>1, <1>2, <2>1 DEF OnLine, Place
<1>3. CASE ~(x.at < Size(x.frame))
  <2>1. After(x) = Place(x.frame + 1, 1) /\ x.at = Size(x.frame)
    BY <1>1, <1>3 DEF After
  <2>2. After(x).at = 1 /\ After(x).frame = x.frame + 1
    BY <2>1 DEF Place
  <2>3. CASE x.frame = Count
    BY <2>1, <2>2, <2>3
  <2>4. CASE x.frame # Count
    <3>1. x.frame + 1 \in 1 .. Count
      BY <1>1, <2>4
    <3>2. Size(x.frame + 1) \in Nat \ {0}
      BY <3>1, SizeOf
    <3> QED BY <2>1, <2>2, <3>1, <3>2 DEF OnLine, Place
  <2> QED BY <2>3, <2>4
<1> QED BY <1>2, <1>3

\* What the next byte does to the places.
LEMMA Moves ==
    ASSUME PlaceInv, Arriving, Consume
    PROVE PlaceInv' /\ (gap' = 0 => gchar = SOF \/ (gap = 0 /\ Follows))
<1>1. OnLine(here) /\ here.at \in Nat /\ here.frame # 0
  BY HereOf, SizeOf DEF OnLine, PlaceInv
<1>2. OnLine(here') \/ here' = Place(Count + 1, 1)
  BY <1>1, AfterOf DEF Consume, PlaceInv
<1>3. here # Place(0, 0)
  BY <1>1 DEF Place
<1>4. sent' = sent /\ last' = here
  BY DEF Consume
<1>6. (OnLine(here) \/ here = Place(Count + 1, 1))' /\ OnLine(last)'
  BY <1>1, <1>2, <1>4 DEF OnLine, Size, Place
<1>7. whole' \in Nat /\ gap' \in {0, 1} /\ last' # Place(0, 0)
  BY <1>1, <1>3, <1>4 DEF Consume, PlaceInv
<1> QED BY <1>4, <1>6, <1>7 DEF Consume, PlaceInv

\* A byte other than 0x5A that follows the last one is of the same frame.
LEMMA Continues ==
    ASSUME PlaceInv, Arriving, Follows, gchar # SOF
    PROVE OnLine(last) /\ here.frame = last.frame /\ here.at = last.at + 1
<1>1. OnLine(last)
  BY DEF PlaceInv, Follows, Place
<1> QED BY <1>1, AfterOf, HereOf DEF Follows, PlaceInv

-----------------------------------------------------------------------------
\* An average is a natural number, though it divides by the number of values.
LEMMA AverageOf ==
    ASSUME NEW h \in [0 .. HistorySize - 1 -> Nat]
    PROVE Average(h) \in Nat
<1> DEFINE all == [i \in 1 .. HistorySize |-> h[i - 1]]
           full == [i \in 1 .. HistorySize |-> IF h[i - 1] # 0 THEN 1 ELSE 0]
<1>1. HistorySize \in Nat
  BY Numbers
<1>2. all \in Seq(Nat) /\ full \in Seq(Nat) /\ Len(all) = HistorySize /\ Len(full) = HistorySize
  BY <1>1
<1>3. Sum(all) \in Nat /\ Sum(full) \in Nat
  <2> HIDE DEF all, full
  <2> QED BY <1>2, SumOf
<1>4. Average(h) = IF Sum(full) = 0 THEN 0 ELSE Sum(all) \div Sum(full)
  BY DEF Average
<1> HIDE DEF all, full
<1> QED BY <1>3, <1>4

-----------------------------------------------------------------------------
\* The ranges hold at the start ...
LEMMA InitType == Init => TypeInv
<1> SUFFICES ASSUME Init PROVE TypeInv
  OBVIOUS
<1>1. Count \in Nat \ {0} /\ HistorySize \in Nat \ {0} /\ Garbage \subseteq Int
  BY Numbers
<1>2. PlaceInv
  <2>1. sent \in [1 .. Count -> Frames]
    BY DEF Init
  <2>2. PICK i \in 1 .. Size(1) : here \in {Place(1, i), After(Place(1, i))}
    BY DEF Init
  <2>3. OnLine(Place(1, i))
    BY <1>1 DEF OnLine, Place
  <2>4. OnLine(here) \/ here = Place(Count + 1, 1)
    BY <2>1, <2>2, <2>3, AfterOf
  <2> QED BY <2>1, <2>4 DEF Init, PlaceInv
<1>3. ParserInv
  BY <1>1 DEF Init, ParserInv
<1>4. PropsInv
  BY <1>1 DEF Init, McuInit, Unset, PropsInv
<1> QED BY <1>2, <1>3, <1>4 DEF TypeInv

\* ... and each step keeps those of the places,
LEMMA PlaceStep == PlaceInv /\ ReportInv /\ [Reader]_vars => PlaceInv'
<1> SUFFICES ASSUME PlaceInv, ReportInv, [Reader]_vars PROVE PlaceInv'
  OBVIOUS
<1>1. CASE Consume /\ Arriving
  BY <1>1, Moves
<1>2. CASE UNCHANGED <<sent, here, last, whole, gap>>
  BY <1>2 DEF PlaceInv, OnLine, Size
<1>3. CASE Flush
  <2>1. UNCHANGED <<sent, last, whole, gap>>
    BY <1>3 DEF Flush, traces
  <2>2. here' \in Places
    BY <1>3 DEF Flush, Upto
  <2>3. OnLine(here') \/ here' = Place(Count + 1, 1)
    <3>1. CASE here' = Place(Count + 1, 1)
      BY <3>1
    <3>2. CASE here' # Place(Count + 1, 1)
      <4>1. PICK n \in 1 .. Count : here' \in {Place(n, i) : i \in 1 .. Size(n)}
        BY <2>2, <3>2 DEF Places
      <4>2. PICK i \in 1 .. Size(n) : here' = Place(n, i)
        BY <4>1
      <4>3. here'.frame = n /\ here'.at = i
        BY <4>2 DEF Place
      <4> QED BY <4>2, <4>3 DEF OnLine
    <3> QED BY <3>1, <3>2
  <2>4. (OnLine(here) \/ here = Place(Count + 1, 1))'
    BY <2>1, <2>3 DEF OnLine, Size, Place
  <2>5. (last = Place(0, 0) \/ OnLine(last))'
    BY <2>1 DEF PlaceInv, OnLine, Size, Place
  <2> QED BY <2>1, <2>4, <2>5 DEF PlaceInv
<1>4. Flush \/ (Consume /\ Arriving) \/ UNCHANGED <<sent, here, last, whole, gap>>
  BY DEF Reader, Open, OpenFails, Batch, Idle, Start, Header, Command, LengthLow, LengthHigh, Data, Summed,
         Validated, GoodFrame, BadFrame, Ignore, Get, ReportInv, vars, traces
<1> QED BY <1>1, <1>2, <1>3, <1>4

\* ... of the parser,
LEMMA ParserStep == TypeInv /\ [Reader]_vars => ParserInv'
<1> SUFFICES ASSUME TypeInv, [Reader]_vars PROVE ParserInv'
  OBVIOUS
<1>1. Base \in Nat /\ ParserInv
  BY Numbers DEF TypeInv
<1>2. Get => gchar \in Nat
  BY HereOf DEF Get, TypeInv
<1>3. CASE Start
  BY <1>1, <1>2, <1>3 DEF Start, ParserInv
<1>4. CASE Header \/ Command \/ LengthLow \/ LengthHigh
  BY <1>1, <1>2, <1>4 DEF Header, Command, LengthLow, LengthHigh, Summed, ParserInv
<1>5. CASE Data
  <2>1. mDataBytes % 4 \in 0 .. 3
    BY <1>1 DEF ParserInv
  <2>2. Weight(mDataBytes % 4) \in Nat
    BY <2>1, WeightOf
  <2>3. gchar * Weight(mDataBytes % 4) \in Nat
    BY <1>2, <1>5, <2>2 DEF Data
  <2> QED BY <1>1, <1>2, <1>5, <2>3 DEF Data, Summed, ParserInv
<1>6. CASE GoodFrame \/ BadFrame
  BY <1>1, <1>6 DEF GoodFrame, BadFrame, Reset, ParserInv
<1>7. CASE UNCHANGED parser
  BY <1>1, <1>7 DEF parser, ParserInv
<1> QED BY <1>3, <1>4, <1>5, <1>6, <1>7 DEF Reader, Open, OpenFails, Batch, Idle, Validated, Ignore, Flush, vars

\* ... and of the properties and the history.
LEMMA PropsStep == TypeInv /\ ReportInv /\ [Reader]_vars => PropsInv'
<1> SUFFICES ASSUME TypeInv, ReportInv, [Reader]_vars PROVE PropsInv'
  OBVIOUS
<1>1. PropsInv /\ ParserInv /\ HistorySize \in Nat \ {0}
  BY Numbers DEF TypeInv
<1>2. CASE Idle
  BY <1>1, <1>2 DEF Idle, PropsInv
<1>3. CASE Validated
  BY <1>1, <1>3 DEF Validated, PropsInv
<1>4. CASE GoodFrame
  <2>1. Arriving /\ Consume
    BY <1>4 DEF GoodFrame, ReportInv
  <2>2. here.frame \in 1 .. Count /\ gap' \in {0, 1}
    BY <2>1, HereOf, Moves DEF TypeInv, OnLine, PlaceInv
  <2>3. heard' \in Seq(Report)
    <3> DEFINE new == [cmd |-> mCmd, data |-> mData, frame |-> here.frame, gap |-> gap']
    <3>1. new \in Report
      BY <1>1, <2>2 DEF ParserInv, Report
    <3>2. heard' = Append(heard, new) /\ heard \in Seq(Report)
      BY <1>1, <1>4 DEF GoodFrame, PropsInv
    <3> HIDE DEF new
    <3> QED BY <3>1, <3>2
  <2>4. history' \in [0 .. HistorySize - 1 -> Nat] /\ next' \in 0 .. HistorySize - 1
    <3>1. CASE mCmd = VOLTAGE
      <4>1. history' = [history EXCEPT ![next] = mData] /\ next' = IF next = HistorySize - 1 THEN 0 ELSE next + 1
        BY <1>4, <3>1 DEF GoodFrame, StoreVoltage
      <4>2. history' \in [0 .. HistorySize - 1 -> Nat]
        BY <1>1, <4>1 DEF PropsInv, ParserInv
      <4>3. next' \in 0 .. HistorySize - 1
        BY <1>1, <4>1 DEF PropsInv
      <4> QED BY <4>2, <4>3
    <3>2. CASE mCmd # VOLTAGE
      BY <1>1, <1>4, <3>2 DEF GoodFrame, PropsInv
    <3> QED BY <3>1, <3>2
  <2>5. voltage' \in Nat \cup {Unset}
    BY <1>1, <1>4, <2>4, AverageOf DEF GoodFrame, StoreVoltage, PropsInv
  <2> QED BY <1>1, <1>4, <2>3, <2>4, <2>5 DEF GoodFrame, PropsInv
<1>5. CASE UNCHANGED props
  BY <1>1, <1>5 DEF props, PropsInv
<1> QED BY <1>2, <1>3, <1>4, <1>5
        DEF Reader, Open, OpenFails, Batch, Start, Header, Command, LengthLow, LengthHigh, Data,
            BadFrame, Ignore, Flush, vars
-----------------------------------------------------------------------------
\* The next byte of the frame the parser is in.
LEMMA FrameByte ==
    ASSUME TypeInv, SyncInv, Arriving, Consume, gchar # SOF, gap' = 0
    PROVE LET f == sent[last.frame]
          IN  /\ f \in Frames /\ last.at \in Nat /\ last.at + 1 \in 2 .. Len(Bytes(f))
              /\ InFrame(f, last.at)
              /\ gchar = Bytes(f)[last.at + 1]
              /\ sent'[last'.frame] = f /\ last'.at = last.at + 1
              /\ gap = 0 /\ Follows
<1>1. gap = 0 /\ Follows
  BY Moves DEF TypeInv
<1>2. OnLine(last) /\ here.frame = last.frame /\ here.at = last.at + 1 /\ OnLine(here)
  BY <1>1, Continues, HereOf DEF TypeInv
<1>3. sent[last.frame] \in Frames /\ Size(last.frame) \in Nat /\ Size(last.frame) = Len(Bytes(sent[last.frame]))
  BY <1>2, SizeOf DEF TypeInv, PlaceInv, OnLine, Size
<1>4. last.at \in Nat /\ last.at + 1 \in 2 .. Len(Bytes(sent[last.frame]))
  BY <1>2, <1>3 DEF OnLine
<1>5. sent' = sent /\ last' = here
  BY DEF Consume
<1>6. gchar = Bytes(sent[last.frame])[last.at + 1]
  BY <1>2 DEF gchar
<1> QED BY <1>1, <1>2, <1>3, <1>4, <1>5, <1>6 DEF SyncInv

\* A 0x5A brings the parser into the frame the line is in, or before an 0xA5 that never comes.
LEMMA SyncStart == ASSUME TypeInv, Start PROVE SyncInv'
<1> DEFINE f == sent[here.frame]
<1>1. Arriving /\ Consume /\ gchar = SOF /\ charpos' = 1 /\ mChecksum' = SOF
  BY DEF Start, Get
<1>2. OnLine(here) /\ f \in Frames /\ here.at \in Nat /\ here.at > 0
  BY <1>1, HereOf, SizeOf DEF TypeInv, PlaceInv, OnLine
<1>3. here.at # 2
  BY <1>1, <1>2, BytesOf, Numbers DEF gchar
<1>4. here.at = 1 \/ \E k \in 3 .. here.at : Bytes(f)[k] = SOF
  BY <1>1, <1>2, <1>3 DEF gchar
<1>5. sent'[last'.frame] = f /\ last'.at = here.at
  BY <1>1 DEF Consume
<1> HIDE DEF f
<1> QED BY <1>1, <1>4, <1>5 DEF SyncInv, InFrame

\* Every byte keeps the parser in that frame, unless bytes were lost.
LEMMA SyncStep == TypeInv /\ ReportInv /\ SyncInv /\ [Reader]_vars => SyncInv'
<1> SUFFICES ASSUME TypeInv, ReportInv, SyncInv, [Reader]_vars, gap' = 0
             PROVE InFrame(sent[last.frame], last.at)'
  BY DEF SyncInv
<1> DEFINE f == sent[last.frame]
           i == last.at
           n == Len(f.data)
<1>1. CASE UNCHANGED <<sent, parser, last, gap>>
  BY <1>1 DEF SyncInv, InFrame, parser
<1>2. CASE Start
  BY <1>2, SyncStart DEF SyncInv
<1>b. ASSUME Arriving, Consume, gchar # SOF
      PROVE /\ f \in Frames /\ i \in Nat /\ i + 1 \in 2 .. Len(Bytes(f)) /\ InFrame(f, i)
            /\ gchar = Bytes(f)[i + 1] /\ sent'[last'.frame] = f /\ last'.at = i + 1
            /\ mChecksum \in Nat
  BY <1>b, FrameByte DEF TypeInv, ParserInv
<1>c. SOF # HDR /\ Base \in Nat
  BY Numbers
<1>3. CASE Header
  <2>0. Get /\ gchar = HDR /\ charpos = 1 /\ Consume /\ mChecksum' = mChecksum + gchar /\ charpos' = 2
    BY <1>3 DEF Header, Summed
  <2>1. /\ f \in Frames /\ i \in Nat /\ i + 1 \in 2 .. Len(Bytes(f)) /\ InFrame(f, i)
        /\ gchar = Bytes(f)[i + 1] /\ sent'[last'.frame] = f /\ last'.at = i + 1
    BY <2>0, <1>b, <1>c DEF Get
  <2> HIDE DEF f, i
  <2>2. mChecksum = SOF /\ (i = 1 \/ \E k \in 3 .. i : Bytes(f)[k] = SOF)
    BY <2>0, <2>1 DEF InFrame
  <2>3. ASSUME NEW k \in 3 .. i, Bytes(f)[k] = SOF PROVE FALSE
    <3>1. k \in 3 .. Len(Bytes(f)) /\ i + 1 \in 3 .. Len(Bytes(f)) /\ k < i + 1
      BY <2>1
    <3> QED BY <2>0, <2>1, <2>3, <3>1, FrameAssumption DEF FrameAssumption
  <2>4. i = 1
    BY <2>2, <2>3
  <2>5. n \in Nat \ {0} /\ Sums(Body(f))[2] = SOF + HDR
    <3>1. n \in Nat \ {0} /\ 2 \in 2 .. 5 + n
      BY <2>1, BytesOf
    <3>2. Sums(Body(f))[2] = Sums(Body(f))[2 - 1] + Bytes(f)[2]
      BY <2>1, <3>1, BytesOf
    <3> QED BY <3>1, <3>2, <2>1, BytesOf
  <2> QED BY <2>0, <2>1, <2>2, <2>4, <2>5 DEF InFrame
<1>4. ASSUME Command \/ LengthLow \/ LengthHigh \/ Data
      PROVE /\ f \in Frames /\ i \in Nat /\ i + 1 \in 2 .. Len(Bytes(f)) /\ InFrame(f, i)
            /\ gchar = Bytes(f)[i + 1] /\ sent'[last'.frame] = f /\ last'.at = i + 1
            /\ n \in Nat \ {0} /\ mChecksum' = mChecksum + gchar
            /\ charpos \in 2 .. 5
            /\ mChecksum' = Sums(Body(f))[i + 1]
  <2>1. Arriving /\ Consume /\ gchar # SOF /\ mChecksum' = mChecksum + gchar /\ charpos \in 2 .. 5
    BY <1>4 DEF Command, LengthLow, LengthHigh, Data, Get, Summed
  <2>2. /\ f \in Frames /\ i \in Nat /\ i + 1 \in 2 .. Len(Bytes(f)) /\ InFrame(f, i)
        /\ gchar = Bytes(f)[i + 1] /\ sent'[last'.frame] = f /\ last'.at = i + 1
    BY <2>1, <1>b
  <2> HIDE DEF f, i
  <2>3. n \in Nat \ {0} /\ mChecksum = Sums(Body(f))[i]
    BY <2>1, <2>2, BytesOf DEF InFrame
  <2>4. i + 1 \in 2 .. 5 + n
    BY <2>1, <2>2, <2>3 DEF InFrame
  <2>5. Sums(Body(f))[i + 1] = Sums(Body(f))[(i + 1) - 1] + Bytes(f)[i + 1]
    BY <2>2, <2>4, BytesOf
  <2>6. (i + 1) - 1 = i
    BY <2>2
  <2> QED BY <2>1, <2>2, <2>3, <2>5, <2>6
<1> HIDE DEF f, i
<1>5. CASE Command
  <2>1. charpos = 2 /\ charpos' = 3 /\ mCmd' = gchar
    BY <1>5 DEF Command, Summed
  <2>2. i = 2 /\ mCmd' = f.cmd
    BY <2>1, <1>4, <1>5, BytesOf DEF InFrame
  <2> QED BY <2>1, <2>2, <1>4, <1>5 DEF InFrame
<1>6. CASE LengthLow
  <2>1. charpos = 3 /\ charpos' = 4 /\ mCmd' = mCmd /\ payload_len' = gchar
    BY <1>6 DEF LengthLow, Summed
  <2>2. i = 3 /\ mCmd' = f.cmd /\ payload_len' = n % Base
    BY <2>1, <1>4, <1>6, BytesOf DEF InFrame
  <2> QED BY <2>1, <2>2, <1>4, <1>6 DEF InFrame
<1>7. CASE LengthHigh
  <2>1. /\ charpos = 4 /\ charpos' = 5 /\ mCmd' = mCmd
        /\ payload_len' = gchar * Base + payload_len /\ mData' = 0 /\ mDataBytes' = 0
    BY <1>7 DEF LengthHigh, Summed
  <2>2. i = 4 /\ mCmd' = f.cmd /\ gchar = n \div Base /\ payload_len = n % Base
    BY <2>1, <1>4, <1>7, BytesOf DEF InFrame
  <2>3. n < Base * Base
    BY <1>4, <1>7, <1>c, TtyAssumption DEF TtyAssumption
  <2>4. payload_len' = n
    BY <2>1, <2>2, <2>3, <1>4, <1>7, DivOf
  <2>5. mData' = Collected(f, 0)
    BY <2>1, <1>4, <1>7, CollectedOf
  <2> HIDE DEF n
  <2> QED BY <2>1, <2>2, <2>4, <2>5, <1>4, <1>7 DEF InFrame, n
<1>8. CASE Data
  <2> DEFINE m == mDataBytes
  <2>1. /\ charpos = 5 /\ charpos' = (IF payload_len = 1 THEN 6 ELSE 5) /\ mCmd' = mCmd
        /\ payload_len' = payload_len - 1 /\ mDataBytes' = m + 1
        /\ mData' = IF mCmd # LONG THEN mData + gchar * Weight(m % 4) ELSE mData
    BY <1>8 DEF Data, Summed
  <2>2. /\ m \in 0 .. n - 1 /\ i = 5 + m /\ payload_len = n - m /\ mData = Collected(f, m)
        /\ mCmd = f.cmd
    BY <2>1, <1>4, <1>8 DEF InFrame
  <2>3. m + 1 \in 1 .. n /\ (m + 1) - 1 = m /\ i + 1 = 5 + (m + 1)
    <3>1. n \in Nat /\ i \in Nat
      BY <1>4, <1>8
    <3> HIDE DEF n, m
    <3> QED BY <2>2, <3>1
  <2>4. gchar = f.data[m + 1]
    BY <2>3, <1>4, <1>8, BytesOf
  <2>5. mData' = Collected(f, m + 1)
    <3>1. Collected(f, m + 1) = IF f.cmd # LONG
                                  THEN Collected(f, m) + f.data[m + 1] * Weight(m % 4)
                                  ELSE Collected(f, m)
      BY <2>3, <1>4, <1>8, CollectedOf
    <3> QED BY <3>1, <2>1, <2>2, <2>4
  <2>6. CASE payload_len = 1
    <3>1. m + 1 = n /\ charpos' = 6
      BY <2>1, <2>2, <2>6, <1>4, <1>8
    <3>2. mData' = Value(f) /\ last'.at = 5 + n
      BY <2>3, <2>5, <3>1, <1>4, <1>8, CollectedOf
    <3>3. mCmd' = f.cmd /\ sent'[last'.frame] = f /\ mChecksum' = Sums(Body(f))[last'.at]
      BY <2>1, <2>2, <1>4, <1>8
    <3> HIDE DEF n, m
    <3> QED BY <3>1, <3>2, <3>3 DEF InFrame, n
  <2>7. CASE payload_len # 1
    <3>1. m + 1 \in 0 .. n - 1 /\ payload_len' = n - (m + 1) /\ charpos' = 5
      BY <2>1, <2>2, <2>3, <2>7, <1>4, <1>8
    <3>2. /\ mDataBytes' \in 0 .. n - 1 /\ last'.at = 5 + mDataBytes'
          /\ payload_len' = n - mDataBytes' /\ mData' = Collected(f, mDataBytes')
      BY <2>1, <2>3, <2>5, <3>1, <1>4, <1>8
    <3>3. mCmd' = f.cmd /\ sent'[last'.frame] = f /\ mChecksum' = Sums(Body(f))[last'.at]
      BY <2>1, <2>2, <1>4, <1>8
    <3> HIDE DEF n, m
    <3> QED BY <3>1, <3>2, <3>3 DEF InFrame, n
  <2> QED BY <2>6, <2>7
<1>9. CASE GoodFrame \/ BadFrame
  BY <1>9 DEF GoodFrame, BadFrame, Reset, InFrame
<1>10. CASE Ignore
  <2>1. /\ Arriving /\ Consume /\ gchar # SOF /\ (charpos = 0 \/ (charpos = 1 /\ gchar # HDR))
        /\ charpos' = charpos /\ mChecksum' = mChecksum
    BY <1>10 DEF Ignore, Get, parser
  <2>2. /\ f \in Frames /\ i \in Nat /\ i + 1 \in 2 .. Len(Bytes(f)) /\ InFrame(f, i)
        /\ gchar = Bytes(f)[i + 1] /\ sent'[last'.frame] = f /\ last'.at = i + 1
    BY <2>1, <1>b
  <2>3. CASE charpos = 0
    BY <2>1, <2>3 DEF InFrame
  <2>4. CASE charpos = 1
    <3>1. i # 1
      BY <2>1, <2>2, <2>4, BytesOf
    <3>2. PICK k \in 3 .. i : Bytes(f)[k] = SOF
      BY <2>2, <2>4, <3>1 DEF InFrame
    <3>3. k \in 3 .. i + 1
      BY <2>2
    <3>4. mChecksum = SOF
      BY <2>2, <2>4 DEF InFrame
    <3> QED BY <2>1, <2>2, <2>4, <3>2, <3>3, <3>4 DEF InFrame
  <2> QED BY <2>1, <2>3, <2>4
<1> QED BY <1>1, <1>2, <1>3, <1>5, <1>6, <1>7, <1>8, <1>9, <1>10
        DEF Reader, Open, OpenFails, Batch, Idle, Validated, Flush, vars, traces, parser
-----------------------------------------------------------------------------
\* A frame is reported only after its sum was right and the reader validated.
LEMMA ReportStep == TypeInv /\ ReportInv /\ [Reader]_vars => ReportInv'
<1> SUFFICES ASSUME TypeInv, ReportInv, [Reader]_vars PROVE ReportInv'
  OBVIOUS
<1>1. CASE Consume /\ ~GoodFrame
  <2>1. state' = "read" /\ UNCHANGED props /\ state \in {"batch", "read"}
    BY <1>1 DEF Reader, Open, OpenFails, Batch, Idle, Validated, Flush, Start, Header, Command, LengthLow, LengthHigh,
                Data, BadFrame, Ignore, Summed, Consume, Get, vars, props
  <2> QED BY <2>1 DEF ReportInv, props
<1>2. CASE GoodFrame
  BY <1>2 DEF GoodFrame, Consume, ReportInv
<1>3. CASE Validated
  <2>1. Arriving' /\ gchar' = gchar
    BY <1>3 DEF Validated, Get, Arriving, gchar
  <2> QED BY <1>3, <2>1 DEF Validated, ReportInv, parser
<1>4. CASE Idle
  BY <1>4 DEF Idle, ReportInv, Unset, TypeInv, PropsInv
<1>5. CASE Open \/ OpenFails \/ Batch \/ Flush
  BY <1>5 DEF Open, OpenFails, Batch, Flush, ReportInv, props
<1>6. CASE UNCHANGED vars
  <2>1. (Arriving <=> Arriving') /\ gchar' = gchar
    BY <1>6 DEF vars, Arriving, gchar
  <2> QED BY <1>6, <2>1 DEF vars, ReportInv, props, parser
<1>7. (Consume /\ ~GoodFrame) \/ GoodFrame \/ Validated \/ Idle \/ Open \/ OpenFails \/ Batch \/ Flush \/ UNCHANGED vars
  BY DEF Reader, Start, Header, Command, LengthLow, LengthHigh, Data, BadFrame, Ignore, Summed
<1> QED BY <1>1, <1>2, <1>3, <1>4, <1>5, <1>6, <1>7

\* What a report of the frame in the parser adds.
LEMMA Reports ==
    ASSUME TypeInv, ReportInv, GoodFrame
    PROVE /\ Arriving /\ Consume /\ gchar # SOF /\ charpos = 6 /\ sent' = sent /\ last' = here
          /\ Len(heard) \in Nat /\ Len(heard') = Len(heard) + 1
          /\ heard'[Len(heard')] = [cmd |-> mCmd, data |-> mData, frame |-> here.frame, gap |-> gap']
          /\ \A i \in 1 .. Len(heard) : heard'[i] = heard[i]
          /\ DOMAIN heard = 1 .. Len(heard) /\ DOMAIN heard' = 1 .. Len(heard')
<1> DEFINE new == [cmd |-> mCmd, data |-> mData, frame |-> here.frame, gap |-> gap']
<1>1. heard' = Append(heard, new) /\ heard \in Seq(Report)
  BY DEF GoodFrame, TypeInv, PropsInv
<1>2. Arriving /\ Consume /\ gchar # SOF /\ charpos = 6 /\ sent' = sent /\ last' = here
  BY DEF GoodFrame, ReportInv, Consume
<1> HIDE DEF new
<1>3. /\ Len(heard) \in Nat /\ Len(heard') = Len(heard) + 1
      /\ heard'[Len(heard')] = new
      /\ \A i \in 1 .. Len(heard) : heard'[i] = heard[i]
      /\ DOMAIN heard = 1 .. Len(heard) /\ DOMAIN heard' = 1 .. Len(heard')
  BY <1>1
<1> QED BY <1>2, <1>3 DEF new

\* A good frame that was parsed with no gap is the one that was sent.
LEMMA GoodIsSent ==
    ASSUME TypeInv, ReportInv, SyncInv, GoodFrame, gap' = 0
    PROVE mCmd = sent[here.frame].cmd /\ mData = Value(sent[here.frame])
<1>1. Arriving /\ Consume /\ gchar # SOF /\ charpos = 6 /\ sent' = sent /\ last' = here
  BY Reports
<1>2. InFrame(sent[last.frame], last.at) /\ sent[here.frame] = sent[last.frame]
  BY <1>1, FrameByte
<1> QED BY <1>1, <1>2 DEF InFrame

\* Every report without a gap is of a frame that was sent.
LEMMA SentStep == TypeInv /\ ReportInv /\ SyncInv /\ OnlySent /\ [Reader]_vars => OnlySent'
<1> SUFFICES ASSUME TypeInv, ReportInv, SyncInv, OnlySent, [Reader]_vars PROVE OnlySent'
  OBVIOUS
<1>1. CASE GoodFrame
  <2>1. sent' = sent
    BY <1>1, Reports
  <2> SUFFICES ASSUME NEW i \in DOMAIN heard', heard'[i].gap = 0
               PROVE heard'[i].cmd = sent[heard'[i].frame].cmd /\ heard'[i].data = Value(sent[heard'[i].frame])
    BY <2>1 DEF OnlySent
  <2>2. CASE i = Len(heard')
    BY <1>1, <2>2, Reports, GoodIsSent
  <2>3. CASE i # Len(heard')
    <3>1. i \in DOMAIN heard /\ heard'[i] = heard[i]
      BY <1>1, <2>3, Reports
    <3> QED BY <3>1 DEF OnlySent
  <2> QED BY <2>2, <2>3
<1>2. CASE UNCHANGED <<sent, heard>>
  BY <1>2 DEF OnlySent
<1>3. GoodFrame \/ UNCHANGED <<sent, heard>>
  BY DEF Reader, Open, OpenFails, Batch, Idle, Start, Header, Command, LengthLow, LengthHigh, Data, Summed,
         Validated, BadFrame, Ignore, Flush, Consume, vars, props
<1> QED BY <1>1, <1>2, <1>3

-----------------------------------------------------------------------------
\* The bytes of a clean frame that was read whole so far.
LEMMA WholeMove ==
    ASSUME TypeInv, SyncInv, WholeInv, Arriving, Consume, whole' > 0, Clean(sent[here.frame])
    PROVE LET f == sent[here.frame]
              n == Len(f.data)
          IN  /\ f \in Frames /\ n \in Nat \ {0} /\ whole' \in 1 .. 6 + n
              /\ gchar = Bytes(f)[whole']
              /\ gchar = SOF => whole' = 1 /\ gap' = 0
              /\ gchar # SOF => /\ gap' = 0 /\ whole \in 1 .. 5 + n /\ whole' = whole + 1
                                /\ InFrame(f, whole)
                                /\ whole = 1 => charpos = 1
                                /\ whole > 1 => charpos \in 2 .. 6
<1> DEFINE f == sent[here.frame]
           n == Len(f.data)
<1>1. /\ OnLine(here) /\ f \in Frames /\ n \in Nat \ {0} /\ here.at \in 1 .. 6 + n
      /\ gchar = Bytes(f)[here.at] /\ here.at = whole'
      /\ here.at = 1 => gchar = SOF
  BY HereOf, SizeOf DEF TypeInv, PlaceInv, OnLine, gchar, Consume
<1>2. CASE gchar = SOF
  <2>1. Len(Bytes(f)) = 6 + n
    BY <1>1, BytesOf
  <2>2. here.at = 1
    BY <1>1, <1>2, <2>1 DEF Clean
  <2> QED BY <1>1, <1>2, <2>2 DEF Consume
<1>3. CASE gchar # SOF
  <2>1. Follows /\ whole > 0
    BY <1>1, <1>3 DEF Consume
  <2>2. OnLine(last) /\ here.frame = last.frame /\ here.at = last.at + 1
    BY <1>3, <2>1, Continues DEF TypeInv
  <2>3. f = sent[last.frame] /\ Size(last.frame) = 6 + n /\ whole \in Nat /\ last.at = whole
    BY <1>1, <2>1, <2>2, BytesOf DEF Size, WholeInv, TypeInv, PlaceInv
  <2>4. whole \in 1 .. 5 + n /\ whole' = whole + 1
    BY <1>1, <2>1, <2>2, <2>3
  <2>5. gap = 0 /\ (whole = 1 => charpos = 1) /\ (whole > 1 => charpos \in 2 .. 6)
    BY <1>1, <2>1, <2>3, <2>4 DEF WholeInv
  <2>6. gap' = 0 /\ InFrame(f, whole)
    BY <1>3, <2>1, <2>3, <2>5 DEF Consume, SyncInv
  <2> QED BY <1>1, <1>3, <2>4, <2>5, <2>6
<1> QED BY <1>2, <1>3

\* What the parser owes a clean frame after its next byte.
Owed(n) == /\ gap' = 0
           /\ whole' = 1 => charpos' = 1
           /\ whole' > 1 /\ whole' < Size(n) => charpos' \in 2 .. 6
           /\ whole' = Size(n) => \E i \in DOMAIN heard' : heard'[i].frame = n /\ heard'[i].gap = 0

\* A clean frame that got what it is owed keeps the invariant.
LEMMA WholeGoal ==
    ASSUME Consume, whole' > 0 /\ Clean(sent[here.frame]) => Owed(here.frame)
    PROVE WholeInv'
<1>1. sent' = sent /\ last' = here /\ (whole' > 0 => here.at = whole')
  BY DEF Consume
<1>2. Size(last.frame)' = Size(here.frame) /\ sent'[last'.frame] = sent[here.frame]
  BY <1>1 DEF Size
<1> QED BY <1>1, <1>2 DEF WholeInv, HeardWhole, Owed

\* No byte of a clean frame leaves the parser elsewhere.
LEMMA WholeStep ==
    TypeInv /\ ReportInv /\ SyncInv /\ WholeInv /\ [Reader]_vars => WholeInv'
<1> SUFFICES ASSUME TypeInv, ReportInv, SyncInv, WholeInv, [Reader]_vars PROVE WholeInv'
  OBVIOUS
<1> DEFINE f == sent[here.frame]
           n == Len(f.data)
<1>1. CASE UNCHANGED <<sent, last, whole, gap, charpos, heard>>
  BY <1>1 DEF WholeInv, HeardWhole, Size
<1>2. ASSUME Arriving, Consume, whole' > 0, Clean(f)
      PROVE /\ f \in Frames /\ n \in Nat \ {0} /\ whole' \in 1 .. 6 + n
            /\ gchar = Bytes(f)[whole'] /\ Size(here.frame) = 6 + n
            /\ gchar = SOF => whole' = 1 /\ gap' = 0
            /\ gchar # SOF => /\ gap' = 0 /\ whole \in 1 .. 5 + n /\ whole' = whole + 1
                              /\ InFrame(f, whole)
                              /\ whole = 1 => charpos = 1
                              /\ whole > 1 => charpos \in 2 .. 6
  BY <1>2, WholeMove, BytesOf DEF Size
<1>c. SOF # HDR
  BY Numbers
<1> HIDE DEF f
<1>3. CASE Start
  <2>1. Arriving /\ Consume /\ gchar = SOF /\ charpos' = 1
    BY <1>3 DEF Start, Get
  <2>2. whole' > 0 /\ Clean(f) => Owed(here.frame)
    BY <1>2, <2>1 DEF Owed
  <2> QED BY <2>1, <2>2, WholeGoal DEF f
<1>4. CASE Header
  <2>1. Arriving /\ Consume /\ gchar # SOF /\ charpos = 1 /\ charpos' = 2
    BY <1>4, <1>c DEF Header, Summed, Get
  <2>2. whole' > 0 /\ Clean(f) => Owed(here.frame)
    BY <1>2, <2>1 DEF Owed
  <2> QED BY <2>1, <2>2, WholeGoal DEF f
<1>5. CASE Command \/ LengthLow \/ LengthHigh \/ Data
  <2>1. Arriving /\ Consume /\ gchar # SOF /\ charpos \in 2 .. 5 /\ charpos' \in 2 .. 6
    BY <1>5 DEF Command, LengthLow, LengthHigh, Data, Summed, Get
  <2>2. ASSUME whole' > 0, Clean(f) PROVE Owed(here.frame)
    <3>1. InFrame(f, whole) /\ whole \in 1 .. 5 + n /\ whole' = whole + 1 /\ gap' = 0
          /\ n \in Nat \ {0} /\ Size(here.frame) = 6 + n /\ whole > 1
      BY <1>2, <2>1, <2>2
    <3> HIDE DEF n
    <3>2. whole < 5 + n
      BY <2>1, <3>1 DEF InFrame, n
    <3> QED BY <2>1, <3>1, <3>2 DEF Owed
  <2> QED BY <2>1, <2>2, WholeGoal DEF f
<1>6. CASE GoodFrame
  <2>1. Arriving /\ Consume /\ gchar # SOF /\ charpos = 6
    BY <1>6, Reports
  <2>2. ASSUME whole' > 0, Clean(f) PROVE Owed(here.frame)
    <3>1. InFrame(f, whole) /\ whole \in 1 .. 5 + n /\ whole' = whole + 1 /\ gap' = 0
          /\ n \in Nat \ {0} /\ Size(here.frame) = 6 + n
      BY <1>2, <2>1, <2>2
    <3>2. whole' = 6 + n
      BY <2>1, <3>1 DEF InFrame
    <3>3. Len(heard') \in DOMAIN heard' /\ heard'[Len(heard')].frame = here.frame
          /\ heard'[Len(heard')].gap = 0
      BY <1>6, <3>1, Reports
    <3> QED BY <3>1, <3>2, <3>3 DEF Owed
  <2> QED BY <2>1, <2>2, WholeGoal DEF f
<1>7. CASE BadFrame
  <2>1. Arriving /\ Consume /\ gchar # SOF /\ charpos = 6 /\ gchar # mChecksum % Base
    BY <1>7 DEF BadFrame, Get
  <2>2. ASSUME whole' > 0, Clean(f) PROVE FALSE
    <3>1. InFrame(f, whole) /\ whole' = whole + 1 /\ f \in Frames /\ n \in Nat \ {0}
          /\ gchar = Bytes(f)[whole'] /\ whole \in 1 .. 5 + n
      BY <1>2, <2>1, <2>2
    <3>2. whole' = 6 + n /\ mChecksum = Sums(Body(f))[5 + n]
      BY <2>1, <3>1 DEF InFrame
    <3> QED BY <2>1, <3>1, <3>2, BytesOf
  <2> QED BY <2>1, <2>2, WholeGoal DEF f
<1>8. CASE Ignore
  <2>1. Arriving /\ Consume /\ gchar # SOF /\ (charpos = 0 \/ (charpos = 1 /\ gchar # HDR))
    BY <1>8 DEF Ignore, Get
  <2>2. ASSUME whole' > 0, Clean(f) PROVE FALSE
    <3>1. whole' = whole + 1 /\ f \in Frames /\ gchar = Bytes(f)[whole'] /\ whole \in Nat
          /\ (whole = 1 => charpos = 1) /\ whole > 0 /\ (whole > 1 => charpos \in 2 .. 6)
      BY <1>2, <2>1, <2>2
    <3>2. whole = 1
      BY <2>1, <3>1
    <3> QED BY <2>1, <3>1, <3>2, BytesOf
  <2> QED BY <2>1, <2>2, WholeGoal DEF f
<1> QED BY <1>1, <1>3, <1>4, <1>5, <1>6, <1>7, <1>8
        DEF Reader, Open, OpenFails, Batch, Idle, Validated, Flush, vars, traces, props, parser
-----------------------------------------------------------------------------
\* Bounds of a sum of m numbers, and of one number more.
LEMMA LowAgain ==
    ASSUME NEW a \in Nat, NEW m \in Nat, NEW l \in Nat, NEW x \in Nat, l * m <= a
    PROVE \E y \in {l, x} : y * (m + 1) <= a + x
<1>1. CASE l <= x
  <2>1. l * (m + 1) = l * m + l /\ l * m \in Nat
    OBVIOUS
  <2> QED BY <1>1, <2>1
<1>2. CASE x < l
  <2>1. x * (m + 1) = x * m + x /\ x * m \in Nat /\ l * m \in Nat /\ x * m <= l * m
    BY <1>2
  <2> QED BY <2>1
<1> QED BY <1>1, <1>2

\* The same from above.
LEMMA HighAgain ==
    ASSUME NEW a \in Nat, NEW m \in Nat, NEW u \in Nat, NEW x \in Nat, a <= u * m
    PROVE \E y \in {u, x} : a + x <= y * (m + 1)
<1>1. CASE x <= u
  <2>1. u * (m + 1) = u * m + u /\ u * m \in Nat
    OBVIOUS
  <2> QED BY <1>1, <2>1
<1>2. CASE u < x
  <2>1. x * (m + 1) = x * m + x /\ x * m \in Nat /\ u * m \in Nat /\ u * m <= x * m
    BY <1>2
  <2> QED BY <2>1
<1> QED BY <1>1, <1>2

\* A quotient lies between the bounds of its dividend.
LEMMA DivBetween ==
    ASSUME NEW a \in Nat, NEW m \in Nat \ {0}, NEW l \in Nat, NEW u \in Nat, l * m <= a, a <= u * m
    PROVE l <= a \div m /\ a \div m <= u
<1>1. l <= a \div m
  OBVIOUS
<1>2. a \div m <= u
  OBVIOUS
<1> QED BY <1>1, <1>2

\* The average of a history lies between two of its values, or it is empty.
AllZero(h, n) == \A j \in 0 .. n - 1 : h[j] = 0
Within(h, n, a, m) == \E j, k \in 0 .. n - 1 : h[j] # 0 /\ h[k] # 0 /\ h[j] * m <= a /\ a <= h[k] * m
Averaged(h, n, a, m) == \/ AllZero(h, n) /\ a = 0 /\ m = 0
                        \/ m > 0 /\ Within(h, n, a, m)

\* One more value of the history keeps the sum between its bounds.
LEMMA AveragedMore ==
    ASSUME NEW h \in [0 .. HistorySize - 1 -> Nat], NEW n \in 0 .. HistorySize - 1,
           NEW a \in Nat, NEW m \in Nat, Averaged(h, n, a, m)
    PROVE Averaged(h, n + 1, a + h[n], m + (IF h[n] # 0 THEN 1 ELSE 0))
<1>1. HistorySize \in Nat /\ n \in Nat /\ h[n] \in Nat /\ n \in 0 .. (n + 1) - 1
      /\ \A j \in 0 .. (n + 1) - 1 : j = n \/ j \in 0 .. n - 1
  BY Numbers
<1>h. \A j \in 0 .. (n + 1) - 1 : h[j] \in Nat
  BY <1>1
<1>2. CASE h[n] = 0
  <2>1. CASE AllZero(h, n) /\ a = 0 /\ m = 0
    BY <1>1, <1>2, <2>1 DEF Averaged, AllZero
  <2>2. CASE m > 0 /\ Within(h, n, a, m)
    <3>1. 0 .. n - 1 \subseteq 0 .. (n + 1) - 1
      BY <1>1
    <3>2. Within(h, n + 1, a, m)
      BY <2>2, <3>1 DEF Within
    <3> QED BY <1>2, <2>2, <3>2 DEF Averaged
  <2> QED BY <2>1, <2>2 DEF Averaged
<1>3. CASE h[n] # 0
  <2>1. CASE AllZero(h, n) /\ a = 0 /\ m = 0
    <3>1. h[n] * 1 = h[n]
      BY <1>1
    <3>2. Within(h, n + 1, 0 + h[n], 1)
      BY <1>1, <1>3, <3>1 DEF Within
    <3> QED BY <1>1, <1>3, <2>1, <3>2 DEF Averaged
  <2>2. CASE m > 0 /\ Within(h, n, a, m)
    <3>1. PICK j, k \in 0 .. n - 1 : h[j] # 0 /\ h[k] # 0 /\ h[j] * m <= a /\ a <= h[k] * m
      BY <2>2 DEF Within
    <3>2. j \in 0 .. (n + 1) - 1 /\ k \in 0 .. (n + 1) - 1 /\ h[j] \in Nat /\ h[k] \in Nat
      BY <1>1, <1>h
    <3>3. \E y \in {h[j], h[n]} : y * (m + 1) <= a + h[n]
      BY <1>1, <3>1, <3>2, LowAgain
    <3>4. \E i \in {j, n} : h[i] * (m + 1) <= a + h[n]
      BY <3>3
    <3>5. \E y \in {h[k], h[n]} : a + h[n] <= y * (m + 1)
      BY <1>1, <3>1, <3>2, HighAgain
    <3>6. \E i \in {k, n} : a + h[n] <= h[i] * (m + 1)
      BY <3>5
    <3>7. Within(h, n + 1, a + h[n], m + 1)
      BY <1>1, <1>3, <3>1, <3>2, <3>4, <3>6 DEF Within
    <3> QED BY <1>3, <2>2, <3>7 DEF Averaged
  <2> QED BY <2>1, <2>2 DEF Averaged
<1> QED BY <1>2, <1>3

\* The bounds hold for the whole history: its beginnings for which they do not have no
\* shortest one.
LEMMA AverageBetween ==
    ASSUME NEW h \in [0 .. HistorySize - 1 -> Nat]
    PROVE \/ AllZero(h, HistorySize) /\ Average(h) = 0
          \/ \E j, k \in 0 .. HistorySize - 1 : /\ h[j] # 0 /\ h[k] # 0
                                                /\ h[j] <= Average(h) /\ Average(h) <= h[k]
<1> DEFINE all == [i \in 1 .. HistorySize |-> h[i - 1]]
           full == [i \in 1 .. HistorySize |-> IF h[i - 1] # 0 THEN 1 ELSE 0]
           Holds(n) == Averaged(h, n, Sums(all)[n], Sums(full)[n])
           Bad == {n \in 0 .. HistorySize : ~Holds(n)}
<1>1. HistorySize \in Nat \ {0}
  BY Numbers
<1>2. all \in Seq(Nat) /\ full \in Seq(Nat) /\ Len(all) = HistorySize /\ Len(full) = HistorySize
  BY <1>1
<1>3. \A i \in 1 .. HistorySize : all[i] = h[i - 1] /\ full[i] = IF h[i - 1] # 0 THEN 1 ELSE 0
  OBVIOUS
<1>4. Average(h) = IF Sum(full) = 0 THEN 0 ELSE Sum(all) \div Sum(full)
  BY DEF Average
<1> HIDE DEF all, full
<1>5. /\ Sums(all) \in [0 .. HistorySize -> Nat] /\ Sums(all)[0] = 0
      /\ \A i \in 1 .. HistorySize : Sums(all)[i] = Sums(all)[i - 1] + all[i]
  BY <1>2, SumsOf
<1>6. /\ Sums(full) \in [0 .. HistorySize -> Nat] /\ Sums(full)[0] = 0
      /\ \A i \in 1 .. HistorySize : Sums(full)[i] = Sums(full)[i - 1] + full[i]
  BY <1>2, SumsOf
<1>7. Holds(0)
  BY <1>5, <1>6 DEF Averaged, AllZero
<1>8. ASSUME NEW n \in 1 .. HistorySize, Holds(n - 1) PROVE Holds(n)
  <2>1. n - 1 \in 0 .. HistorySize - 1 /\ n - 1 \in 0 .. HistorySize /\ (n - 1) + 1 = n
    BY <1>1
  <2>2. Sums(all)[n - 1] \in Nat /\ Sums(full)[n - 1] \in Nat
    BY <1>5, <1>6, <2>1
  <2>3. Averaged(h, (n - 1) + 1, Sums(all)[n - 1] + h[n - 1],
                 Sums(full)[n - 1] + (IF h[n - 1] # 0 THEN 1 ELSE 0))
    BY <1>8, <2>1, <2>2, AveragedMore
  <2> QED BY <1>3, <1>5, <1>6, <2>1, <2>3
<1>9. Holds(HistorySize)
  <2>1. Bad = {}
    <3> SUFFICES ASSUME Bad # {} PROVE FALSE
      OBVIOUS
    <3> HIDE DEF Holds
    <3>1. Bad \subseteq Nat
      BY <1>1
    <3> HIDE DEF Bad
    <3>2. PICK n \in Bad : \A m \in Bad : ~ <<m, n>> \in OpToRel(<, Nat)
      BY <3>1, NatLessThanWellFounded, WFMin
    <3>3. n \in 0 .. HistorySize /\ ~Holds(n)
      BY DEF Bad
    <3>4. n # 0
      BY <1>7, <3>3
    <3>5. n - 1 \in 0 .. HistorySize /\ n - 1 \in Nat /\ n \in Nat /\ n - 1 < n /\ n \in 1 .. HistorySize
      BY <1>1, <3>3, <3>4
    <3>6. <<n - 1, n>> \in OpToRel(<, Nat)
      BY <3>5, SMT DEF OpToRel
    <3>7. n - 1 \notin Bad
      BY <3>2, <3>6, Zenon
    <3>8. Holds(n - 1)
      BY <3>5, <3>7 DEF Bad
    <3> QED BY <1>8, <3>3, <3>5, <3>8
  <2>2. HistorySize \in 0 .. HistorySize
    BY <1>1
  <2> HIDE DEF Holds
  <2> QED BY <2>1, <2>2
<1> DEFINE a == Sum(all)
           m == Sum(full)
<1>10. a = Sums(all)[HistorySize] /\ m = Sums(full)[HistorySize] /\ a \in Nat /\ m \in Nat
  BY <1>1, <1>2, <1>5, <1>6 DEF Sum
<1>11. Averaged(h, HistorySize, a, m) /\ Average(h) = IF m = 0 THEN 0 ELSE a \div m
  BY <1>4, <1>9, <1>10
<1> HIDE DEF a, m
<1>12. CASE AllZero(h, HistorySize) /\ a = 0 /\ m = 0
  BY <1>11, <1>12
<1>13. CASE m > 0 /\ Within(h, HistorySize, a, m)
  <2>1. PICK j, k \in 0 .. HistorySize - 1 : h[j] # 0 /\ h[k] # 0 /\ h[j] * m <= a /\ a <= h[k] * m
    BY <1>13 DEF Within
  <2>2. h[j] \in Nat /\ h[k] \in Nat /\ a \in Nat /\ m \in Nat \ {0}
    BY <1>10, <1>13
  <2>3. h[j] <= a \div m /\ a \div m <= h[k]
    BY <2>1, <2>2, DivBetween
  <2> QED BY <1>11, <2>1, <2>2, <2>3
<1> QED BY <1>11, <1>12, <1>13 DEF Averaged
-----------------------------------------------------------------------------
\* What was reported stays reported.
LEMMA MeasuredStays == TypeInv /\ ReportInv /\ [Reader]_vars => \A v : Measured(v) => (Measured(v))'
<1> SUFFICES ASSUME TypeInv, ReportInv, [Reader]_vars,
                    NEW v, NEW i \in DOMAIN heard, heard[i].cmd = VOLTAGE, heard[i].data = v
             PROVE \E k \in DOMAIN heard' : heard'[k].cmd = VOLTAGE /\ heard'[k].data = v
  BY DEF Measured
<1>1. CASE GoodFrame
  <2>1. i \in DOMAIN heard' /\ heard'[i] = heard[i]
    BY <1>1, Reports
  <2> QED BY <2>1
<1>2. CASE UNCHANGED heard
  BY <1>2
<1>3. GoodFrame \/ UNCHANGED heard
  BY DEF Reader, Open, OpenFails, Batch, Idle, Start, Header, Command, LengthLow, LengthHigh, Data, Summed,
         Validated, BadFrame, Ignore, Flush, vars, props
<1> QED BY <1>1, <1>2, <1>3

\* Every voltage in the history was reported, and the average lies between two.
LEMMA VoltageStep == TypeInv /\ ReportInv /\ VoltageInv /\ [Reader]_vars => VoltageInv'
<1> SUFFICES ASSUME TypeInv, ReportInv, VoltageInv, [Reader]_vars PROVE VoltageInv'
  OBVIOUS
<1>1. PropsInv /\ ParserInv /\ PropsInv' /\ HistorySize \in Nat \ {0}
  BY PropsStep, Numbers DEF TypeInv
<1>2. CASE GoodFrame
  <2>1. \A v : Measured(v) => (Measured(v))'
    BY MeasuredStays
  <2>2. CASE mCmd = VOLTAGE
    <3>1. \E k \in DOMAIN heard' : heard'[k].cmd = VOLTAGE /\ heard'[k].data = mData
      <4>1. Len(heard') \in DOMAIN heard' /\ heard'[Len(heard')].cmd = mCmd /\ heard'[Len(heard')].data = mData
        BY <1>2, Reports
      <4> QED BY <2>2, <4>1
    <3>2. history' = [history EXCEPT ![next] = mData] /\ voltage' = Average(history')
      BY <1>2, <2>2 DEF GoodFrame, StoreVoltage
    <3>3. ASSUME NEW j \in 0 .. HistorySize - 1, history'[j] # 0
          PROVE \E k \in DOMAIN heard' : heard'[k].cmd = VOLTAGE /\ heard'[k].data = history'[j]
      <4>1. CASE j = next
        BY <1>1, <3>1, <3>2, <4>1 DEF PropsInv
      <4>2. CASE j # next
        <5>1. history'[j] = history[j]
          BY <1>1, <3>2, <4>2 DEF PropsInv
        <5> QED BY <2>1, <3>3, <5>1 DEF VoltageInv, Measured
      <4> QED BY <4>1, <4>2
    <3>4. \E low, high \in Nat :
             /\ \E k \in DOMAIN heard' : heard'[k].cmd = VOLTAGE /\ heard'[k].data = low
             /\ \E k \in DOMAIN heard' : heard'[k].cmd = VOLTAGE /\ heard'[k].data = high
             /\ low <= voltage' /\ voltage' <= high
      <4>0. history' \in [0 .. HistorySize - 1 -> Nat]
        BY <1>1 DEF PropsInv
      <4>1. CASE AllZero(history', HistorySize) /\ Average(history') = 0
        <5>1. mData = 0
          BY <1>1, <3>2, <4>1 DEF AllZero, PropsInv
        <5>2. 0 <= voltage' /\ voltage' <= 0
          BY <3>2, <4>1
        <5> QED BY <3>1, <5>1, <5>2
      <4>2. CASE \E j, k \in 0 .. HistorySize - 1 :
                   /\ history'[j] # 0 /\ history'[k] # 0
                   /\ history'[j] <= Average(history') /\ Average(history') <= history'[k]
        <5>1. PICK j, k \in 0 .. HistorySize - 1 :
                   /\ history'[j] # 0 /\ history'[k] # 0
                   /\ history'[j] <= voltage' /\ voltage' <= history'[k]
          BY <3>2, <4>2
        <5>2. history'[j] \in Nat /\ history'[k] \in Nat
          BY <4>0
        <5>3. \E i \in DOMAIN heard' : heard'[i].cmd = VOLTAGE /\ heard'[i].data = history'[j]
          BY <3>3, <5>1
        <5>4. \E i \in DOMAIN heard' : heard'[i].cmd = VOLTAGE /\ heard'[i].data = history'[k]
          BY <3>3, <5>1
        <5> QED BY <5>1, <5>2, <5>3, <5>4
      <4> QED BY <4>0, <4>1, <4>2, AverageBetween
    <3> QED BY <3>3, <3>4 DEF VoltageInv, Measured
  <2>3. CASE mCmd # VOLTAGE
    <3>1. history' = history /\ voltage' = voltage
      BY <1>2, <2>3 DEF GoodFrame
    <3> QED BY <2>1, <3>1 DEF VoltageInv, Measured
  <2> QED BY <2>2, <2>3
<1>3. CASE UNCHANGED <<history, voltage, heard>>
  BY <1>3 DEF VoltageInv, Measured
<1>4. GoodFrame \/ UNCHANGED <<history, voltage, heard>>
  BY DEF Reader, Open, OpenFails, Batch, Idle, Start, Header, Command, LengthLow, LengthHigh, Data, Summed,
         Validated, BadFrame, Ignore, Flush, vars, props
<1> QED BY <1>2, <1>3, <1>4

-----------------------------------------------------------------------------
\* The invariant holds at the start, is kept by every step, and so holds always.
LEMMA InitInductive == Init => IInv
<1> SUFFICES ASSUME Init PROVE IInv
  OBVIOUS
<1>1. TypeInv /\ SyncInv /\ WholeInv
  BY InitType DEF Init, SyncInv, WholeInv
<1>2. ReportInv
  BY DEF Init, McuInit, ReportInv, Unset
<1>3. VoltageInv /\ OnlySent
  BY DEF Init, McuInit, VoltageInv, OnlySent
<1> QED BY <1>1, <1>2, <1>3 DEF IInv

LEMMA StepInductive == IInv /\ [Reader]_vars => IInv'
  BY PlaceStep, ParserStep, PropsStep, SyncStep, WholeStep, ReportStep, VoltageStep, SentStep
     DEF IInv, TypeInv

LEMMA Inductive == Spec => []IInv
  BY InitInductive, StepInductive, PTL DEF Spec

\* The parser's variables, the history and the reports keep their ranges; the place
\* on the line is one of a frame that is sent, or the end.
THEOREM ReaderTypes == Spec => []TypeInv
<1>1. IInv => TypeInv
  BY DEF IInv
<1> QED BY <1>1, Inductive, PTL

\* Whatever was lost before, wherever the reader began and whatever was on the stack:
\* a report from bytes without a gap since the last 0x5A is of a frame that was sent.
THEOREM SentOnly == Spec => []OnlySent
<1>1. IInv => OnlySent
  BY DEF IInv
<1> QED BY <1>1, Inductive, PTL

\* A frame without a second 0x5A of which every byte was read, is reported.
THEOREM WholeHeard == Spec => []WholeIsHeard
<1>1. IInv => WholeIsHeard
  <2> SUFFICES ASSUME IInv, last.frame # 0, Clean(sent[last.frame]), whole = Len(Bytes(sent[last.frame]))
               PROVE \E i \in DOMAIN heard : heard[i].frame = last.frame /\ heard[i].gap = 0
    BY DEF WholeIsHeard
  <2>1. OnLine(last) /\ WholeInv
    BY DEF IInv, TypeInv, PlaceInv, Place
  <2>2. whole = Size(last.frame) /\ whole > 0
    BY <2>1, SizeOf DEF IInv, TypeInv, PlaceInv, OnLine, Size
  <2> QED BY <2>1, <2>2 DEF WholeInv, HeardWhole
<1> QED BY <1>1, Inductive, PTL

\* A report from bytes without a gap is of a voltage that was sent.
LEMMA MeasuredIsSent ==
    ASSUME OnlySent, \A i \in DOMAIN heard : heard[i].gap = 0, NEW v, Measured(v)
    PROVE \E f \in {sent[heard[i].frame] : i \in DOMAIN heard} : f.cmd = VOLTAGE /\ Value(f) = v
<1>1. PICK i \in DOMAIN heard : heard[i].cmd = VOLTAGE /\ heard[i].data = v
  BY DEF Measured
<1>2. sent[heard[i].frame].cmd = VOLTAGE /\ Value(sent[heard[i].frame]) = v
  BY <1>1 DEF OnlySent
<1> QED BY <1>2

\* The average of a voltage history lies between voltages the microcontroller sent,
\* if no broken frame was reported.
THEOREM VoltageBounds == Spec => []VoltageBetween
<1>1. IInv => VoltageBetween
  <2> SUFFICES ASSUME IInv, voltage # Unset, \A i \in DOMAIN heard : heard[i].gap = 0
               PROVE \E low, high \in {sent[heard[i].frame] : i \in DOMAIN heard} :
                         /\ low.cmd = VOLTAGE /\ high.cmd = VOLTAGE
                         /\ Value(low) <= voltage /\ voltage <= Value(high)
    BY DEF VoltageBetween
  <2>1. PICK low, high \in Nat : Measured(low) /\ Measured(high) /\ low <= voltage /\ voltage <= high
    BY DEF IInv, VoltageInv
  <2> QED BY <2>1, MeasuredIsSent DEF IInv
<1> QED BY <1>1, Inductive, PTL

\* What the reader does to its properties is what McuProperties allows.
LEMMA McuStep == IInv /\ IInv' /\ [Reader]_vars => McuNext(Nat) \/ UNCHANGED mcu
<1> SUFFICES ASSUME IInv, IInv', [Reader]_vars
             PROVE McuNext(Nat) \/ UNCHANGED mcu
  OBVIOUS
<1>1. CASE GoodFrame
  <2>1. valid = 1 /\ valid' = valid
    BY <1>1 DEF GoodFrame, IInv, ReportInv
  <2>2. CASE mCmd = VOLTAGE
    <3>1. voltage' = Average(history') /\ charge' = charge
      BY <1>1, <2>2 DEF GoodFrame, StoreVoltage, VOLTAGE, CHARGE
    <3>2. voltage' \in Nat
      BY <3>1, AverageOf DEF IInv, TypeInv, PropsInv
    <3> QED BY <2>1, <3>1, <3>2 DEF McuNext, Measure
  <2>3. CASE mCmd = CHARGE
    <3>1. voltage' = voltage /\ charge' \in {0, 1}
      BY <1>1, <2>3 DEF GoodFrame, VOLTAGE, CHARGE
    <3> QED BY <2>1, <3>1 DEF McuNext, Charge
  <2>4. CASE mCmd # VOLTAGE /\ mCmd # CHARGE
    BY <1>1, <2>1, <2>4 DEF GoodFrame, mcu
  <2> QED BY <2>2, <2>3, <2>4
<1>2. CASE Idle
  <2>1. UNCHANGED <<voltage, charge>> /\ (valid' = valid \/ (valid' = 0 /\ valid # 1 /\ valid # 0))
    BY <1>2 DEF Idle, IInv, ReportInv
  <2>2. valid \in {Unset, 0, 1}
    BY DEF IInv, TypeInv, PropsInv
  <2> QED BY <2>1, <2>2 DEF McuNext, GiveUp, mcu, Unset
<1>3. CASE Validated
  <2>1. UNCHANGED <<voltage, charge>> /\ valid' = 1 /\ valid # 0
    BY <1>3 DEF Validated, Get, IInv, ReportInv
  <2>2. valid \in {Unset, 0, 1}
    BY DEF IInv, TypeInv, PropsInv
  <2> QED BY <2>1, <2>2 DEF McuNext, Validate, mcu, Unset
<1>4. CASE UNCHANGED <<valid, voltage, charge>>
  BY <1>4 DEF mcu
<1> QED BY <1>1, <1>2, <1>3, <1>4
        DEF Reader, Open, OpenFails, Batch, Start, Header, Command, LengthLow, LengthHigh, Data, BadFrame, Ignore,
            Flush, vars, props

\* ttyreader sets its properties only as McuProperties allows, one at a time and none
\* before it is decided that there is a microcontroller.
THEOREM ReaderIsMcu == Spec => McuSpec
<1>1. Init => McuInit
  BY DEF Init, McuInit, Unset
<1>2. IInv /\ IInv' /\ [Reader]_vars => [McuNext(Nat)]_mcu
  BY McuStep
<1> QED BY <1>1, <1>2, Inductive, PTL DEF Spec, McuSpec

-----------------------------------------------------------------------------
(* The health HAL                                                             *)
LevelSet == 0 .. 100 \ {99}
Statuses == {"unknown", "charging", "discharging"}

HealthTypes ==
           /\ charge \in {Unset, 0, 1} /\ changed \in {0, 1}
           /\ voltage \in Nat \cup {Unset} /\ read \in Nat \cup {Unset}
           /\ mLastCapacity \in LevelSet
           /\ answer \in Int
           /\ info \in [present : {0, 1}, status : Statuses, ac : {0, 1}, level : 0 .. 100]

\* What the report holds already agrees with the charge, unless that changed.
PartInv == changed = 0 /\ call = "UpdateHealthInfo" =>
    /\ pc \in {"status", "present", "voltage", "capacity"} => (info.ac = 1 <=> charge = 1)
    /\ pc \in {"present", "voltage", "capacity"} => info.status = Status
    /\ pc \in {"voltage", "capacity"} => (info.present = 1 <=> charge # Unset)

\* What it holds of a charge that changed is in the order the charge was read in: a
\* charge that was known once stays known.
TornInv == call = "UpdateHealthInfo" =>
    /\ pc \in {"device", "ac"} => info = Empty
    /\ pc = "status" => info.status = "unknown" /\ (info.ac = 1 => charge # Unset)
    /\ pc \in {"present", "voltage", "capacity"} => (info.ac = 1 => info.status # "unknown")
    /\ pc = "present" => (info.status # "unknown" => charge # Unset)
    /\ pc \in {"voltage", "capacity"} => (info.status # "unknown" => info.present = 1)

CallInv == /\ pc \in {"device", "ac", "status", "present", "fake"} => call = "UpdateHealthInfo"
           /\ pc = "device" => info = Empty

\* What was answered without a charger is no less than what is remembered.
CapInv == charging = 0 => mLastCapacity <= answer

HealthInv == HealthTypes /\ PartInv /\ TornInv /\ CallInv /\ CapInv /\ Consistent

-----------------------------------------------------------------------------
\* The table gives one of its levels, or none.
LEMMA LevelOf ==
    ASSUME NEW v \in Nat
    PROVE calcBatteryLevel(v) \in LevelSet \cup {-1}
<1> DEFINE below == {l \in Levels : v > l[1]}
           above == {v - k[1] : k \in below}
<1>1. \A l \in Levels : l[1] \in Nat /\ l[2] \in LevelSet
  BY BatteryAssumption DEF BatteryAssumption, LevelSet
<1>2. CASE below = {}
  BY <1>2 DEF calcBatteryLevel
<1>3. CASE below # {}
  <2>1. above \subseteq Nat /\ above # {}
    <3>1. \A k \in below : k[1] \in Nat /\ v > k[1]
      BY <1>1
    <3>2. \A k \in below : v - k[1] \in Nat
      BY <3>1
    <3> QED BY <1>3, <3>2
  <2> HIDE DEF above
  <2>2. PICK g \in above : \A h \in above : ~ <<h, g>> \in OpToRel(<, Nat)
    BY <2>1, NatLessThanWellFounded, WFMin
  <2>3. \A h \in above : g <= h
    <3>1. ASSUME NEW h \in above, h < g PROVE <<h, g>> \in OpToRel(<, Nat)
      <4>1. h \in Nat /\ g \in Nat
        BY <2>1
      <4> QED BY <3>1, <4>1, SMT DEF OpToRel
    <3>2. \A h \in above : ~ (h < g)
      BY <2>2, <3>1, Zenon
    <3> QED BY <2>1, <3>2
  <2>4. \E l \in below : \A m \in below : m[1] <= l[1]
    <3>1. PICK l \in below : g = v - l[1]
      BY DEF above
    <3>2. ASSUME NEW m \in below PROVE m[1] <= l[1]
      <4>1. v - m[1] \in above
        BY DEF above
      <4>2. m[1] \in Nat /\ l[1] \in Nat
        BY <1>1
      <4> QED BY <2>3, <3>1, <4>1, <4>2
    <3> QED BY <3>2
  <2>5. (CHOOSE l \in below : \A m \in below : m[1] <= l[1]) \in below
    BY <2>4
  <2> QED BY <1>1, <1>3, <2>5 DEF calcBatteryLevel
<1> QED BY <1>2, <1>3

LEMMA CapacityOf ==
    ASSUME HealthTypes
    PROVE Capacity \in LevelSet \cup {-1}
  BY LevelOf DEF HealthTypes, Capacity, Unset

LEMMA CappedOf ==
    ASSUME HealthTypes, Capacity # -1
    PROVE /\ Capped \in LevelSet
          /\ charge = 0 => Capped <= mLastCapacity
  BY CapacityOf DEF HealthTypes, Capped, LevelSet

LEMMA ShownOf ==
    ASSUME HealthTypes
    PROVE /\ Shown \in 0 .. 100
          /\ Shown = 99 <=> charge = 1
          /\ charge = 0 /\ Capacity # -1 => Shown = Capped
  BY CapacityOf, CappedOf DEF HealthTypes, Shown, LevelSet, Unset

LEMMA StatusOf ==
    ASSUME HealthTypes
    PROVE /\ Status \in Statuses
          /\ Status = "charging" <=> charge = 1
          /\ Status = "unknown" <=> charge = Unset
  BY DEF HealthTypes, Status, Statuses, Unset

-----------------------------------------------------------------------------
LEMMA HealthInit == BatteryInit => HealthInv
<1> SUFFICES ASSUME BatteryInit PROVE HealthInv
  OBVIOUS
<1>1. HealthTypes
  BY DEF BatteryInit, McuInit, HealthTypes, Empty, Statuses, LevelSet, Unset
<1> QED BY <1>1 DEF BatteryInit, McuInit, HealthInv, PartInv, TornInv, CallInv, CapInv, Consistent, Empty, Unset

LEMMA HealthTypeStep ==
    HealthTypes /\ [BatteryNext]_batteryVars => HealthTypes'
<1> SUFFICES ASSUME HealthTypes, [BatteryNext]_batteryVars PROVE HealthTypes'
  OBVIOUS
<1>1. CASE Tty
  BY <1>1, BatteryAssumption
     DEF BatteryAssumption, Tty, McuNext, Validate, GiveUp, Measure, Charge, HealthTypes
<1>2. CASE IsBatteryDevice \/ ReadVoltage
  BY <1>2 DEF IsBatteryDevice, ReadVoltage, Goto, tty, mcu, HealthTypes
<1>3. CASE Ac
  BY <1>3 DEF Ac, Goto, tty, mcu, HealthTypes
<1>4. CASE SetStatus
  BY <1>4, StatusOf DEF SetStatus, Goto, tty, mcu, HealthTypes
<1>5. CASE SetPresent
  BY <1>5 DEF SetPresent, Goto, tty, mcu, HealthTypes
<1>6. CASE ReadCapacity
  <2>1. mLastCapacity' \in LevelSet
    BY <1>6, CappedOf DEF ReadCapacity, Remember, HealthTypes
  <2>2. answer' \in Int
    BY <1>6, ShownOf DEF ReadCapacity
  <2>3. info' \in [present : {0, 1}, status : Statuses, ac : {0, 1}, level : 0 .. 100]
    BY <1>6, ShownOf DEF ReadCapacity, HealthTypes
  <2> QED BY <1>6, <2>1, <2>2, <2>3 DEF ReadCapacity, tty, mcu, HealthTypes
<1>7. CASE Fake
  <2>1. info' \in [present : {0, 1}, status : Statuses, ac : {0, 1}, level : 0 .. 100]
    BY <1>7 DEF Fake, HealthTypes, Statuses
  <2> QED BY <1>7, <2>1 DEF Fake, tty, mcu, HealthTypes
<1>8. ASSUME NEW c, Call(c) PROVE HealthTypes'
  BY <1>8 DEF Call, tty, mcu, HealthTypes, Empty, Statuses
<1>9. CASE UNCHANGED batteryVars
  BY <1>9 DEF batteryVars, tty, mcu, HealthTypes
<1> QED BY <1>1, <1>2, <1>3, <1>4, <1>5, <1>6, <1>7, <1>8, <1>9 DEF BatteryNext, Health

LEMMA CapStep == HealthTypes /\ CapInv /\ [BatteryNext]_batteryVars => CapInv'
<1> SUFFICES ASSUME HealthTypes, CapInv, [BatteryNext]_batteryVars PROVE CapInv'
  OBVIOUS
<1>1. CASE ReadCapacity
  <2>1. CASE charge = 0 /\ Capacity # -1
    BY <1>1, <2>1, ShownOf, CappedOf DEF ReadCapacity, Remember, CapInv, LevelSet
  <2>2. CASE charge = 0 /\ Capacity = -1
    BY <1>1, <2>2 DEF ReadCapacity, Remember, Shown, CapInv, HealthTypes, LevelSet, Unset
  <2>3. CASE charge # 0
    BY <1>1, <2>3 DEF ReadCapacity, CapInv
  <2> QED BY <2>1, <2>2, <2>3
<1>2. CASE Tty
  BY <1>2 DEF Tty, McuNext, Validate, GiveUp, Measure, Charge, CapInv
<1>3. ASSUME NEW c, Call(c) PROVE CapInv'
  BY <1>3 DEF Call, CapInv
<1>4. CASE Health /\ ~ReadCapacity
  BY <1>4 DEF Health, IsBatteryDevice, Ac, SetStatus, SetPresent, ReadVoltage, Fake, CapInv
<1>5. CASE UNCHANGED batteryVars
  BY <1>5 DEF batteryVars, CapInv
<1> QED BY <1>1, <1>2, <1>3, <1>4, <1>5 DEF BatteryNext

LEMMA ReportAgrees ==
    HealthTypes /\ PartInv /\ TornInv /\ CallInv /\ Consistent /\ [BatteryNext]_batteryVars
      => (PartInv /\ TornInv /\ CallInv /\ Consistent)'
<1> SUFFICES ASSUME HealthTypes, PartInv, TornInv, CallInv, Consistent, [BatteryNext]_batteryVars
             PROVE (PartInv /\ TornInv /\ CallInv /\ Consistent)'
  OBVIOUS
<1>1. CASE Tty
  <2>1. UNCHANGED <<call, pc, info>> /\ changed' = IF charge' = charge THEN changed ELSE 1
    BY <1>1 DEF Tty
  <2>2. CASE charge' = charge
    BY <2>1, <2>2 DEF PartInv, TornInv, CallInv, Consistent, Status
  <2>3. CASE charge' # charge
    <3>1. charge' \in {0, 1} /\ changed' = 1
      BY <1>1, <2>1, <2>3 DEF Tty, McuNext, Validate, GiveUp, Measure, Charge
    <3> QED BY <2>1, <3>1 DEF Unset, PartInv, TornInv, CallInv, Consistent
  <2> QED BY <2>2, <2>3
<1>3. CASE IsBatteryDevice
  BY <1>3 DEF IsBatteryDevice, Empty, Goto, tty, mcu, PartInv, TornInv, CallInv, Consistent
<1>4. CASE Ac
  BY <1>4, StatusOf DEF Ac, Empty, Goto, tty, mcu, HealthTypes, PartInv, TornInv, CallInv, Consistent
<1>5. CASE SetStatus
  BY <1>5, StatusOf DEF SetStatus, Empty, Goto, tty, mcu, HealthTypes, PartInv, TornInv, CallInv, Consistent, Status
<1>6. CASE SetPresent
  BY <1>6, StatusOf DEF SetPresent, Goto, tty, mcu, HealthTypes, PartInv, TornInv, CallInv, Consistent, Status
<1>7. CASE ReadVoltage
  BY <1>7 DEF ReadVoltage, Goto, tty, mcu, PartInv, TornInv, CallInv, Consistent, Status
<1>8. CASE ReadCapacity
  BY <1>8, StatusOf, ShownOf DEF ReadCapacity, Goto, tty, mcu, HealthTypes, PartInv, TornInv, CallInv, Consistent
<1>9. CASE Fake \/ \E c \in {"UpdateHealthInfo", "getCapacity"} : Call(c)
  BY <1>9 DEF Fake, Call, Empty, Goto, tty, mcu, PartInv, TornInv, CallInv, Consistent
<1>10. CASE UNCHANGED batteryVars
  BY <1>10 DEF batteryVars, tty, mcu, PartInv, TornInv, CallInv, Consistent, Status
<1> QED BY <1>1, <1>3, <1>4, <1>5, <1>6, <1>7, <1>8, <1>9, <1>10 DEF BatteryNext, Health

LEMMA HealthInductive == HealthInv /\ [BatteryNext]_batteryVars => HealthInv'
  BY HealthTypeStep, CapStep, ReportAgrees DEF HealthInv

\* A report agrees with itself unless ttyreader changed the charge under it.
THEOREM Consistency == BatterySpec => []Consistent
<1>1. HealthInv => Consistent
  BY DEF HealthInv
<1> QED BY <1>1, HealthInit, HealthInductive, PTL DEF BatterySpec

\* Without a charger an answer is at most what was remembered of the one before.
LEMMA RiseStep ==
    HealthInv /\ [BatteryNext]_batteryVars =>
      [pc = "capacity" /\ charging = 0 /\ charge = 0 /\ Capacity # -1 => answer' <= answer]_batteryVars
<1> SUFFICES ASSUME HealthInv, [BatteryNext]_batteryVars, pc = "capacity",
                    charging = 0, charge = 0, Capacity # -1, ~ UNCHANGED batteryVars
             PROVE answer' <= answer
  OBVIOUS
<1>1. CASE ReadCapacity
  <2>1. answer' = Capped /\ Capped <= mLastCapacity /\ Capped \in LevelSet
    BY <1>1, ShownOf, CappedOf DEF HealthInv, ReadCapacity
  <2> QED BY <2>1 DEF HealthInv, CapInv, HealthTypes, LevelSet
<1>2. CASE UNCHANGED answer
  BY <1>2 DEF HealthInv, HealthTypes
<1>3. ReadCapacity \/ UNCHANGED answer
  BY DEF BatteryNext, Tty, Health, IsBatteryDevice, Ac, SetStatus,
         SetPresent, ReadVoltage, Fake, Call
<1> QED BY <1>1, <1>2, <1>3

\* "it can never get higher if we are not charging", for every table and voltage.
THEOREM NoRise == BatterySpec => NeverHigher
<1>1. HealthInv /\ [BatteryNext]_batteryVars => [pc = "capacity" /\ charging = 0 /\ charge = 0 /\ Capacity # -1 => answer' <= answer]_batteryVars
  BY RiseStep
<1> QED BY <1>1, HealthInit, HealthInductive, PTL DEF BatterySpec, NeverHigher

-----------------------------------------------------------------------------
(* The two together                                                           *)

\* The composition moves ttyreader as its own specification does.
LEMMA CutieReads == [CutieNext]_<<vars, healthVars, changed>> => [Reader]_vars
  BY DEF CutieNext, ReaderStep, HealthStep

LEMMA CutieInductive == CutieSpec => []IInv
<1>1. CutieInit => IInv
  BY InitInductive DEF CutieInit
<1>2. IInv /\ [CutieNext]_<<vars, healthVars, changed>> => IInv'
  BY CutieReads, StepInductive
<1> QED BY <1>1, <1>2, PTL DEF CutieSpec

\* The health HAL of the composition is that of Battery: the reader of the code does
\* to the properties what Battery expects of any.
LEMMA CutieStep ==
    ASSUME Voltages = Nat
    PROVE IInv /\ IInv' /\ [CutieNext]_<<vars, healthVars, changed>> => [BatteryNext]_batteryVars
<1> SUFFICES ASSUME IInv, IInv', [CutieNext]_<<vars, healthVars, changed>>
             PROVE BatteryNext \/ UNCHANGED batteryVars
  OBVIOUS
<1>1. CASE ReaderStep
  <2>1. McuNext(Nat) \/ UNCHANGED mcu
    BY <1>1, McuStep DEF ReaderStep
  <2>2. CASE McuNext(Nat)
    BY <1>1, <2>2 DEF ReaderStep, healthVars, BatteryNext, Tty
  <2>3. CASE UNCHANGED mcu
    BY <1>1, <2>3 DEF ReaderStep, healthVars, batteryVars, tty, mcu
  <2> QED BY <2>1, <2>2, <2>3
<1>2. CASE HealthStep
  BY <1>2 DEF HealthStep, BatteryNext
<1>3. CASE UNCHANGED <<vars, healthVars, changed>>
  BY <1>3 DEF vars, props, healthVars, batteryVars, tty, mcu
<1> QED BY <1>1, <1>2, <1>3 DEF CutieNext

\* Battery runs with ttyreader as McuProperties describes it; with the one of the
\* code it does nothing else.
THEOREM CutieIsBattery ==
    ASSUME Voltages = Nat
    PROVE CutieSpec => BatteryInit /\ [][BatteryNext]_batteryVars
<1>1. CutieInit => BatteryInit
  BY DEF CutieInit
<1>2. IInv /\ IInv' /\ [CutieNext]_<<vars, healthVars, changed>> => [BatteryNext]_batteryVars
  BY CutieStep
<1> QED BY <1>1, <1>2, CutieInductive, PTL DEF CutieSpec

\* So with the reader of the code, too, a report agrees with itself unless the charge
\* changed under it, and the level does not rise without a charger.
THEOREM CutieReports ==
    ASSUME Voltages = Nat
    PROVE CutieSpec => []Consistent /\ NeverHigher
<1>1. HealthInv => Consistent
  BY DEF HealthInv
<1>2. BatteryInit => HealthInv
  BY HealthInit
<1>3. HealthInv /\ [BatteryNext]_batteryVars => HealthInv'
  BY HealthInductive
<1>4. HealthInv /\ [BatteryNext]_batteryVars =>
        [pc = "capacity" /\ charging = 0 /\ charge = 0 /\ Capacity # -1 => answer' <= answer]_batteryVars
  BY RiseStep
<1> QED BY <1>1, <1>2, <1>3, <1>4, CutieIsBattery, PTL DEF NeverHigher

\* The voltage that was read lies between two that were reported.
ReadInv == read # Unset => \E low, high \in Nat : /\ Measured(low) /\ Measured(high)
                                                  /\ low <= read /\ read <= high

LEMMA ReadStep == IInv /\ ReadInv /\ [CutieNext]_<<vars, healthVars, changed>> => ReadInv'
<1> SUFFICES ASSUME IInv, ReadInv, [CutieNext]_<<vars, healthVars, changed>> PROVE ReadInv'
  OBVIOUS
<1>1. \A v : Measured(v) => (Measured(v))'
  BY CutieReads, MeasuredStays DEF IInv
<1>2. CASE read' = read
  BY <1>1, <1>2 DEF ReadInv
<1>3. CASE read' = voltage
  BY <1>1, <1>3 DEF IInv, VoltageInv, ReadInv
<1>4. read' = read \/ read' = voltage
  BY DEF CutieNext, ReaderStep, HealthStep, healthVars, Health, Call, IsBatteryDevice, Ac,
         SetStatus, SetPresent, ReadVoltage, ReadCapacity, Fake
<1> QED BY <1>2, <1>3, <1>4

\* From the wire to the report: a level is that of an average of voltages the
\* microcontroller sent, if no broken frame was reported.
THEOREM LevelsMeasured == CutieSpec => []LevelMeasured
<1>1. CutieInit => ReadInv
  BY DEF CutieInit, ReadInv, BatteryInit, Unset
<1>2. IInv /\ ReadInv /\ [CutieNext]_<<vars, healthVars, changed>> => ReadInv'
  BY ReadStep
<1>3. IInv /\ ReadInv => LevelMeasured
  <2> SUFFICES ASSUME IInv, ReadInv, read # Unset, \A i \in DOMAIN heard : heard[i].gap = 0
               PROVE \E low, high \in {sent[heard[i].frame] : i \in DOMAIN heard} :
                         /\ low.cmd = VOLTAGE /\ high.cmd = VOLTAGE
                         /\ Value(low) <= read /\ read <= Value(high)
    BY DEF LevelMeasured
  <2>1. PICK low, high \in Nat : Measured(low) /\ Measured(high) /\ low <= read /\ read <= high
    BY DEF ReadInv
  <2> QED BY <2>1, MeasuredIsSent DEF IInv
<1> QED BY <1>1, <1>2, <1>3, CutieInductive, PTL DEF CutieSpec
=============================================================================
