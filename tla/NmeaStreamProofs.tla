------------------------- MODULE NmeaStreamProofs -------------------------
(* Proofs about NmeaStream for a buffer of any size, lines of any length and  *)
(* any epochs of the form the receiver sends: first the lines, then the       *)
(* location and the satellites, then the two together.                        *)
EXTENDS NmeaStream, WellFoundedInduction, TLAPS

-----------------------------------------------------------------------------
(* The lines.  Inductive only with what the buffer holds in the middle of a   *)
(* line: the part of that line that has arrived, or nothing while it is being *)
(* dropped.                                                                   *)
Record == [lines : SUBSET Nat, size : Nat]

ShapeInv == lens \in Seq(1 .. MaxLen) /\ parsed \in Seq(Record) /\ held \in SUBSET Nat

\* The buffer is the beginning of the line being sent, or empty.
BufferInv ==
    /\ left > 0 => lens # <<>>
    /\ left > 0 /\ overflow = 0 => /\ pos + left = lens[Len(lens)]
                                /\ held = IF pos = 0 THEN {} ELSE {Len(lens)}
    /\ left = 0 \/ overflow = 1 => pos = 0 /\ held = {}

IInv == TypeOK /\ ShapeInv /\ BufferInv /\ WholeLines

LEMMA InitInductive == Init => IInv
<1> SUFFICES ASSUME Init PROVE IInv
  OBVIOUS
<1>1. TypeOK
  BY LineAssumption DEF LineAssumption, Init, TypeOK
<1>2. ShapeInv
  BY DEF Init, ShapeInv
<1>3. BufferInv /\ WholeLines
  BY DEF Init, BufferInv, WholeLines
<1> QED BY <1>1, <1>2, <1>3 DEF IInv

LEMMA StepInductive == IInv /\ [Next]_vars => IInv'
<1> SUFFICES ASSUME IInv, [Next]_vars PROVE IInv'
  OBVIOUS
<1>s. pos \in Nat /\ Size \in Nat /\ left \in Nat /\ MaxLen \in Nat /\ Len(lens) \in Nat
  BY LineAssumption DEF LineAssumption, IInv, TypeOK, ShapeInv
<1>w. UNCHANGED <<parsed, lens>> => WholeLines'
  BY DEF IInv, WholeLines
<1>1. ASSUME NEW n \in 1 .. MaxLen, Begin(n) PROVE IInv'
  <2>1. lens' = Append(lens, n) /\ lens' \in Seq(1 .. MaxLen) /\ Len(lens') = Len(lens) + 1
    BY <1>1 DEF Begin, IInv, ShapeInv
  <2>2. /\ \A i \in 1 .. Len(lens) : lens'[i] = lens[i]
        /\ lens'[Len(lens')] = n
        /\ lens' # <<>>
    BY <2>1 DEF IInv, ShapeInv
  <2>3. TypeOK'
    BY <1>1, <1>s DEF Begin, IInv, TypeOK
  <2>4. ShapeInv'
    BY <1>1, <2>1 DEF Begin, IInv, ShapeInv
  <2>5. BufferInv'
    BY <1>1, <1>s, <2>2 DEF Begin, IInv, BufferInv, TypeOK
  <2>6. WholeLines'
    <3> SUFFICES ASSUME NEW i \in 1 .. Len(parsed)
                 PROVE \E k \in 1 .. Len(lens') :
                         parsed[i].lines = {k} /\ parsed[i].size = lens'[k]
      BY <1>1 DEF Begin, WholeLines
    <3>1. PICK k \in 1 .. Len(lens) : parsed[i].lines = {k} /\ parsed[i].size = lens[k]
      BY DEF IInv, WholeLines
    <3>2. k \in 1 .. Len(lens') /\ lens'[k] = lens[k]
      BY <1>s, <2>1, <2>2
    <3> QED BY <3>1, <3>2
  <2> QED BY <2>3, <2>4, <2>5, <2>6 DEF IInv
<1>2. CASE Skip
  <2>1. TypeOK' /\ ShapeInv'
    BY <1>2, <1>s DEF Skip, IInv, TypeOK, ShapeInv, Newline
  <2>2. BufferInv'
    BY <1>2, <1>s DEF Skip, IInv, BufferInv, TypeOK, Newline
  <2> QED BY <1>2, <1>w, <2>1, <2>2 DEF IInv, Skip
<1>3. CASE Overflow
  <2>1. TypeOK' /\ ShapeInv'
    BY <1>3, <1>s DEF Overflow, IInv, TypeOK, ShapeInv
  <2>2. BufferInv'
    BY <1>3, <1>s DEF Overflow, IInv, BufferInv
  <2> QED BY <1>3, <1>w, <2>1, <2>2 DEF IInv, Overflow
<1>4. CASE Store
  <2>0. left > 0 /\ overflow = 0
    BY <1>4, <1>s DEF Store
  <2>2. held' = {Len(lens)}
    <3>1. held = {} \/ held = {Len(lens)}
      BY <2>0 DEF IInv, BufferInv
    <3> QED BY <1>4, <3>1 DEF Store
  <2>1. TypeOK' /\ ShapeInv'
    BY <1>4, <1>s, <2>2 DEF Store, IInv, TypeOK, ShapeInv
  <2>3. BufferInv'
    BY <1>4, <1>s, <2>2 DEF Store, IInv, BufferInv
  <2> QED BY <1>4, <1>w, <2>1, <2>3 DEF IInv, Store
<1>5. CASE Parse
  <2> DEFINE new == [lines |-> held \cup {Len(lens)}, size |-> pos + 1]
  <2>1. held \cup {Len(lens)} = {Len(lens)} /\ pos + 1 = lens[Len(lens)] /\ lens # <<>>
    BY <1>5, <1>s DEF Parse, Newline, IInv, BufferInv
  <2>2. Len(lens) \in 1 .. Len(lens)
    BY <2>1 DEF IInv, ShapeInv
  <2>3. new \in Record
    BY <1>s, <2>1 DEF Record
  <2>4. parsed' = Append(parsed, new) /\ UNCHANGED lens
    BY <1>5 DEF Parse
  <2>5. TypeOK' /\ BufferInv'
    BY <1>5, <1>s DEF Parse, IInv, TypeOK, BufferInv
  <2>6. ShapeInv'
    <3> HIDE DEF new
    <3> QED BY <1>5, <2>3, <2>4 DEF Parse, IInv, ShapeInv
  <2>7. WholeLines'
    <3> SUFFICES ASSUME NEW i \in 1 .. Len(parsed')
                 PROVE \E k \in 1 .. Len(lens) :
                         parsed'[i].lines = {k} /\ parsed'[i].size = lens[k]
      BY <2>4 DEF WholeLines
    <3>1. CASE i = Len(parsed')
      <4>1. parsed'[i] = new
        BY <2>4, <3>1 DEF IInv, ShapeInv
      <4>2. new.lines = {Len(lens)} /\ new.size = lens[Len(lens)]
        BY <2>1
      <4> QED BY <4>1, <4>2, <2>2
    <3>2. CASE i # Len(parsed')
      <4> HIDE DEF new
      <4>1. i \in 1 .. Len(parsed) /\ parsed'[i] = parsed[i]
        BY <2>4, <3>2 DEF IInv, ShapeInv
      <4> QED BY <4>1 DEF IInv, WholeLines
    <3> QED BY <3>1, <3>2
  <2> QED BY <2>5, <2>6, <2>7 DEF IInv
<1>6. CASE UNCHANGED vars
  <2>1. TypeOK' /\ ShapeInv' /\ BufferInv'
    BY <1>6 DEF vars, IInv, TypeOK, ShapeInv, BufferInv
  <2> QED BY <1>6, <1>w, <2>1 DEF vars, IInv
<1> QED BY <1>1, <1>2, <1>3, <1>4, <1>5, <1>6 DEF Next, Done

\* The buffer index never leaves the buffer, whatever is sent.
THEOREM BufferBound == Spec => []TypeOK
<1>1. IInv => TypeOK
  BY DEF IInv
<1> QED BY <1>1, InitInductive, StepInductive, PTL DEF Spec

\* Whatever is parsed is one whole line: no overflow glues two lines together
\* or lets the rest of one through.
THEOREM Framing == Spec => []WholeLines
<1>1. IInv => WholeLines
  BY DEF IInv
<1> QED BY <1>1, InitInductive, StepInductive, PTL DEF Spec

-----------------------------------------------------------------------------
(* Which lines are lost.  A line is over when it is not the last or has no    *)
(* characters left; a full buffer is remembered until a newline, and past the *)
(* end of a line only when that line was one newline too long.                *)
Bounded(n) == lens[n] <= Size /\ ~WasParsed(n) =>
                n > 1 /\ lens[n - 1] = Size + 1 /\ ~WasParsed(n - 1)

LossInv ==
    /\ \A n \in 1 .. Len(lens) : n < Len(lens) \/ left = 0 => Bounded(n)
    /\ left = 0 /\ overflow = 1 => /\ Len(lens) > 0
                                  /\ lens[Len(lens)] = Size + 1
                                  /\ ~WasParsed(Len(lens))
    /\ left > 0 => ~WasParsed(Len(lens))
    /\ left > 0 /\ overflow = 1 =>
         \/ lens[Len(lens)] > Size
         \/ Len(lens) > 1 /\ lens[Len(lens) - 1] = Size + 1 /\ ~WasParsed(Len(lens) - 1)

LEMMA LossInit == Init => LossInv
  BY DEF Init, LossInv

\* A step that parses nothing and begins no line leaves it as it was, but for
\* what it does to overflow and left.
LEMMA LossStep == IInv /\ LossInv /\ [Next]_vars => LossInv'
<1> SUFFICES ASSUME IInv, LossInv, [Next]_vars PROVE LossInv'
  OBVIOUS
<1>s. pos \in Nat /\ Size \in Nat /\ left \in Nat /\ Len(lens) \in Nat /\ overflow \in {0, 1}
  BY LineAssumption DEF LineAssumption, IInv, TypeOK, ShapeInv
<1>l. /\ \A n \in 1 .. Len(lens) : lens[n] \in Nat
      /\ left > 0 => Len(lens) > 0
  <2>1. \A n \in 1 .. Len(lens) : lens[n] \in Nat
    BY LineAssumption DEF LineAssumption, IInv, ShapeInv
  <2>2. left > 0 => Len(lens) > 0
    BY <1>s DEF IInv, ShapeInv, BufferInv
  <2> QED BY <2>1, <2>2
<1>k. \A n : UNCHANGED <<lens, parsed>> => (WasParsed(n)' <=> WasParsed(n)) /\ (Bounded(n)' <=> Bounded(n))
  BY DEF WasParsed, Bounded
<1>1. ASSUME NEW m \in 1 .. MaxLen, Begin(m) PROVE LossInv'
  <2>1. /\ left = 0 /\ left' = m /\ overflow' = overflow /\ parsed' = parsed
        /\ lens' = Append(lens, m)
        /\ Len(lens') = Len(lens) + 1
        /\ \A n \in 1 .. Len(lens) : lens'[n] = lens[n]
    BY <1>1 DEF Begin, IInv, ShapeInv
  <2>2. \A n : WasParsed(n)' <=> WasParsed(n)
    BY <2>1 DEF WasParsed
  <2>3. ~WasParsed(Len(lens) + 1)
    <3> SUFFICES ASSUME NEW i \in 1 .. Len(parsed), parsed[i].lines = {Len(lens) + 1} PROVE FALSE
      BY DEF WasParsed
    <3>1. PICK n \in 1 .. Len(lens) : parsed[i].lines = {n}
      BY DEF IInv, WholeLines
    <3>2. n = Len(lens) + 1
      BY <3>1
    <3> QED BY <3>1, <3>2, <1>s
  <2>4. ASSUME NEW n \in 1 .. Len(lens) PROVE Bounded(n)'
    <3>1. Bounded(n)
      BY <2>1 DEF LossInv
    <3>2. n > 1 => lens'[n - 1] = lens[n - 1]
      BY <2>1, <1>s
    <3> QED BY <3>1, <3>2, <2>1, <2>2 DEF Bounded
  <2>5. left' > 0 /\ left' # 0
    BY <2>1
  <2>6. \A n \in 1 .. Len(lens') : n < Len(lens') => Bounded(n)'
    <3> SUFFICES ASSUME NEW n \in 1 .. Len(lens'), n < Len(lens') PROVE Bounded(n)'
      OBVIOUS
    <3>1. n \in 1 .. Len(lens)
      BY <2>1, <1>s
    <3> QED BY <3>1, <2>4
  <2>7. overflow' = 1 => (Len(lens) > 1 /\ lens[Len(lens) - 1] = Size + 1 /\ ~WasParsed(Len(lens) - 1))'
    <3>1. Len(lens') - 1 = Len(lens) /\ (Len(lens) > 0 => lens'[Len(lens)] = lens[Len(lens)])
      BY <2>1, <1>s
    <3>2. overflow = 1 => /\ Len(lens) > 0 /\ lens[Len(lens)] = Size + 1
                          /\ ~WasParsed(Len(lens))
      BY <2>1 DEF LossInv
    <3>3. ~WasParsed(Len(lens)) => (~WasParsed(Len(lens) - 1))'
      BY <2>1, <3>1 DEF WasParsed
    <3>4. overflow' = 1 => (Len(lens) > 1 /\ lens[Len(lens) - 1] = Size + 1)'
      <4> SUFFICES ASSUME overflow = 1 PROVE Len(lens') > 1 /\ lens'[Len(lens') - 1] = Size + 1
        BY <2>1
      <4>1. Len(lens') > 1
        BY <2>1, <3>2, <1>s
      <4>2. lens'[Len(lens)] = Size + 1
        BY <3>1, <3>2
      <4> QED BY <3>1, <4>1, <4>2
    <3> QED BY <2>1, <3>2, <3>3, <3>4
  <2>8. (~WasParsed(Len(lens)))'
    BY <2>1, <2>3 DEF WasParsed
  <2>9. overflow' = overflow
    BY <2>1
  <2> QED BY <2>5, <2>6, <2>7, <2>8, <2>9 DEF LossInv
<1>2. CASE Skip
  <2>1. UNCHANGED <<lens, parsed>> /\ overflow = 1 /\ left > 0 /\ left' = left - 1
    BY <1>2 DEF Skip
  <2>2. CASE left = 1
    <3>1. overflow' = 0 /\ left' = 0
      BY <1>2, <2>2 DEF Skip, Newline
    <3>2. Bounded(Len(lens))
      BY <1>s, <1>l, <2>1 DEF LossInv, Bounded
    <3>3. \A n \in 1 .. Len(lens) : Bounded(n)
      BY <1>s, <3>2 DEF LossInv
    <3> QED BY <3>1, <3>3, <2>1, <1>k DEF LossInv
  <2>3. CASE left # 1
    <3>1. overflow' = 1 /\ left' > 0
      BY <1>2, <2>1, <2>3, <1>s DEF Skip, Newline
    <3> QED BY <3>1, <2>1, <1>k, <1>s DEF LossInv
  <2> QED BY <2>2, <2>3
<1>3. CASE Overflow
  <2>1. /\ UNCHANGED <<lens, parsed>> /\ overflow = 0 /\ left > 0 /\ left' = left - 1
        /\ pos >= Size /\ overflow' = 1
    BY <1>3 DEF Overflow
  <2>2. pos = Size /\ lens[Len(lens)] = Size + left
    BY <2>1, <1>s DEF IInv, BufferInv, TypeOK
  <2>3. ~WasParsed(Len(lens)) /\ lens[Len(lens)] > Size /\ Len(lens) > 0
    BY <2>1, <2>2, <1>s, <1>l DEF LossInv
  <2>4. \A n \in 1 .. Len(lens) : Bounded(n)
    BY <2>3, <1>s, <1>l, <2>1 DEF LossInv, Bounded
  <2>5. left' = 0 => lens[Len(lens)] = Size + 1
    BY <2>1, <2>2, <1>s
  <2> QED BY <2>1, <2>3, <2>4, <2>5, <1>k DEF LossInv
<1>4. CASE Store
  <2>1. UNCHANGED <<lens, parsed, overflow>> /\ overflow = 0 /\ left > 1 /\ left' = left - 1
    BY <1>4 DEF Store
  <2> QED BY <2>1, <1>k, <1>s DEF LossInv
<1>5. CASE Parse
  <2> DEFINE new == [lines |-> held \cup {Len(lens)}, size |-> pos + 1]
  <2>1. /\ left = 1 /\ overflow = 0 /\ left' = 0 /\ overflow' = 0 /\ lens' = lens
        /\ parsed' = Append(parsed, new)
    BY <1>5 DEF Parse, Newline
  <2>2. new.lines = {Len(lens)}
    BY <2>1, <1>s DEF IInv, BufferInv
  <2>3. \A n \in 1 .. Len(lens) : WasParsed(n)' <=> WasParsed(n) \/ n = Len(lens)
    <3> HIDE DEF new
    <3>1. /\ Len(parsed') = Len(parsed) + 1 /\ Len(parsed) \in Nat
          /\ parsed'[Len(parsed) + 1] = new
          /\ \A i \in 1 .. Len(parsed) : parsed'[i] = parsed[i]
      BY <2>1 DEF IInv, ShapeInv
    <3> QED BY <2>2, <3>1 DEF WasParsed
  <2>4. ASSUME NEW n \in 1 .. Len(lens) PROVE Bounded(n)'
    <3>1. CASE n = Len(lens)
      BY <2>1, <2>3, <3>1 DEF Bounded
    <3>2. CASE n # Len(lens)
      <4>1. Bounded(n) /\ n < Len(lens) /\ n - 1 # Len(lens)
        BY <3>2, <1>s DEF LossInv
      <4>2. n > 1 => n - 1 \in 1 .. Len(lens)
        BY <1>s
      <4> QED BY <4>1, <4>2, <2>1, <2>3 DEF Bounded
    <3> QED BY <3>1, <3>2
  <2> QED BY <2>1, <2>4 DEF LossInv
<1>6. CASE UNCHANGED vars
  BY <1>6, <1>k DEF vars, LossInv
<1> QED BY <1>1, <1>2, <1>3, <1>4, <1>5, <1>6 DEF Next, Done

\* However long the lines and in whatever order they come, a line that fits is
\* lost only behind one that is longer than the buffer by exactly its newline,
\* and no second one with it.
THEOREM BoundedLoss == Spec => []LossIsBounded
<1>1. LossInv /\ IInv => LossIsBounded
  BY DEF LossInv, LossIsBounded, Bounded, IInv, ShapeInv
<1> QED BY <1>1, InitInductive, StepInductive, LossInit, LossStep, PTL DEF Spec

-----------------------------------------------------------------------------
(* Lemmas about what is computed one step after another.                      *)
\* A set of numbers up to n with 0 and with the next of each has all of them.
LEMMA Upwards ==
    ASSUME NEW n \in Nat, NEW G, 0 \in G, \A i \in 1 .. n : i - 1 \in G => i \in G
    PROVE \A i \in 0 .. n : i \in G
<1> DEFINE Bad == {i \in 0 .. n : i \notin G}
<1> SUFFICES ASSUME Bad # {} PROVE FALSE
  OBVIOUS
<1>1. Bad \subseteq Nat
  OBVIOUS
<1> HIDE DEF Bad
<1>2. PICK i \in Bad : \A m \in Bad : ~ <<m, i>> \in OpToRel(<, Nat)
  BY <1>1, NatLessThanWellFounded, WFMin
<1>3. i \in 0 .. n /\ i \notin G
  BY DEF Bad
<1>4. i \in 1 .. n /\ i - 1 \in 0 .. n /\ i - 1 \in Nat /\ i \in Nat /\ i - 1 < i
  BY <1>3
<1>5. <<i - 1, i>> \in OpToRel(<, Nat)
  BY <1>4, SMT DEF OpToRel
<1>6. i - 1 \notin Bad
  BY <1>2, <1>5, Zenon
<1> QED BY <1>3, <1>4, <1>6 DEF Bad

\* What is computed step by step along the numbers up to n exists.
LEMMA Stepwise ==
    ASSUME NEW n \in Nat, NEW f \in [1 .. n -> [Seq(Nat) -> Seq(Nat)]]
    PROVE \E g \in [0 .. n -> Seq(Nat)] : g[0] = <<>> /\ \A i \in 1 .. n : g[i] = f[i][g[i - 1]]
<1> DEFINE Are(g, m) == g \in [0 .. m -> Seq(Nat)] /\ g[0] = <<>> /\ \A i \in 1 .. m : g[i] = f[i][g[i - 1]]
           G == {m \in 0 .. n : \E g : Are(g, m)}
<1>1. 0 \in G
  <2>1. Are([i \in 0 .. 0 |-> <<>>], 0)
    OBVIOUS
  <2> HIDE DEF Are
  <2>2. 0 \in 0 .. n /\ \E g : Are(g, 0)
    BY <2>1
  <2> QED BY <2>2
<1>2. ASSUME NEW m \in 1 .. n, m - 1 \in G PROVE m \in G
  <2>1. PICK g : Are(g, m - 1)
    BY <1>2
  <2> DEFINE h == [i \in 0 .. m |-> IF i = m THEN f[m][g[m - 1]] ELSE g[i]]
  <2>2. m \in Nat /\ m - 1 \in 0 .. m - 1 /\ \A i \in 0 .. m : i # m => i \in 0 .. m - 1
    OBVIOUS
  <2>3. f[m][g[m - 1]] \in Seq(Nat)
    BY <2>1, <2>2
  <2>4. h \in [0 .. m -> Seq(Nat)]
    BY <2>1, <2>2, <2>3
  <2>5. h[0] = <<>>
    BY <2>1, <2>2
  <2>6. ASSUME NEW i \in 1 .. m PROVE h[i] = f[i][h[i - 1]]
    <3>1. i - 1 \in 0 .. m /\ i - 1 # m /\ h[i - 1] = g[i - 1]
      BY <2>2
    <3>2. CASE i = m
      BY <3>1, <3>2
    <3>3. CASE i # m
      <4>1. i \in 1 .. m - 1 /\ h[i] = g[i]
        BY <2>2, <3>3
      <4> QED BY <2>1, <3>1, <4>1
    <3> QED BY <3>2, <3>3
  <2>7. Are(h, m)
    BY <2>4, <2>5, <2>6
  <2> HIDE DEF Are, h
  <2>8. m \in 0 .. n /\ \E x : Are(x, m)
    BY <2>7
  <2> QED BY <2>8
<1> HIDE DEF G
<1>3. \A i \in 0 .. n : i \in G
  BY <1>1, <1>2, Upwards
<1>4. n \in 0 .. n
  OBVIOUS
<1> QED BY <1>3, <1>4 DEF G

-----------------------------------------------------------------------------
(* The operators of the reader.                                               *)
LEMMA Numbers == /\ NMEA_MAX_SV_INFO \in Nat \ {0} /\ GNSS_MAX_SVS \in Nat \ {0}
                 /\ MaxEpoch \in Nat \ {0} /\ MaxLost \in Nat
  BY EpochAssumption DEF EpochAssumption

LEMMA EpochOf == \A e \in Epochs : e \in Seq(Sentence) /\ Grouped(e) /\ UsedFirst(e) /\ Ended(e)
  BY EpochAssumption DEF EpochAssumption

LEMMA KeptOfSats ==
    ASSUME NEW sats \in Seq(Nat)
    PROVE /\ KeptOf(sats)[Len(sats)] \in Seq(Nat)
          /\ Len(KeptOf(sats)[Len(sats)]) <= Len(sats)
<1> DEFINE n == Len(sats)
           f == [i \in 1 .. n |-> [x \in Seq(Nat) |-> IF Listed(sats[i]) THEN Append(x, sats[i]) ELSE x]]
<1>1. n \in Nat /\ n \in 0 .. n /\ \A i \in 1 .. n : sats[i] \in Nat
  OBVIOUS
<1>2. f \in [1 .. n -> [Seq(Nat) -> Seq(Nat)]]
  BY <1>1
<1>3. <<>> \in Seq(Nat)
  OBVIOUS
<1> HIDE DEF n
<1>4. PICK g \in [0 .. n -> Seq(Nat)] : g[0] = <<>> /\ \A i \in 1 .. n : g[i] = f[i][g[i - 1]]
  <2> HIDE DEF f
  <2> QED BY <1>1, <1>2, Stepwise
<1> DEFINE Is(k) == k = [i \in 0 .. n |-> IF i = 0 THEN <<>>
                                          ELSE IF Listed(sats[i]) THEN Append(k[i - 1], sats[i]) ELSE k[i - 1]]
<1>5. Is(g)
  <2>1. \A i \in 1 .. n : g[i] = IF Listed(sats[i]) THEN Append(g[i - 1], sats[i]) ELSE g[i - 1]
    <3> SUFFICES ASSUME NEW i \in 1 .. n
                 PROVE g[i] = IF Listed(sats[i]) THEN Append(g[i - 1], sats[i]) ELSE g[i - 1]
      OBVIOUS
    <3>1. i - 1 \in 0 .. n
      BY <1>1
    <3>2. g[i - 1] \in Seq(Nat)
      BY <3>1
    <3> QED BY <1>4, <3>2
  <2>2. \A i \in 0 .. n : i = 0 \/ i \in 1 .. n
    BY <1>1
  <2> QED BY <1>4, <2>1, <2>2
<1>6. Is(KeptOf(sats))
  <2>1. KeptOf(sats) = CHOOSE k : Is(k)
    BY DEF KeptOf, n
  <2> HIDE DEF Is
  <2> QED BY <1>5, <2>1
<1> DEFINE kept == KeptOf(sats)
<1> HIDE DEF kept
<1>7. /\ kept[0] = <<>>
      /\ \A i \in 1 .. n : kept[i] = IF Listed(sats[i]) THEN Append(kept[i - 1], sats[i]) ELSE kept[i - 1]
  <2>1. Is(kept)
    BY <1>6 DEF kept
  <2>2. 0 \in 0 .. n /\ \A i \in 1 .. n : i \in 0 .. n /\ i # 0
    BY <1>1
  <2> QED BY <2>1, <2>2
<1> DEFINE G == {i \in 0 .. n : kept[i] \in Seq(Nat) /\ Len(kept[i]) <= i}
<1>8. 0 \in G
  <2>1. 0 \in 0 .. n /\ kept[0] = <<>> /\ Len(<<>>) = 0
    BY <1>1, <1>7
  <2>2. kept[0] \in Seq(Nat) /\ Len(kept[0]) <= 0
    BY <1>3, <2>1
  <2> QED BY <2>1, <2>2
<1>9. ASSUME NEW i \in 1 .. n, i - 1 \in G PROVE i \in G
  <2>1. kept[i - 1] \in Seq(Nat) /\ Len(kept[i - 1]) <= i - 1 /\ sats[i] \in Nat /\ i \in Nat /\ i \in 0 .. n
    BY <1>1, <1>9
  <2>2. Len(Append(kept[i - 1], sats[i])) = Len(kept[i - 1]) + 1 /\ Append(kept[i - 1], sats[i]) \in Seq(Nat)
    BY <2>1
  <2>3. kept[i] = Append(kept[i - 1], sats[i]) \/ kept[i] = kept[i - 1]
    BY <1>7
  <2>4. Len(kept[i - 1]) \in Nat
    BY <2>1
  <2>5. CASE kept[i] = kept[i - 1]
    BY <2>1, <2>4, <2>5
  <2>6. CASE kept[i] = Append(kept[i - 1], sats[i])
    <3>1. kept[i] \in Seq(Nat) /\ Len(kept[i]) = Len(kept[i - 1]) + 1
      BY <2>2, <2>6
    <3>2. Len(kept[i]) <= i
      BY <2>1, <2>4, <3>1
    <3> QED BY <2>1, <3>1, <3>2
  <2> QED BY <2>3, <2>5, <2>6
<1> HIDE DEF G
<1>10. \A i \in 0 .. n : i \in G
  BY <1>1, <1>8, <1>9, Upwards
<1> QED BY <1>1, <1>10 DEF G, kept, n

\* A sentence of satellites gives no more than it has room and a count for.
IsGsv(s) == /\ s.num \in Nat /\ s.seq \in Nat \ {0} /\ s.cnt \in Nat /\ s.sats \in Seq(Nat)

LEMMA SatsOfGsv ==
    ASSUME NEW s, IsGsv(s)
    PROVE /\ SatsOf(s) \in Seq(Nat)
          /\ Len(SatsOf(s)) <= NMEA_MAX_SV_INFO
          /\ \A c \in Nat : c <= s.cnt /\ c <= (s.seq - 1) * NMEA_MAX_SV_INFO =>
               /\ c + Len(SatsOf(s)) <= s.cnt
               /\ c + Len(SatsOf(s)) <= s.seq * NMEA_MAX_SV_INFO
<1> DEFINE base == (s.seq - 1) * NMEA_MAX_SV_INFO
           rest == s.cnt - base
           n == IF s.cnt < base THEN 0
                ELSE IF rest > NMEA_MAX_SV_INFO THEN NMEA_MAX_SV_INFO ELSE rest
           m == IF n < Len(s.sats) THEN n ELSE Len(s.sats)
<1>1. /\ s.seq - 1 \in Nat /\ s.cnt \in Nat /\ s.sats \in Seq(Nat) /\ Len(s.sats) \in Nat
      /\ NMEA_MAX_SV_INFO \in Nat
  BY Numbers DEF IsGsv
<1>2. base \in Nat /\ s.seq * NMEA_MAX_SV_INFO = base + NMEA_MAX_SV_INFO
  BY <1>1 DEF IsGsv
<1>3. SatsOf(s) = [i \in 1 .. m |-> get_svid(s.sats[i], s.talker)]
  BY DEF SatsOf
<1> HIDE DEF base
<1>4. m \in Nat /\ m <= NMEA_MAX_SV_INFO /\ \A i \in 1 .. m : s.sats[i] \in Nat
  <2>1. n \in Nat /\ n <= NMEA_MAX_SV_INFO
    BY <1>1, <1>2
  <2> HIDE DEF n
  <2>2. m \in Nat /\ m <= n /\ m <= Len(s.sats)
    BY <1>1, <2>1
  <2>3. \A i \in 1 .. m : i \in 1 .. Len(s.sats)
    BY <1>1, <2>2
  <2> QED BY <1>1, <2>1, <2>2, <2>3
<1>5. \A i \in 1 .. m : get_svid(s.sats[i], s.talker) \in Nat
  <2>1. \A p \in Nat : get_svid(p, s.talker) \in Nat
    BY DEF get_svid
  <2> QED BY <1>4, <2>1
<1>6. SatsOf(s) \in Seq(Nat) /\ Len(SatsOf(s)) = m
  <2> HIDE DEF m
  <2> QED BY <1>3, <1>4, <1>5
<1>7. ASSUME NEW c \in Nat, c <= s.cnt, c <= base
      PROVE c + m <= s.cnt /\ c + m <= base + NMEA_MAX_SV_INFO
  BY <1>1, <1>2, <1>7
<1> HIDE DEF m
<1> QED BY <1>2, <1>4, <1>6, <1>7 DEF base

LEMMA KeptOfGsv ==
    ASSUME NEW s, IsGsv(s)
    PROVE /\ Kept(s) \in Seq(Nat)
          /\ \A c \in Nat : c <= s.cnt /\ c <= (s.seq - 1) * NMEA_MAX_SV_INFO =>
               /\ c + Len(Kept(s)) <= s.cnt
               /\ c + Len(Kept(s)) <= s.seq * NMEA_MAX_SV_INFO
<1>1. Kept(s) \in Seq(Nat) /\ Len(Kept(s)) <= Len(SatsOf(s))
  BY SatsOfGsv, KeptOfSats DEF Kept
<1>2. Len(Kept(s)) \in Nat /\ Len(SatsOf(s)) \in Nat
  BY <1>1, SatsOfGsv
<1>3. s.cnt \in Nat /\ s.seq * NMEA_MAX_SV_INFO \in Nat
  BY Numbers DEF IsGsv
<1>4. ASSUME NEW c \in Nat, c <= s.cnt, c <= (s.seq - 1) * NMEA_MAX_SV_INFO
      PROVE /\ c + Len(Kept(s)) <= s.cnt
            /\ c + Len(Kept(s)) <= s.seq * NMEA_MAX_SV_INFO
  <2>1. /\ c + Len(SatsOf(s)) <= s.cnt
        /\ c + Len(SatsOf(s)) <= s.seq * NMEA_MAX_SV_INFO
    BY <1>4, SatsOfGsv
  <2> QED BY <1>1, <1>2, <1>3, <2>1
<1> QED BY <1>1, <1>4

\* The sentences of an epoch by their kinds.
LEMMA GsvOf ==
    ASSUME NEW e \in Epochs, NEW i \in DOMAIN e, e[i].type = "GSV"
    PROVE IsGsv(e[i]) /\ e[i].seq \in 1 .. e[i].num
<1>1. e \in Seq(Sentence) /\ Grouped(e)
  BY EpochOf
<1>2. e[i] \in Sentence
  BY <1>1
<1>3. e[i] \in [type : {"GSV"}, talker : STRING, num : Nat, seq : Nat, cnt : Nat, sats : Seq(Nat)]
  BY <1>2 DEF Sentence
<1>4. e[i].seq \in 1 .. e[i].num
  BY <1>1 DEF Grouped
<1> QED BY <1>3, <1>4 DEF IsGsv

\* The reference: what is in view after k sentences.
LEMMA ViewOf ==
    ASSUME NEW e \in Epochs
    PROVE /\ View(e) \in [0 .. Len(e) -> Seq(Nat)] /\ View(e)[0] = <<>>
          /\ \A k \in 1 .. Len(e) :
               View(e)[k] = IF e[k].type = "GSV" THEN View(e)[k - 1] \o Kept(e[k]) ELSE View(e)[k - 1]
<1> DEFINE n == Len(e)
           f == [k \in 1 .. n |-> [x \in Seq(Nat) |-> IF e[k].type = "GSV" THEN x \o Kept(e[k]) ELSE x]]
<1>1. n \in Nat /\ n \in 0 .. n /\ DOMAIN e = 1 .. n
  BY EpochOf
<1>2. f \in [1 .. n -> [Seq(Nat) -> Seq(Nat)]]
  <2> SUFFICES ASSUME NEW k \in 1 .. n, NEW x \in Seq(Nat), e[k].type = "GSV"
               PROVE x \o Kept(e[k]) \in Seq(Nat)
    OBVIOUS
  <2>1. Kept(e[k]) \in Seq(Nat)
    BY <1>1, GsvOf, KeptOfGsv
  <2> QED BY <2>1
<1> HIDE DEF n
<1>4. PICK g \in [0 .. n -> Seq(Nat)] : g[0] = <<>> /\ \A k \in 1 .. n : g[k] = f[k][g[k - 1]]
  <2> HIDE DEF f
  <2> QED BY <1>1, <1>2, Stepwise
<1> DEFINE Is(v) == v = [k \in 0 .. n |-> IF k = 0 THEN <<>>
                                          ELSE IF e[k].type = "GSV" THEN v[k - 1] \o Kept(e[k]) ELSE v[k - 1]]
<1>5. Is(g)
  <2>1. \A k \in 1 .. n : g[k] = IF e[k].type = "GSV" THEN g[k - 1] \o Kept(e[k]) ELSE g[k - 1]
    <3> SUFFICES ASSUME NEW k \in 1 .. n
                 PROVE g[k] = IF e[k].type = "GSV" THEN g[k - 1] \o Kept(e[k]) ELSE g[k - 1]
      OBVIOUS
    <3>1. k - 1 \in 0 .. n
      BY <1>1
    <3>2. g[k - 1] \in Seq(Nat)
      BY <3>1
    <3> QED BY <1>4, <3>2
  <2>2. \A k \in 0 .. n : k = 0 \/ k \in 1 .. n
    BY <1>1
  <2> QED BY <1>4, <2>1, <2>2
<1>6. Is(View(e))
  <2>1. View(e) = CHOOSE v : Is(v)
    BY DEF View, n
  <2> HIDE DEF Is
  <2> QED BY <1>5, <2>1
<1> DEFINE view == View(e)
<1> HIDE DEF view
<1>7. /\ view[0] = <<>> /\ DOMAIN view = 0 .. n
      /\ \A k \in 1 .. n : view[k] = IF e[k].type = "GSV" THEN view[k - 1] \o Kept(e[k]) ELSE view[k - 1]
  <2>1. Is(view)
    BY <1>6 DEF view
  <2>2. 0 \in 0 .. n /\ \A i \in 1 .. n : i \in 0 .. n /\ i # 0
    BY <1>1
  <2> QED BY <2>1, <2>2
<1> DEFINE G == {k \in 0 .. n : view[k] \in Seq(Nat)}
<1>8. 0 \in G
  <2>1. <<>> \in Seq(Nat) /\ 0 \in 0 .. n
    BY <1>1
  <2> QED BY <1>7, <2>1
<1>9. ASSUME NEW k \in 1 .. n, k - 1 \in G PROVE k \in G
  <2>1. view[k - 1] \in Seq(Nat) /\ k \in 0 .. n
    BY <1>1, <1>9
  <2>2. CASE e[k].type = "GSV"
    <3>1. Kept(e[k]) \in Seq(Nat)
      BY <1>1, <2>2, GsvOf, KeptOfGsv
    <3>2. view[k - 1] \o Kept(e[k]) \in Seq(Nat)
      BY <2>1, <3>1
    <3>3. view[k] = view[k - 1] \o Kept(e[k])
      BY <1>7, <2>2
    <3> QED BY <2>1, <3>2, <3>3
  <2>3. CASE e[k].type # "GSV"
    BY <1>7, <2>1, <2>3
  <2> QED BY <2>2, <2>3
<1> HIDE DEF G
<1>10. \A k \in 0 .. n : k \in G
  BY <1>1, <1>8, <1>9, Upwards
<1>11. view \in [0 .. n -> Seq(Nat)]
  <2>1. \A k \in 0 .. n : view[k] \in Seq(Nat)
    BY <1>10 DEF G
  <2>2. view = [k \in 0 .. n |-> view[k]]
    <3>1. Is(view)
      BY <1>6 DEF view
    <3> QED BY <3>1
  <2> QED BY <2>1, <2>2
<1> QED BY <1>7, <1>11 DEF view, n

-----------------------------------------------------------------------------
(* Where the reader is in the epoch.                                          *)
Past == Len(sent) - Len(out)
Heard == {sent[i] : i \in 1 .. Past}
Over == \E i \in 1 .. Past : sent[i].type = "RMC"

PlaceInv ==
    /\ epoch \in Nat
    /\ epoch = 0 => sent = <<>> /\ out = <<>>
    /\ epoch > 0 => /\ sent \in Epochs /\ out \in Seq(Sentence)
                    /\ Len(out) <= Len(sent)
                    /\ \A i \in 1 .. Len(out) : out[i] = sent[Past + i]

\* The next sentence.
LEMMA NextOf ==
    ASSUME PlaceInv, out # <<>>
    PROVE /\ epoch > 0 /\ sent \in Epochs /\ sent \in Seq(Sentence) /\ DOMAIN sent = 1 .. Len(sent)
          /\ Past \in Nat /\ Past + 1 \in 1 .. Len(sent)
          /\ Head(out) = sent[Past + 1] /\ Head(out) \in Sentence
<1>1. epoch > 0 /\ sent \in Epochs /\ out \in Seq(Sentence) /\ Len(out) <= Len(sent)
      /\ \A i \in 1 .. Len(out) : out[i] = sent[Past + i]
  BY DEF PlaceInv
<1>2. sent \in Seq(Sentence)
  BY <1>1, EpochOf
<1>3. Len(out) \in Nat \ {0} /\ Len(sent) \in Nat /\ Head(out) = out[1] /\ DOMAIN sent = 1 .. Len(sent)
  BY <1>1, <1>2
<1>4. Past \in Nat /\ Past + 1 \in 1 .. Len(sent) /\ 1 \in 1 .. Len(out)
  BY <1>1, <1>3 DEF Past
<1>5. Head(out) = sent[Past + 1]
  BY <1>1, <1>3, <1>4
<1> QED BY <1>1, <1>2, <1>3, <1>4, <1>5

\* One sentence further.
LEMMA Further ==
    ASSUME PlaceInv, out # <<>>, out' = Tail(out), sent' = sent, epoch' = epoch
    PROVE /\ PlaceInv' /\ Past' = Past + 1
          /\ Heard' = Heard \cup {Head(out)}
          /\ Over' <=> (Over \/ Head(out).type = "RMC")
<1>1. epoch > 0 /\ sent \in Epochs /\ out \in Seq(Sentence) /\ Len(out) <= Len(sent)
      /\ \A i \in 1 .. Len(out) : out[i] = sent[Past + i]
  BY DEF PlaceInv
<1>2. Len(out) \in Nat \ {0} /\ Len(sent) \in Nat /\ Past \in Nat
  BY <1>1, NextOf
<1>3. out' \in Seq(Sentence) /\ Len(out') = Len(out) - 1 /\ \A i \in 1 .. Len(out') : out'[i] = out[i + 1]
  BY <1>1, <1>2
<1>4. Past' = Past + 1
  BY <1>2, <1>3 DEF Past
<1>5. \A i \in 1 .. Len(out') : out'[i] = sent'[Past' + i]
  <2> SUFFICES ASSUME NEW i \in 1 .. Len(out') PROVE out'[i] = sent'[Past' + i]
    OBVIOUS
  <2>1. i + 1 \in 1 .. Len(out) /\ Past' + i = Past + (i + 1)
    BY <1>2, <1>3, <1>4
  <2> QED BY <1>1, <1>3, <2>1
<1>6. PlaceInv'
  BY <1>1, <1>2, <1>3, <1>5 DEF PlaceInv
<1>7. \A i : i \in 1 .. Past' <=> i \in 1 .. Past \/ i = Past + 1
  BY <1>2, <1>4
<1>8. Head(out) = sent[Past + 1]
  BY NextOf
<1>9. Heard' = Heard \cup {Head(out)}
  BY <1>7, <1>8 DEF Heard
<1>10. Over' <=> (Over \/ Head(out).type = "RMC")
  BY <1>7, <1>8 DEF Over
<1> QED BY <1>4, <1>6, <1>9, <1>10

\* Behind the RMC of an epoch there is nothing the reader understands.
LEMMA BehindOver ==
    ASSUME PlaceInv, out # <<>>, Over
    PROVE Head(out).type = "TXT"
<1>1. sent \in Epochs /\ Past \in Nat /\ Past + 1 \in 1 .. Len(sent) /\ Head(out) = sent[Past + 1]
      /\ DOMAIN sent = 1 .. Len(sent) /\ Len(sent) \in Nat
  BY NextOf
<1>2. PICK i \in 1 .. Past : sent[i].type = "RMC"
  BY DEF Over
<1>3. PICK n \in DOMAIN sent : /\ sent[n].type = "RMC"
                               /\ \A j \in 1 .. n - 1 : sent[j].type # "RMC"
                               /\ \A j \in n + 1 .. Len(sent) : sent[j].type = "TXT"
  BY <1>1, EpochOf DEF Ended
<1>4. i = n
  <2>1. i \in 1 .. n - 1 \/ i = n \/ i \in n + 1 .. Len(sent)
    BY <1>1, <1>2, <1>3
  <2>2. "RMC" # "TXT"
    OBVIOUS
  <2> QED BY <1>2, <1>3, <2>1, <2>2
<1>5. Past + 1 \in n + 1 .. Len(sent)
  BY <1>1, <1>2, <1>4
<1> QED BY <1>1, <1>3, <1>5

\* At the end of an epoch everything was heard, the RMC as well.
LEMMA AtEnd ==
    ASSUME PlaceInv, epoch > 0, out = <<>>
    PROVE Over /\ Heard = Sent /\ Past = Len(sent) /\ sent \in Epochs
<1>1. sent \in Epochs /\ sent \in Seq(Sentence)
  BY EpochOf DEF PlaceInv
<1>2. Past = Len(sent) /\ DOMAIN sent = 1 .. Past
  BY <1>1 DEF Past
<1>3. Heard = Sent
  BY <1>2 DEF Heard, Sent
<1>4. Over
  BY <1>1, <1>2, EpochOf DEF Over, Ended
<1> QED BY <1>1, <1>2, <1>3, <1>4

\* Before the first epoch, and where the next one begins, nothing was heard.
LEMMA AtStart ==
    ASSUME NEW e \in Seq(Sentence), sent = e, out = e
    PROVE Past = 0 /\ Heard = {} /\ ~Over
  BY DEF Past, Heard, Over

-----------------------------------------------------------------------------
(* The location.                                                              *)
\* The flags that were set are the fields that were given, of this epoch; that an
\* ACCURACY gives one depends on a GSA sentence that may be of an epoch before.
FlagsInv == /\ flags \subseteq GivenFields(Heard) \X {epoch}
            /\ (GivenFields(Heard) \ {"accuracy"}) \X {epoch} \subseteq flags

ReportedFix ==
    /\ Len(fixes) = 1
    /\ {f \in fixes[1] : f[1] # "time"} = (GivenFields(Heard) \cup {"accuracy"}) \X {epoch}
    /\ Dated(Heard) => <<"time", epoch>> \in fixes[1]

FixInv ==
    /\ epoch = 0 => flags = {}
    /\ fixes # <<>> => Over /\ flags = {}
    /\ epoch > 0 /\ whole = TRUE /\ "fix" \in clean =>
         IF HasFix(Heard) THEN ReportedFix ELSE fixes = <<>> /\ FlagsInv

\* The reference, with one more sentence.
LEMMA GivenMore ==
    ASSUME NEW S, NEW s
    PROVE /\ GivenFields(S \cup {s}) = GivenFields(S) \cup FieldsOf(s)
          /\ HasFix(S \cup {s}) <=> (HasFix(S) \/ Valid(s))
          /\ Dated(S \cup {s}) <=> (Dated(S) /\ (Valid(s) => {"date", "time"} \subseteq s.fields))
<1>1. GivenFields(S \cup {s}) = GivenFields(S) \cup FieldsOf(s)
  BY DEF GivenFields
<1>2. HasFix(S \cup {s}) <=> (HasFix(S) \/ Valid(s))
  BY DEF HasFix
<1>3. Dated(S \cup {s}) <=> (Dated(S) /\ (Valid(s) => {"date", "time"} \subseteq s.fields))
  BY DEF Dated
<1> QED BY <1>1, <1>2, <1>3

LEMMA FieldsOfKinds ==
    ASSUME NEW s
    PROVE /\ s.type = "GGA" => FieldsOf(s) = s.fields \cap {"latlong", "altitude"}
          /\ s.type = "ACCURACY" \/ Fixed(s) => FieldsOf(s) = {"accuracy"}
          /\ Valid(s) => FieldsOf(s) = s.fields \cap {"latlong", "bearing", "speed"}
          /\ s.type \in {"GSA", "GSV", "RMC", "TXT"} /\ ~Fixed(s) /\ ~Valid(s) => FieldsOf(s) = {}
          /\ "time" \notin FieldsOf(s)
  BY DEF FieldsOf, Fixed, Valid

\* An update adds its fields to those that are given.
LEMMA UpdatedGiven ==
    ASSUME FlagsInv, NEW F
    PROVE /\ Updated(F) \subseteq (GivenFields(Heard) \cup F) \X {epoch}
          /\ ((GivenFields(Heard) \cup F) \ {"accuracy"}) \X {epoch} \subseteq Updated(F)
<1> DEFINE G == GivenFields(Heard)
<1>1. flags \subseteq G \X {epoch} /\ (G \ {"accuracy"}) \X {epoch} \subseteq flags
  BY DEF FlagsInv
<1> HIDE DEF G
<1>2. Updated(F) \subseteq (G \cup F) \X {epoch}
  BY <1>1 DEF Updated
<1>3. ((G \cup F) \ {"accuracy"}) \X {epoch} \subseteq Updated(F)
  <2> SUFFICES ASSUME NEW g \in (G \cup F) \ {"accuracy"} PROVE <<g, epoch>> \in Updated(F)
    OBVIOUS
  <2>1. CASE g \in F
    BY <2>1 DEF Updated
  <2>2. CASE g \notin F
    <3>1. <<g, epoch>> \in flags
      BY <1>1, <2>2
    <3> QED BY <2>2, <3>1 DEF Updated
  <2> QED BY <2>1, <2>2
<1> QED BY <1>2, <1>3 DEF G

\* What is reported has the fields that were given and an accuracy.
LEMMA FixOfGiven ==
    ASSUME NEW G, "time" \notin G, NEW now, now \subseteq G \X {epoch},
           (G \ {"accuracy"}) \X {epoch} \subseteq now
    PROVE {f \in FixOf(now) : f[1] # "time"} = (G \cup {"accuracy"}) \X {epoch}
<1> DEFINE acc == <<"accuracy", epoch>>
           fix == {f \in FixOf(now) : f[1] # "time"}
<1>1. \A f \in now : f[1] \in G /\ f = <<f[1], epoch>>
  OBVIOUS
<1>2. acc \in FixOf(now)
  <2>1. CASE \E f \in now : f[1] = "accuracy"
    BY <1>1, <2>1 DEF FixOf
  <2>2. CASE ~ \E f \in now : f[1] = "accuracy"
    BY <2>2 DEF FixOf
  <2> QED BY <2>1, <2>2
<1>3. \A f \in FixOf(now) : f \in now \/ f[1] = "time" \/ f = acc
  BY DEF FixOf
<1>4. fix \subseteq (G \cup {"accuracy"}) \X {epoch}
  BY <1>1, <1>3
<1>5. ASSUME NEW g \in G \cup {"accuracy"} PROVE <<g, epoch>> \in fix
  <2>1. CASE g = "accuracy"
    BY <1>2, <2>1
  <2>2. CASE g # "accuracy"
    <3>1. <<g, epoch>> \in now
      BY <1>5, <2>2
    <3> QED BY <1>5, <2>2, <3>1 DEF FixOf
  <2> QED BY <2>1, <2>2
<1> HIDE DEF fix
<1>6. (G \cup {"accuracy"}) \X {epoch} \subseteq fix
  BY <1>5
<1>7. fix = (G \cup {"accuracy"}) \X {epoch}
  BY <1>4, <1>6
<1> QED BY <1>7 DEF fix

\* A valid RMC ends what gives fields.
LEMMA FixIsOver == HasFix(Heard) => Over
  BY DEF HasFix, Valid, Heard, Over

\* A sentence that reports no location gives its fields, or an accuracy that is not
\* taken, or none.
LEMMA GivesFields ==
    ASSUME PlaceInv, FixInv, out # <<>>, out' = Tail(out), UNCHANGED <<epochVars, fixes>>,
           ~Valid(Head(out)),
           \/ flags' = Updated(FieldsOf(Head(out))) /\ Head(out).type # "TXT"
           \/ flags' = flags /\ FieldsOf(Head(out)) \subseteq {"accuracy"}
    PROVE FixInv'
<1> DEFINE s == Head(out)
           F == FieldsOf(Head(out))
<1>1. PlaceInv' /\ Heard' = Heard \cup {s} /\ (Over => Over') /\ epoch' = epoch /\ clean' = clean /\ whole' = whole
  BY Further DEF epochVars
<1>2. /\ GivenFields(Heard') = GivenFields(Heard) \cup F
      /\ HasFix(Heard') <=> HasFix(Heard)
      /\ Dated(Heard') <=> Dated(Heard)
  BY <1>1, GivenMore
<1>3. epoch > 0
  BY NextOf
<1>4. CASE Over
  <2>1. s.type = "TXT"
    BY <1>4, BehindOver
  <2>2. F = {} /\ flags' = flags
    BY <2>1, FieldsOfKinds DEF Fixed, Valid
  <2>3. GivenFields(Heard') = GivenFields(Heard)
    BY <1>2, <2>2
  <2> HIDE DEF s, F
  <2> QED BY <1>1, <1>2, <1>3, <2>2, <2>3 DEF FixInv, FlagsInv, ReportedFix
<1>5. CASE ~Over
  <2>1. fixes = <<>> /\ ~HasFix(Heard)
    BY <1>5, FixIsOver DEF FixInv
  <2>2. ASSUME FlagsInv PROVE FlagsInv'
    <3>1. CASE flags' = Updated(F)
      <4>1. /\ flags' \subseteq (GivenFields(Heard) \cup F) \X {epoch}
            /\ ((GivenFields(Heard) \cup F) \ {"accuracy"}) \X {epoch} \subseteq flags'
        BY <2>2, <3>1, UpdatedGiven
      <4> HIDE DEF s, F
      <4> QED BY <1>1, <1>2, <4>1 DEF FlagsInv
    <3>2. CASE flags' = flags /\ F \subseteq {"accuracy"}
      <4> HIDE DEF s, F
      <4> QED BY <1>1, <1>2, <2>2, <3>2 DEF FlagsInv
    <3> QED BY <3>1, <3>2
  <2> HIDE DEF s, F
  <2>3. fixes' = <<>>
    BY <2>1
  <2> QED BY <1>1, <1>2, <1>3, <2>1, <2>2, <2>3 DEF FixInv
<1> QED BY <1>4, <1>5

\* A valid RMC reports the location, and nothing is left of it.
LEMMA ReportsFix ==
    ASSUME PlaceInv, FixInv, out # <<>>, out' = Tail(out), UNCHANGED epochVars,
           Valid(Head(out)), RMC(Head(out))
    PROVE FixInv'
<1> DEFINE s == Head(out)
           F == FieldsOf(Head(out))
           now == Updated(F)
<1>1. PlaceInv' /\ Heard' = Heard \cup {s} /\ Over' /\ epoch' = epoch /\ clean' = clean /\ whole' = whole
  BY Further DEF epochVars, Valid
<1>2. /\ GivenFields(Heard') = GivenFields(Heard) \cup F
      /\ HasFix(Heard')
      /\ Dated(Heard') => {"date", "time"} \subseteq s.fields
  BY <1>1, GivenMore
<1>3. epoch > 0 /\ ~Over
  <2>1. s.type # "TXT"
    BY DEF Valid
  <2> QED BY <2>1, NextOf, BehindOver
<1>4. fixes = <<>> /\ ~HasFix(Heard)
  BY <1>3, FixIsOver DEF FixInv
<1>5. fixes' = Append(fixes, FixOf(now)) /\ flags' = {} /\ update_date(s)
  <2>1. F = s.fields \cap {"latlong", "bearing", "speed"}
    BY FieldsOfKinds
  <2>2. s.status = "A"
    BY DEF Valid
  <2> QED BY <2>1, <2>2 DEF RMC, ReportFix
<1>6. fixes' = <<FixOf(now)>> /\ Len(fixes') = 1 /\ fixes'[1] = FixOf(now) /\ fixes' # <<>>
  BY <1>4, <1>5
<1>7. Dated(Heard') => <<"time", epoch>> \in FixOf(now)
  <2>1. SUFFICES ASSUME {"date", "time"} \subseteq s.fields PROVE <<"time", epoch>> \in FixOf(now)
    BY <1>2
  <2>2. time' = epoch
    BY <1>5, <2>1 DEF update_date, update_time
  <2> QED BY <2>2 DEF FixOf
<1>8. ASSUME FlagsInv
      PROVE {f \in FixOf(now) : f[1] # "time"} = (GivenFields(Heard') \cup {"accuracy"}) \X {epoch}
  <2>1. /\ now \subseteq (GivenFields(Heard) \cup F) \X {epoch}
        /\ ((GivenFields(Heard) \cup F) \ {"accuracy"}) \X {epoch} \subseteq now
    BY <1>8, UpdatedGiven
  <2>2. "time" \notin GivenFields(Heard')
    BY FieldsOfKinds DEF GivenFields
  <2> DEFINE G == GivenFields(Heard')
  <2>3. now \subseteq G \X {epoch} /\ (G \ {"accuracy"}) \X {epoch} \subseteq now /\ "time" \notin G
    BY <1>2, <2>1, <2>2
  <2> HIDE DEF G, now
  <2> QED BY <2>3, FixOfGiven DEF G
<1> HIDE DEF s, F, now
<1>9. FlagsInv => ReportedFix'
  BY <1>1, <1>6, <1>7, <1>8 DEF ReportedFix
<1> QED BY <1>1, <1>2, <1>3, <1>4, <1>5, <1>6, <1>9 DEF FixInv

LEMMA FixStep == PlaceInv /\ FixInv /\ [ReaderNext]_readerVars => FixInv'
<1> SUFFICES ASSUME PlaceInv, FixInv, [ReaderNext]_readerVars PROVE FixInv'
  OBVIOUS
<1>1. CASE Receive
  <2> DEFINE s == Head(out)
  <2>0. out # <<>> /\ out' = Tail(out) /\ UNCHANGED epochVars
    BY <1>1 DEF Receive
  <2>1. CASE GGA(s)
    <3>1. ~Valid(s) /\ s.type # "TXT" /\ flags' = Updated(FieldsOf(s)) /\ UNCHANGED fixes
      BY <2>1, FieldsOfKinds DEF GGA, Valid
    <3> QED BY <2>0, <3>1, GivesFields
  <2>2. CASE GSA(s)
    <3>1. CASE Fixed(s)
      <4>1. ~Valid(s) /\ s.type # "TXT" /\ flags' = Updated(FieldsOf(s)) /\ UNCHANGED fixes
        BY <2>2, <3>1, FieldsOfKinds DEF GSA, Fixed, Valid
      <4> QED BY <2>0, <4>1, GivesFields
    <3>2. CASE ~Fixed(s)
      <4>1. ~Valid(s) /\ FieldsOf(s) = {} /\ flags' = flags /\ UNCHANGED fixes
        BY <2>2, <3>2, FieldsOfKinds DEF GSA, Fixed, Valid
      <4> QED BY <2>0, <4>1, GivesFields
    <3> QED BY <3>1, <3>2
  <2>3. CASE RMC(s)
    <3>1. CASE Valid(s)
      BY <2>0, <2>3, <3>1, ReportsFix
    <3>2. CASE ~Valid(s)
      <4>1. FieldsOf(s) = {} /\ flags' = flags /\ UNCHANGED fixes
        BY <2>3, <3>2, FieldsOfKinds DEF RMC, Fixed, Valid, fixVars
      <4> QED BY <2>0, <3>2, <4>1, GivesFields
    <3> QED BY <3>1, <3>2
  <2>4. CASE GSV(s) \/ Unknown(s)
    <3>1. ~Valid(s) /\ FieldsOf(s) = {} /\ flags' = flags /\ UNCHANGED fixes
      BY <2>4, FieldsOfKinds DEF GSV, Unknown, Fixed, Valid, fixVars
    <3> QED BY <2>0, <3>1, GivesFields
  <2>5. CASE ACCURACY(s)
    <3>1. ~Valid(s) /\ s.type # "TXT" /\ FieldsOf(s) = {"accuracy"} /\ UNCHANGED fixes
      BY <2>5, FieldsOfKinds DEF ACCURACY, Valid
    <3>2. flags' = Updated({"accuracy"}) \/ flags' = flags
      BY <2>5 DEF ACCURACY
    <3> QED BY <2>0, <3>1, <3>2, GivesFields
  <2> HIDE DEF s
  <2>6. Parsed(s)
    BY <1>1 DEF Receive, s
  <2> QED BY <2>1, <2>2, <2>3, <2>4, <2>5, <2>6 DEF Parsed
<1>2. CASE Lose
  <2>1. out # <<>> /\ out' = Tail(out) /\ UNCHANGED <<flags, fixes, epoch, sent>> /\ whole' = FALSE
    BY <1>2 DEF Lose, fixVars
  <2>2. epoch > 0 /\ (Over => Over')
    BY <2>1, NextOf, Further
  <2> QED BY <2>1, <2>2 DEF FixInv
<1>3. CASE NewEpoch
  <2>1. /\ out = <<>> /\ epoch' = epoch + 1 /\ sent' \in Epochs /\ out' = sent' /\ fixes' = <<>> /\ flags' = flags
        /\ "fix" \in clean' => fixes # <<>> \/ (whole /\ "fix" \in clean /\ GivenFields(Sent) = {})
    BY <1>3 DEF NewEpoch
  <2>2. Heard' = {}
    <3>1. sent' \in Seq(Sentence)
      BY <2>1, EpochOf
    <3> QED BY <2>1, <3>1 DEF Heard, Past
  <2>3. ~HasFix(Heard') /\ GivenFields(Heard') = {}
    BY <2>2 DEF HasFix, GivenFields
  <2>4. "fix" \in clean' => flags = {}
    <3> SUFFICES ASSUME "fix" \in clean', fixes = <<>>, epoch > 0 PROVE flags = {}
      BY DEF FixInv, PlaceInv
    <3>1. whole = TRUE /\ "fix" \in clean /\ GivenFields(Sent) = {} /\ Heard = Sent
      BY <2>1, AtEnd
    <3>2. ~HasFix(Heard)
      BY <3>1 DEF FixInv, ReportedFix
    <3>3. FlagsInv
      BY <3>1, <3>2 DEF FixInv
    <3> QED BY <3>1, <3>3 DEF FlagsInv
  <2>5. epoch' > 0
    BY <2>1 DEF PlaceInv
  <2>6. "fix" \in clean' => FlagsInv'
    BY <2>1, <2>3, <2>4 DEF FlagsInv
  <2> QED BY <2>1, <2>3, <2>5, <2>6 DEF FixInv
<1>4. CASE UNCHANGED readerVars
  <2>1. UNCHANGED <<flags, fixes, epoch, whole, clean, sent, out>>
    BY <1>4 DEF readerVars, fixVars, epochVars
  <2>2. Heard' = Heard /\ (Over' <=> Over)
    BY <2>1 DEF Heard, Over, Past
  <2> QED BY <2>1, <2>2 DEF FixInv, FlagsInv, ReportedFix
<1> QED BY <1>1, <1>2, <1>3, <1>4 DEF ReaderNext, ReaderDone

-----------------------------------------------------------------------------
(* The place in the epoch, step by step.                                      *)
LEMMA PlaceStep == PlaceInv /\ [ReaderNext]_readerVars => PlaceInv'
<1> SUFFICES ASSUME PlaceInv, [ReaderNext]_readerVars PROVE PlaceInv'
  OBVIOUS
<1>1. CASE Receive \/ Lose
  <2>1. out # <<>> /\ out' = Tail(out) /\ sent' = sent /\ epoch' = epoch
    BY <1>1 DEF Receive, Lose, epochVars
  <2> QED BY <2>1, Further
<1>2. CASE NewEpoch
  <2>1. epoch' = epoch + 1 /\ sent' \in Epochs /\ out' = sent' /\ epoch \in Nat
    BY <1>2 DEF NewEpoch, PlaceInv
  <2>2. sent' \in Seq(Sentence)
    BY <2>1, EpochOf
  <2>3. Past' = 0
    BY <2>1, <2>2 DEF Past
  <2> QED BY <2>1, <2>2, <2>3 DEF PlaceInv
<1>3. CASE UNCHANGED readerVars
  <2>1. UNCHANGED <<epoch, sent, out>>
    BY <1>3 DEF readerVars, epochVars
  <2> QED BY <2>1 DEF PlaceInv, Past
<1> QED BY <1>1, <1>2, <1>3 DEF ReaderNext, ReaderDone

LEMMA PlaceInit == ReaderInit => PlaceInv /\ Past = 0 /\ Heard = {} /\ ~Over
<1> SUFFICES ASSUME ReaderInit PROVE PlaceInv /\ Past = 0 /\ Heard = {} /\ ~Over
  OBVIOUS
<1>1. epoch = 0 /\ sent = <<>> /\ out = <<>> /\ <<>> \in Seq(Sentence)
  BY DEF ReaderInit
<1>2. Past = 0 /\ Heard = {} /\ ~Over
  BY <1>1, AtStart, Zenon
<1>3. PlaceInv
  BY <1>1 DEF PlaceInv
<1> QED BY <1>2, <1>3

LEMMA FixInit == ReaderInit => FixInv
  BY DEF ReaderInit, nmea_reader_init, FixInv

\* A location is reported exactly.
THEOREM FixReported == ReaderSpec => []FixExact
<1>1. PlaceInv /\ FixInv => FixExact
  <2> SUFFICES ASSUME PlaceInv, FixInv, out = <<>>, epoch > 0, whole, "fix" \in clean
               PROVE IF HasFix(Sent)
                       THEN /\ Len(fixes) = 1
                            /\ {f \in fixes[1] : f[1] # "time"} = (GivenFields(Sent) \cup {"accuracy"}) \X {epoch}
                            /\ Dated(Sent) => <<"time", epoch>> \in fixes[1]
                       ELSE fixes = <<>>
    BY DEF FixExact
  <2>1. Heard = Sent
    BY AtEnd
  <2>2. whole = TRUE
    OBVIOUS
  <2> QED BY <2>1, <2>2 DEF FixInv, ReportedFix
<1> QED BY <1>1, PlaceInit, PlaceStep, FixInit, FixStep, PTL DEF ReaderSpec

-----------------------------------------------------------------------------
(* The satellites.                                                            *)
\* What is in view of the sentences that were heard.
Seen == View(sent)[Past]

\* In the middle of a group of GSV sentences.
InGroup == Past > 0 /\ sent[Past].type = "GSV" /\ sent[Past].seq < sent[Past].num

\* Entries of the list, with those of a group that is not complete yet.
Total == num_svs + (IF InGroup THEN sv_count ELSE 0)

IsEntry(x, prn, u) == x.prn = prn /\ x.epoch = epoch /\ (prn < 256 => (x.used <=> prn \in u))

Counted ==
    /\ lists = <<>> /\ used = InUse(Heard)
    /\ Seen # <<>> => \E i \in 1 .. Past : sent[i].type = "GSV"
    /\ Total = Fits(Len(Seen))
    /\ InGroup => /\ sv_count <= sent[Past].cnt
                  /\ sv_count <= sent[Past].seq * NMEA_MAX_SV_INFO
    /\ \A i \in 0 .. Total - 1 : IsEntry(list[i], Seen[i + 1], used)

ReportedSv ==
    IF Seen = <<>>
      THEN lists = <<>> /\ num_svs = 0 /\ used = InUse(Heard)
      ELSE /\ Len(lists) = 1 /\ Len(lists[1]) = Fits(Len(Seen))
           /\ \A k \in 1 .. Fits(Len(Seen)) : IsEntry(lists[1][k], Seen[k], InUse(Heard))

SvInv ==
    /\ sv_count \in Nat /\ num_svs \in Nat
    /\ epoch = 0 => num_svs = 0 /\ used = {}
    /\ lists # <<>> => Over /\ num_svs = 0 /\ used = {}
    /\ epoch > 0 /\ whole = TRUE /\ "sv" \in clean => IF Over THEN ReportedSv ELSE Counted

\* The references, with one more sentence.
LEMMA InUseMore ==
    ASSUME NEW S, NEW s
    PROVE InUse(S \cup {s}) = InUse(S) \cup (IF Fixed(s) THEN UsedIn(s) ELSE {})
  BY DEF InUse

LEMMA SeenMore ==
    ASSUME PlaceInv, out # <<>>, out' = Tail(out), sent' = sent, epoch' = epoch
    PROVE /\ Seen \in Seq(Nat)
          /\ Seen' = IF Head(out).type = "GSV" THEN Seen \o Kept(Head(out)) ELSE Seen
<1>1. /\ sent \in Epochs /\ Past \in Nat /\ Past + 1 \in 1 .. Len(sent) /\ Head(out) = sent[Past + 1]
      /\ Past' = Past + 1 /\ Len(sent) \in Nat
  BY NextOf, Further
<1>2. Past \in 0 .. Len(sent) /\ (Past + 1) - 1 = Past
  BY <1>1
<1>3. Seen' = View(sent)[Past + 1]
  BY <1>1 DEF Seen
<1>4. Seen \in Seq(Nat)
  BY <1>1, <1>2, ViewOf DEF Seen
<1>5. View(sent)[Past + 1] = IF sent[Past + 1].type = "GSV" THEN View(sent)[Past] \o Kept(sent[Past + 1])
                             ELSE View(sent)[Past]
  BY <1>1, <1>2, ViewOf, Zenon
<1> QED BY <1>1, <1>3, <1>4, <1>5 DEF Seen

\* What has room behind those that fit.
LEMMA FitsMore ==
    ASSUME NEW a \in Nat, NEW svs \in Seq(Nat)
    PROVE /\ Fits(a) \in Nat /\ Fits(a) <= a /\ Fits(a) <= GNSS_MAX_SVS
          /\ Stored(Fits(a), svs) \in Nat /\ Stored(Fits(a), svs) <= Len(svs)
          /\ Fits(a) + Stored(Fits(a), svs) = Fits(a + Len(svs))
          /\ Fits(a) # a => Stored(Fits(a), svs) = 0
<1> DEFINE n == Len(svs)
<1>1. GNSS_MAX_SVS \in Nat /\ n \in Nat
  BY Numbers
<1>2. Stored(Fits(a), svs) = IF Fits(a) >= GNSS_MAX_SVS THEN 0
                             ELSE IF Fits(a) + n > GNSS_MAX_SVS THEN GNSS_MAX_SVS - Fits(a) ELSE n
  BY DEF Stored
<1> HIDE DEF n
<1>3. CASE a < GNSS_MAX_SVS
  <2>1. Fits(a) = a
    BY <1>3 DEF Fits
  <2> QED BY <1>1, <1>2, <1>3, <2>1 DEF Fits, n
<1>4. CASE ~(a < GNSS_MAX_SVS)
  <2>1. Fits(a) = GNSS_MAX_SVS /\ Fits(a + n) = GNSS_MAX_SVS
    BY <1>1, <1>4 DEF Fits
  <2> QED BY <1>1, <1>2, <1>4, <2>1 DEF n
<1> QED BY <1>3, <1>4

LEMMA StoredNat == ASSUME NEW at \in Nat, NEW svs \in Seq(Nat) PROVE Stored(at, svs) \in Nat
<1>1. GNSS_MAX_SVS \in Nat /\ Len(svs) \in Nat
  BY Numbers
<1> QED BY <1>1 DEF Stored

\* A sentence of satellites begins a group or goes on with the one that is open; ...
LEMMA GroupOf ==
    ASSUME PlaceInv, out # <<>>, Head(out).type = "GSV"
    PROVE /\ IsGsv(Head(out)) /\ Head(out).seq \in 1 .. Head(out).num
          /\ Head(out).seq = 1 => ~InGroup
          /\ Head(out).seq # 1 => /\ InGroup /\ sent[Past].cnt = Head(out).cnt
                                  /\ sent[Past].seq = Head(out).seq - 1
<1> DEFINE s == Head(out)
<1>1. /\ sent \in Epochs /\ Past \in Nat /\ Past + 1 \in 1 .. Len(sent) /\ s = sent[Past + 1]
      /\ DOMAIN sent = 1 .. Len(sent) /\ Len(sent) \in Nat
  BY NextOf
<1>2. IsGsv(s) /\ s.seq \in 1 .. s.num
  BY <1>1, GsvOf
<1>3. Grouped(sent)
  BY <1>1, EpochOf
<1>4. ASSUME Past > 0 PROVE Past \in DOMAIN sent /\ (Past + 1) - 1 = Past /\ Past < Len(sent)
  BY <1>1, <1>4
<1>5. ASSUME s.seq = 1 PROVE ~InGroup
  <2> SUFFICES ASSUME InGroup PROVE FALSE
    OBVIOUS
  <2>1. Past > 0 /\ sent[Past].type = "GSV" /\ sent[Past].seq < sent[Past].num
    BY DEF InGroup
  <2>2. Past \in DOMAIN sent
    BY <1>4, <2>1
  <2>3. Continues(sent[Past], s)
    BY <1>1, <1>3, <2>1, <2>2 DEF Grouped
  <2>4. IsGsv(sent[Past])
    BY <1>1, <2>1, <2>2, GsvOf
  <2> QED BY <1>5, <2>3, <2>4 DEF Continues, IsGsv
<1>6. ASSUME s.seq # 1 PROVE InGroup /\ sent[Past].cnt = s.cnt /\ sent[Past].seq = s.seq - 1
  <2>1. s.seq > 1 /\ s.seq \in Nat /\ s.num \in Nat
    BY <1>2, <1>6 DEF IsGsv
  <2>2. Past + 1 > 1 /\ sent[Past + 1 - 1].type = "GSV" /\ Continues(sent[Past + 1 - 1], s)
    BY <1>1, <1>3, <2>1 DEF Grouped
  <2>3. Past > 0 /\ Past + 1 - 1 = Past
    BY <1>1, <2>2
  <2>4. sent[Past].type = "GSV" /\ s.seq = sent[Past].seq + 1 /\ s.num = sent[Past].num /\ s.cnt = sent[Past].cnt
    BY <2>2, <2>3 DEF Continues
  <2>5. IsGsv(sent[Past])
    BY <1>1, <1>4, <2>3, <2>4, GsvOf
  <2> QED BY <1>2, <2>1, <2>3, <2>4, <2>5 DEF InGroup, IsGsv
<1> QED BY <1>2, <1>5, <1>6

\* ... any other comes only where none is open, ...
LEMMA NoGroup ==
    ASSUME PlaceInv, out # <<>>, Head(out).type # "GSV"
    PROVE ~InGroup
<1> SUFFICES ASSUME InGroup PROVE FALSE
  OBVIOUS
<1>1. /\ sent \in Epochs /\ Past \in Nat /\ Past + 1 \in 1 .. Len(sent) /\ Head(out) = sent[Past + 1]
      /\ DOMAIN sent = 1 .. Len(sent) /\ Len(sent) \in Nat
  BY NextOf
<1>2. Past > 0 /\ sent[Past].type = "GSV" /\ sent[Past].seq < sent[Past].num
  BY DEF InGroup
<1>3. Past \in DOMAIN sent /\ Grouped(sent)
  BY <1>1, <1>2, EpochOf
<1>4. Continues(sent[Past], Head(out))
  BY <1>1, <1>2, <1>3 DEF Grouped
<1> QED BY <1>4 DEF Continues

\* ... and the satellites used in the fix before the first group.
LEMMA UsedBefore ==
    ASSUME PlaceInv, out # <<>>, Fixed(Head(out))
    PROVE ~ \E i \in 1 .. Past : sent[i].type = "GSV"
<1> SUFFICES ASSUME NEW i \in 1 .. Past, sent[i].type = "GSV" PROVE FALSE
  OBVIOUS
<1>1. /\ sent \in Epochs /\ Past \in Nat /\ Past + 1 \in 1 .. Len(sent) /\ Head(out) = sent[Past + 1]
      /\ DOMAIN sent = 1 .. Len(sent) /\ Len(sent) \in Nat
  BY NextOf
<1>2. UsedFirst(sent) /\ i \in DOMAIN sent
  BY <1>1, EpochOf
<1>3. Past + 1 < i
  BY <1>1, <1>2 DEF UsedFirst
<1> QED BY <1>1, <1>3

\* The end of the last group, in the middle of one, and where the next one begins.
LEMMA GroupNext ==
    ASSUME PlaceInv, out # <<>>, out' = Tail(out), sent' = sent, epoch' = epoch
    PROVE InGroup' <=> Head(out).type = "GSV" /\ Head(out).seq < Head(out).num
<1>1. Past' = Past + 1 /\ Past \in Nat /\ Head(out) = sent[Past + 1]
  BY NextOf, Further
<1> QED BY <1>1 DEF InGroup

\* A sentence that is neither of satellites nor the RMC, or one that comes when the
\* epoch was reported, leaves the list as it is.
LEMMA LeavesList ==
    ASSUME PlaceInv, SvInv, out # <<>>, out' = Tail(out), UNCHANGED epochVars,
           Head(out).type \notin {"GSV", "RMC"}, UNCHANGED <<sv_count, num_svs, list, lists>>,
           used' = used \cup (IF Fixed(Head(out)) THEN UsedIn(Head(out)) ELSE {})
    PROVE SvInv'
<1> DEFINE s == Head(out)
<1>1. /\ PlaceInv' /\ Past' = Past + 1 /\ Heard' = Heard \cup {s} /\ (Over' <=> Over)
      /\ epoch' = epoch /\ clean' = clean /\ whole' = whole /\ sent' = sent /\ epoch > 0
  BY Further, NextOf DEF epochVars
<1>2. Seen' = Seen /\ Seen \in Seq(Nat)
  BY <1>1, SeenMore
<1>3. ~InGroup /\ ~InGroup'
  BY <1>1, NoGroup, GroupNext
<1>4. Total' = Total /\ Total = num_svs /\ num_svs \in Nat
  BY <1>3 DEF Total, SvInv
<1>5. InUse(Heard') = InUse(Heard) \cup (IF Fixed(s) THEN UsedIn(s) ELSE {})
  BY <1>1, InUseMore
<1>6. CASE Over
  <2>1. ~Fixed(s)
    BY <1>6, BehindOver DEF Fixed
  <2>2. used' = used /\ InUse(Heard') = InUse(Heard)
    BY <1>5, <2>1
  <2> HIDE DEF s
  <2>3. ReportedSv => ReportedSv'
    BY <1>1, <1>2, <2>2 DEF ReportedSv, IsEntry
  <2> QED BY <1>1, <1>6, <2>2, <2>3 DEF SvInv
<1>7. CASE ~Over
  <2>1. lists = <<>> /\ lists' = <<>>
    BY <1>7 DEF SvInv
  <2>2. ASSUME Counted PROVE Counted'
    <3>1. Seen # <<>> => /\ \E i \in 1 .. Past : sent[i].type = "GSV"
                         /\ ~Fixed(s) /\ used' = used
      <4>1. Seen # <<>> => \E i \in 1 .. Past : sent[i].type = "GSV"
        BY <2>2 DEF Counted
      <4> QED BY <4>1, UsedBefore
    <3>2. Seen' # <<>> => \E i \in 1 .. Past' : sent'[i].type = "GSV"
      <4>1. Past \in Nat /\ \A i \in 1 .. Past : i \in 1 .. Past + 1
        BY NextOf
      <4> QED BY <1>1, <1>2, <3>1, <4>1
    <3>3. used' = InUse(Heard')
      BY <1>5, <2>2 DEF Counted
    <3>4. Total = Fits(Len(Seen)) /\ \A i \in 0 .. Total - 1 : IsEntry(list[i], Seen[i + 1], used)
      BY <2>2 DEF Counted
    <3>5. \A i \in 0 .. Total' - 1 : IsEntry(list[i], Seen[i + 1], used)'
      <4>1. CASE Seen = <<>>
        <5>1. Total = 0
          BY <3>4, <4>1, FitsMore, Numbers DEF Fits
        <5> QED BY <1>4, <5>1
      <4>2. CASE Seen # <<>>
        <5>1. used' = used
          BY <3>1, <4>2
        <5> QED BY <1>1, <1>2, <1>4, <3>4, <5>1 DEF IsEntry
      <4> QED BY <4>1, <4>2
    <3> HIDE DEF s
    <3>6. Total' = Fits(Len(Seen'))
      BY <1>2, <1>4, <3>4
    <3> QED BY <1>3, <2>1, <3>2, <3>3, <3>5, <3>6 DEF Counted
  <2> HIDE DEF s
  <2> QED BY <1>1, <1>7, <2>1, <2>2 DEF SvInv
<1> QED BY <1>6, <1>7

\* The RMC reports the list, and nothing is left of it.
LEMMA ReportsList ==
    ASSUME PlaceInv, SvInv, out # <<>>, out' = Tail(out), UNCHANGED epochVars, RMC(Head(out))
    PROVE SvInv'
<1> DEFINE s == Head(out)
<1>1. s.type = "RMC" /\ ReportSv /\ list' = list
  BY DEF RMC
<1>2. /\ PlaceInv' /\ Past' = Past + 1 /\ Heard' = Heard \cup {s} /\ Over'
      /\ epoch' = epoch /\ clean' = clean /\ whole' = whole /\ sent' = sent /\ epoch > 0
  BY <1>1, Further, NextOf DEF epochVars
<1>3. Seen' = Seen /\ Seen \in Seq(Nat)
  BY <1>1, <1>2, SeenMore
<1>4. ~InGroup /\ Total = num_svs /\ num_svs \in Nat /\ sv_count \in Nat
  BY <1>1, NoGroup DEF Total, SvInv
<1>5. InUse(Heard') = InUse(Heard)
  <2>1. ~Fixed(s)
    BY <1>1 DEF Fixed
  <2> QED BY <1>2, <2>1, InUseMore
<1>6. ~Over /\ lists = <<>>
  <2>1. ~Over
    BY <1>1, BehindOver
  <2> QED BY <2>1 DEF SvInv
<1>7. ASSUME Counted PROVE ReportedSv'
  <2>1. /\ num_svs = Fits(Len(Seen)) /\ used = InUse(Heard)
        /\ \A i \in 0 .. num_svs - 1 : IsEntry(list[i], Seen[i + 1], used)
    BY <1>4, <1>7 DEF Counted
  <2>2. /\ Len(Seen) \in Nat /\ (Len(Seen) = 0 <=> Seen = <<>>)
        /\ GNSS_MAX_SVS \in Nat \ {0}
    BY <1>3, Numbers
  <2>3. num_svs <= GNSS_MAX_SVS /\ (num_svs = 0 <=> Seen = <<>>)
    BY <1>4, <2>1, <2>2 DEF Fits
  <2>4. CASE num_svs = 0
    <3>1. UNCHANGED <<lists, num_svs, used>>
      BY <1>1, <2>4 DEF ReportSv
    <3> HIDE DEF s
    <3> QED BY <1>3, <1>5, <1>6, <2>1, <2>3, <2>4, <3>1 DEF ReportedSv
  <2>5. CASE num_svs # 0
    <3>1. lists' = <<ListOf(num_svs)>> /\ Len(lists') = 1 /\ lists'[1] = ListOf(num_svs)
      BY <1>1, <1>6, <2>5 DEF ReportSv
    <3>2. Len(ListOf(num_svs)) = num_svs /\ \A k \in 1 .. num_svs : ListOf(num_svs)[k] = list[k - 1]
      BY <1>4, <2>2, <2>3 DEF ListOf
    <3>3. ASSUME NEW k \in 1 .. num_svs PROVE IsEntry(ListOf(num_svs)[k], Seen[k], used)
      <4>1. k - 1 \in 0 .. num_svs - 1 /\ k - 1 + 1 = k
        BY <1>4
      <4>2. IsEntry(list[k - 1], Seen[k], used)
        BY <2>1, <4>1
      <4> QED BY <3>2, <4>2
    <3>4. \A k \in 1 .. num_svs : IsEntry(lists[1][k], Seen[k], InUse(Heard))'
      BY <1>2, <1>3, <1>5, <2>1, <3>1, <3>3 DEF IsEntry
    <3>5. Fits(Len(Seen')) = num_svs /\ Seen' # <<>>
      BY <1>3, <2>1, <2>3, <2>5
    <3> HIDE DEF s
    <3>6. Len(lists') = 1 /\ Len(lists'[1]) = num_svs
      BY <3>1, <3>2
    <3> QED BY <3>4, <3>5, <3>6 DEF ReportedSv
  <2> QED BY <2>4, <2>5
<1>8. sv_count' \in Nat /\ num_svs' \in Nat /\ (lists' # <<>> => num_svs' = 0 /\ used' = {})
  BY <1>1, <1>4, <1>6 DEF ReportSv
<1> HIDE DEF s
<1> QED BY <1>2, <1>6, <1>7, <1>8 DEF SvInv

\* A sentence of satellites adds those that are listed and have room.
LEMMA AddsToList ==
    ASSUME PlaceInv, SvInv, out # <<>>, out' = Tail(out), UNCHANGED epochVars, GSV(Head(out))
    PROVE SvInv'
<1> DEFINE s == Head(out)
           c == CountOf(s)
           at == c + num_svs
           new == Kept(s)
           n == Stored(at, new)
<1>1. s.type = "GSV" /\ UNCHANGED <<used, lists>> /\ EndGroup(s, c + n)
  BY DEF GSV
<1>2. PICK garbage \in BOOLEAN : AddSvs(at, new, garbage)
  BY DEF GSV
<1>3. /\ PlaceInv' /\ Past' = Past + 1 /\ Heard' = Heard \cup {s} /\ (Over' <=> Over)
      /\ epoch' = epoch /\ clean' = clean /\ whole' = whole /\ sent' = sent /\ epoch > 0
  BY <1>1, Further, NextOf DEF epochVars
<1>4. Seen \in Seq(Nat) /\ Seen' = Seen \o new
  BY <1>1, <1>3, SeenMore
<1>5. ~Over /\ ~Over'
  BY <1>1, <1>3, BehindOver
<1>6. IsGsv(s) /\ s.seq \in 1 .. s.num /\ new \in Seq(Nat)
  BY <1>1, GroupOf, KeptOfGsv
<1>7. c \in Nat /\ num_svs \in Nat /\ at \in Nat /\ n \in Nat /\ at = Total
  <2>1. sv_count \in Nat /\ num_svs \in Nat
    BY DEF SvInv
  <2>2. c = IF InGroup THEN sv_count ELSE 0
    BY <1>1, GroupOf DEF CountOf
  <2>3. c \in Nat /\ at \in Nat
    BY <2>1, <2>2
  <2>4. at = Total
    BY <2>1, <2>2 DEF Total
  <2> HIDE DEF at, new
  <2>5. n \in Nat
    BY <1>6, <2>3, StoredNat
  <2> QED BY <2>1, <2>3, <2>4, <2>5
<1>8. lists = <<>> /\ lists' = <<>>
  BY <1>1, <1>5 DEF SvInv
<1>9. sv_count' \in Nat /\ num_svs' \in Nat
  <2> HIDE DEF s, c, n
  <2> QED BY <1>1, <1>7 DEF EndGroup
<1>10. Past \in Nat /\ sent[Past + 1] = s
  BY NextOf
<1>11. InGroup' <=> s.seq < s.num
  BY <1>1, <1>3, GroupNext
<1>12. InUse(Heard') = InUse(Heard)
  <2>1. ~Fixed(s)
    BY <1>1 DEF Fixed
  <2> QED BY <1>3, <2>1, InUseMore
<1>13. ASSUME Counted PROVE Counted'
  <2>1. /\ at = Fits(Len(Seen)) /\ used = InUse(Heard)
        /\ \A i \in 0 .. at - 1 : IsEntry(list[i], Seen[i + 1], used)
    BY <1>7, <1>13 DEF Counted
  <2>2. Len(Seen) \in Nat /\ Len(new) \in Nat /\ Len(Seen') = Len(Seen) + Len(new) /\ GNSS_MAX_SVS \in Nat
    BY <1>4, <1>6, Numbers
  <2>3. /\ n <= Len(new) /\ at <= Len(Seen) /\ at + n = Fits(Len(Seen')) /\ at + n <= GNSS_MAX_SVS
        /\ at # Len(Seen) => n = 0
    <3>1. /\ Stored(Fits(Len(Seen)), new) <= Len(new)
          /\ Fits(Len(Seen)) <= Len(Seen)
          /\ Fits(Len(Seen)) + Stored(Fits(Len(Seen)), new) = Fits(Len(Seen) + Len(new))
          /\ Fits(Len(Seen)) # Len(Seen) => Stored(Fits(Len(Seen)), new) = 0
      BY <1>6, <2>2, FitsMore
    <3>2. Fits(Len(Seen) + Len(new)) <= GNSS_MAX_SVS
      BY <2>2 DEF Fits
    <3> QED BY <2>1, <2>2, <3>1, <3>2
  <2>4. c + n <= s.cnt /\ c + n <= s.seq * NMEA_MAX_SV_INFO
    <3>1. c <= s.cnt /\ c <= (s.seq - 1) * NMEA_MAX_SV_INFO
      <4>1. CASE s.seq = 1
        <5>1. c = 0 /\ (s.seq - 1) * NMEA_MAX_SV_INFO = 0 /\ s.cnt \in Nat
          BY <1>6, <4>1, Numbers DEF CountOf, IsGsv
        <5> QED BY <5>1
      <4>2. CASE s.seq # 1
        <5>1. InGroup /\ sent[Past].cnt = s.cnt /\ sent[Past].seq = s.seq - 1
          BY <1>1, <4>2, GroupOf
        <5>2. sv_count <= sent[Past].cnt /\ sv_count <= sent[Past].seq * NMEA_MAX_SV_INFO
          BY <1>13, <5>1 DEF Counted
        <5>3. c = sv_count
          BY <4>2 DEF CountOf
        <5> QED BY <5>1, <5>2, <5>3
      <4> QED BY <4>1, <4>2
    <3>2. /\ c + Len(new) <= s.cnt
          /\ c + Len(new) <= s.seq * NMEA_MAX_SV_INFO
      BY <1>6, <1>7, <3>1, KeptOfGsv
    <3>3. s.cnt \in Nat /\ s.seq * NMEA_MAX_SV_INFO \in Nat
      BY <1>6, Numbers DEF IsGsv
    <3> HIDE DEF s, c, n, new
    <3> QED BY <1>7, <2>2, <2>3, <3>2, <3>3
  <2>5. /\ Total' = at + n
        /\ InGroup' => sv_count' = c + n
    <3>1. ~(c + n > s.cnt)
      BY <1>6, <1>7, <2>4 DEF IsGsv
    <3>2. sv_count' = c + n /\ num_svs' = IF s.seq = s.num THEN num_svs + (c + n) ELSE num_svs
      BY <1>1, <3>1 DEF EndGroup
    <3>3. s.seq < s.num <=> s.seq # s.num
      BY <1>6 DEF IsGsv
    <3> HIDE DEF s, n
    <3>4. CASE s.seq = s.num
      <4>1. ~InGroup' /\ num_svs' = num_svs + (c + n)
        BY <1>11, <3>2, <3>3, <3>4
      <4>2. Total' = num_svs' + 0
        BY <4>1 DEF Total
      <4> HIDE DEF c
      <4> QED BY <1>7, <4>1, <4>2
    <3>5. CASE s.seq # s.num
      <4>1. InGroup' /\ num_svs' = num_svs /\ sv_count' = c + n
        BY <1>11, <3>2, <3>3, <3>5
      <4>2. Total' = num_svs' + sv_count'
        BY <4>1 DEF Total
      <4> HIDE DEF c
      <4> QED BY <1>7, <4>1, <4>2
    <3> QED BY <3>4, <3>5
  <2>6. ASSUME NEW i \in 0 .. at + n - 1 PROVE IsEntry(list'[i], Seen'[i + 1], used)
    <3>1. i \in 0 .. GNSS_MAX_SVS - 1 /\ i \in Nat
      BY <1>7, <2>2, <2>3
    <3>2. list'[i] = IF at <= i /\ i < at + n THEN Entry(new[i - at + 1], garbage) ELSE list[i]
      BY <1>2, <3>1 DEF AddSvs
    <3> HIDE DEF s, c, at, new, n
    <3>3. CASE i < at
      <4>1. i \in 0 .. at - 1 /\ i + 1 \in 1 .. Len(Seen) /\ ~(at <= i)
        BY <1>7, <2>2, <2>3, <3>1, <3>3
      <4>2. list'[i] = list[i]
        BY <3>2, <4>1
      <4>3. Seen'[i + 1] = Seen[i + 1]
        BY <1>4, <1>6, <4>1
      <4> QED BY <2>1, <4>1, <4>2, <4>3
    <3>4. CASE ~(i < at)
      <4>1. at = Len(Seen) /\ i - at + 1 \in 1 .. Len(new) /\ at <= i /\ i < at + n
        BY <1>7, <2>2, <2>3, <3>1, <3>4
      <4>2. list'[i] = Entry(new[i - at + 1], garbage)
        BY <3>2, <4>1
      <4>3. Seen'[i + 1] = new[i - at + 1]
        <5>1. i + 1 \in Len(Seen) + 1 .. Len(Seen) + Len(new) /\ (i + 1) - Len(Seen) = i - at + 1
          BY <2>2, <3>1, <4>1
        <5> QED BY <1>4, <1>6, <2>2, <5>1
      <4> DEFINE p == new[i - at + 1]
      <4>4. p \in Nat
        BY <1>6, <4>1
      <4> HIDE DEF p
      <4>5. IsEntry(Entry(p, garbage), p, used)
        BY <4>4 DEF Entry, IsEntry
      <4> QED BY <4>2, <4>3, <4>5 DEF p
    <3> QED BY <3>3, <3>4
  <2>7. Seen' # <<>> => \E i \in 1 .. Past' : sent'[i].type = "GSV"
    <3>1. Past' \in 1 .. Past' /\ sent'[Past'] = s
      BY <1>3, <1>10
    <3> QED BY <1>1, <3>1
  <2>8. InGroup' => /\ sv_count' <= sent'[Past'].cnt
                    /\ sv_count' <= sent'[Past'].seq * NMEA_MAX_SV_INFO
    BY <1>3, <1>10, <2>4, <2>5
  <2>9. (\A i \in 0 .. Total - 1 : IsEntry(list[i], Seen[i + 1], used))'
    <3> HIDE DEF s, c, at, new, n
    <3>1. Total' = at + n
      BY <2>5
    <3>2. ASSUME NEW i \in 0 .. at + n - 1 PROVE IsEntry(list[i], Seen[i + 1], used)'
      <4>1. IsEntry(list'[i], Seen'[i + 1], used)
        BY <2>6
      <4> QED BY <1>1, <1>3, <4>1 DEF IsEntry
    <3> QED BY <1>7, <3>1, <3>2
  <2>10. used' = InUse(Heard')
    BY <1>1, <1>12, <2>1
  <2>11. Total' = Fits(Len(Seen'))
    BY <2>3, <2>5
  <2> HIDE DEF s, c, at, new, n
  <2> QED BY <1>8, <2>7, <2>8, <2>9, <2>10, <2>11 DEF Counted
<1> HIDE DEF s, c, at, new, n
<1> QED BY <1>3, <1>5, <1>8, <1>9, <1>13 DEF SvInv

LEMMA SvInit == ReaderInit => SvInv
  BY DEF ReaderInit, nmea_reader_init, SvInv

LEMMA SvStep == PlaceInv /\ SvInv /\ [ReaderNext]_readerVars => SvInv'
<1> SUFFICES ASSUME PlaceInv, SvInv, [ReaderNext]_readerVars PROVE SvInv'
  OBVIOUS
<1>1. CASE Receive
  <2> DEFINE s == Head(out)
  <2>0. out # <<>> /\ out' = Tail(out) /\ UNCHANGED epochVars
    BY <1>1 DEF Receive
  <2>1. CASE GSV(s)
    BY <2>0, <2>1, AddsToList
  <2>2. CASE RMC(s)
    BY <2>0, <2>2, ReportsList
  <2>3. CASE GGA(s) \/ ACCURACY(s) \/ Unknown(s)
    <3>1. s.type \notin {"GSV", "RMC"} /\ UNCHANGED <<sv_count, num_svs, list, lists, used>> /\ ~Fixed(s)
      BY <2>3 DEF GGA, ACCURACY, Unknown, svVars, Fixed
    <3>2. used' = used \cup (IF Fixed(s) THEN UsedIn(s) ELSE {})
      BY <3>1
    <3> QED BY <2>0, <3>1, <3>2, LeavesList
  <2>4. CASE GSA(s)
    <3>1. s.type \notin {"GSV", "RMC"} /\ UNCHANGED <<sv_count, num_svs, list, lists>>
      BY <2>4 DEF GSA
    <3>2. used' = used \cup (IF Fixed(s) THEN UsedIn(s) ELSE {})
      BY <2>4 DEF GSA, Fixed
    <3> QED BY <2>0, <3>1, <3>2, LeavesList
  <2> HIDE DEF s
  <2>5. Parsed(s)
    BY <1>1 DEF Receive, s
  <2> QED BY <2>1, <2>2, <2>3, <2>4, <2>5 DEF Parsed
<1>2. CASE Lose
  <2>1. out # <<>> /\ out' = Tail(out) /\ UNCHANGED <<sv_count, num_svs, used, lists, epoch, sent>> /\ whole' = FALSE
    BY <1>2 DEF Lose, svVars
  <2>2. epoch > 0 /\ (Over => Over')
    BY <2>1, NextOf, Further
  <2> QED BY <2>1, <2>2 DEF SvInv
<1>3. CASE NewEpoch
  <2>1. /\ out = <<>> /\ epoch' = epoch + 1 /\ sent' \in Epochs /\ out' = sent' /\ lists' = <<>>
        /\ UNCHANGED <<sv_count, num_svs, list, used>>
        /\ "sv" \in clean' => lists # <<>> \/ (whole /\ "sv" \in clean /\ InView = <<>> /\ InUse(Sent) = {})
    BY <1>3 DEF NewEpoch
  <2>2. Past' = 0 /\ Heard' = {} /\ ~Over'
    <3>1. sent' \in Seq(Sentence)
      BY <2>1, EpochOf
    <3>2. Past' = 0
      BY <2>1, <3>1 DEF Past
    <3> QED BY <3>2 DEF Heard, Over
  <2>3. Seen' = <<>>
    BY <2>1, <2>2, ViewOf DEF Seen
  <2>4. "sv" \in clean' => num_svs = 0 /\ used = {}
    <3> SUFFICES ASSUME "sv" \in clean', lists = <<>>, epoch > 0 PROVE num_svs = 0 /\ used = {}
      BY DEF SvInv, PlaceInv
    <3>1. whole = TRUE /\ "sv" \in clean /\ InView = <<>> /\ InUse(Sent) = {}
      BY <2>1
    <3>2. Over /\ Heard = Sent /\ Past = Len(sent) /\ sent \in Epochs
      BY <2>1, AtEnd
    <3>3. ReportedSv
      BY <3>1, <3>2 DEF SvInv
    <3>4. Seen \in Seq(Nat) /\ Seen = View(sent)[Len(sent)]
      <4>1. Len(sent) \in 0 .. Len(sent)
        BY <3>2, EpochOf
      <4> QED BY <3>2, <4>1, ViewOf DEF Seen
    <3>5. Seen = <<>>
      <4>1. InView = [k \in 1 .. Fits(Len(Seen)) |-> Seen[k]]
        BY <3>4 DEF InView
      <4>2. Fits(Len(Seen)) \in Nat
        BY <3>4, Numbers DEF Fits
      <4>3. Len(InView) = Fits(Len(Seen))
        BY <4>1, <4>2
      <4>4. Fits(Len(Seen)) = 0
        BY <3>1, <4>3
      <4> QED BY <3>4, <4>4, Numbers DEF Fits
    <3> QED BY <3>1, <3>2, <3>3, <3>5 DEF ReportedSv
  <2>5. epoch' > 0
    BY <2>1 DEF PlaceInv
  <2>6. "sv" \in clean' => Counted'
    <3> SUFFICES ASSUME "sv" \in clean' PROVE Counted'
      OBVIOUS
    <3>1. ~InGroup'
      BY <2>2 DEF InGroup
    <3>2. Total' = 0
      <4>1. Total' = num_svs' + 0
        BY <3>1 DEF Total
      <4> QED BY <2>1, <2>4, <4>1
    <3>3. used' = InUse(Heard')
      BY <2>1, <2>2, <2>4 DEF InUse
    <3>4. Fits(Len(Seen')) = 0
      BY <2>3, Numbers DEF Fits
    <3> QED BY <2>1, <2>3, <3>1, <3>2, <3>3, <3>4 DEF Counted
  <2> QED BY <2>1, <2>2, <2>5, <2>6 DEF SvInv
<1>4. CASE UNCHANGED readerVars
  <2>1. UNCHANGED <<sv_count, num_svs, list, used, lists, epoch, whole, clean, sent, out>>
    BY <1>4 DEF readerVars, svVars, epochVars
  <2>2. UNCHANGED <<Past, Heard, Seen>> /\ (Over' <=> Over)
    BY <2>1 DEF Past, Heard, Over, Seen
  <2>3. UNCHANGED Total /\ (InGroup' <=> InGroup)
    BY <2>1, <2>2 DEF Total, InGroup
  <2>4. ReportedSv' <=> ReportedSv
    BY <2>1, <2>2 DEF ReportedSv, IsEntry
  <2>5. Counted => Counted'
    <3> SUFFICES ASSUME Counted PROVE Counted'
      OBVIOUS
    <3>1. \A i \in 0 .. Total - 1 : IsEntry(list[i], Seen[i + 1], used)
      BY DEF Counted
    <3>2. (\A i \in 0 .. Total - 1 : IsEntry(list[i], Seen[i + 1], used))'
      BY <2>1, <2>2, <2>3, <3>1 DEF IsEntry
    <3> QED BY <2>1, <2>2, <2>3, <3>2 DEF Counted
  <2> QED BY <2>1, <2>2, <2>4, <2>5 DEF SvInv
<1> QED BY <1>1, <1>2, <1>3, <1>4 DEF ReaderNext, ReaderDone

\* The satellites are reported exactly.
THEOREM SvReported == ReaderSpec => []SvExact
<1>1. PlaceInv /\ SvInv => SvExact
  <2> SUFFICES ASSUME PlaceInv, SvInv, out = <<>>, epoch > 0, whole, "sv" \in clean
               PROVE IF InView = <<>> THEN lists = <<>>
                     ELSE /\ Len(lists) = 1
                          /\ Len(lists[1]) = Len(InView)
                          /\ \A k \in 1 .. Len(InView) :
                               /\ lists[1][k].prn = InView[k] /\ lists[1][k].epoch = epoch
                               /\ InView[k] < 256 => (lists[1][k].used <=> InView[k] \in InUse(Sent))
    BY DEF SvExact
  <2>1. Over /\ Heard = Sent /\ Past = Len(sent) /\ sent \in Epochs
    BY AtEnd
  <2>2. whole = TRUE
    OBVIOUS
  <2>3. ReportedSv
    BY <2>1, <2>2 DEF SvInv
  <2>4. Seen \in Seq(Nat) /\ Seen = View(sent)[Len(sent)]
    <3>1. Len(sent) \in 0 .. Len(sent)
      BY <2>1, EpochOf
    <3> QED BY <2>1, <3>1, ViewOf DEF Seen
  <2>5. InView = [k \in 1 .. Fits(Len(Seen)) |-> Seen[k]]
    BY <2>4 DEF InView
  <2>6. Fits(Len(Seen)) \in Nat /\ (Fits(Len(Seen)) = 0 <=> Seen = <<>>)
    BY <2>4, Numbers DEF Fits
  <2>7. Len(InView) = Fits(Len(Seen)) /\ \A k \in 1 .. Fits(Len(Seen)) : InView[k] = Seen[k]
    BY <2>5, <2>6
  <2>8. CASE Seen = <<>>
    BY <2>3, <2>5, <2>6, <2>8 DEF ReportedSv
  <2>9. CASE Seen # <<>>
    <3>1. InView # <<>>
      BY <2>6, <2>7, <2>9
    <3> QED BY <2>1, <2>3, <2>7, <2>9, <3>1 DEF ReportedSv, IsEntry
  <2> QED BY <2>8, <2>9
<1> QED BY <1>1, PlaceInit, PlaceStep, SvInit, SvStep, PTL DEF ReaderSpec

-----------------------------------------------------------------------------
(* From the bytes to the reports.                                             *)
LEMMA SendsLine ==
    ASSUME PlaceInv, SendLine
    PROVE \E n \in 1 .. MaxLen : Begin(n)
<1>1. CASE Begin(Normal(Head(out)))
  <2>1. sent \in Epochs /\ Past + 1 \in DOMAIN sent /\ Head(out) = sent[Past + 1]
    BY NextOf DEF SendLine
  <2>2. Normal(Head(out)) \in 1 .. MaxLen
    BY <2>1, StreamAssumption DEF StreamAssumption
  <2> QED BY <1>1, <2>2
<1>2. ASSUME NEW n \in Size + 1 .. MaxLen, Begin(n) PROVE \E m \in 1 .. MaxLen : Begin(m)
  <2>1. n \in 1 .. MaxLen
    BY LineAssumption DEF LineAssumption
  <2> QED BY <1>2, <2>1
<1> QED BY <1>1, <1>2 DEF SendLine

LEMMA LineStep == PlaceInv /\ [StreamNext]_streamVars => [Next]_vars
<1> SUFFICES ASSUME PlaceInv, [StreamNext]_streamVars PROVE [Next]_vars
  OBVIOUS
<1>1. CASE SendLine
  BY <1>1, SendsLine DEF Next
<1>2. CASE Character
  BY <1>2 DEF Character, Next
<1>3. CASE Complete
  BY <1>3 DEF Complete, Next
<1>4. CASE Dropped
  BY <1>4 DEF Dropped, Next
<1>5. CASE NextEpoch \/ UNCHANGED streamVars
  BY <1>5 DEF NextEpoch, streamVars
<1> QED BY <1>1, <1>2, <1>3, <1>4, <1>5 DEF StreamNext, StreamDone

LEMMA SentenceStep == [StreamNext]_streamVars => [ReaderNext]_readerVars
<1> SUFFICES ASSUME [StreamNext]_streamVars PROVE [ReaderNext]_readerVars
  OBVIOUS
<1>1. CASE SendLine \/ Character
  BY <1>1 DEF SendLine, Character
<1>2. CASE Complete
  BY <1>2 DEF Complete, ReaderNext
<1>3. CASE Dropped
  BY <1>3 DEF Dropped, ReaderNext
<1>4. CASE NextEpoch
  BY <1>4 DEF NextEpoch, ReaderNext
<1>5. CASE UNCHANGED streamVars
  BY <1>5 DEF streamVars
<1> QED BY <1>1, <1>2, <1>3, <1>4, <1>5 DEF StreamNext, StreamDone

\* The reader does with the sentences of the lines what it does with sentences.
THEOREM StreamIsReader == StreamSpec => ReaderSpec
<1>1. StreamInit => ReaderInit
  BY DEF StreamInit
<1> QED BY <1>1, SentenceStep, PTL DEF StreamSpec, ReaderSpec

\* The sentences of the reader are cut out of the bytes like any other lines.
THEOREM StreamIsLines == StreamSpec => Spec
<1>1. StreamInit => Init /\ PlaceInv
  BY PlaceInit DEF StreamInit
<1>2. PlaceInv /\ [StreamNext]_streamVars => PlaceInv'
  BY SentenceStep, PlaceStep
<1> QED BY <1>1, <1>2, LineStep, PTL DEF StreamSpec, Spec

\* Byte by byte, whatever lines are too long for the buffer: lines stay whole, losses
\* bounded, and an epoch that arrives whole is reported exactly.
THEOREM StreamExact == StreamSpec => [](WholeLines /\ LossIsBounded /\ SvExact /\ FixExact)
  BY StreamIsReader, StreamIsLines, Framing, BoundedLoss, SvReported, FixReported, PTL

\* As many lines are over as were parsed, each with its sentence received, or lost.
Accounted == left = 0 => Len(lens) = Len(parsed) + lost

AccountInv == /\ parsed \in Seq(Record) /\ lens \in Seq(1 .. MaxLen) /\ lost \in Nat /\ left \in Nat
              /\ Len(lens) = Len(parsed) + lost + (IF left > 0 THEN 1 ELSE 0)

LEMMA AccountStep == IInv /\ PlaceInv /\ AccountInv /\ [StreamNext]_streamVars => AccountInv'
<1> SUFFICES ASSUME IInv, PlaceInv, AccountInv, [StreamNext]_streamVars PROVE AccountInv'
  OBVIOUS
<1>1. /\ parsed \in Seq(Record) /\ lens \in Seq(1 .. MaxLen) /\ lost \in Nat /\ left \in Nat
      /\ Len(lens) = Len(parsed) + lost + (IF left > 0 THEN 1 ELSE 0)
  BY DEF AccountInv
<1>2. IInv'
  BY LineStep, StepInductive
<1>3. parsed' \in Seq(Record) /\ lens' \in Seq(1 .. MaxLen) /\ left' \in Nat
  BY <1>2, LineAssumption DEF IInv, ShapeInv, TypeOK, LineAssumption
<1>4. Len(parsed) \in Nat /\ Len(lens) \in Nat
  BY <1>1
<1>5. CASE SendLine
  <2>1. \E n \in 1 .. MaxLen : Begin(n)
    BY <1>5, SendsLine
  <2>2. left = 0 /\ UNCHANGED <<parsed, lost>>
    BY <1>5, <2>1 DEF Begin, SendLine, readerVars, epochVars
  <2>3. left' > 0 /\ Len(lens') = Len(lens) + 1
    <3> SUFFICES ASSUME NEW n \in 1 .. MaxLen, Begin(n) PROVE left' > 0 /\ Len(lens') = Len(lens) + 1
      BY <2>1
    <3>1. lens' = Append(lens, n) /\ left' = n
      BY DEF Begin
    <3>2. MaxLen \in Nat /\ lens \in Seq(1 .. MaxLen)
      BY <1>1, LineAssumption DEF LineAssumption
    <3> QED BY <3>1, <3>2
  <2> QED BY <1>1, <1>3, <1>4, <2>2, <2>3 DEF AccountInv
<1>6. CASE Character
  <2>1. lost' = lost /\ left # 1
    BY <1>6 DEF Character, Newline, readerVars, epochVars
  <2>2. UNCHANGED <<lens, parsed>> /\ left > 0 /\ left' = left - 1
    BY <1>1, <1>6 DEF Character, Store, Overflow, Skip
  <2> QED BY <1>1, <1>3, <2>1, <2>2 DEF AccountInv
<1>7. CASE Complete
  <2>1. UNCHANGED <<lens, lost>> /\ left = 1 /\ left' = 0
    BY <1>7 DEF Complete, Parse, Newline, Receive, epochVars
  <2>2. Len(parsed') = Len(parsed) + 1
    BY <1>1, <1>7 DEF Complete, Parse
  <2> QED BY <1>1, <1>3, <1>4, <2>1, <2>2 DEF AccountInv
<1>8. CASE Dropped
  <2>1. UNCHANGED <<lens, parsed>> /\ left = 1 /\ left' = left - 1 /\ lost' = lost + 1
    BY <1>8 DEF Dropped, Newline, Overflow, Skip, Lose
  <2> QED BY <1>1, <1>3, <1>4, <2>1 DEF AccountInv
<1>9. CASE NextEpoch \/ UNCHANGED streamVars
  <2>1. UNCHANGED <<lens, parsed, left, lost>>
    BY <1>9 DEF NextEpoch, NewEpoch, streamVars, vars, readerVars, epochVars
  <2> QED BY <1>1, <2>1 DEF AccountInv
<1> QED BY <1>5, <1>6, <1>7, <1>8, <1>9 DEF StreamNext, StreamDone

\* The sentences lost are the lines dropped, one for one: no line is dropped without
\* a sentence missing, and no sentence is received without a line.
THEOREM NothingElseLost == StreamSpec => []Accounted
<1>1. StreamInit => IInv /\ PlaceInv /\ AccountInv
  <2>1. StreamInit => IInv /\ PlaceInv
    BY InitInductive, PlaceInit DEF StreamInit
  <2>2. StreamInit => AccountInv
    BY DEF StreamInit, Init, ReaderInit, AccountInv
  <2> QED BY <2>1, <2>2
<1>2. IInv /\ PlaceInv /\ [StreamNext]_streamVars => IInv' /\ PlaceInv'
  BY SentenceStep, PlaceStep, LineStep, StepInductive
<1>3. AccountInv => Accounted
  BY DEF AccountInv, Accounted
<1> QED BY <1>1, <1>2, <1>3, AccountStep, PTL DEF StreamSpec
=============================================================================
