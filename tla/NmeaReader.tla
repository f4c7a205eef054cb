----------------------------- MODULE NmeaReader -----------------------------
(* What the GPS HAL makes of the sentences of the receiver                    *)
(* (src/hal/gps/gnsshal/gps_zkw.c, nmea_reader_parse).  Every second the      *)
(* receiver sends an epoch of sentences; the serial line may lose some.       *)
(* Fields and satellites carry the epoch they come from, so that a stale one  *)
(* is told from a fresh one.                                                  *)
EXTENDS Naturals, Sequences

CONSTANTS Epochs,         \* epochs the receiver may send: sequences of sentences
          MaxEpoch,       \* bound on the epochs sent
          MaxLost,        \* bound on the sentences lost
          NMEA_MAX_SV_INFO,
          GNSS_MAX_SVS

Fields == {"latlong", "altitude", "bearing", "speed", "accuracy"}
Given == SUBSET (Fields \cup {"time", "date"})

\* A sentence by what the reader takes from it.
Sentence == [type : {"GGA"}, fields : Given]
       \cup [type : {"GSA"}, talker : STRING, mode : Nat, used : SUBSET Nat]
       \cup [type : {"GSV"}, talker : STRING, num : Nat, seq : Nat, cnt : Nat, sats : Seq(Nat)]
       \cup [type : {"RMC"}, status : {"A", "V"}, fields : Given]
       \cup [type : {"ACCURACY", "TXT"}]

LOC_FIXED(mode) == mode \in {2, 3}

Fixed(s) == s.type = "GSA" /\ LOC_FIXED(s.mode)
Valid(s) == s.type = "RMC" /\ s.status = "A"

\* The satellites in view come in groups of sentences that are numbered, ...
Continues(s, t) == t.type = "GSV" /\ t.seq = s.seq + 1 /\ t.num = s.num /\ t.cnt = s.cnt
Grouped(e) ==
    \A i \in DOMAIN e : e[i].type = "GSV" =>
      /\ e[i].seq \in 1 .. e[i].num
      /\ e[i].seq > 1 => i > 1 /\ e[i - 1].type = "GSV" /\ Continues(e[i - 1], e[i])
      /\ e[i].seq < e[i].num => i < Len(e) /\ Continues(e[i], e[i + 1])

\* ... behind those used in the fix, which a satellite is marked with as it comes.
UsedFirst(e) == \A i, j \in DOMAIN e : e[i].type = "GSV" /\ Fixed(e[j]) => j < i

\* One RMC ends what the reader understands of an epoch; it makes the reports due.
Ended(e) == \E i \in DOMAIN e : /\ e[i].type = "RMC"
                                /\ \A j \in 1 .. i - 1 : e[j].type # "RMC"
                                /\ \A j \in i + 1 .. Len(e) : e[j].type = "TXT"

ASSUME EpochAssumption ==
    /\ {MaxEpoch, NMEA_MAX_SV_INFO, GNSS_MAX_SVS} \subseteq Nat \ {0} /\ MaxLost \in Nat
    /\ \A e \in Epochs : e \in Seq(Sentence) /\ Grouped(e) /\ UsedFirst(e) /\ Ended(e)

VARIABLES flags,      \* the fields the fix has: pairs of a field and its epoch
          day,        \* the epoch of the date
          time,       \* the epoch of the time, put on that date; 0 is none
          fix_mode, sv_count, num_svs,
          list,       \* gnss_sv_list
          used,       \* the numbers set in sv_used_in_fix
          epoch,      \* the number of the epoch being sent
          sent,       \* its sentences
          out,        \* those not yet sent
          lost,       \* sentences lost so far
          broken,     \* talkers of GSV sentences of this epoch that were lost
          whole,      \* nothing of this epoch was lost
          clean,      \* what the epoch before left nothing of: "fix", "sv"
          fixes,      \* the locations reported in this epoch
          lists       \* the satellite lists reported in this epoch

fixVars == <<flags, day, time, fixes>>
svVars == <<sv_count, num_svs, list, used, lists>>
epochVars == <<epoch, sent, lost, broken, whole, clean>>
readerVars == <<fixVars, svVars, fix_mode, out, epochVars>>

NoEntry == [prn |-> 0, used |-> FALSE, epoch |-> 0]

nmea_reader_init ==
    /\ flags = {} /\ day = 0 /\ time = 0 /\ fix_mode = 0
    /\ sv_count = 0 /\ num_svs = 0 /\ used = {}
    /\ list = [i \in 0 .. GNSS_MAX_SVS - 1 |-> NoEntry]

ReaderInit == /\ nmea_reader_init
              /\ epoch = 0 /\ sent = <<>> /\ out = <<>>
              /\ lost = 0 /\ broken = {} /\ whole = TRUE /\ clean = {"fix", "sv"}
              /\ fixes = <<>> /\ lists = <<>>

-----------------------------------------------------------------------------
\* The fields of the fix.  An update sets the flags of the fields the sentence
\* has, and leaves those of the fields it has not.
Updated(fields) == {f \in flags : f[1] \notin fields} \cup (fields \X {epoch})

\* The time of the fix is the time of day of a sentence, put on the last day a sentence
\* gave (0 is the clock's).  Each epoch is taken to be on a day of its own, so
\* the time is that of this epoch, or that of none (0).
update_time(s) == time' = IF "time" \notin s.fields THEN time
                          ELSE IF day' = epoch THEN epoch ELSE 0

\* A time without a date is not taken.
update_date(s) == IF "date" \in s.fields
                    THEN day' = epoch /\ update_time(s)
                    ELSE UNCHANGED <<day, time>>

GGA(s) == /\ s.type = "GGA"
          /\ day' = day /\ update_time(s)
          /\ flags' = Updated(s.fields \cap {"latlong", "altitude"})
          /\ UNCHANGED <<fixes, fix_mode, svVars>>

\* A satellite number is made unique by the talker of its sentence.
get_svid(prn, talker) ==
    CASE talker = "GL" /\ prn \in 1 .. 32 -> prn + 64
      [] talker = "BD" /\ prn \in 1 .. 32 -> prn + 200
      [] OTHER -> prn

\* sv_used_in_fix has room for the numbers below 256.
UsedIn(s) == {v \in {get_svid(p, s.talker) : p \in s.used} : v < 256}

GSA(s) == /\ s.type = "GSA"
          /\ fix_mode' = s.mode
          /\ IF LOC_FIXED(s.mode)
               THEN flags' = Updated({"accuracy"}) /\ used' = used \cup UsedIn(s)
               ELSE UNCHANGED <<flags, used>>
          /\ UNCHANGED <<day, time, fixes, sv_count, num_svs, list, lists>>

\* Satellites outside the ranges of the four systems are not listed.
Listed(prn) == prn \in (1 .. 31) \cup (65 .. 96) \cup (201 .. 237) \cup (401 .. 436)

\* The satellites a GSV sentence has room and a count for.
SatsOf(s) ==
    LET rest == s.cnt - (s.seq - 1) * NMEA_MAX_SV_INFO
        n == IF s.cnt < (s.seq - 1) * NMEA_MAX_SV_INFO THEN 0
             ELSE IF rest > NMEA_MAX_SV_INFO THEN NMEA_MAX_SV_INFO ELSE rest
    IN  [i \in 1 .. (IF n < Len(s.sats) THEN n ELSE Len(s.sats)) |-> get_svid(s.sats[i], s.talker)]

\* Those of them that are listed.
KeptOf(sats) == LET kept[i \in 0 .. Len(sats)] ==
                      IF i = 0 THEN <<>>
                      ELSE IF Listed(sats[i]) THEN Append(kept[i - 1], sats[i]) ELSE kept[i - 1]
                IN  kept
Kept(s) == KeptOf(SatsOf(s))[Len(SatsOf(s))]

\* nmea_reader_update_sv_status_gnss, for the satellites of a sentence one after another
\* behind the first "at", as long as there is room.  For a number beyond sv_used_in_fix
\* the code reads past the array and finds "garbage".
Entry(prn, garbage) ==
    [prn |-> prn, epoch |-> epoch, used |-> IF prn < 256 THEN prn \in used ELSE garbage]

Stored(at, svs) == IF at >= GNSS_MAX_SVS THEN 0
                   ELSE IF at + Len(svs) > GNSS_MAX_SVS THEN GNSS_MAX_SVS - at ELSE Len(svs)

AddSvs(at, svs, garbage) ==
    list' = [i \in 0 .. GNSS_MAX_SVS - 1 |-> IF at <= i /\ i < at + Stored(at, svs)
                                               THEN Entry(svs[i - at + 1], garbage)
                                               ELSE list[i]]

\* The end of a group of GSV sentences adds its count to the list.
EndGroup(s, count) ==
    IF s.seq = s.num /\ count > s.cnt
      THEN sv_count' = 0 /\ num_svs' = 0
      ELSE sv_count' = count /\ num_svs' = IF s.seq = s.num THEN num_svs + count ELSE num_svs

\* A first sentence that does not begin a new count (a mutation).
CountOfKeeps(s) == sv_count

\* What the count begins from: a first sentence begins a new one.
CountOf(s) == IF s.seq = 1 THEN 0 ELSE sv_count

GSV(s) == /\ s.type = "GSV"
          /\ \E garbage \in BOOLEAN : AddSvs(CountOf(s) + num_svs, Kept(s), garbage)
          /\ EndGroup(s, CountOf(s) + Stored(CountOf(s) + num_svs, Kept(s)))
          /\ UNCHANGED <<used, lists, fix_mode, fixVars>>

ACCURACY(s) == /\ s.type = "ACCURACY"
               /\ flags' = IF LOC_FIXED(fix_mode) THEN Updated({"accuracy"}) ELSE flags
               /\ UNCHANGED <<day, time, fixes, fix_mode, svVars>>

Unknown(s) == s.type = "TXT" /\ UNCHANGED <<fixVars, svVars, fix_mode>>

-----------------------------------------------------------------------------
\* Every sentence ends with the reports that are due, and only an RMC makes any due.

\* location_cb: a fix without an accuracy is given one.  The time has no flag.
FixOf(now) == now \cup {<<"time", time'>>}
                  \cup (IF \E f \in now : f[1] = "accuracy" THEN {} ELSE {<<"accuracy", epoch>>})

\* A report that keeps the flags for the next one (a mutation).
ReportFixKeeps(now) == fixes' = Append(fixes, FixOf(now)) /\ flags' = now

ReportFix(now) == fixes' = Append(fixes, FixOf(now)) /\ flags' = {}

ListOf(n) == [k \in 1 .. n |-> IF k <= GNSS_MAX_SVS THEN list[k - 1] ELSE NoEntry]

ReportSv == IF num_svs # 0
              THEN /\ lists' = Append(lists, ListOf(num_svs))
                   /\ sv_count' = 0 /\ num_svs' = 0 /\ used' = {}
              ELSE UNCHANGED <<lists, sv_count, num_svs, used>>

\* A location is due only with a valid position, satellites always are.
RMC(s) == /\ s.type = "RMC"
          /\ IF s.status = "A"
               THEN update_date(s) /\ ReportFix(Updated(s.fields \cap {"latlong", "bearing", "speed"}))
               ELSE UNCHANGED fixVars
          /\ ReportSv
          /\ UNCHANGED <<list, fix_mode>>

Parsed(s) == GGA(s) \/ GSA(s) \/ RMC(s) \/ GSV(s) \/ ACCURACY(s) \/ Unknown(s)

\* nmea_reader_parse
Receive == /\ out # <<>>
           /\ Parsed(Head(out))
           /\ out' = Tail(out)
           /\ UNCHANGED epochVars

\* The line loses a sentence.
Lose ==
    /\ out # <<>> /\ lost < MaxLost
    /\ lost' = lost + 1
    /\ whole' = FALSE
    /\ broken' = IF Head(out).type = "GSV" THEN broken \cup {Head(out).talker} ELSE broken
    /\ out' = Tail(out)
    /\ UNCHANGED <<fixVars, svVars, fix_mode, epoch, sent, clean>>

-----------------------------------------------------------------------------
\* What the sentences of an epoch say, read without any state: S is a set of them.
Sent == {sent[i] : i \in DOMAIN sent}

\* The listed satellites of the first k sentences of an epoch, one after another.
View(e) == LET view[k \in 0 .. Len(e)] ==
                 IF k = 0 THEN <<>>
                 ELSE IF e[k].type = "GSV" THEN view[k - 1] \o Kept(e[k]) ELSE view[k - 1]
           IN  view

Fits(n) == IF n < GNSS_MAX_SVS THEN n ELSE GNSS_MAX_SVS

InView == LET all == View(sent)[Len(sent)] IN [k \in 1 .. Fits(Len(all)) |-> all[k]]

InUse(S) == UNION {UsedIn(s) : s \in {x \in S : Fixed(x)}}

FieldsOf(s) == CASE s.type = "GGA" -> s.fields \cap {"latlong", "altitude"}
                 [] Valid(s) -> s.fields \cap {"latlong", "bearing", "speed"}
                 [] Fixed(s) \/ s.type = "ACCURACY" -> {"accuracy"}
                 [] OTHER -> {}
GivenFields(S) == UNION {FieldsOf(s) : s \in S}

HasFix(S) == \E s \in S : Valid(s)
Dated(S) == \A s \in S : Valid(s) => {"date", "time"} \subseteq s.fields

\* The receiver begins its next epoch.
NewEpoch ==
    /\ out = <<>> /\ epoch < MaxEpoch
    /\ epoch' = epoch + 1
    /\ sent' \in Epochs
    /\ out' = sent'
    /\ broken' = {} /\ whole' = TRUE
    /\ clean' = {c \in {"fix"} : fixes # <<>> \/ (whole /\ c \in clean /\ GivenFields(Sent) = {})}
             \cup {c \in {"sv"} : lists # <<>> \/ (whole /\ c \in clean /\ InView = <<>> /\ InUse(Sent) = {})}
    /\ fixes' = <<>> /\ lists' = <<>>
    /\ UNCHANGED <<flags, day, time, fix_mode, sv_count, num_svs, list, used, lost>>

ReaderDone == out = <<>> /\ epoch = MaxEpoch /\ UNCHANGED readerVars

ReaderNext == Receive \/ Lose \/ NewEpoch \/ ReaderDone

ReaderSpec == ReaderInit /\ [][ReaderNext]_readerVars

-----------------------------------------------------------------------------
\* An epoch that arrives whole, after one that ended with a satellite report,
\* is reported exactly: one list with every listed satellite of every system
\* in the order sent, up to the limit, each used in the fix exactly when a GSA
\* sentence of the epoch names it.  A loss is forgotten with the next report.
SvExact ==
    out = <<>> /\ epoch > 0 /\ whole /\ "sv" \in clean =>
      IF InView = <<>> THEN lists = <<>>
      ELSE /\ Len(lists) = 1
           /\ Len(lists[1]) = Len(InView)
           /\ \A k \in 1 .. Len(InView) :
                /\ lists[1][k].prn = InView[k] /\ lists[1][k].epoch = epoch
                /\ InView[k] < 256 => (lists[1][k].used <=> InView[k] \in InUse(Sent))

\* Likewise the location: exactly the fields the epoch gives, all of this epoch,
\* with an accuracy in any case, and none at all while the receiver has no fix;
\* and with the epoch's time on the epoch's day, unless there is no date yet.
FixExact ==
    out = <<>> /\ epoch > 0 /\ whole /\ "fix" \in clean =>
      IF HasFix(Sent)
        THEN /\ Len(fixes) = 1
             /\ {f \in fixes[1] : f[1] # "time"} = (GivenFields(Sent) \cup {"accuracy"}) \X {epoch}
             /\ Dated(Sent) => <<"time", epoch>> \in fixes[1]
        ELSE fixes = <<>>

\* "GPGSV incomplete (%d/%d), ignored!": no satellite of a group that lost a
\* sentence is reported.
IncompleteIgnored ==
    \A i \in DOMAIN lists, s \in Sent :
      s.type = "GSV" /\ s.talker \in broken =>
        \A k \in DOMAIN lists[i], j \in DOMAIN SatsOf(s) :
          ~(lists[i][k].epoch = epoch /\ lists[i][k].prn = SatsOf(s)[j])
=============================================================================
