---------------------------- MODULE NmeaSentences ---------------------------
(* The epochs of sentences that the checks of the sentence reader send: two   *)
(* systems, a satellite the code ignores and one beyond sv_used_in_fix, more  *)
(* satellites than fit, a date not known yet, no fix.                         *)
EXTENDS Naturals, Sequences

gga(f) == [type |-> "GGA", fields |-> f]
gsa(t, m, u) == [type |-> "GSA", talker |-> t, mode |-> m, used |-> u]
gsv(t, n, q, c, v) == [type |-> "GSV", talker |-> t, num |-> n, seq |-> q, cnt |-> c, sats |-> v]
rmc(a, f) == [type |-> "RMC", status |-> a, fields |-> f]

Position == {"time", "latlong", "altitude"}
Moving == {"time", "date", "latlong", "speed", "bearing"}
Still == {"time", "date", "latlong", "speed"}
Dateless == {"time", "latlong", "speed"}

TwoSystems == <<gga(Position), gsa("GP", 3, {1, 5}), gsa("GL", 3, {70}),
                gsv("GP", 2, 1, 3, <<1, 5>>), gsv("GP", 2, 2, 3, <<32>>),
                gsv("GL", 1, 1, 1, <<6>>), rmc("A", Moving)>>
Wide == <<gsa("GA", 2, {401, 5}), gsv("GA", 1, 1, 2, <<5, 401>>),
          [type |-> "ACCURACY"], gsv("BD", 1, 1, 1, <<8>>), rmc("A", Still)>>
Crowded == <<gga(Position), gsv("GP", 2, 1, 3, <<1, 2>>), gsv("GP", 2, 2, 3, <<3>>),
             gsv("GL", 1, 1, 2, <<65, 66>>), [type |-> "TXT"], rmc("A", Dateless)>>
NoFix == <<gga({}), gsa("GP", 1, {}), gsv("GP", 1, 1, 0, <<>>), rmc("V", {})>>

AllEpochs == {TwoSystems, Wide, Crowded, NoFix}
=============================================================================
