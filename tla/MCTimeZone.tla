----------------------------- MODULE MCTimeZone -----------------------------
(***************************************************************************)
(* TimeZone on the blobs of tz_embed.c that differ in shape, as the release*)
(* 2026b embeds them.  The face is painted at every UTC midnight and one   *)
(* minute before, at and one minute after every change the footer or the   *)
(* table asks for.                                                         *)
(***************************************************************************)
EXTENDS TimeZone, TLC

CONSTANTS MCZones, ChoiceDay

\* The cutoff of the embedded tables, 2026-01-01T00:00Z.
Cutoff == 20454 * DAY

At(t, off, isdst) == [at |-> t, off |-> off, isdst |-> isdst]
Only(off, isdst) == <<At(Cutoff, off, isdst)>>
Fixed(std) == [std |-> std, hasDst |-> FALSE]
Rule(m, w, d, time) == [m |-> m, w |-> w, d |-> d, time |-> time]
Yearly(std, dst, start, end) ==
    [std |-> std, hasDst |-> TRUE, dst |-> dst, start |-> start, end |-> end]

\* The names, by rank.
Cairo == 10        Vancouver == 20   NewYork == 30     Nuuk == 40
Santiago == 50     StJohns == 60     Troll == 70       Jerusalem == 80
LordHowe == 90     Dublin == 100     Berlin == 110     Chatham == 120
Kiritimati == 130  Nowhere == 75

AllBlobs ==
    (UTC :> [table |-> Only(0, FALSE), footer |-> Fixed(<<1, 0, 0>>)]) @@
    (Cairo :> [table |-> Only(180, TRUE),
               footer |-> Yearly(<<-1, 2, 0>>, <<>>, Rule(4, 5, 5, <<1, 0, 0>>),
                                 Rule(10, 5, 4, <<1, 24, 0>>))]) @@
    (Vancouver :> [table |-> <<At(Cutoff, -480, FALSE),
                               At((20454 + 66) * DAY + 600, -420, TRUE),
                               At((20454 + 304) * DAY + 540, -420, FALSE)>>,
                   footer |-> Fixed(<<1, 7, 0>>)]) @@
    (NewYork :> [table |-> Only(-300, FALSE),
                 footer |-> Yearly(<<1, 5, 0>>, <<>>, Rule(3, 2, 0, <<>>),
                                   Rule(11, 1, 0, <<>>))]) @@
    (Nuuk :> [table |-> Only(-120, FALSE),
              footer |-> Yearly(<<1, 2, 0>>, <<>>, Rule(3, 5, 0, <<-1, 1, 0>>),
                                Rule(10, 5, 0, <<1, 0, 0>>))]) @@
    (Santiago :> [table |-> Only(-240, FALSE),
                  footer |-> Yearly(<<1, 4, 0>>, <<>>, Rule(9, 1, 6, <<1, 24, 0>>),
                                    Rule(4, 1, 6, <<1, 24, 0>>))]) @@
    (StJohns :> [table |-> Only(-150, TRUE),
                 footer |-> Yearly(<<1, 3, 30>>, <<>>, Rule(3, 2, 0, <<>>),
                                   Rule(11, 1, 0, <<>>))]) @@
    (Troll :> [table |-> Only(0, FALSE),
               footer |-> Yearly(<<1, 0, 0>>, <<-1, 2, 0>>, Rule(3, 5, 0, <<1, 1, 0>>),
                                 Rule(10, 5, 0, <<1, 3, 0>>))]) @@
    (Jerusalem :> [table |-> Only(180, TRUE),
                   footer |-> Yearly(<<-1, 2, 0>>, <<>>, Rule(3, 4, 4, <<1, 26, 0>>),
                                     Rule(10, 5, 0, <<>>))]) @@
    (LordHowe :> [table |-> Only(630, FALSE),
                  footer |-> Yearly(<<-1, 10, 30>>, <<-1, 11, 0>>, Rule(10, 1, 0, <<>>),
                                    Rule(4, 1, 0, <<>>))]) @@
    (Dublin :> [table |-> Only(60, FALSE),
                footer |-> Yearly(<<-1, 1, 0>>, <<1, 0, 0>>, Rule(10, 5, 0, <<>>),
                                  Rule(3, 5, 0, <<1, 1, 0>>))]) @@
    (Berlin :> [table |-> Only(120, TRUE),
                footer |-> Yearly(<<-1, 1, 0>>, <<>>, Rule(3, 5, 0, <<>>),
                                  Rule(10, 5, 0, <<1, 3, 0>>))]) @@
    (Chatham :> [table |-> Only(825, TRUE),
                 footer |-> Yearly(<<-1, 12, 45>>, <<-1, 13, 45>>,
                                   Rule(9, 5, 0, <<1, 2, 45>>), Rule(4, 1, 0, <<1, 3, 45>>))]) @@
    (Kiritimati :> [table |-> Only(840, FALSE), footer |-> Fixed(<<-1, 14, 0>>)])

MCBlob == [z \in MCZones |-> AllBlobs[z]]
MCIndex ==
    [i \in 0..Cardinality(MCZones) - 1 |->
        CHOOSE z \in MCZones : Cardinality({y \in MCZones : y < z}) = i]
EveryZone == DOMAIN AllBlobs
MCWanted == MCZones \cup {Nowhere}

\* Around the epoch, the start of an era of 400 years, the cutoff and the next
\* leap day, and a century that is no leap year.
MCFirstDates == {<<1969, 12, 1>>, <<1999, 12, 1>>, <<2025, 12, 20>>, <<2099, 12, 1>>}
JustNow == {<<2026, 3, 20>>}

\* The days walked from a first date.
Horizon(d) == IF d[1] = 2025 THEN 1700 ELSE 400

Probes ==
    LET y == almanac.year
        changes == Changes(Blob[tz].footer, y)
                   \cup {Blob[tz].table[i] : i \in DOMAIN Blob[tz].table}
    IN  {(utc \div DAY + 1) * DAY}
        \cup {e.at + k : e \in changes, k \in -1..1}

NextPaint == Min({u \in Probes : u > utc})

InWalk ==
    \E d \in FirstDates :
        LET start == DayNumber(d[1], d[2], d[3])
        IN  utc \div DAY \in start..start + Horizon(d)

WalkNext ==
    \/ InWalk /\ Paint(NextPaint)
    \/ /\ utc \div DAY = ChoiceDay \/ ~InWalk
       /\ \E z \in Names : ChooseZone(z)

WalkSpec == ZoneInit /\ [][WalkNext]_zoneVars
=============================================================================
