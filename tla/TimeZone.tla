------------------------------ MODULE TimeZone ------------------------------
(***************************************************************************)
(* From a UTC instant to the wall clock of the display zone: the embedded  *)
(* index and blobs (tz.c), the table and footer resolver with its civil    *)
(* calendar (tzif.c), the one-entry name cache of the Tcl command          *)
(* (lunarx.c) and the zone the shell settles on (lunar.tcl).               *)
(*                                                                         *)
(* Time is in minutes since 1970-01-01: no embedded offset or rule has     *)
(* seconds, which the code only carries along.  A zone name is a number:   *)
(* its rank in strcmp order; UTC, kept first, is rank 0.  Blobs are well   *)
(* formed, so the checks of their headers always pass.                     *)
(***************************************************************************)
EXTENDS CArith, Sequences, FiniteSets, FiniteSetsExt

CONSTANTS
    Index,        \* g_tz_names: [0 .. count - 1 -> names], Index[0] = UTC
    Blob,         \* [names of the index -> [table, footer]]
    Wanted,       \* the zones config.txt, or the system, may name at start
    FirstDates,   \* the dates <<year, month, day>> the program may start on
    LastYear      \* of the almanac the calendar is compared with

UTC == 0
TZ_ID_INVALID == -1
Names == {Index[i] : i \in DOMAIN Index}

ASSUME TimeZoneAssumption ==
    /\ IsFiniteSet(DOMAIN Index) /\ 0 \in DOMAIN Index
    /\ DOMAIN Index = 0..Cardinality(DOMAIN Index) - 1
    /\ Index[0] = UTC /\ Names \subseteq Nat
    /\ \A i, j \in DOMAIN Index : i < j => Index[i] < Index[j]
    /\ DOMAIN Blob = Names
    /\ \A z \in Names : Len(Blob[z].table) > 0

DAY == 1440

\* C's a % b for b > 0.
TruncMod(a, b) == a - b * TruncDiv(a, b)

(***************************************************************************)
(* Calendar helpers of tzif.c.                                             *)
(***************************************************************************)
IsLeap(y) == (y % 4 = 0 /\ y % 100 # 0) \/ y % 400 = 0

kMdays == <<31, 28, 31, 30, 31, 30, 31, 31, 30, 31, 30, 31>>

DaysBeforeYear(y) ==
    LET Leaps(k) == k \div 4 - k \div 100 + k \div 400
    IN  (y - 1) * 365 + Leaps(y - 1) - (1969 * 365 + Leaps(1969))

\* Days of year y before its month m.
DaysBeforeMonth(y, m) ==
    LET days[i \in 1..12] ==
            IF i = 1 THEN 0
            ELSE days[i - 1] + kMdays[i - 1] + (IF i = 3 /\ IsLeap(y) THEN 1 ELSE 0)
    IN  days[m]

\* 0 = Sunday.
WeekdayOf(days) ==
    LET w == TruncMod(TruncMod(days, 7) + 4, 7) IN IF w < 0 THEN w + 7 ELSE w

\* A mistake to rule out: a remainder below zero is left as it is, so before
\* 1970 a day starts a day early.
DayTruncated(local) == TruncDiv(local, DAY)

\* The day of a minute: C's quotient, one less when the remainder is negative.
DayOf(local) ==
    LET q == TruncDiv(local, DAY) IN IF TruncMod(local, DAY) < 0 THEN q - 1 ELSE q

\* breakdown(): the civil calendar, in eras of 400 years from 2000-03-01.
EraOf(d) == TruncDiv(IF d >= 0 THEN d ELSE d - 146096, 146097)
YearOfEra(doe) == (doe - doe \div 1460 + doe \div 36524 - doe \div 146096) \div 365
DayOfYear(doe, yoe) == doe - (365 * yoe + yoe \div 4 - yoe \div 100)

\* The date of day doy of year y, both counted from March, in its month mp.
DateFromMarch(y, doy, mp) ==
    LET mday == doy - (153 * mp + 2) \div 5 + 1
    IN  IF mp < 10 THEN [year |-> y, month |-> mp + 3, mday |-> mday]
                   ELSE [year |-> y + 1, month |-> mp - 9, mday |-> mday]

DateInYear(y, doy) == DateFromMarch(y, doy, (5 * doy + 2) \div 153)
DateInEra(era, doe, yoe) == DateInYear(yoe + era * 400 + 2000, DayOfYear(doe, yoe))
Civil(d, era) == DateInEra(era, d - era * 146097, YearOfEra(d - era * 146097))

OnDay(days, date, mod) ==
    [year |-> date.year, month |-> date.month, mday |-> date.mday, wday |-> WeekdayOf(days),
     yday |-> DaysBeforeMonth(date.year, date.month) + date.mday - 1,
     hour |-> mod \div 60, minute |-> mod % 60]

Breakdown(local) ==
    LET days == DayOf(local)
    IN  OnDay(days, Civil(days - 11017, EraOf(days - 11017)), local - days * DAY)

(***************************************************************************)
(* The POSIX footer.  Its text is a record: an offset <<sign, h, m>> as    *)
(* written, or <<>> where nothing is written; a rule [m, w, d, time].      *)
(* Every embedded rule has the form Mm.w.d; the Julian ones are left out.  *)
(***************************************************************************)
ParsePosixOffset(text) ==
    text[1] * (Smaller(text[2], 24) * 60 + Smaller(text[3], 59))

ParseRule(r) ==
    [m |-> IF r.m \in 1..12 THEN r.m ELSE 1,
     w |-> IF r.w \in 1..5 THEN r.w ELSE 1,
     d |-> IF r.d \in 0..6 THEN r.d ELSE 0,
     time |-> IF r.time = <<>> THEN 120 ELSE ParsePosixOffset(r.time)]

\* parse_posix(): offsets east of UTC; a summer offset left out is an hour more.
ParsePosix(f) ==
    LET std == -ParsePosixOffset(f.std)
    IN  IF ~f.hasDst
        THEN [hasDst |-> FALSE, std |-> std]
        ELSE [hasDst |-> TRUE, std |-> std,
              dst |-> IF f.dst = <<>> THEN std + 60 ELSE -ParsePosixOffset(f.dst),
              start |-> ParseRule(f.start), end |-> ParseRule(f.end)]

\* Offsets and rules as footers spell them.
OffsetText(hours) == {-1, 1} \X (0..hours) \X (0..59)
RuleText == [m : 1..12, w : 1..5, d : 0..6, time : {<<>>} \cup OffsetText(167)]

\* Tables are in order; and no footer has a rule near new year, or two rules
\* in one month or the next.
ASSUME BlobsAreWellFormed ==
    \A z \in Names :
        LET t == Blob[z].table
            f == Blob[z].footer
        IN  /\ \A i, j \in DOMAIN t : i < j => t[i].at < t[j].at
            /\ f.std \in OffsetText(24) /\ f.hasDst \in BOOLEAN
            /\ f.hasDst => /\ f.dst \in {<<>>} \cup OffsetText(24)
                           /\ {f.start, f.end} \subseteq RuleText
                           /\ {f.start.m, f.end.m} \subseteq 2..11
                           /\ Abs(f.start.m - f.end.m) >= 2

\* The embedded offsets carry the wall clock over one midnight at most.
WithinADay == 1 - DAY..DAY - 1

ASSUME OffsetsWithinADay ==
    \A z \in Names :
        LET p == ParsePosix(Blob[z].footer)
        IN  /\ Blob[z].table \in Seq([at : Int, off : WithinADay, isdst : BOOLEAN])
            /\ p.std \in WithinADay
            /\ p.hasDst => p.dst \in WithinADay

\* rule_local_sec(): when the rule strikes in year y, on the wall clock.
RuleLocal(r, y) ==
    LET first  == DaysBeforeYear(y) + DaysBeforeMonth(y, r.m)
        occur  == ((r.d - WeekdayOf(first) + 7) % 7) + (r.w - 1) * 7
        dim    == kMdays[r.m] + (IF r.m = 2 /\ IsLeap(y) THEN 1 ELSE 0)
        dayNum == IF occur >= dim THEN occur - 7 ELSE occur
    IN  (first + dayNum) * DAY + r.time

\* The two changes of year y, in the order posix_resolve() weighs them.
YearChanges(p, y) ==
    {[at |-> RuleLocal(p.start, y) - p.std, nth |-> 2 * y, isdst |-> TRUE],
     [at |-> RuleLocal(p.end, y) - p.dst, nth |-> 2 * y + 1, isdst |-> FALSE]}

\* A mistake to rule out: only the changes of the year the instant is in.
CandidatesThisYear(p, utc) == YearChanges(p, Breakdown(utc).year)

\* Those of the years before and after it, too.
Candidates(p, utc) == UNION {YearChanges(p, Breakdown(utc).year + dy) : dy \in -1..1}

\* The latest of the changes past decides; the first in order if two coincide.
Decides(c, past) == \A e \in past : e.at < c.at \/ (e.at = c.at /\ e.nth >= c.nth)

OffsetAfter(p, past) ==
    IF p.hasDst /\ \E c \in past : Decides(c, past) /\ c.isdst
    THEN [off |-> p.dst, isdst |-> TRUE]
    ELSE [off |-> p.std, isdst |-> FALSE]

PosixResolve(p, utc) == OffsetAfter(p, {c \in Candidates(p, utc) : c.at <= utc})

(***************************************************************************)
(* tzif_resolve() and tz.c.                                                *)
(***************************************************************************)
\* The binary search for the last transition not after utc; 0 if none.
Found(table, utc) ==
    LET n == Len(table)
        f[s \in (1..n + 1) \X (0..n) \X (0..n)] ==
            LET lo  == s[1]
                hi  == s[2]
                mid == (lo + hi) \div 2
            IN  IF lo > hi THEN s[3]
                ELSE IF table[mid].at <= utc THEN f[<<mid + 1, hi, mid>>]
                     ELSE f[<<lo, mid - 1, s[3]>>]
    IN  f[<<1, n, 0>>]

\* What the table says; before its first transition that is type 0, here
\* the type of the first.
TableType(table, utc) ==
    LET i == Larger(Found(table, utc), 1)
    IN  [off |-> table[i].off, isdst |-> table[i].isdst]

TypeAt(blob, utc) ==
    IF utc > blob.table[Len(blob.table)].at
    THEN PosixResolve(ParsePosix(blob.footer), utc)
    ELSE TableType(blob.table, utc)

WithDate(t, utc) == [at |-> Breakdown(utc + t.off), off |-> t.off, isdst |-> t.isdst]

TzifResolve(blob, utc) == WithDate(TypeAt(blob, utc), utc)

\* Tz_FindByName(): a binary search behind UTC.
FindByName(name) ==
    LET n == Cardinality(DOMAIN Index)
        f[s \in (1..n) \X (0..n - 1)] ==
            LET lo  == s[1]
                hi  == s[2]
                mid == (lo + hi) \div 2
            IN  IF lo > hi THEN TZ_ID_INVALID
                ELSE IF name = Index[mid] THEN mid
                     ELSE IF name < Index[mid] THEN f[<<lo, mid - 1>>]
                                               ELSE f[<<mid + 1, hi>>]
    IN  IF name = UTC THEN 0 ELSE f[<<1, n - 1>>]

LocalFromUtc(id, utc) == TzifResolve(Blob[Index[id]], utc)

(***************************************************************************)
(* The shell.                                                              *)
(***************************************************************************)
VARIABLES
    tz,       \* ::lunar::tz, the display zone
    cache,    \* g_tzCacheName and g_tzCacheId
    utc,      \* the disciplined UTC the face was painted at
    wall,     \* what ::lunar::localtime returned for it, or nothing yet
    almanac   \* the UTC date of utc, kept by counting days: the reference

zoneVars == <<tz, cache, utc, wall, almanac>>

NoCache == [name |-> UTC, id |-> TZ_ID_INVALID]
Nothing == [off |-> 0]

\* tz_resolve(): the id of a name, and the cache it leaves.
Resolve(name) ==
    IF cache.id # TZ_ID_INVALID /\ cache.name = name THEN cache.id
    ELSE FindByName(name)

Remembered(name, id) ==
    IF id = TZ_ID_INVALID THEN cache ELSE [name |-> name, id |-> id]

(***************************************************************************)
(* The reference: a calendar counted out day by day, and the rules as      *)
(* IEEE Std 1003.1 words them.                                             *)
(***************************************************************************)
MonthLength(y, m) == IF m = 2 /\ IsLeap(y) THEN 29 ELSE kMdays[m]

ASSUME DatesExist ==
    /\ LastYear \in Int
    /\ \A d \in FirstDates :
         /\ d[1] \in 1960..LastYear + 3
         /\ d[2] \in 1..12
         /\ d[3] \in 1..MonthLength(d[1], d[2])

\* Days from 1970-01-01 to the first of January of each year of the almanac.
NewYear ==
    [y \in 1960..LastYear + 3 |->
        IF y >= 1970
        THEN 365 * (y - 1970) + Cardinality({k \in 1970..y - 1 : IsLeap(k)})
        ELSE 365 * (y - 1970) - Cardinality({k \in y..1969 : IsLeap(k)})]

DayInYear(y, m, d) ==
    LET before[i \in 1..12] ==
            IF i = 1 THEN 0 ELSE before[i - 1] + MonthLength(y, i - 1)
    IN  before[m] + d - 1

DayNumber(y, m, d) == NewYear[y] + DayInYear(y, m, d)

DateOf(y, m, d) ==
    [year |-> y, month |-> m, mday |-> d, yday |-> DayInYear(y, m, d),
     wday |-> (DayNumber(y, m, d) + 4) % 7]

NextDate(a) ==
    LET newMonth == a.mday = MonthLength(a.year, a.month)
        newYear  == newMonth /\ a.month = 12
    IN  [year |-> IF newYear THEN a.year + 1 ELSE a.year,
         month |-> IF newYear THEN 1 ELSE IF newMonth THEN a.month + 1 ELSE a.month,
         mday |-> IF newMonth THEN 1 ELSE a.mday + 1,
         wday |-> (a.wday + 1) % 7,
         yday |-> IF newYear THEN 0 ELSE a.yday + 1]

PreviousDate(a) ==
    LET oldMonth == IF a.month = 1 THEN 12 ELSE a.month - 1
        oldYear  == IF a.month = 1 /\ a.mday = 1 THEN a.year - 1 ELSE a.year
    IN  [year |-> oldYear,
         month |-> IF a.mday = 1 THEN oldMonth ELSE a.month,
         mday |-> IF a.mday = 1 THEN MonthLength(oldYear, oldMonth) ELSE a.mday - 1,
         wday |-> (a.wday + 6) % 7,
         yday |-> IF a.yday = 0 THEN (IF IsLeap(oldYear) THEN 365 ELSE 364)
                                ELSE a.yday - 1]

\* An offset, as written: the time to add to the wall clock to get UTC.
Written(text) == text[1] * (text[2] * 60 + text[3])

\* The date of a rule Mm.w.d: the w-th weekday d of the month, 5 being the last.
RuleDay(r, y) ==
    LET first == DayNumber(y, r.m, 1)
        days  == {e \in 1..MonthLength(y, r.m) : (first + e + 3) % 7 = r.d}
    IN  IF r.w = 5 THEN Max(days)
        ELSE CHOOSE e \in days : Cardinality({k \in days : k <= e}) = r.w

RuleStrikes(r, y, off) ==
    DayNumber(y, r.m, RuleDay(r, y)) * DAY
    + (IF r.time = <<>> THEN 120 ELSE Written(r.time)) - off

\* The changes of a zone's offset that its footer asks for around year y.
Changes(f, y) ==
    LET std == -Written(f.std)
        dst == IF f.dst = <<>> THEN std + 60 ELSE -Written(f.dst)
    IN  IF ~f.hasDst THEN {}
        ELSE UNION {{[at |-> RuleStrikes(f.start, k, std), off |-> dst, isdst |-> TRUE],
                     [at |-> RuleStrikes(f.end, k, dst), off |-> std, isdst |-> FALSE]}
                    : k \in y - 2..y + 2}

\* The offset in force in zone z at u, in year y.
InForce(z, u, y) ==
    LET table  == {Blob[z].table[i] : i \in DOMAIN Blob[z].table}
        all    == IF \E e \in table : e.at >= u THEN table
                  ELSE Changes(Blob[z].footer, y)
        past   == {e \in all : e.at <= u}
        latest == CHOOSE e \in past : \A o \in past : o.at <= e.at
        first  == CHOOSE e \in all : \A o \in all : e.at <= o.at
    IN  IF all = {} THEN [off |-> -Written(Blob[z].footer.std), isdst |-> FALSE]
        ELSE LET e == IF past = {} THEN first ELSE latest
             IN  [off |-> e.off, isdst |-> e.isdst]

(***************************************************************************)
(* Behaviour.                                                              *)
(***************************************************************************)
\* tz_startup(): a wanted zone the index lacks gives way to UTC; trying it
\* out leaves it in the cache.
ZoneInit ==
    /\ \E z \in Wanted :
         /\ tz = IF FindByName(z) = TZ_ID_INVALID THEN UTC ELSE z
         /\ cache = IF FindByName(z) = TZ_ID_INVALID THEN NoCache
                    ELSE [name |-> z, id |-> FindByName(z)]
    /\ \E d \in FirstDates :
         /\ utc = DayNumber(d[1], d[2], d[3]) * DAY
         /\ almanac = DateOf(d[1], d[2], d[3])
    /\ wall = Nothing

\* The face is painted at UTC instant u, of today or tomorrow.
Paint(u) ==
    LET id == Resolve(tz)
    IN  /\ u \div DAY \in {utc \div DAY, utc \div DAY + 1}
        /\ utc' = u
        /\ almanac' = IF u \div DAY = utc \div DAY THEN almanac ELSE NextDate(almanac)
        /\ cache' = Remembered(tz, id)
        /\ wall' = IF id = TZ_ID_INVALID THEN Nothing ELSE LocalFromUtc(id, u)
        /\ UNCHANGED tz

\* The settings dialog: a zone out of the list of the index.
ChooseZone(z) ==
    /\ z \in Names \ {tz}
    /\ tz' = z
    /\ UNCHANGED <<cache, utc, wall, almanac>>

ZoneNext ==
    \/ \E u \in utc + 1..utc + DAY : Paint(u)
    \/ \E z \in Names : ChooseZone(z)

ZoneSpec == ZoneInit /\ [][ZoneNext]_zoneVars

(***************************************************************************)
(* Properties.                                                             *)
(***************************************************************************)
\* The face shows a date and time of day that exist and follow one another
\* as on a calendar: it is the day counted out since the start, or its
\* neighbour when the offset carries the wall clock over midnight.
FaceKeepsCalendar ==
    wall # Nothing =>
        LET mod   == (utc % DAY) + wall.off
            today == CASE mod < 0    -> PreviousDate(almanac)
                       [] mod >= DAY -> NextDate(almanac)
                       [] OTHER      -> almanac
            shown == wall.at
        IN  /\ shown.hour * 60 + shown.minute = mod % DAY
            /\ \A k \in DOMAIN today : shown[k] = today[k]

\* Rules that strike within the day they name, which the clamp leaves alone.
StrikesWithinDay(z) ==
    LET f == Blob[z].footer
    IN  f.hasDst => \A r \in {f.start, f.end} : r.time = <<>> \/ r.time[2] <= 24

\* Each time the face is painted, in whatever zone was chosen last, its
\* offset is the one the zone's table, and after it the zone's footer, put in
\* force at that very minute: on both hemispheres, over new year, and right
\* before, at and after each change.
OffsetInForce ==
    [][StrikesWithinDay(tz) /\ utc' # utc =>
         LET t == InForce(tz, utc', almanac'.year)
         IN  wall' # Nothing /\ wall'.off = t.off /\ wall'.isdst = t.isdst]_zoneVars

\* The header of tzif.c: "This parser honours the footer so zones still
\* return the correct DST state for now".  It should hold of every embedded
\* footer, those whose rule strikes more than a day after its date included.
FooterHonoured ==
    [][utc' # utc => wall'.off = InForce(tz, utc', almanac'.year).off]_zoneVars
=============================================================================
