------------------------------ MODULE Calendar ------------------------------
(***************************************************************************)
(* The conversions of NewtonBindings.cpp between Newton time and dates.    *)
(* mbedtls_platform_gmtime_r turns the clock, 32 bits of seconds of local  *)
(* time, into a date in GMT, by which mbedtls decides whether a            *)
(* certificate is valid.  TimeToLocal1904Minutes turns a date of a         *)
(* certificate into minutes since 1904 for NewtonScript.                   *)
(*                                                                         *)
(* TLC's integers have 32 bits, so an unsigned of the code is a pair of 16 *)
(* bit halves, <<high, low>>.  The reference is a calendar that counts     *)
(* days one by one.                                                        *)
(***************************************************************************)
EXTENDS Integers

CONSTANTS
    Zones,     \* offsets from GMT, in seconds
    NOZONE,    \* no location, or one without an offset
    Garbage,   \* what an uninitialized variable may hold
    LastDay    \* bound: days since 1 January 1970

ASSUME CalendarAssumption ==
    /\ Zones \subseteq Int /\ NOZONE \notin Zones
    /\ Garbage \subseteq Int
    /\ LastDay \in Nat /\ LastDay <= 49709   \* the last whole day of 2^32 seconds

VARIABLES
    day, date,  \* the calendar: days since 1970, and year, month, day, weekday
    zone,       \* the user's location
    gmtdelta    \* what the last call of GetGMTDelta returned

calVars == <<day, date, zone, gmtdelta>>

(***************************************************************************)
(* The calendar (external).                                                *)
(***************************************************************************)
Leap(y) == y % 4 = 0 /\ (y % 100 # 0 \/ y % 400 = 0)

DaysIn(y, m) ==
    IF m = 2 THEN (IF Leap(y) THEN 29 ELSE 28)
    ELSE IF m \in {4, 6, 9, 11} THEN 30 ELSE 31

NextDate(c) ==
    LET lastOfMonth == c.d = DaysIn(c.y, c.m)
        lastOfYear == lastOfMonth /\ c.m = 12
    IN  [y |-> IF lastOfYear THEN c.y + 1 ELSE c.y,
         m |-> IF lastOfYear THEN 1 ELSE IF lastOfMonth THEN c.m + 1 ELSE c.m,
         d |-> IF lastOfMonth THEN 1 ELSE c.d + 1,
         wd |-> (c.wd + 1) % 7]

\* Thursday
FirstDate == [y |-> 1970, m |-> 1, d |-> 1, wd |-> 4]

(***************************************************************************)
(* Unsigned arithmetic.                                                    *)
(***************************************************************************)
U32(n) == <<(n \div 65536) % 65536, n % 65536>>
Sum32(a, b) == <<(a[1] + b[1] + (a[2] + b[2]) \div 65536) % 65536, (a[2] + b[2]) % 65536>>
Minus32(a, b) == <<(a[1] - b[1] + (a[2] - b[2]) \div 65536) % 65536, (a[2] - b[2]) % 65536>>

\* Quotient by k, which is small enough that the quotient is an integer.
Quotient(a, k) == (a[1] \div k) * 65536 + ((a[1] % k) * 65536 + a[2]) \div k
Remainder(a, k) == ((a[1] % k) * 65536 + a[2]) % k

\* The clock of a Newton in this zone (external): seconds of local time since
\* 1 January 1904, 24107 days before 1970, in 32 bits that wrap in 2040.
Clock(d, sec, z) ==
    LET gmt == Sum32(<<d, 0>>, U32(d * 20864 + sec))   \* d * 86400 + sec
    IN  Sum32(Sum32(gmt, U32(z)), U32(24107 * 86400))

(***************************************************************************)
(* The code.                                                               *)
(***************************************************************************)
\* Mutant: the epoch lacks a leap day.
EpochDeltaLackingDay == U32(2082841761 - 86400)

NEWTON_EPOCH_DELTA == U32(2082841761)

\* The result is not initialized unless the location has an offset.
GetGMTDelta(z) == IF z = NOZONE THEN Garbage ELSE {z}

\* gmt_day is the quotient of an unsigned and never negative.
GmtDate(gmt_day) ==
    LET gmt_shift == gmt_day + 719468
        era == gmt_shift \div 146097
        doe == gmt_shift - era * 146097
        yoe == (doe - doe \div 1460 + doe \div 36524 - doe \div 146096) \div 365
        doy == doe - (365 * yoe + yoe \div 4 - yoe \div 100)
        mp == (5 * doy + 2) \div 153
        m == mp + (IF mp < 10 THEN 2 ELSE -10)
    IN  [y |-> yoe + era * 400 + (IF m <= 1 THEN 1 ELSE 0), m |-> m + 1,
         d |-> doy - (153 * mp + 2) \div 5 + 1, wd |-> (gmt_day + 4) % 7]

Gmtime(tt, delta) ==
    LET gmt_sec == Minus32(Minus32(tt, U32(delta)), NEWTON_EPOCH_DELTA)
        gmt_min == Quotient(gmt_sec, 60)
        gmt_hour == gmt_min \div 60
    IN  [date |-> GmtDate(gmt_hour \div 24), hour |-> gmt_hour % 24,
         min |-> gmt_min % 60, sec |-> Remainder(gmt_sec, 60)]

\* The time of day is ignored.
TimeToLocal1904Minutes(c) ==
    LET y == c.y - (IF c.m <= 2 THEN 1 ELSE 0)
        era == y \div 400
        yoe == y - era * 400
        doy == (153 * (c.m + (IF c.m > 2 THEN -3 ELSE 9)) + 2) \div 5 + c.d - 1
        doe == yoe * 365 + yoe \div 4 - yoe \div 100 + doy
    IN  (era * 146097 + doe - 695361) * 1440

(***************************************************************************)
(* A conversion a day, each of which asks for the offset again.            *)
(***************************************************************************)
CalInit ==
    /\ day = 0 /\ date = FirstDate
    /\ zone \in Zones \cup {NOZONE}
    /\ gmtdelta \in GetGMTDelta(zone)

NextDay ==
    /\ day < LastDay
    /\ day' = day + 1
    /\ date' = NextDate(date)
    /\ gmtdelta' \in GetGMTDelta(zone)
    /\ UNCHANGED zone

CalSpec == CalInit /\ [][NextDay]_calVars

-----------------------------------------------------------------------------
\* NEWTON_EPOCH_DELTA is this much less than the 24107 days.
Skew == 3039

\* The date and time s seconds after the start of the day c, if not the next.
TimeOn(c, s) ==
    [date |-> IF s < 86400 THEN c ELSE NextDate(c), hour |-> (s % 86400) \div 3600,
     min |-> (s \div 60) % 60, sec |-> s % 60]

\* On every day from 1970 to 2106 (the clock wraps in 2040, which the unsigned
\* arithmetic undoes) gmtime_r gives the date and time of GMT 50 minutes and
\* 39 seconds later, no more and no less, if the user has set a time zone;
\* without one it is off by what happened to be in memory.  The seconds are
\* those where a day, and the date it gives, start and end.  The other
\* conversion is right on the same dates: 24107 days since 1904.
CalendarExact ==
    /\ zone # NOZONE =>
          \A sec \in {0, 83360, 83361, 86399} :
              Gmtime(Clock(day, sec, zone), gmtdelta) = TimeOn(date, sec + Skew)
    /\ TimeToLocal1904Minutes(date) = (day + 24107) * 1440
=============================================================================
