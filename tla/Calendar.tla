----------------------------- MODULE Calendar -----------------------------
(* gmtime_r, localtime_r, the daylight saving rule and the time zone,      *)
(* beside a clock on the wall that goes day by day and knows only what     *)
(* tomorrow is and when the law moves it.                                  *)
EXTENDS Integers, Sequences

CONSTANTS SECS_IN_MIN, MINS_IN_HOUR,  \* 60 and 60
          Starts,  \* where clocks start: New Year of some years
          Zones    \* TZ strings, by their parts

HOURS_IN_DAY == 24
SECS_IN_HOUR == MINS_IN_HOUR * SECS_IN_MIN
SECS_IN_DAY == HOURS_IN_DAY * SECS_IN_HOUR

VARIABLES date,   \* the clock's standard date: year, mon, mday, wday, yday
          sec,    \* seconds of its day
          dst,    \* it shows one hour more
          day,    \* days since the Epoch
          narrow, \* time_t has 32 bits
          last,   \* bound: the year the clock stops in
          tz,     \* TZ in the environment
          hook    \* what the weak __ghs_dst_offset returns, -1 if not linked

vars == <<date, sec, dst, day, narrow, last, tz, hook>>

\* Division and remainder of C: truncated towards zero.
Quot(a, b) == IF a >= 0 THEN a \div b ELSE -((-a) \div b)
Rem(a, b) == a - b * Quot(a, b)

\* Seconds within the day; a negative remainder takes from the day.
DayAndSecond(time) ==
  LET t == Quot(time, SECS_IN_DAY)
      s == Rem(time, SECS_IN_DAY)
  IN IF s < 0 THEN [t |-> t - 1, s |-> s + SECS_IN_DAY] ELSE [t |-> t, s |-> s]

Weekday(t) == IF Rem(t + 4, 7) < 0 THEN Rem(t + 4, 7) + 7 ELSE Rem(t + 4, 7)

\* A cycle of four years starts with the year of 366 days.
FourYears(t) ==
  LET y == (t \div 1461) * 4
      d == t % 1461
  IN IF d >= 366 THEN [y |-> y + (d - 1) \div 365, d |-> (d - 1) % 365] ELSE [y |-> y, d |-> d]

\* 32 bits: every fourth year is a leap year, counted as if 1900 were one.
Narrow(t) ==
  LET c == FourYears(t + 365 * 70 + 18)
  IN [year |-> c.y, yday |-> c.d, leap |-> c.y % 4 = 0]

\* Faulty: the first century of four gets no 29 February either.
CenturyOf(d) == [c |-> d \div 36524, d |-> d % 36524]

\* The century of a 400 year cycle, and its day as if its year 0 had 366:
\* the first one does, the others skip day 365.
Century(d) ==
  IF d >= 36525
  THEN LET e == (d - 1) % 36524
       IN [c |-> (d - 1) \div 36524, d |-> IF e >= 365 THEN e + 1 ELSE e]
  ELSE [c |-> 0, d |-> d]

Wide(t) ==
  LET u == t - (365 * 30 + 7)
      r == Rem(u, 146097)
      cycle == IF r < 0 THEN Quot(u, 146097) * 4 - 4 ELSE Quot(u, 146097) * 4
      cen == Century(IF r < 0 THEN r + 146097 ELSE r)
      c == FourYears(cen.d)
      century == cycle + cen.c
  IN [year |-> c.y + (century + 1) * 100, yday |-> c.d,
      leap |-> c.y % 4 = 0 /\ (c.y # 0 \/ century % 4 = 0)]

mons == <<31, 28, 31, 30, 31, 30, 31, 31, 30, 31, 30>>

\* Days before month i (0..11), and the month a day of the year (from 1) is in.
DaysBefore(leap) ==
  LET sum[i \in 0..11] ==
        IF i = 0 THEN 0 ELSE sum[i - 1] + mons[i] + (IF i = 2 /\ leap THEN 1 ELSE 0)
  IN sum
MonthOf(n, leap) ==
  LET sum == DaysBefore(leap)
      i == CHOOSE k \in 0..11 : sum[k] < n /\ (k < 11 => n <= sum[k + 1])
  IN [mon |-> i, mday |-> n - sum[i]]

gmtime_r(time) ==
  LET ds == DayAndSecond(time)
      y == IF narrow THEN Narrow(ds.t) ELSE Wide(ds.t)
      m == MonthOf(y.yday + 1, y.leap)
  IN [sec |-> ds.s % SECS_IN_MIN, min |-> (ds.s % SECS_IN_HOUR) \div SECS_IN_MIN,
      hour |-> ds.s \div SECS_IN_HOUR, wday |-> Weekday(ds.t), yday |-> y.yday,
      year |-> y.year, mon |-> m.mon, mday |-> m.mday, isdst |-> 0]

---------------------------------------------------------------------------
(* localtime_r *)

\* From which year, and between which Sundays: the highest day of the month
\* that the Sunday may be.
chart == << [year |-> 107, start_month |-> 2, start_day |-> 14, end_month |-> 10, end_day |-> 7],
            [year |-> 87,  start_month |-> 3, start_day |-> 7,  end_month |-> 9, end_day |-> 31],
            [year |-> 0,   start_month |-> 3, start_day |-> 30, end_month |-> 9, end_day |-> 31] >>

Rule(year) == chart[CHOOSE k \in 1..3 : chart[k].year <= year /\ \A j \in 1..k - 1 : chart[j].year > year]

BeforeBoundary(sunday, highest) == sunday <= highest - 7

\* after: the value past the boundary, and the last hour that is before it.
local_dst_offset(tm) ==
  LET p == Rule(tm.year)
      starts == tm.mon = p.start_month
      ends == tm.mon = p.end_month
      after == IF ends THEN 0 ELSE 1
      highest == IF ends THEN p.end_day ELSE p.start_day
      sunday == tm.mday - tm.wday
      past == /\ ~BeforeBoundary(sunday, highest)
              /\ sunday > highest \/ tm.wday # 0 \/ tm.hour > after
      isdst == IF past THEN after ELSE IF starts THEN 0 ELSE 1
  IN IF \/ tm.year < 66 \/ isdst = 0
        \/ ~starts /\ ~ends /\ (tm.mon < p.start_month \/ tm.mon > p.end_month)
     THEN 0 ELSE SECS_IN_HOUR

\* What tzset leaves in timezone: nothing new without TZ, without three
\* letters, or when what follows is no number.
tzset(old) ==
  IF ~tz.set \/ ~tz.letters \/ ~tz.digits THEN old
  ELSE tz.sign * (tz.hour * SECS_IN_HOUR + tz.minute * SECS_IN_MIN + tz.second)

\* timezone starts at 0 and TZ does not change.
__gh_timezone == Quot(tzset(0), SECS_IN_MIN)

localtime_r(time) ==
  LET v == time - SECS_IN_MIN * __gh_timezone
      tm == gmtime_r(v)
      offset == IF hook # -1 THEN hook ELSE local_dst_offset(tm)
  IN IF offset # 0 THEN [gmtime_r(v + offset) EXCEPT !.isdst = 1] ELSE tm

---------------------------------------------------------------------------
(* The clock on the wall *)

Leap(year) == (year + 1900) % 4 = 0 /\ ((year + 1900) % 100 # 0 \/ (year + 1900) % 400 = 0)
MonthLength(dt) ==
  IF dt.mon = 1 THEN IF Leap(dt.year) THEN 29 ELSE 28
  ELSE IF dt.mon \in {3, 5, 8, 10} THEN 30 ELSE 31

NextDay(dt) ==
  IF dt.mday < MonthLength(dt)
  THEN [dt EXCEPT !.mday = @ + 1, !.wday = (@ + 1) % 7, !.yday = @ + 1]
  ELSE IF dt.mon < 11
  THEN [dt EXCEPT !.mday = 1, !.mon = @ + 1, !.wday = (@ + 1) % 7, !.yday = @ + 1]
  ELSE [year |-> dt.year + 1, mon |-> 0, mday |-> 1, wday |-> (dt.wday + 1) % 7, yday |-> 0]

\* "2am of the last sunday of april", "the second sunday of march", ...: the
\* rules of the comment, and that 2am of the end is 1am of standard time.
StartsOn(dt) ==
  /\ dt.wday = 0
  /\ \/ dt.year >= 107 /\ dt.mon = 2 /\ 8 <= dt.mday /\ dt.mday <= 14
     \/ dt.year \in 87..106 /\ dt.mon = 3 /\ dt.mday <= 7
     \/ dt.year \in 66..86 /\ dt.mon = 3 /\ dt.mday + 7 > 30
EndsOn(dt) ==
  /\ dt.wday = 0
  /\ \/ dt.year >= 107 /\ dt.mon = 10 /\ dt.mday <= 7
     \/ dt.year \in 66..106 /\ dt.mon = 9 /\ dt.mday + 7 > 31

\* Days from the Epoch to the New Year of a year, by the leap years between.
NewYear(year) ==
  365 * (year - 70) - 477
    + (year + 1899) \div 4 - (year + 1899) \div 100 + (year + 1899) \div 400

\* Clocks start right, and with 32 bits they stay within them: those reach from
\* 1901 to 2038.
ClockAssumption ==
  /\ SECS_IN_MIN \in Nat \ {0} /\ MINS_IN_HOUR \in Nat \ {0}
  /\ \A st \in Starts :
       /\ st.year \in Int /\ st.last \in Int /\ st.narrow \in BOOLEAN
       /\ st.day = NewYear(st.year) /\ st.wday = (st.day + 4) % 7
       /\ st.narrow => 1 <= st.year /\ st.year <= 138 /\ st.last <= 138
  /\ \A zone \in Zones :
       /\ zone.sign \in {1, -1} /\ zone.hour \in Nat /\ zone.minute \in Nat
       /\ zone.second \in 0..SECS_IN_MIN - 1

Init ==
  /\ \E st \in Starts :
       /\ date = [year |-> st.year, mon |-> 0, mday |-> 1, wday |-> st.wday, yday |-> 0]
       /\ day = st.day /\ narrow = st.narrow /\ last = st.last
  /\ sec = 0 /\ dst = FALSE /\ tz \in Zones /\ hook \in {-1, 0}

\* A minute goes by on Sundays, a whole day on the others, on which nothing happens.
Tick ==
  /\ date.year <= last
  /\ LET midnight == date.wday # 0 \/ sec + SECS_IN_MIN = SECS_IN_DAY
         at == IF midnight THEN 0 ELSE sec + SECS_IN_MIN
         dt == IF midnight THEN NextDay(date) ELSE date
     IN /\ sec' = at /\ date' = dt
        /\ day' = IF midnight THEN day + 1 ELSE day
        /\ dst' = IF StartsOn(dt) /\ at = 2 * SECS_IN_HOUR THEN TRUE
                  ELSE IF EndsOn(dt) /\ at = SECS_IN_HOUR THEN FALSE
                  ELSE dst
  /\ UNCHANGED <<narrow, last, tz, hook>>

\* What a clock at this date and second shows.
Shown(dt, s, isdst) ==
  [sec |-> s % SECS_IN_MIN, min |-> (s \div SECS_IN_MIN) % MINS_IN_HOUR, hour |-> s \div SECS_IN_HOUR,
   wday |-> dt.wday, yday |-> dt.yday, year |-> dt.year, mon |-> dt.mon, mday |-> dt.mday,
   isdst |-> isdst]

Wall ==
  IF dst /\ hook = -1
  THEN IF sec + SECS_IN_HOUR < SECS_IN_DAY THEN Shown(date, sec + SECS_IN_HOUR, 1)
       ELSE Shown(NextDay(date), sec + SECS_IN_HOUR - SECS_IN_DAY, 1)
  ELSE Shown(date, sec, 0)

\* The seconds that time() would count at Greenwich when a clock shows this.
Now == day * SECS_IN_DAY + sec

\* The minutes west that TZ names, when it is well formed.
MinutesWest ==
  IF tz.set /\ tz.letters /\ tz.digits THEN tz.sign * (tz.hour * MINS_IN_HOUR + tz.minute) ELSE 0

\* A clock at Greenwich agrees with gmtime_r and a local one with localtime_r, on both
\* sides of the Epoch, through leap years and centuries that are none, and in
\* every minute around the two changes of the year.
CalendarExact ==
  /\ gmtime_r(Now) = Shown(date, sec, 0)
  /\ localtime_r(Now + SECS_IN_MIN * MinutesWest) = Wall
===========================================================================
