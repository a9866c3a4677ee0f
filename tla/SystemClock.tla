------------------------------ MODULE SystemClock ------------------------------
(***************************************************************************)
(* The system's clock and the calls of source/time/timeutil.c that set and *)
(* read it, as seconds since 1970 and as fields of a date (Linux).         *)
(* gregorian2sec has a module of its own, TimeUtil.  The conversion back,  *)
(* gmtime_r, is the C library's; convertTime, which setNormalTime calls,   *)
(* is not in the repository and is taken for the inverse that its use      *)
(* tells of.  The clock runs while it is used.                             *)
(***************************************************************************)
EXTENDS TimeUtil

CONSTANTS
  Years, Months, Days,  \* of the times that callers set
  CalendarTimes,        \* seconds that callers set
  MaxTicks              \* bound: seconds that pass

ASSUME ClockAssumption ==
  /\ Years \subseteq 1970 .. 2100 /\ Months \subseteq Int /\ Days \subseteq Int
  /\ CalendarTimes \subseteq Nat /\ MaxTicks \in Nat

VARIABLES
  system_time,  \* CLOCK_REALTIME, in seconds
  ticks,        \* history: seconds since the clock was last set
  intended      \* history: the seconds or the TIME_NORMAL it was set to, run on

clockVars == <<system_time, ticks, intended>>

ClockInit == system_time = 0 /\ ticks = 0 /\ intended = [seconds |-> 0]

-----------------------------------------------------------------------------
(* The day with number n, counted from 1970-01-01 as TimeUtil does.         *)
YearOf(n) ==
  CHOOSE y \in 1970 .. 2100 : DayNumber(y - 1, 11, 1) <= n /\ n < DayNumber(y, 11, 1)

gmtime_r(s) ==
  LET n == s \div 86400
      y == YearOf(n)
      Start(m) == DayNumber(MarchYear(y, m), MarchMonth(m), 1)
      m == CHOOSE i \in 1 .. 12 : Start(i) <= n /\ \A j \in 1 .. 12 : Start(j) <= n => j <= i
      second == s % 86400
  IN [tm_year |-> y - 1900, tm_mon |-> m - 1, tm_mday |-> n - Start(m) + 1,
      tm_hour |-> second \div 3600, tm_min |-> (second \div 60) % 60, tm_sec |-> second % 60]

convertTime(t) ==
  Seconds(DayNumber(MarchYear(t.year, t.month), MarchMonth(t.month), t.day),
          [hour |-> t.hour, minute |-> t.minite, second |-> t.second])

-----------------------------------------------------------------------------
SetClock(s, intent) == system_time' = s /\ ticks' = 0 /\ intended' = intent

setCalendarTime(s) == SetClock(s, [seconds |-> s])
set_systime_sec(s) == SetClock(s, [seconds |-> s])

(* Upper bounds only: a day that the month does not have passes.            *)
Accepted(t) ==
  /\ t.year <= 2038 /\ t.month <= 12 /\ t.day <= 31
  /\ t.hour <= 23 /\ t.minite <= 59 /\ t.second <= 59

setNormalTime(t) == Accepted(t) /\ SetClock(convertTime(t), t)

(* Fills a local structure, and does not set the clock.                     *)
set_systime(t) == UNCHANGED clockVars

IsDate(t) == t.month \in 1 .. 12 /\ t.day \in 1 .. DaysIn(t.year, t.month)

(* A second later, in the fields of a date.                                 *)
SecondLater(t) ==
  LET next == NextDate([year |-> t.year, month |-> t.month, mday |-> t.day])
  IN IF t.second < 59 THEN [t EXCEPT !.second = @ + 1]
     ELSE IF t.minite < 59 THEN [t EXCEPT !.second = 0, !.minite = @ + 1]
     ELSE IF t.hour < 23 THEN [t EXCEPT !.second = 0, !.minite = 0, !.hour = @ + 1]
     ELSE [year |-> next.year, month |-> next.month, day |-> next.mday,
           hour |-> 0, minite |-> 0, second |-> 0]

IsSeconds(intent) == "seconds" \in DOMAIN intent

Later(intent) ==
  IF IsSeconds(intent) THEN [seconds |-> intent.seconds + 1]
  ELSE IF IsDate(intent) THEN SecondLater(intent)
  ELSE intent

SecondPasses ==
  /\ ticks < MaxTicks
  /\ system_time' = system_time + 1 /\ ticks' = ticks + 1
  /\ intended' = Later(intended)

get_systime_sec == system_time
getCalendarTime == system_time

MonthsSinceJanuary(tm) == tm.tm_mon
MonthOf(tm) == tm.tm_mon + 1

getNormalTime ==
  LET tm == gmtime_r(system_time)
  IN [year |-> tm.tm_year + 1900, month |-> MonthOf(tm), day |-> tm.tm_mday,
      hour |-> tm.tm_hour, minite |-> tm.tm_min, second |-> tm.tm_sec]

NormalTimes ==
  {[year |-> y, month |-> m, day |-> d, hour |-> c.hour, minite |-> c.minute, second |-> c.second] :
     y \in Years, m \in Months, d \in Days, c \in TimesOfDay}

(* The times that are set lie between 1970 and 2099, with what runs on.     *)
InTimes(s) == s \in Nat /\ s \div 86400 < DayNumber(2099, 11, 1)

ASSUME TimesAssumption ==
  /\ InTimes(MaxTicks)
  /\ \A s \in CalendarTimes : InTimes(s + MaxTicks)
  /\ \A t \in NormalTimes : Accepted(t) => convertTime(t) \in Nat /\ InTimes(convertTime(t) + MaxTicks)

ClockNext ==
  \/ \E s \in CalendarTimes : setCalendarTime(s) \/ set_systime_sec(s)
  \/ \E t \in NormalTimes : setNormalTime(t) \/ set_systime(t)
  \/ SecondPasses

ClockSpec == ClockInit /\ [][ClockNext]_clockVars

-----------------------------------------------------------------------------
(* The clock is read as it was set and runs on from there, over midnights,  *)
(* month ends and leap days, whichever pair of calls sets and reads it; and *)
(* what is read is a date even if what was set was not.                     *)
ClockReadsAsSet ==
  /\ getCalendarTime = get_systime_sec
  /\ IsDate(getNormalTime)
  /\ IF IsSeconds(intended) THEN getCalendarTime = intended.seconds
     ELSE IsDate(intended) => getNormalTime = intended
================================================================================
