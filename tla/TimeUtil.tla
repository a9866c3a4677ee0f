------------------------------- MODULE TimeUtil -------------------------------
(***************************************************************************)
(* gregorian2sec of source/time/timeutil.c (its 64-bit form, which every   *)
(* compiler with a 64-bit UINT64_T selects) against a calendar that is     *)
(* walked from 1970-01-01, one day at a time.                              *)
(*                                                                         *)
(* The conversion changes the month and the year of its argument, so that  *)
(* callers fill the structure again before they convert it again.          *)
(***************************************************************************)
EXTENDS Integers

CONSTANTS
  TimesOfDay,  \* the times of day the caller fills in
  LastYear     \* bound on the walk

ASSUME TimeAssumption ==
  /\ TimesOfDay \subseteq [hour : 0 .. 23, minute : 0 .. 59, second : 0 .. 59]
  /\ LastYear \in Nat

VARIABLES
  date,       \* the day the walk has come to
  elapsed,    \* the number of days since 1970-01-01
  filled,     \* date_time was filled in and not converted since
  date_time,  \* the caller's GRE_DATE_TIME
  seconds     \* what gregorian2sec returned

timeVars == <<date, elapsed, filled, date_time, seconds>>

-----------------------------------------------------------------------------
(* The Gregorian calendar.                                                  *)
IsLeap(y) == (y % 4 = 0 /\ y % 100 # 0) \/ y % 400 = 0

DaysIn(y, m) ==
  IF m = 2 THEN (IF IsLeap(y) THEN 29 ELSE 28)
  ELSE IF m \in {4, 6, 9, 11} THEN 30
  ELSE 31

NextDate(d) ==
  IF d.mday < DaysIn(d.year, d.month)
  THEN [year |-> d.year, month |-> d.month, mday |-> d.mday + 1]
  ELSE IF d.month < 12
       THEN [year |-> d.year, month |-> d.month + 1, mday |-> 1]
       ELSE [year |-> d.year + 1, month |-> 1, mday |-> 1]

Filled(d, t) ==
  [year |-> d.year, month |-> d.month, mday |-> d.mday,
   hour |-> t.hour, minute |-> t.minute, second |-> t.second]

SecondOfDay(t) == (t.hour * 60 + t.minute) * 60 + t.second

-----------------------------------------------------------------------------
(* month -= 2, with a year that begins in March.                            *)
OnlyJanuary(month) == month - 2 < 0
LastYears(month) == month - 2 <= 0
MarchMonth(month) == IF LastYears(month) THEN month - 2 + 12 ELSE month - 2
MarchYear(year, month) == IF LastYears(month) THEN year - 1 ELSE year

(* The number of 1970-01-01 in a count that begins in March of year 0.      *)
EpochDays == 719499

DayNumber(year, month, mday) ==
  year \div 4 - year \div 100 + year \div 400 + (367 * month) \div 12 + mday
  + year * 365 - EpochDays

Seconds(days, d) == ((days * 24 + d.hour) * 60 + d.minute) * 60 + d.second

TimeInit ==
  /\ date = [year |-> 1970, month |-> 1, mday |-> 1]
  /\ elapsed = 0
  /\ filled = TRUE
  /\ \E t \in TimesOfDay : date_time = Filled(date, t)
  /\ seconds = 0

gregorian2sec ==
  /\ filled
  /\ date_time' = [date_time EXCEPT
                     !.month = MarchMonth(date_time.month),
                     !.year = MarchYear(date_time.year, date_time.month)]
  /\ seconds' = Seconds(DayNumber(date_time'.year, date_time'.month, date_time'.mday),
                        date_time')
  /\ filled' = FALSE
  /\ UNCHANGED <<date, elapsed>>

NextDay ==
  /\ ~filled
  /\ NextDate(date).year <= LastYear
  /\ date' = NextDate(date)
  /\ elapsed' = elapsed + 1
  /\ \E t \in TimesOfDay : date_time' = Filled(NextDate(date), t)
  /\ filled' = TRUE
  /\ UNCHANGED seconds

TimeNext == gregorian2sec \/ NextDay

TimeSpec == TimeInit /\ [][TimeNext]_timeVars

-----------------------------------------------------------------------------
(* gregorian2sec counts the seconds since 1970-01-01 00:00:00: its leap     *)
(* years, its year that begins in March and its month lengths are those of  *)
(* the calendar, on every day.                                              *)
SecondsSinceEpoch ==
  ~filled => seconds = elapsed * 86400 + SecondOfDay(date_time)
=============================================================================
