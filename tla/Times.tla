------------------------------- MODULE Times --------------------------------
(***************************************************************************)
(* Times in qualifiers and in F$CVTIME (tm_str_to_long): a day, hours and  *)
(* minutes, and a delta before or after.  The table of the lengths of the  *)
(* months is the program's, and its entry for February changes.            *)
(***************************************************************************)
EXTENDS Integers

CONSTANTS
  FirstYear, LastYear,   \* bound: the calendar
  Clocks,                \* the minutes of the day at which a time is read
  Deltas,                \* in minutes, with their sign; 0 is none
  MaxReads               \* bound

ASSUME YearsAssumption == FirstYear \in Nat /\ LastYear \in Nat /\ FirstYear <= LastYear
ASSUME DeltasAssumption == Deltas \subseteq Int

VARIABLES
  DM1,          \* DM[1], the length of February
  today, clock, \* the day, counted from the first of the calendar, and the minute
  ttime,        \* the time that was read last: a day and a minute
  said, delta,  \* and the text it was read from
  reads

timeVars == <<DM1, today, clock, ttime, said, delta, reads>>

DayMinutes == 1440
LeapYear(y) == (y % 4 = 0 /\ y % 100 # 0) \/ y % 400 = 0

(***************************************************************************)
(* The calendar of the C library.  Months are 0 to 11.                     *)
(***************************************************************************)
Length(y, m) ==
  CASE m = 1 -> IF LeapYear(y) THEN 29 ELSE 28
    [] m \in {3, 5, 8, 10} -> 30
    [] OTHER -> 31
Months == {<<y, m>> : y \in FirstYear..LastYear, m \in 0..11}
\* The days before each month; mktime counts days past the end of a month into the next.
Before ==
  LET before[k \in 0..12 * (LastYear - FirstYear + 1)] ==
        IF k = 0 THEN 0 ELSE before[k - 1] + Length(FirstYear + (k - 1) \div 12, (k - 1) % 12)
  IN before
MonthNumber(y, m) == 12 * (y - FirstYear) + m
mktime(y, m, d) == Before[MonthNumber(y, m)] + d - 1
localtime(day) ==
  LET ym == CHOOSE x \in Months : /\ Before[MonthNumber(x[1], x[2])] <= day
                                  /\ day < Before[MonthNumber(x[1], x[2]) + 1]
  IN [year |-> ym[1], mon |-> ym[2], mday |-> day - Before[MonthNumber(ym[1], ym[2])] + 1]
Days == 0..Before[12 * (LastYear - FirstYear + 1)] - 1

(***************************************************************************)
(* The words, read on day st.  YESTERDAY and TOMORROW in a leap year make  *)
(* February a day longer, for good.                                        *)
(***************************************************************************)
February(st) == IF LeapYear(st.year) THEN DM1 + 1 ELSE DM1
DM(m, february) == IF m = 1 THEN february ELSE Length(FirstYear, m)

DayBeforeInMonth(st) ==
  IF st.mday > 1 THEN mktime(st.year, st.mon, st.mday - 1)
  ELSE IF st.mon > 0 THEN mktime(st.year, st.mon - 1, DM(st.mon, February(st)))
  ELSE mktime(st.year - 1, 11, DM(11, February(st)))
DayBefore(st) ==
  IF st.mday > 1 THEN mktime(st.year, st.mon, st.mday - 1)
  ELSE IF st.mon > 0 THEN mktime(st.year, st.mon - 1, DM(st.mon - 1, February(st)))
  ELSE mktime(st.year - 1, 11, DM(11, February(st)))
DayAfter(st) ==
  IF st.mday < DM(st.mon, February(st)) THEN mktime(st.year, st.mon, st.mday + 1)
  ELSE IF st.mon < 11 THEN mktime(st.year, st.mon + 1, 1)
  ELSE mktime(st.year + 1, 0, 1)

\* A delta moves the time across midnight.
Plus(day, minute, d) ==
  [day |-> day + (minute + d) \div DayMinutes, minute |-> (minute + d) % DayMinutes]

Read(text, day, minute, february) ==
  /\ reads < MaxReads /\ reads' = reads + 1
  /\ said' = text
  /\ \E d \in Deltas : delta' = d /\ ttime' = Plus(day, minute, d)
  /\ DM1' = february
  /\ UNCHANGED <<today, clock>>

Now == Read("NOW", today, clock, DM1)
Today == Read("TODAY", today, 0, DM1)
Yesterday == Read("YESTERDAY", DayBefore(localtime(today)), 0, February(localtime(today)))
Tomorrow == Read("TOMORROW", DayAfter(localtime(today)), 0, February(localtime(today)))

\* dd-mmm-yyyy:hh:mm, any of whose fields may be left out: today's is kept.
Absolute(fields) ==
  LET st == localtime(today)
  IN Read("ABSOLUTE",
          mktime(IF "year" \in DOMAIN fields THEN fields.year ELSE st.year,
                 IF "mon" \in DOMAIN fields THEN fields.mon ELSE st.mon,
                 IF "mday" \in DOMAIN fields THEN fields.mday ELSE st.mday),
          IF "minute" \in DOMAIN fields THEN fields.minute ELSE clock, DM1)

\* A day passes.
NextDay ==
  /\ today + 1 \in Days /\ today' = today + 1
  /\ UNCHANGED <<DM1, clock, ttime, said, delta, reads>>

\* specify.hlp:14: TODAY, YESTERDAY and TOMORROW are midnight of the day, of the one before and of
\* the one after, whatever was read before, with the delta added; on the first of March alone,
\* YESTERDAY takes the length of February from the table, as the words before have left it.
DayNamed(day) == DayMinutes * ttime.day + ttime.minute - delta = DayMinutes * day
FebruaryKept(st) == DM1 = Length(st.year, 1)
NamesItsDay ==
  [][reads' # reads =>
       /\ said' = "TODAY" => DayNamed(today)'
       /\ said' = "TOMORROW" => DayNamed(today + 1)'
       /\ said' = "YESTERDAY" =>
            LET st == localtime(today)
            IN DayNamed(today - 1)' \/ (st.mon = 2 /\ st.mday = 1 /\ ~FebruaryKept(st)')]_timeVars
=============================================================================
