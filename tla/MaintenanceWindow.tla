-------------------------- MODULE MaintenanceWindow --------------------------
(***************************************************************************)
(* The maintenance window: a cron expression of five fields, of which the  *)
(* minute, the hour and the weekday count.  It is open from that minute to *)
(* the end of that hour.  Time is counted in minutes from a Sunday's       *)
(* midnight.                                                               *)
(***************************************************************************)
EXTENDS Integers, Sequences

Star == -1          \* the field "*"
NotANumber == -2    \* a field Atoi does not take
AnyDay == -1
ZeroTime == -1      \* time.Time{}

HourLength == 60
DayLength == 24 * HourLength
Week == 10080

Minute(t) == t % HourLength
Hour(t) == (t \div HourLength) % 24
Weekday(t) == (t \div DayLength) % 7

-----------------------------------------------------------------------------
\* parseField: a star stands for the lowest value, except for the weekday.
Accepts(field, min, max) == field = Star \/ field \in min .. max
FieldValue(field, min) == IF field = Star THEN min ELSE field

\* parseCron's errors; day of month and month are not looked at.
Parses(expr) ==
  /\ Len(expr) = 5
  /\ Accepts(expr[1], 0, 59)
  /\ Accepts(expr[2], 0, 23)
  /\ Accepts(expr[5], 0, 7)

Parsed(expr) ==
  [minute |-> FieldValue(expr[1], 0), hour |-> FieldValue(expr[2], 0),
   weekday |-> IF expr[5] = Star THEN AnyDay ELSE IF expr[5] = 7 THEN 0 ELSE expr[5]]

Windows == [minute : 0 .. 59, hour : 0 .. 23, weekday : {AnyDay} \cup 0 .. 6]

IsOpen(w, t) ==
  /\ w.weekday = AnyDay \/ Weekday(t) = w.weekday
  /\ Hour(t) = w.hour
  /\ Minute(t) >= w.minute

FirstOpen(w, from, i) == IsOpen(w, from + i) /\ \A j \in 1 .. i - 1 : ~IsOpen(w, from + j)

\* Mutant of NextOpen: the loop makes one turn less.
MutantNextOpen(w, from) ==
  IF \E i \in 1 .. Week - 1 : IsOpen(w, from + i)
  THEN from + CHOOSE i \in 1 .. Week - 1 : FirstOpen(w, from, i)
  ELSE ZeroTime

\* A week of minutes after from is tried.
NextOpen(w, from) ==
  IF \E i \in 1 .. Week : IsOpen(w, from + i)
  THEN from + CHOOSE i \in 1 .. Week : FirstOpen(w, from, i)
  ELSE ZeroTime

-----------------------------------------------------------------------------
(* When cron itself starts a job, which the code does not ask.              *)

\* The calendar of years of 365 days, the first of which begins with that Sunday.
MonthStarts == <<0, 31, 59, 90, 120, 151, 181, 212, 243, 273, 304, 334>>
YearDay(t) == (t \div DayLength) % 365
Month(t) == CHOOSE m \in 1 .. 12 :
  MonthStarts[m] <= YearDay(t) /\ (m = 12 \/ YearDay(t) < MonthStarts[m + 1])
DayOfMonth(t) == YearDay(t) - MonthStarts[Month(t)] + 1

\* A star is every value; where day of month and weekday are both given, either will do.
Matches(field, value) == field = Star \/ field = value
DayMatches(expr, t) ==
  \/ expr[3] = Star /\ expr[5] = Star
  \/ expr[3] # Star /\ DayOfMonth(t) = expr[3]
  \/ expr[5] # Star /\ Weekday(t) = expr[5] % 7

CronFires(expr, t) ==
  /\ Matches(expr[1], Minute(t)) /\ Matches(expr[2], Hour(t))
  /\ Matches(expr[4], Month(t)) /\ DayMatches(expr, t)

FiresNext(expr, from, t) ==
  t > from /\ CronFires(expr, t) /\ \A u \in from + 1 .. t - 1 : ~CronFires(expr, u)

\* The expressions that name a minute and an hour, and no day of a month.
NamesAnHour(expr) == expr[1] # Star /\ expr[2] # Star /\ expr[3] = Star /\ expr[4] = Star
=============================================================================
