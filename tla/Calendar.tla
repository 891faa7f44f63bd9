------------------------------ MODULE Calendar ------------------------------
(***************************************************************************)
(* The dates of a series (datetimeutil.c): which day a repeated recording  *)
(* starts on and which day its next occurrence falls on.                   *)
(*                                                                         *)
(* A timestamp counts units of local wall-clock time, DayLen of them in a  *)
(* day.  totimestamp and fromtimestamp convert between that and broken-    *)
(* down time, and mktime carries a day past the end of its month over into *)
(* the next month; a change to summer time is left out.                    *)
(***************************************************************************)
EXTENDS Integers, Sequences

CONSTANTS
  DayLen,          \* units of time in a day
  FirstWeekday,    \* tm_wday of day 0 (0 is Sunday)
  MonthStart       \* the day each month starts on, of all months or of the first ones

ASSUME CalendarAssumption ==
  /\ DayLen \in Nat \ {0}
  /\ FirstWeekday \in 0..6
  /\ MonthStart \in Seq(Nat) \cup [Nat \ {0} -> Nat]
  /\ 1 \in DOMAIN MonthStart /\ MonthStart[1] = 0
  /\ \A m \in DOMAIN MonthStart :
        m + 1 \in DOMAIN MonthStart => MonthStart[m + 1] - MonthStart[m] \in 28..31

Day(ts) == ts \div DayLen
Clock(ts) == ts % DayLen
Weekday(day) == (FirstWeekday + day) % 7

(* The 1-daily, 2-weekly and 3-monthly types; 4..9 leave out some days of the week. *)
RecurrenceType == 1..9
WeekdayType == 4..9

(* The dates of one recording. *)
Dates == [start : Nat, end : Nat]
MovedDays(dates, n) ==
  [start |-> dates.start + n * DayLen, end |-> dates.end + n * DayLen]

-----------------------------------------------------------------------------
(* The tm_wday values the loops of increcdays step over. *)
SkippedBy(type) ==
  CASE type = 4 -> {6, 0}
    [] type = 5 -> 1..5
    [] type = 6 -> {5, 6, 0}
    [] type = 7 -> {6, 0, 1}
    [] type = 8 -> {6, 0, 1, 2}
    [] type = 9 -> {5, 6, 0, 1}
    [] OTHER -> {}

(* How many days a loop of increcdays goes on: at least one, and to the first day not skipped. *)
StepDays(type, day) ==
  CASE type = 1 -> 1
    [] type = 2 -> 7
    [] OTHER -> CHOOSE n \in 1..7 :
                  /\ Weekday(day + n) \notin SkippedBy(type)
                  /\ \A m \in 1..(n - 1) : Weekday(day + m) \in SkippedBy(type)

(* tm_mon + 1, the other fields unchanged: a day the month does not have carries over. *)
Month(day) == CHOOSE m \in DOMAIN MonthStart :
                /\ MonthStart[m] <= day
                /\ m + 1 \in DOMAIN MonthStart => day < MonthStart[m + 1]
NextMonth(ts) ==
  LET m == Month(Day(ts))
  IN  (MonthStart[m + 1] + (Day(ts) - MonthStart[m])) * DayLen + Clock(ts)

(* The dates of the occurrence after the given one. *)
increcdays(type, dates) ==
  IF type = 3
  THEN [start |-> NextMonth(dates.start), end |-> NextMonth(dates.end)]
  ELSE MovedDays(dates, StepDays(type, Day(dates.start)))

(***************************************************************************)
(* The days adjust_initital_repeat_date moves a first date on, for each    *)
(* type and tm_wday it has a branch for.                                   *)
(***************************************************************************)
AdjustDays(type, wday) ==
  CASE type = 4 /\ wday = 6 -> 2
    [] type = 4 /\ wday = 0 -> 1
    [] type = 5 /\ wday \in 1..5 -> 6 - wday
    [] type = 6 /\ wday = 6 -> 2
    [] type = 6 /\ wday = 0 -> 1
    [] type = 6 /\ wday = 5 -> 3
    [] type = 7 /\ wday = 6 -> 3
    [] type = 7 /\ wday = 0 -> 2
    [] type = 7 /\ wday = 1 -> 1
    [] type = 8 /\ wday = 6 -> 4
    [] type = 8 /\ wday = 0 -> 3
    [] type = 8 /\ wday = 1 -> 2
    [] type = 8 /\ wday = 2 -> 1
    [] type = 9 /\ wday = 6 -> 3
    [] type = 9 /\ wday = 0 -> 2
    [] type = 9 /\ wday = 1 -> 1
    [] type = 9 /\ wday = 5 -> 4
    [] OTHER -> 0

(* A mutant of Future: a start that is past is kept. *)
AsGiven(dates, time) == dates

(* A first date that is past when the time is read is moved to the next day first. *)
Future(dates, time) == IF dates.start < time THEN MovedDays(dates, 1) ELSE dates

adjust_initital_repeat_date(type, dates, time) ==
  LET future == Future(dates, time)
  IN  MovedDays(future, AdjustDays(type, Weekday(Day(future.start))))

-----------------------------------------------------------------------------
(* Occurrence k of a series: increcdays applied k times to its first dates. *)
Occurrences(type, dates) ==
  LET occ[k \in Nat] == IF k = 0 THEN dates ELSE increcdays(type, occ[k - 1]) IN occ

(* The four date operators of Recs. *)
First(s, e) == [start |-> s, end |-> e]
CalOccStart(type, s, e, k) == IF type = 0 THEN s ELSE Occurrences(type, First(s, e))[k].start
CalOccEnd(type, s, e, k) == IF type = 0 THEN e ELSE Occurrences(type, First(s, e))[k].end
CalAdjStart(type, s, e, time) == adjust_initital_repeat_date(type, First(s, e), time).start
CalAdjEnd(type, s, e, time) == adjust_initital_repeat_date(type, First(s, e), time).end
=============================================================================
