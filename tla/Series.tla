------------------------------- MODULE Series -------------------------------
(***************************************************************************)
(* One repeated-recording command, `ar', from its arguments to the entries *)
(* it stores: _cmd_add finds out how many occurrences there are and when   *)
(* the first one is (tvcmd.c), then insertrec walks the dates twice, once  *)
(* to look for collisions and once to store the entries (recs.c).  The     *)
(* card is free and has room.                                              *)
(*                                                                         *)
(* The clock is read again and again on the way, and may have moved on.    *)
(***************************************************************************)
EXTENDS Calendar, FiniteSets

CONSTANTS
  Commands,        \* the commands clients give
  MaxLength,       \* 4 h, the length of the longest recording
  Start            \* the time the command is read at

NoDay == -1

(***************************************************************************)
(* The arguments of `ar': the type; how many occurrences (count) or until  *)
(* which day; on which day and at what time the first one is; and how long *)
(* it is, short if that is the default length because no end time was      *)
(* given.                                                                  *)
(***************************************************************************)
Command ==
  [type : RecurrenceType, count : Nat, until : Nat \cup {NoDay}, day : Nat \cup {NoDay},
   clock : 0..(DayLen - 1), length : Nat, short : BOOLEAN]

ASSUME CommandsAssumption ==
  /\ Commands \subseteq Command /\ Start \in Nat
  /\ MaxLength \in Nat /\ MaxLength < DayLen

VARIABLES
  now,             \* time(NULL)
  cmd,             \* the command
  pc,              \* where it is
  repeat_nbr,      \* number of occurrences, recurrence_num of the entry
  entry,           \* ts_start and ts_end of the entry handed to insertrec
  i,               \* index of the loop
  dates,           \* ts_start and ts_end of the loop
  checked,         \* the dates that were checked for collisions
  inserted         \* the dates of the entries stored

vars == <<now, cmd, pc, repeat_nbr, entry, i, dates, checked, inserted>>
loop == <<i, dates, checked, inserted>>

Done == {"refused", "aborted", "stored"}

Init ==
  /\ now = Start
  /\ cmd \in Commands
  /\ pc = "number"
  /\ repeat_nbr = 0
  /\ entry = [start |-> 0, end |-> 0]
  /\ i = 0
  /\ dates = entry
  /\ checked = <<>>
  /\ inserted = <<>>

TimePasses == now' \in {now, now + 1}

(* 23:59:59 on the end day. *)
EndOfRepeat == cmd.until * DayLen + DayLen - 1

(* A mutant of Count: one occurrence too many. *)
CountPast(ts, time) ==
  LET occ == Occurrences(cmd.type,
                         adjust_initital_repeat_date(cmd.type, [start |-> ts, end |-> ts], time))
      count[n \in Nat] == IF occ[n].start <= EndOfRepeat THEN count[n + 1] ELSE n + 1
  IN  count[0]

(* How many occurrences start up to the end date, the first one being at ts, adjusted at time. *)
Count(ts, time) ==
  LET occ == Occurrences(cmd.type,
                         adjust_initital_repeat_date(cmd.type, [start |-> ts, end |-> ts], time))
      count[n \in Nat] == IF occ[n].start <= EndOfRepeat THEN count[n + 1] ELSE n
  IN  count[0]

NumberGiven ==
  /\ pc = "number"
  /\ cmd.until = NoDay
  /\ repeat_nbr' = cmd.count
  /\ pc' = "date"
  /\ UNCHANGED <<now, cmd, entry, loop>>

(* With an end date the occurrences are counted from the current time. *)
NumberFromNow ==
  /\ pc = "number"
  /\ cmd.until # NoDay
  /\ TimePasses
  /\ IF EndOfRepeat < now
     THEN pc' = "refused" /\ UNCHANGED repeat_nbr
     ELSE pc' = "date" /\ repeat_nbr' = Count(now, now')
  /\ UNCHANGED <<cmd, entry, loop>>

(* The tests of _cmd_add: a recording too long or a start in the past is refused. *)
HandOver(start) ==
  /\ entry' = [start |-> start, end |-> start + cmd.length]
  /\ dates' = entry'
  /\ pc' = IF cmd.length > MaxLength \/ start < now THEN "refused" ELSE "check"
  /\ UNCHANGED <<cmd, i, checked, inserted>>

(* No date given: today, or tomorrow if that time has passed. *)
StartToday ==
  /\ pc = "date"
  /\ cmd.day = NoDay
  /\ LET start == Day(now) * DayLen + cmd.clock
     IN  HandOver(IF start < now THEN start + DayLen ELSE start)
  /\ UNCHANGED <<now, repeat_nbr>>

(* With a date and an end time the occurrences are counted again, from the start of that day;   *)
(* with a date and no end time they are not.                                                    *)
Recount == cmd.until # NoDay /\ ~cmd.short

StartOnDay ==
  /\ pc = "date"
  /\ cmd.day # NoDay
  /\ TimePasses
  /\ IF Recount /\ cmd.day * DayLen > EndOfRepeat
     THEN pc' = "refused" /\ UNCHANGED <<cmd, repeat_nbr, entry, loop>>
     ELSE /\ repeat_nbr' = IF Recount THEN Count(cmd.day * DayLen, now') ELSE repeat_nbr
          /\ HandOver(cmd.day * DayLen + cmd.clock)

(* The loop of isentryoverlapping. *)
CheckOccurrence ==
  /\ pc = "check"
  /\ i < repeat_nbr
  /\ checked' = Append(checked, dates)
  /\ dates' = increcdays(cmd.type, dates)
  /\ i' = i + 1
  /\ UNCHANGED <<now, cmd, pc, repeat_nbr, entry, inserted>>

(* A mutant of AdjustEntry: the loop goes on with the dates of the check. *)
AdjustEntryOnly ==
  /\ pc = "check"
  /\ i = repeat_nbr
  /\ TimePasses
  /\ entry' = adjust_initital_repeat_date(cmd.type, entry, now')
  /\ i' = 0
  /\ pc' = IF repeat_nbr > 0 THEN "insert" ELSE "aborted"
  /\ UNCHANGED <<cmd, repeat_nbr, dates, checked, inserted>>

(* After it: the entry is adjusted to its type, and the number of occurrences asserted. *)
AdjustEntry ==
  /\ pc = "check"
  /\ i = repeat_nbr
  /\ TimePasses
  /\ entry' = adjust_initital_repeat_date(cmd.type, entry, now')
  /\ dates' = entry'
  /\ i' = 0
  /\ pc' = IF repeat_nbr > 0 THEN "insert" ELSE "aborted"
  /\ UNCHANGED <<cmd, repeat_nbr, checked, inserted>>

(* A mutant of InsertOccurrence: the dates are moved on before the entry is made. *)
InsertNext ==
  /\ pc = "insert"
  /\ i < repeat_nbr
  /\ dates' = increcdays(cmd.type, dates)
  /\ inserted' = Append(inserted, dates')
  /\ i' = i + 1
  /\ UNCHANGED <<now, cmd, pc, repeat_nbr, entry, checked>>

(* A mutant of InsertOccurrence: the dates are moved on from the second turn of the loop only. *)
InsertTwice ==
  /\ pc = "insert"
  /\ i < repeat_nbr
  /\ inserted' = Append(inserted, dates)
  /\ dates' = IF i = 0 THEN dates ELSE increcdays(cmd.type, dates)
  /\ i' = i + 1
  /\ UNCHANGED <<now, cmd, pc, repeat_nbr, entry, checked>>

(* The loop of insertrec. *)
InsertOccurrence ==
  /\ pc = "insert"
  /\ i < repeat_nbr
  /\ inserted' = Append(inserted, dates)
  /\ dates' = increcdays(cmd.type, dates)
  /\ i' = i + 1
  /\ UNCHANGED <<now, cmd, pc, repeat_nbr, entry, checked>>

Stored ==
  /\ pc = "insert"
  /\ i = repeat_nbr
  /\ pc' = "stored"
  /\ UNCHANGED <<now, cmd, repeat_nbr, entry, loop>>

Next ==
  \/ NumberGiven \/ NumberFromNow
  \/ StartToday \/ StartOnDay
  \/ CheckOccurrence \/ AdjustEntry
  \/ InsertOccurrence \/ Stored

Spec == Init /\ [][Next]_vars

-----------------------------------------------------------------------------
(* The days of the week each type stands for, by its name in the manual, 1 being Monday. *)
Named(type) ==
  CASE type = 4 -> 1..5
    [] type = 5 -> {6, 0}
    [] type = 6 -> 1..4
    [] type = 7 -> 2..5
    [] type = 8 -> 3..5
    [] type = 9 -> 2..4
    [] OTHER -> 0..6

DayOfMonth(day) == day - MonthStart[Month(day)]
StartDays == {Day(inserted[n].start) : n \in DOMAIN inserted}

(***************************************************************************)
(* A series takes every day its type names, from the day asked for on (the *)
(* day after, if that start is past by the time it is stored), and no      *)
(* other day: the adjustment of the first date and the steps between the   *)
(* dates fit together for every day of the week a series is asked for on.  *)
(* A weekly series keeps its day of the week, and a monthly one its day of *)
(* the month, if every month has that day.                                 *)
(***************************************************************************)
EveryNamedDay ==
  inserted # <<>> =>
    LET asked == checked[1].start
        first == IF asked < now THEN Day(asked) + 1 ELSE Day(asked)
        last == Day(inserted[Len(inserted)].start)
        due == CASE cmd.type = 2 -> {d \in first..last : (d - first) % 7 = 0}
                 [] cmd.type = 3 -> {d \in first..last : DayOfMonth(d) = DayOfMonth(first)}
                 [] OTHER -> {d \in first..last : Weekday(d) \in Named(cmd.type)}
    IN  (cmd.type = 3 => DayOfMonth(first) < 28) =>
          StartDays = due /\ Cardinality(due) = Len(inserted)

(***************************************************************************)
(* No occurrence of a series runs into the next: insertrec checks the      *)
(* occurrences against other recordings only, never against each other.    *)
(***************************************************************************)
NoSelfOverlap ==
  \A m, n \in DOMAIN inserted : m < n => inserted[m].end < inserted[n].start

(***************************************************************************)
(* A series whose first date needs no adjustment is stored on exactly the  *)
(* dates that were checked for collisions.  (One that needs it is checked  *)
(* on other dates than it is stored on.)                                   *)
(***************************************************************************)
StoredAsChecked ==
  (pc = "stored" /\ entry = checked[1]) => checked = inserted

(***************************************************************************)
(* A series asked for from a later day until an end day, with the time a   *)
(* recording ends, stops at the end of that day and not before.            *)
(*                                                                         *)
(* The exception: with no end time given (variant 3 of _cmd_add) the       *)
(* occurrences stay counted from today, though "if a startdate is given    *)
(* then this will be recalculated" (tvcmd.c:625-626), so that the series   *)
(* goes on past its end day, by as many occurrences as there are between   *)
(* today and its first.  It does not stop too soon, unless it is monthly   *)
(* and counted from a day some months do not have.                         *)
(***************************************************************************)
EndsOnTime ==
  /\ \A n \in DOMAIN inserted : inserted[n].start <= EndOfRepeat
  /\ dates.start > EndOfRepeat

UntilFromLaterDay ==
  (pc = "stored" /\ cmd.until # NoDay /\ cmd.day > Day(now)) =>
    IF cmd.short
    THEN cmd.type # 3 => dates.start > EndOfRepeat
    ELSE EndsOnTime

(***************************************************************************)
(* The two loops give what the operators of Recs say: RecScheduler takes   *)
(* insertrec as one step that checks the occurrences of the dates asked    *)
(* for and stores those of the adjusted ones.                              *)
(***************************************************************************)
R == INSTANCE Recs WITH
  MaxEntries <- 1, OccStart <- CalOccStart, OccEnd <- CalOccEnd,
  AdjStart <- CalAdjStart, AdjEnd <- CalAdjEnd

LoopsAreExpand ==
  pc = "stored" =>
    LET asked == checked[1]
        req == [type |-> cmd.type, start |-> asked.start, end |-> asked.end,
                num |-> repeat_nbr, card |-> -1]
        expanded == R!Expand(req, 1, 1, now)
    IN  /\ \A n \in DOMAIN checked :
             checked[n] = [start |-> CalOccStart(cmd.type, asked.start, asked.end, n - 1),
                           end |-> CalOccEnd(cmd.type, asked.start, asked.end, n - 1)]
        /\ Len(checked) = repeat_nbr /\ Len(inserted) = Len(expanded)
        /\ \A n \in DOMAIN inserted : /\ inserted[n].start = expanded[n].ts_start
                                      /\ inserted[n].end = expanded[n].ts_end

(* Does not hold (README): a series with an end date includes the full final day, and ends *)
(* there (_cmd_add).                                                                       *)
UntilEndDate == (pc = "stored" /\ cmd.until # NoDay) => EndsOnTime
=============================================================================
