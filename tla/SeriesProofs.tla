---------------------------- MODULE SeriesProofs ----------------------------
(***************************************************************************)
(* Theorems about the dates of a series and about the loops of `ar', for   *)
(* any calendar, any command and any clock.                                *)
(***************************************************************************)
EXTENDS Database, SequenceTheorems, FiniteSetTheorems, WellFoundedInduction, TLAPS

-----------------------------------------------------------------------------
(* The days of the week. *)

(* Days of the week count modulo 7. *)
LEMMA WeekdayMoves ==
  ASSUME NEW day \in Nat, NEW n \in Nat
  PROVE  Weekday(day) \in 0..6 /\ Weekday(day + n) = (Weekday(day) + n) % 7
<1>1. FirstWeekday \in 0..6
  BY CalendarAssumption
<1>2. QED
  BY <1>1 DEF Weekday

(***************************************************************************)
(* adjust_initital_repeat_date moves a date to the first day on or after   *)
(* it that the loops of increcdays would stop at: no day of the week is    *)
(* adjusted to one its type leaves out, and none is passed over.           *)
(***************************************************************************)
THEOREM AdjustedToFirst ==
  ASSUME NEW type \in WeekdayType, NEW day \in Nat
  PROVE  LET n == AdjustDays(type, Weekday(day))
         IN  /\ n \in 0..6
             /\ Weekday(day + n) \notin SkippedBy(type)
             /\ \A m \in 0..(n - 1) : Weekday(day + m) \in SkippedBy(type)
<1> DEFINE w == Weekday(day)
           n == AdjustDays(type, w)
<1>1. w \in 0..6 /\ type \in 4..9
  BY WeekdayMoves DEF WeekdayType
<1>2. /\ n \in 0..6
      /\ (w + n) % 7 \notin SkippedBy(type)
      /\ \A m \in 0..(n - 1) : (w + m) % 7 \in SkippedBy(type)
  <2>1. CASE type = 4
    BY <1>1, <2>1 DEF AdjustDays, SkippedBy
  <2>2. CASE type = 5
    BY <1>1, <2>2 DEF AdjustDays, SkippedBy
  <2>3. CASE type = 6
    BY <1>1, <2>3 DEF AdjustDays, SkippedBy
  <2>4. CASE type = 7
    BY <1>1, <2>4 DEF AdjustDays, SkippedBy
  <2>5. CASE type = 8
    BY <1>1, <2>5 DEF AdjustDays, SkippedBy
  <2>6. CASE type = 9
    BY <1>1, <2>6 DEF AdjustDays, SkippedBy
  <2>7. QED
    BY <1>1, <2>1, <2>2, <2>3, <2>4, <2>5, <2>6
<1>3. \A m \in 0..n : Weekday(day + m) = (w + m) % 7
  BY <1>2, WeekdayMoves
<1>4. n \in 0..n /\ \A m \in 0..(n - 1) : m \in 0..n
  BY <1>2
<1>5. QED
  BY <1>2, <1>3, <1>4

(***************************************************************************)
(* The loops of increcdays end within a week, on a day their type does not *)
(* leave out, and pass over none: together with AdjustedToFirst, a series  *)
(* takes every one of its days.                                            *)
(***************************************************************************)
THEOREM StepsToNext ==
  ASSUME NEW type \in WeekdayType, NEW day \in Nat
  PROVE  LET n == StepDays(type, day)
         IN  /\ n \in 1..7
             /\ Weekday(day + n) \notin SkippedBy(type)
             /\ \A m \in 1..(n - 1) : Weekday(day + m) \in SkippedBy(type)
<1> DEFINE After == day + 1
           k == AdjustDays(type, Weekday(After))
           P(n) == /\ Weekday(day + n) \notin SkippedBy(type)
                   /\ \A m \in 1..(n - 1) : Weekday(day + m) \in SkippedBy(type)
<1>1. /\ k \in 0..6
      /\ Weekday(After + k) \notin SkippedBy(type)
      /\ \A m \in 0..(k - 1) : Weekday(After + m) \in SkippedBy(type)
  BY AdjustedToFirst
<1>2. k + 1 \in 1..7 /\ day + (k + 1) = After + k
  BY <1>1
<1>3. \A m \in 1..k : m - 1 \in 0..(k - 1) /\ After + (m - 1) = day + m
  BY <1>1
<1>4. \A m \in 1..((k + 1) - 1) : Weekday(day + m) \in SkippedBy(type)
  BY <1>1, <1>3
<1>5. P(k + 1)
  BY <1>1, <1>2, <1>4
<1>6. StepDays(type, day) = CHOOSE n \in 1..7 : P(n)
  BY DEF StepDays, WeekdayType
<1>7. StepDays(type, day) \in 1..7 /\ P(StepDays(type, day))
  BY <1>2, <1>5, <1>6
<1>8. QED
  BY <1>7

-----------------------------------------------------------------------------
(* The occurrences of a series. *)

(* The least of some numbers. *)
LEMMA LeastOf ==
  ASSUME NEW T \in SUBSET Nat, T # {}
  PROVE  \E n \in T : \A m \in T : n <= m
<1>1. \E n \in T : \A m \in T : ~(<<m, n>> \in OpToRel(<, Nat))
  BY WFMin, NatLessThanWellFounded, Zenon
<1>2. \A m, n \in Nat : <<m, n>> \in OpToRel(<, Nat) <=> m < n
  BY Zenon DEF OpToRel
<1>3. \E n \in T : \A m \in T : ~(m < n)
  BY <1>1, <1>2, Zenon
<1>4. QED
  BY <1>3, SMT

(* Whatever holds of 0 and of n + 1 when it holds of n, holds of each number. *)
LEMMA Induction ==
  ASSUME NEW S, 0 \in S, \A n \in Nat : n \in S => n + 1 \in S
  PROVE  \A n \in Nat : n \in S
<1> DEFINE T == Nat \ S
<1>1. SUFFICES ASSUME T # {} PROVE FALSE
  OBVIOUS
<1>2. T \in SUBSET Nat
  OBVIOUS
<1>3. PICK n \in T : \A m \in T : n <= m
  BY <1>1, <1>2, LeastOf
<1>4. QED
  BY <1>3

(* The first n dates after the given ones, as a function. *)
Walk(type, from, n, f) ==
  /\ DOMAIN f = 0..n /\ f[0] = from
  /\ \A k \in 1..n : f[k] = increcdays(type, f[k - 1])

(* However many dates, they can be walked in one way. *)
LEMMA WalkExists ==
  ASSUME NEW type, NEW from, NEW n \in Nat
  PROVE  \E f : Walk(type, from, n, f)
<1> DEFINE S == {m \in Nat : \E f : Walk(type, from, m, f)}
<1>1. 0 \in S
  <2>1. Walk(type, from, 0, [k \in 0..0 |-> from])
    BY DEF Walk
  <2>2. QED
    BY <2>1
<1>2. ASSUME NEW m \in Nat, m \in S PROVE m + 1 \in S
  <2>1. PICK f : Walk(type, from, m, f)
    BY <1>2
  <2> DEFINE g == [k \in 0..(m + 1) |-> IF k = m + 1 THEN increcdays(type, f[m]) ELSE f[k]]
  <2>2. g[m + 1] = increcdays(type, f[m]) /\ \A k \in 0..m : g[k] = f[k]
    OBVIOUS
  <2>3. DOMAIN g = 0..(m + 1)
    OBVIOUS
  <2> HIDE DEF g
  <2>4. ASSUME NEW k \in 1..(m + 1) PROVE g[k] = increcdays(type, g[k - 1])
    <3>1. CASE k = m + 1
      BY <2>2, <3>1
    <3>2. CASE k \in 1..m
      BY <2>1, <2>2, <3>2 DEF Walk
    <3>3. QED
      BY <3>1, <3>2
  <2>5. Walk(type, from, m + 1, g)
    BY <2>1, <2>2, <2>3, <2>4 DEF Walk
  <2>6. QED
    BY <2>5
<1> HIDE DEF S
<1>3. n \in S
  BY <1>1, <1>2, Induction
<1>4. QED
  BY <1>3 DEF S

LEMMA WalkUnique ==
  ASSUME NEW type, NEW from, NEW n \in Nat, NEW m \in Nat, NEW f, NEW g,
         Walk(type, from, n, f), Walk(type, from, m, g)
  PROVE  \A k \in Nat : k <= n /\ k <= m => f[k] = g[k]
<1> DEFINE S == {k \in Nat : k <= n /\ k <= m => f[k] = g[k]}
<1>1. 0 \in S
  BY DEF Walk
<1>2. ASSUME NEW k \in Nat, k \in S PROVE k + 1 \in S
  <2>1. SUFFICES ASSUME k + 1 <= n, k + 1 <= m PROVE f[k + 1] = g[k + 1]
    OBVIOUS
  <2>2. f[k] = g[k] /\ k + 1 \in 1..n /\ k + 1 \in 1..m /\ (k + 1) - 1 = k
    BY <1>2, <2>1
  <2>3. QED
    BY <2>2 DEF Walk
<1> HIDE DEF S
<1>3. \A k \in Nat : k \in S
  BY <1>1, <1>2, Induction
<1>4. QED
  BY <1>3 DEF S

(* Occurrences is what its definition says, for all numbers at once. *)
LEMMA OccurrencesAre ==
  ASSUME NEW type, NEW from
  PROVE  /\ Occurrences(type, from)[0] = from
         /\ \A k \in Nat : Occurrences(type, from)[k + 1] = increcdays(type, Occurrences(type, from)[k])
<1> DEFINE W(n) == CHOOSE f : Walk(type, from, n, f)
           F == [n \in Nat |-> W(n)[n]]
           Eq(f) == f = [k \in Nat |-> IF k = 0 THEN from ELSE increcdays(type, f[k - 1])]
<1>1. \A n \in Nat : Walk(type, from, n, W(n))
  BY WalkExists
<1> HIDE DEF W
<1>2. F[0] = from
  BY <1>1 DEF Walk
<1>3. ASSUME NEW k \in Nat \ {0} PROVE F[k] = increcdays(type, F[k - 1])
  <2>1. W(k)[k] = increcdays(type, W(k)[k - 1])
    BY <1>1 DEF Walk
  <2>2. W(k)[k - 1] = W(k - 1)[k - 1]
    BY <1>1, WalkUnique
  <2>3. QED
    BY <2>1, <2>2
<1>4. Eq(F)
  BY <1>2, <1>3
<1>5. Occurrences(type, from) = CHOOSE f : Eq(f)
  BY DEF Occurrences
<1>6. Eq(Occurrences(type, from))
  BY <1>4, <1>5
<1> HIDE DEF F
<1> DEFINE occ == Occurrences(type, from)
<1> HIDE DEF occ
<1>7. occ = [k \in Nat |-> IF k = 0 THEN from ELSE increcdays(type, occ[k - 1])]
  BY <1>6 DEF occ
<1>8. occ[0] = from /\ \A k \in Nat : occ[k + 1] = increcdays(type, occ[k])
  <2>1. occ[0] = from
    BY <1>7
  <2>2. ASSUME NEW k \in Nat PROVE occ[k + 1] = increcdays(type, occ[k])
    <3>1. k + 1 \in Nat /\ k + 1 # 0 /\ (k + 1) - 1 = k
      OBVIOUS
    <3>2. QED
      BY <1>7, <3>1
  <2>3. QED
    BY <2>1, <2>2
<1>9. QED
  BY <1>8 DEF occ

-----------------------------------------------------------------------------
(* The loops of the command. *)

(* Dates moved on are dates; the adjustment moves them on. *)
LEMMA MovedAreDates ==
  ASSUME NEW d \in Dates
  PROVE  /\ \A n \in Nat : MovedDays(d, n) \in Dates
         /\ \A type \in RecurrenceType, time \in Nat : adjust_initital_repeat_date(type, d, time) \in Dates
<1>1. DayLen \in Nat \ {0}
  BY CalendarAssumption
<1>2. \A a, b \in Nat : a * b \in Nat
  OBVIOUS
<1>3. \A e \in Dates : \A n \in Nat : MovedDays(e, n) \in Dates
  <2>1. SUFFICES ASSUME NEW e \in Dates, NEW n \in Nat PROVE MovedDays(e, n) \in Dates
    OBVIOUS
  <2>2. n * DayLen \in Nat
    BY <1>1, <1>2
  <2>3. e.start + n * DayLen \in Nat /\ e.end + n * DayLen \in Nat
    BY <2>2 DEF Dates
  <2>4. QED
    BY <2>3 DEF MovedDays, Dates
<1>4. ASSUME NEW type \in RecurrenceType, NEW time \in Nat
      PROVE  adjust_initital_repeat_date(type, d, time) \in Dates
  <2>1. Future(d, time) \in Dates
    BY <1>3 DEF Future
  <2>2. \A w \in 0..6 : AdjustDays(type, w) \in Nat
    BY DEF AdjustDays
  <2>3. \A day \in Nat : Weekday(day) \in 0..6
    BY CalendarAssumption DEF Weekday
  <2>4. \A day \in Int : Weekday(day) \in 0..6
    BY CalendarAssumption DEF Weekday
  <2>5. Day(Future(d, time).start) \in Int
    BY <2>1, <1>1 DEF Dates, Day
  <2>6. AdjustDays(type, Weekday(Day(Future(d, time).start))) \in Nat
    BY <2>2, <2>4, <2>5
  <2>7. QED
    BY <1>3, <2>1, <2>6 DEF adjust_initital_repeat_date
<1>5. QED
  BY <1>3, <1>4

(* Each occurrence has a start and an end, also where the calendar ends. *)
LEMMA OccurrencesHaveBoth ==
  ASSUME NEW type, NEW from \in Dates, NEW k \in Nat
  PROVE  \E s, e : Occurrences(type, from)[k] = [start |-> s, end |-> e]
<1>1. CASE k = 0
  <2>1. from = [start |-> from.start, end |-> from.end]
    BY DEF Dates
  <2>2. Occurrences(type, from)[k] = from
    BY <1>1, OccurrencesAre
  <2>3. QED
    BY <2>1, <2>2
<1>2. CASE k # 0
  <2>1. PICK d : d = Occurrences(type, from)[k - 1]
    OBVIOUS
  <2>2. k - 1 \in Nat /\ (k - 1) + 1 = k
    BY <1>2
  <2>3. Occurrences(type, from)[k] = increcdays(type, d)
    BY <2>1, <2>2, OccurrencesAre
  <2>4. QED
    BY <2>3 DEF increcdays, MovedDays
<1>3. QED
  BY <1>1, <1>2

(* seq holds the first n occurrences after the given dates. *)
Follows(seq, type, from, n) ==
  /\ n \in Nat /\ seq \in Seq({Occurrences(type, from)[k] : k \in Nat}) /\ Len(seq) = n
  /\ \A k \in 1..n : seq[k] = Occurrences(type, from)[k - 1]

(* A loop that appends its dates and moves them on goes through them. *)
LEMMA FollowsOn ==
  ASSUME NEW seq, NEW type, NEW from, NEW n, Follows(seq, type, from, n)
  PROVE  Follows(Append(seq, Occurrences(type, from)[n]), type, from, n + 1)
<1> DEFINE S == {Occurrences(type, from)[k] : k \in Nat}
<1>1. PICK e : e = Occurrences(type, from)[n]
  OBVIOUS
<1>2. e \in S /\ n \in Nat /\ seq \in Seq(S) /\ Len(seq) = n
  BY <1>1 DEF Follows
<1>3. \A k \in 1..n : seq[k] = Occurrences(type, from)[k - 1]
  BY DEF Follows
<1> HIDE DEF S
<1>4. /\ Append(seq, e) \in Seq(S) /\ Len(Append(seq, e)) = n + 1
      /\ \A k \in 1..n : Append(seq, e)[k] = seq[k]
      /\ Append(seq, e)[n + 1] = e
  BY <1>2
<1>5. \A k \in 1..(n + 1) : Append(seq, e)[k] = Occurrences(type, from)[k - 1]
  BY <1>1, <1>2, <1>3, <1>4
<1>6. QED
  BY <1>1, <1>2, <1>4, <1>5 DEF Follows, S

(* A loop that has not begun. *)
LEMMA FollowsNone ==
  ASSUME NEW type, NEW from
  PROVE  Follows(<<>>, type, from, 0)
BY DEF Follows

\* Both loops walk the occurrences, of the dates given and of those adjusted.
LoopInv ==
  /\ cmd \in Commands /\ now \in Nat
  /\ pc \in {"number", "date", "check", "insert", "stored", "refused", "aborted"}
  /\ pc \in {"number", "date"} => i = 0 /\ checked = <<>>
  /\ pc \in {"number", "date", "check", "refused", "aborted"} => inserted = <<>>
  /\ pc = "check" => /\ entry \in Dates /\ Follows(checked, cmd.type, entry, i)
                     /\ dates = Occurrences(cmd.type, entry)[i]
  /\ pc \in {"insert", "stored"} =>
       /\ repeat_nbr \in Nat \ {0}
       /\ checked[1] \in Dates /\ Follows(checked, cmd.type, checked[1], repeat_nbr)
       /\ entry = adjust_initital_repeat_date(cmd.type, checked[1], now)
       /\ Follows(inserted, cmd.type, entry, i) /\ dates = Occurrences(cmd.type, entry)[i]
  /\ pc = "stored" => i = repeat_nbr

(* The dates of the command handed to insertrec. *)
LEMMA HandedOver ==
  ASSUME LoopInv, pc = "date", NEW start \in Nat, HandOver(start), now' \in Nat
  PROVE  LoopInv'
<1>1. /\ cmd \in Commands /\ cmd.length \in Nat
  BY CommandsAssumption DEF LoopInv, Command
<1>2. entry' \in Dates
  BY <1>1 DEF HandOver, Dates
<1>3. UNCHANGED <<cmd, i, checked, inserted>> /\ dates' = entry' /\ pc' \in {"refused", "check"}
  BY DEF HandOver
<1>4. i' = 0 /\ checked' = <<>> /\ inserted' = <<>>
  BY <1>3 DEF LoopInv
<1>5. dates' = Occurrences(cmd'.type, entry')[0]
  BY <1>3, OccurrencesAre
<1>6. Follows(checked', cmd'.type, entry', 0)
  BY <1>4, FollowsNone
<1>7. QED
  BY <1>1, <1>2, <1>3, <1>4, <1>5, <1>6 DEF LoopInv

(* The command is one of those given, and its days and times are numbers. *)
LEMMA CommandIs ==
  ASSUME cmd \in Commands
  PROVE  /\ cmd.type \in RecurrenceType /\ cmd.count \in Nat /\ cmd.clock \in 0..(DayLen - 1) /\ cmd.length \in Nat
         /\ cmd.until \in Nat \cup {NoDay} /\ cmd.day \in Nat \cup {NoDay}
BY CommandsAssumption DEF Command

LEMMA StepLoop == LoopInv /\ [Next]_vars => LoopInv'
<1> SUFFICES ASSUME LoopInv, [Next]_vars PROVE LoopInv'
  OBVIOUS
<1>0. /\ cmd \in Commands /\ now \in Nat /\ DayLen \in Nat \ {0}
      /\ cmd.type \in RecurrenceType /\ cmd.clock \in 0..(DayLen - 1) /\ cmd.day \in Nat \cup {NoDay}
  BY CommandIs, CalendarAssumption DEF LoopInv
<1>m. \A a, b \in Nat : a * b \in Nat
  OBVIOUS
<1>1. CASE NumberGiven
  BY <1>1 DEF NumberGiven, LoopInv, loop
<1>2. CASE NumberFromNow
  <2>1. pc = "number" /\ now' \in Nat /\ pc' \in {"refused", "date"} /\ UNCHANGED <<cmd, entry, loop>>
    BY <1>0, <1>2 DEF NumberFromNow, TimePasses
  <2>2. QED
    BY <2>1 DEF LoopInv, loop
<1>3. CASE StartToday
  <2> DEFINE start == Day(now) * DayLen + cmd.clock
  <2>1. PICK s : s = IF start < now THEN start + DayLen ELSE start
    OBVIOUS
  <2>2. HandOver(s) /\ now' = now /\ pc = "date"
    BY <1>3, <2>1 DEF StartToday
  <2>3. Day(now) \in Nat
    BY <1>0 DEF Day
  <2>4. Day(now) * DayLen \in Nat
    BY <1>0, <1>m, <2>3
  <2>5. s \in Nat
    BY <1>0, <2>1, <2>4
  <2>6. QED
    BY <1>0, <2>2, <2>5, HandedOver
<1>4. CASE StartOnDay
  <2>1. pc = "date" /\ cmd.day \in Nat /\ now' \in Nat
    BY <1>0, <1>4 DEF StartOnDay, TimePasses
  <2>2. CASE pc' = "refused" /\ UNCHANGED <<cmd, repeat_nbr, entry, loop>>
    BY <2>1, <2>2 DEF LoopInv, loop
  <2>3. CASE HandOver(cmd.day * DayLen + cmd.clock)
    <3>1. cmd.day * DayLen \in Nat
      BY <1>0, <1>m, <2>1
    <3>2. cmd.day * DayLen + cmd.clock \in Nat
      BY <1>0, <3>1
    <3>3. QED
      BY <2>1, <2>3, <3>2, HandedOver
  <2>4. QED
    BY <1>4, <2>2, <2>3 DEF StartOnDay
<1>5. CASE CheckOccurrence
  <2>1. /\ pc = "check" /\ checked' = Append(checked, dates) /\ dates' = increcdays(cmd.type, dates)
        /\ i' = i + 1 /\ UNCHANGED <<now, cmd, pc, repeat_nbr, entry, inserted>>
    BY <1>5 DEF CheckOccurrence
  <2>2. i \in Nat /\ Follows(checked, cmd.type, entry, i) /\ dates = Occurrences(cmd.type, entry)[i]
    BY <2>1 DEF LoopInv, Follows
  <2>3. Follows(checked', cmd.type, entry, i + 1)
    BY <2>1, <2>2, FollowsOn
  <2>4. dates' = Occurrences(cmd.type, entry)[i + 1]
    BY <2>1, <2>2, OccurrencesAre
  <2>5. QED
    BY <2>1, <2>3, <2>4 DEF LoopInv
<1>6. CASE AdjustEntry
  <2>1. /\ pc = "check" /\ i = repeat_nbr /\ now' \in Nat
        /\ entry' = adjust_initital_repeat_date(cmd.type, entry, now')
        /\ dates' = entry' /\ i' = 0 /\ pc' = IF repeat_nbr > 0 THEN "insert" ELSE "aborted"
        /\ UNCHANGED <<cmd, repeat_nbr, checked, inserted>>
    BY <1>0, <1>6 DEF AdjustEntry, TimePasses
  <2>2. CASE repeat_nbr > 0
    <3>1. /\ repeat_nbr \in Nat \ {0} /\ entry \in Dates /\ Follows(checked, cmd.type, entry, repeat_nbr)
          /\ inserted = <<>>
      BY <2>1, <2>2 DEF LoopInv, Follows
    <3>2. checked[1] = entry
      <4>1. 1 \in 1..repeat_nbr /\ 1 - 1 = 0
        BY <3>1
      <4>2. checked[1] = Occurrences(cmd.type, entry)[0]
        BY <3>1, <4>1 DEF Follows
      <4>3. QED
        BY <4>2, OccurrencesAre
    <3>3. dates' = Occurrences(cmd'.type, entry')[0] /\ Follows(inserted', cmd'.type, entry', 0)
      BY <2>1, <3>1, OccurrencesAre, FollowsNone
    <3>4. pc' = "insert"
      BY <2>1, <2>2
    <3>5. QED
      BY <1>0, <2>1, <3>1, <3>2, <3>3, <3>4 DEF LoopInv
  <2>3. CASE ~(repeat_nbr > 0)
    BY <1>0, <2>1, <2>3 DEF LoopInv
  <2>4. QED
    BY <2>2, <2>3
<1>7. CASE InsertOccurrence
  <2>1. /\ pc = "insert" /\ inserted' = Append(inserted, dates) /\ dates' = increcdays(cmd.type, dates)
        /\ i' = i + 1 /\ UNCHANGED <<now, cmd, pc, repeat_nbr, entry, checked>>
    BY <1>7 DEF InsertOccurrence
  <2>2. i \in Nat /\ Follows(inserted, cmd.type, entry, i) /\ dates = Occurrences(cmd.type, entry)[i]
    BY <2>1 DEF LoopInv, Follows
  <2>3. Follows(inserted', cmd.type, entry, i + 1)
    BY <2>1, <2>2, FollowsOn
  <2>4. dates' = Occurrences(cmd.type, entry)[i + 1]
    BY <2>1, <2>2, OccurrencesAre
  <2>5. QED
    BY <2>1, <2>3, <2>4 DEF LoopInv
<1>8. CASE Stored
  BY <1>8 DEF Stored, LoopInv, loop
<1>9. CASE UNCHANGED vars
  BY <1>9 DEF vars, loop, LoopInv
<1>10. QED
  BY <1>1, <1>2, <1>3, <1>4, <1>5, <1>6, <1>7, <1>8, <1>9 DEF Next

LEMMA LoopsKept == Spec => []LoopInv
<1>1. Init => LoopInv
  BY CommandsAssumption DEF Init, LoopInv
<1>2. QED
  BY <1>1, StepLoop, PTL DEF Spec

(* Two sequences that follow the same dates as far are the same. *)
LEMMA SameWalk ==
  ASSUME NEW s, NEW t, NEW type, NEW from, NEW n, Follows(s, type, from, n), Follows(t, type, from, n)
  PROVE  s = t
<1> DEFINE S == {Occurrences(type, from)[k] : k \in Nat}
<1>1. s \in Seq(S) /\ t \in Seq(S) /\ Len(s) = Len(t) /\ \A k \in 1..Len(s) : s[k] = t[k]
  BY DEF Follows
<1> HIDE DEF S
<1>2. QED
  BY <1>1

(* Loops that walked the same dates have made the same entries. *)
LEMMA LoopsStoreChecked == LoopInv => StoredAsChecked
<1> SUFFICES ASSUME LoopInv, pc = "stored", entry = checked[1] PROVE checked = inserted
  BY DEF StoredAsChecked
<1>1. Follows(checked, cmd.type, entry, repeat_nbr) /\ Follows(inserted, cmd.type, entry, repeat_nbr)
  BY DEF LoopInv
<1>2. QED
  BY <1>1, SameWalk

(* A series whose first date needs no adjustment is stored on exactly the   *)
(* dates that were checked for collisions, whatever the time between the    *)
(* check and the store (insertrec).                                         *)
THEOREM StoredWhatWasChecked == Spec => []StoredAsChecked
BY LoopsStoreChecked, LoopsKept, PTL

(* What the loops have walked is what Recs!Expand gives. *)
LEMMA LoopsExpand == LoopInv => LoopsAreExpand
<1> SUFFICES ASSUME LoopInv, pc = "stored" PROVE LoopsAreExpand
  BY DEF LoopsAreExpand
<1> DEFINE asked == checked[1]
           req == [type |-> cmd.type, start |-> asked.start, end |-> asked.end,
                   num |-> repeat_nbr, card |-> -1]
           expanded == R!Expand(req, 1, 1, now)
<1>1. /\ repeat_nbr \in Nat \ {0} /\ asked \in Dates /\ cmd.type \in RecurrenceType /\ now \in Nat
      /\ Follows(checked, cmd.type, asked, repeat_nbr) /\ Follows(inserted, cmd.type, entry, repeat_nbr)
      /\ entry = adjust_initital_repeat_date(cmd.type, asked, now)
  BY CommandIs DEF LoopInv
<1>2. entry \in Dates
  BY <1>1, MovedAreDates
<1>3. \A d \in Dates : First(d.start, d.end) = d
  BY DEF Dates, First
<1>4. /\ First(asked.start, asked.end) = asked /\ First(entry.start, entry.end) = entry /\ cmd.type # 0
  BY <1>1, <1>2, <1>3 DEF RecurrenceType
<1>5. CalAdjStart(cmd.type, asked.start, asked.end, now) = entry.start
      /\ CalAdjEnd(cmd.type, asked.start, asked.end, now) = entry.end
  BY <1>1, <1>4 DEF CalAdjStart, CalAdjEnd
<1>6. \A k : /\ CalOccStart(cmd.type, asked.start, asked.end, k) = Occurrences(cmd.type, asked)[k].start
             /\ CalOccEnd(cmd.type, asked.start, asked.end, k) = Occurrences(cmd.type, asked)[k].end
             /\ CalOccStart(cmd.type, entry.start, entry.end, k) = Occurrences(cmd.type, entry)[k].start
             /\ CalOccEnd(cmd.type, entry.start, entry.end, k) = Occurrences(cmd.type, entry)[k].end
  BY <1>4 DEF CalOccStart, CalOccEnd
<1>7. expanded = [n \in 1..repeat_nbr |-> R!SeriesEntry(req, n - 1, 1, 1, now)]
  BY <1>4 DEF R!Expand
<1>8. \A n \in 1..repeat_nbr : /\ expanded[n].ts_start = Occurrences(cmd.type, entry)[n - 1].start
                               /\ expanded[n].ts_end = Occurrences(cmd.type, entry)[n - 1].end
  <2>1. SUFFICES ASSUME NEW n \in 1..repeat_nbr
                 PROVE  /\ expanded[n].ts_start = Occurrences(cmd.type, entry)[n - 1].start
                        /\ expanded[n].ts_end = Occurrences(cmd.type, entry)[n - 1].end
    OBVIOUS
  <2>2. expanded[n] = R!SeriesEntry(req, n - 1, 1, 1, now)
    BY <1>7, <2>1
  <2>3. /\ R!SeriesEntry(req, n - 1, 1, 1, now).ts_start
             = CalOccStart(cmd.type, CalAdjStart(cmd.type, asked.start, asked.end, now),
                           CalAdjEnd(cmd.type, asked.start, asked.end, now), n - 1)
        /\ R!SeriesEntry(req, n - 1, 1, 1, now).ts_end
             = CalOccEnd(cmd.type, CalAdjStart(cmd.type, asked.start, asked.end, now),
                         CalAdjEnd(cmd.type, asked.start, asked.end, now), n - 1)
    BY DEF R!SeriesEntry
  <2>4. QED
    BY <1>5, <1>6, <2>2, <2>3
<1>9. Len(expanded) = repeat_nbr
  BY <1>1, <1>7
<1>10. \A n \in DOMAIN checked :
           checked[n] = [start |-> CalOccStart(cmd.type, asked.start, asked.end, n - 1),
                         end |-> CalOccEnd(cmd.type, asked.start, asked.end, n - 1)]
  <2>1. SUFFICES ASSUME NEW n \in DOMAIN checked
                 PROVE  checked[n] = [start |-> CalOccStart(cmd.type, asked.start, asked.end, n - 1),
                                      end |-> CalOccEnd(cmd.type, asked.start, asked.end, n - 1)]
    OBVIOUS
  <2>2. n \in 1..repeat_nbr
    BY <1>1, <2>1 DEF Follows
  <2>3. n - 1 \in Nat /\ checked[n] = Occurrences(cmd.type, asked)[n - 1]
    BY <1>1, <2>2 DEF Follows
  <2>4. PICK s, e : Occurrences(cmd.type, asked)[n - 1] = [start |-> s, end |-> e]
    <3>1. PICK k \in Nat, a \in Dates, type \in RecurrenceType : k = n - 1 /\ a = asked /\ type = cmd.type
      BY <1>1, <2>3
    <3>2. \E s, e : Occurrences(type, a)[k] = [start |-> s, end |-> e]
      BY OccurrencesHaveBoth
    <3>3. QED
      BY <3>1, <3>2
  <2>5. QED
    BY <1>6, <2>3, <2>4
<1>11. Len(checked) = repeat_nbr /\ Len(inserted) = repeat_nbr /\ DOMAIN inserted = 1..repeat_nbr
  BY <1>1 DEF Follows
<1>12. \A n \in DOMAIN inserted : inserted[n] = Occurrences(cmd.type, entry)[n - 1]
  BY <1>1, <1>11 DEF Follows
<1> HIDE DEF expanded
<1>13. \A n \in DOMAIN inserted : /\ inserted[n].start = expanded[n].ts_start
                                  /\ inserted[n].end = expanded[n].ts_end
  BY <1>8, <1>11, <1>12
<1>14. QED
  BY <1>9, <1>10, <1>11, <1>13 DEF LoopsAreExpand, expanded

(* The two loops of insertrec are one step of the scheduler: they check the *)
(* occurrences of the dates asked for and store those of the adjusted ones, *)
(* as the operators of Recs say that RecScheduler books with.               *)
THEOREM OneStepOfTheScheduler == Spec => []LoopsAreExpand
BY LoopsExpand, LoopsKept, PTL

-----------------------------------------------------------------------------
(* Days and months. *)

(* A day is DayLen units, whatever that is. *)
LEMMA DayAndClock ==
  /\ \A ts \in Nat : Day(ts) \in Nat /\ Clock(ts) \in 0..(DayLen - 1) /\ ts = Day(ts) * DayLen + Clock(ts)
  /\ \A d \in Nat : \A c \in 0..(DayLen - 1) :
        d * DayLen + c \in Nat /\ Day(d * DayLen + c) = d /\ Clock(d * DayLen + c) = c
<1>1. DayLen \in Nat \ {0}
  BY CalendarAssumption
<1>2. \A a, b \in Nat : a * b \in Nat
  OBVIOUS
<1>3. ASSUME NEW ts \in Nat
      PROVE  Day(ts) \in Nat /\ Clock(ts) \in 0..(DayLen - 1) /\ ts = Day(ts) * DayLen + Clock(ts)
  BY <1>1, <1>3 DEF Day, Clock
<1>4. ASSUME NEW d \in Nat, NEW c \in 0..(DayLen - 1)
      PROVE  d * DayLen + c \in Nat /\ Day(d * DayLen + c) = d /\ Clock(d * DayLen + c) = c
  <2>1. d * DayLen \in Nat
    BY <1>1, <1>2
  <2>2. PICK ts \in Nat : ts = d * DayLen + c
    BY <1>1, <2>1
  <2>3. /\ Day(ts) \in Nat /\ Clock(ts) \in 0..(DayLen - 1)
        /\ Day(ts) * DayLen + Clock(ts) = d * DayLen + c
    BY <1>3, <2>2
  <2>4. \A x, y \in Nat : \A r, s \in 0..(DayLen - 1) : x * DayLen + r = y * DayLen + s => x <= y
    <3>1. SUFFICES ASSUME NEW x \in Nat, NEW y \in Nat, NEW r \in 0..(DayLen - 1), NEW s \in 0..(DayLen - 1),
                          x > y
                   PROVE  x * DayLen + r # y * DayLen + s
      BY <1>1
    <3>2. PICK z \in Nat : x = y + 1 + z
      <4>1. x - y - 1 \in Nat /\ x = y + 1 + (x - y - 1)
        BY <3>1
      <4>2. QED
        BY <4>1
    <3>3. x * DayLen = y * DayLen + DayLen + z * DayLen
      BY <1>1, <3>2
    <3>4. z * DayLen \in Nat /\ y * DayLen \in Nat
      BY <1>1, <1>2
    <3>5. QED
      BY <1>1, <3>3, <3>4
  <2>5. Day(ts) = d
    <3>1. Day(ts) <= d /\ d <= Day(ts)
      BY <2>3, <2>4
    <3>2. QED
      BY <2>3, <3>1
  <2>6. QED
    BY <1>1, <2>1, <2>2, <2>3, <2>5
<1>5. QED
  BY <1>3, <1>4

(* Earlier times are not on later days. *)
LEMMA DaysInOrder ==
  /\ \A a, b \in Nat : a <= b => Day(a) <= Day(b)
  /\ \A a, b \in Nat : Day(a) < Day(b) => a < b
  /\ \A a, b \in Nat : b <= a /\ a <= b + DayLen => Day(a) <= Day(b) + 1
<1>1. DayLen \in Nat \ {0} /\ \A x, y \in Nat : x * y \in Nat
  BY CalendarAssumption
<1>2. ASSUME NEW a \in Nat, NEW b \in Nat, Day(a) < Day(b) PROVE a < b
  <2>1. /\ Day(a) \in Nat /\ Clock(a) \in 0..(DayLen - 1) /\ a = Day(a) * DayLen + Clock(a)
        /\ Day(b) \in Nat /\ Clock(b) \in 0..(DayLen - 1) /\ b = Day(b) * DayLen + Clock(b)
    BY DayAndClock
  <2>2. PICK z \in Nat : Day(b) = Day(a) + 1 + z
    <3>1. Day(b) - Day(a) - 1 \in Nat /\ Day(b) = Day(a) + 1 + (Day(b) - Day(a) - 1)
      BY <1>2, <2>1
    <3>2. QED
      BY <3>1
  <2>3. Day(b) * DayLen = Day(a) * DayLen + DayLen + z * DayLen
    BY <1>1, <2>1, <2>2
  <2>4. z * DayLen \in Nat /\ Day(a) * DayLen \in Nat
    BY <1>1, <2>1
  <2>5. QED
    BY <1>1, <2>1, <2>3, <2>4
<1>3. \A a, b \in Nat : a <= b => Day(a) <= Day(b)
  BY <1>2, DayAndClock
<1>4. ASSUME NEW a \in Nat, NEW b \in Nat, b <= a, a <= b + DayLen PROVE Day(a) <= Day(b) + 1
  <2>1. Day(b) \in Nat /\ Clock(b) \in 0..(DayLen - 1) /\ b = Day(b) * DayLen + Clock(b)
    BY DayAndClock
  <2>2. PICK e \in Nat : e = (Day(b) + 1) * DayLen + Clock(b)
    BY <2>1, DayAndClock
  <2>3. Day(e) = Day(b) + 1
    BY <2>1, <2>2, DayAndClock
  <2>4. e = b + DayLen
    <3>1. \A x, y \in Nat : (x + 1) * y = x * y + y
      OBVIOUS
    <3>2. (Day(b) + 1) * DayLen = Day(b) * DayLen + DayLen /\ Day(b) * DayLen \in Nat
      BY <1>1, <2>1, <3>1
    <3>3. QED
      BY <1>1, <2>1, <2>2, <3>2
  <2>5. QED
    BY <1>3, <1>4, <2>3, <2>4
<1>5. QED
  BY <1>2, <1>3, <1>4

\* The calendar has no last month (TLC's has).
EndlessCalendar == DOMAIN MonthStart = Nat \ {0}

(* Months begin one after the other, 28 to 31 days apart. *)
LEMMA MonthsInOrder ==
  ASSUME EndlessCalendar
  PROVE  /\ \A m \in Nat \ {0} : MonthStart[m] \in Nat /\ MonthStart[m + 1] - MonthStart[m] \in 28..31
         /\ MonthStart[1] = 0
         /\ \A m \in Nat \ {0} : \A k \in Nat : MonthStart[m] + 28 * k <= MonthStart[m + k]
<1>1. \A m \in Nat \ {0} : MonthStart[m] \in Nat /\ MonthStart[m + 1] \in Nat
  <2>1. MonthStart \in [Nat \ {0} -> Nat]
    <3>1. CASE MonthStart \in Seq(Nat)
      BY <3>1 DEF EndlessCalendar
    <3>2. QED
      BY <3>1, CalendarAssumption
  <2>2. QED
    BY <2>1
<1>2. \A m \in Nat \ {0} : MonthStart[m + 1] - MonthStart[m] \in 28..31
  <2>1. \A m \in DOMAIN MonthStart :
          m + 1 \in DOMAIN MonthStart => MonthStart[m + 1] - MonthStart[m] \in 28..31
    BY CalendarAssumption, Zenon
  <2>2. \A m \in Nat \ {0} : m \in DOMAIN MonthStart /\ m + 1 \in DOMAIN MonthStart
    <3>1. \A m \in Nat \ {0} : m + 1 \in Nat \ {0}
      OBVIOUS
    <3>2. QED
      BY <3>1, Zenon DEF EndlessCalendar
  <2>3. QED
    BY <2>1, <2>2, Zenon
<1>3. ASSUME NEW m \in Nat \ {0}, NEW n \in Nat PROVE MonthStart[m] + 28 * n <= MonthStart[m + n]
  <2> DEFINE S == {k \in Nat : MonthStart[m] + 28 * k <= MonthStart[m + k]}
  <2>1. 0 \in S
    BY <1>1
  <2>2. ASSUME NEW k \in Nat, k \in S PROVE k + 1 \in S
    <3>1. m + k \in Nat \ {0} /\ (m + k) + 1 = m + (k + 1)
      OBVIOUS
    <3>2. MonthStart[m + k] \in Nat /\ MonthStart[m + (k + 1)] \in Nat /\ MonthStart[m] \in Nat
      BY <1>1, <3>1
    <3>3. MonthStart[m + (k + 1)] - MonthStart[m + k] \in 28..31
      BY <1>2, <3>1
    <3>4. QED
      BY <2>2, <3>2, <3>3
  <2> HIDE DEF S
  <2>3. n \in S
    BY <2>1, <2>2, Induction
  <2>4. QED
    BY <2>3 DEF S
<1>4. QED
  BY <1>1, <1>2, <1>3, CalendarAssumption

(* A later month begins later. *)
LEMMA LaterMonth ==
  ASSUME EndlessCalendar, NEW m \in Nat \ {0}, NEW n \in Nat \ {0}, m < n
  PROVE  MonthStart[m + 1] <= MonthStart[n]
<1>1. PICK k \in Nat : n = (m + 1) + k
  <2>1. n - (m + 1) \in Nat /\ n = (m + 1) + (n - (m + 1))
    OBVIOUS
  <2>2. QED
    BY <2>1
<1>2. MonthStart[m + 1] + 28 * k <= MonthStart[n] /\ MonthStart[m + 1] \in Nat /\ MonthStart[n] \in Nat
  BY <1>1, MonthsInOrder
<1>3. QED
  BY <1>2

(* Each day is in one month. *)
LEMMA MonthIs ==
  ASSUME EndlessCalendar, NEW day \in Nat
  PROVE  /\ Month(day) \in Nat \ {0} /\ MonthStart[Month(day)] \in Nat /\ MonthStart[Month(day) + 1] \in Nat
         /\ MonthStart[Month(day)] <= day /\ day < MonthStart[Month(day) + 1]
         /\ \A m \in Nat \ {0} : MonthStart[m] <= day /\ day < MonthStart[m + 1] => Month(day) = m
<1> DEFINE In(m) == MonthStart[m] <= day /\ day < MonthStart[m + 1]
           T == {k \in Nat : MonthStart[k + 1] <= day}
<1>1. \A m \in Nat \ {0} : MonthStart[m] \in Nat /\ MonthStart[m + 1] \in Nat
  BY MonthsInOrder
<1>2. \E m \in Nat \ {0} : In(m)
  <2>1. SUFFICES ASSUME \A m \in Nat \ {0} : ~In(m) PROVE FALSE
    OBVIOUS
  <2>2. 0 \in T
    BY MonthsInOrder
  <2>3. ASSUME NEW k \in Nat, k \in T PROVE k + 1 \in T
    <3>1. k + 1 \in Nat \ {0} /\ MonthStart[k + 1] <= day /\ ~In(k + 1)
      BY <2>1, <2>3
    <3>2. MonthStart[(k + 1) + 1] \in Nat
      BY <1>1, <3>1
    <3>3. QED
      BY <3>1, <3>2
  <2> HIDE DEF T
  <2>4. \A k \in Nat : k \in T
    BY <2>2, <2>3, Induction
  <2>5. MonthStart[day + 2] <= day
    <3>1. day + 1 \in Nat /\ (day + 1) + 1 = day + 2
      OBVIOUS
    <3>2. QED
      BY <2>4, <3>1 DEF T
  <2>6. MonthStart[1] + 28 * (day + 1) <= MonthStart[1 + (day + 1)] /\ 1 + (day + 1) = day + 2
    BY MonthsInOrder
  <2>7. 28 * (day + 1) <= MonthStart[day + 2] /\ MonthStart[day + 2] \in Nat
    BY <1>1, <2>6, MonthsInOrder
  <2>8. QED
    BY <2>5, <2>7
<1>3. \A m, n \in Nat \ {0} : In(m) /\ In(n) => m = n
  <2>1. SUFFICES ASSUME NEW m \in Nat \ {0}, NEW n \in Nat \ {0}, In(m), In(n), m < n PROVE FALSE
    OBVIOUS
  <2>2. MonthStart[m + 1] <= MonthStart[n]
    BY <2>1, LaterMonth
  <2>3. QED
    BY <1>1, <2>1, <2>2
<1>4. Month(day) = CHOOSE m \in Nat \ {0} : In(m)
  BY DEF Month, EndlessCalendar
<1> HIDE DEF In
<1>5. Month(day) \in Nat \ {0} /\ In(Month(day))
  BY <1>2, <1>4
<1>6. \A m \in Nat \ {0} : In(m) => Month(day) = m
  BY <1>3, <1>5
<1>7. QED
  BY <1>1, <1>5, <1>6 DEF In

(* NextMonth keeps the time of day, and the day of the month or carries it. *)
LEMMA NextMonthIs ==
  ASSUME EndlessCalendar, NEW ts \in Nat
  PROVE  /\ NextMonth(ts) \in Nat /\ Clock(NextMonth(ts)) = Clock(ts)
         /\ Day(NextMonth(ts)) = MonthStart[Month(Day(ts)) + 1] + DayOfMonth(Day(ts))
         /\ DayOfMonth(Day(ts)) \in Nat /\ Day(NextMonth(ts)) > Day(ts)
<1> DEFINE m == Month(Day(ts))
           d == MonthStart[m + 1] + (Day(ts) - MonthStart[m])
<1>1. Day(ts) \in Nat /\ Clock(ts) \in 0..(DayLen - 1)
  BY DayAndClock
<1>2. /\ m \in Nat \ {0} /\ MonthStart[m] \in Nat /\ MonthStart[m + 1] \in Nat
      /\ MonthStart[m] <= Day(ts) /\ MonthStart[m + 1] - MonthStart[m] \in 28..31
  BY <1>1, MonthIs, MonthsInOrder
<1>3. d \in Nat /\ d > Day(ts) /\ DayOfMonth(Day(ts)) \in Nat /\ d = MonthStart[m + 1] + DayOfMonth(Day(ts))
  BY <1>1, <1>2 DEF DayOfMonth
<1>4. NextMonth(ts) = d * DayLen + Clock(ts)
  BY DEF NextMonth
<1> HIDE DEF d
<1>5. PICK e \in Nat, c \in 0..(DayLen - 1) : e = d /\ c = Clock(ts)
  BY <1>1, <1>3
<1>6. e * DayLen + c \in Nat /\ Day(e * DayLen + c) = e /\ Clock(e * DayLen + c) = c
  BY DayAndClock
<1>7. NextMonth(ts) = e * DayLen + c
  BY <1>4, <1>5
<1>8. NextMonth(ts) \in Nat /\ Day(NextMonth(ts)) = d /\ Clock(NextMonth(ts)) = Clock(ts)
  BY <1>5, <1>6, <1>7, Zenon
<1>9. QED
  BY <1>3, <1>8

(* Dates moved by some days keep their time of day. *)
LEMMA MovedDay ==
  ASSUME NEW d \in Dates, NEW n \in Nat
  PROVE  /\ MovedDays(d, n) \in Dates
         /\ Day(MovedDays(d, n).start) = Day(d.start) + n /\ Clock(MovedDays(d, n).start) = Clock(d.start)
         /\ MovedDays(d, n).end - MovedDays(d, n).start = d.end - d.start
         /\ MovedDays(d, n).start = d.start + n * DayLen
<1>1. DayLen \in Nat \ {0} /\ d.start \in Nat /\ d.end \in Nat
  BY CalendarAssumption DEF Dates
<1>2. MovedDays(d, n).start = d.start + n * DayLen /\ MovedDays(d, n).end = d.end + n * DayLen
  BY DEF MovedDays
<1>3. n * DayLen \in Nat
  <2>1. \A a, b \in Nat : a * b \in Nat
    OBVIOUS
  <2>2. QED
    BY <1>1, <2>1
<1>4. PICK a \in Nat, c \in 0..(DayLen - 1) : a = Day(d.start) /\ c = Clock(d.start)
  BY <1>1, DayAndClock
<1>5. d.start = a * DayLen + c
  BY <1>1, <1>4, DayAndClock
<1>6. (a + n) * DayLen = a * DayLen + n * DayLen
  <2>1. \A x, y, z \in Nat : (x + y) * z = x * z + y * z
    OBVIOUS
  <2>2. QED
    BY <1>1, <2>1
<1>7. (a + n) * DayLen \in Nat /\ a * DayLen \in Nat
  <2>1. \A x, y \in Nat : x * y \in Nat
    OBVIOUS
  <2>2. QED
    BY <1>1, <2>1
<1>8. MovedDays(d, n).start = (a + n) * DayLen + c
  BY <1>1, <1>2, <1>3, <1>5, <1>6, <1>7
<1>9. Day((a + n) * DayLen + c) = a + n /\ Clock((a + n) * DayLen + c) = c
  <2>1. \A e \in Nat : Day(e * DayLen + c) = e /\ Clock(e * DayLen + c) = c
    BY DayAndClock
  <2>2. a + n \in Nat
    OBVIOUS
  <2>3. QED
    BY <2>1, <2>2, Zenon
<1>10. Day(MovedDays(d, n).start) = Day(d.start) + n /\ Clock(MovedDays(d, n).start) = Clock(d.start)
  BY <1>4, <1>8, <1>9, Zenon
<1>11. MovedDays(d, n).end - MovedDays(d, n).start = d.end - d.start
  BY <1>1, <1>2, <1>3
<1>12. QED
  BY <1>2, <1>10, <1>11, MovedAreDates

(* A first date is moved on by whole days. *)
LEMMA AdjustedIs ==
  ASSUME NEW type \in RecurrenceType, NEW d \in Dates, NEW time \in Nat
  PROVE  /\ adjust_initital_repeat_date(type, d, time) \in Dates
         /\ adjust_initital_repeat_date(type, d, time).end - adjust_initital_repeat_date(type, d, time).start
              = d.end - d.start
<1>1. PICK f \in Dates : f = Future(d, time) /\ f.end - f.start = d.end - d.start
  <2>1. Future(d, time) \in {d, MovedDays(d, 1)}
    BY DEF Future
  <2>2. MovedDays(d, 1) \in Dates /\ MovedDays(d, 1).end - MovedDays(d, 1).start = d.end - d.start
    BY MovedDay
  <2>3. QED
    BY <2>1, <2>2
<1>2. PICK n : n = AdjustDays(type, Weekday(Day(f.start)))
  OBVIOUS
<1>3. n \in Nat
  <2>1. \A w \in 0..6 : AdjustDays(type, w) \in Nat
    BY DEF AdjustDays
  <2>2. Weekday(Day(f.start)) \in 0..6
    BY DayAndClock, WeekdayMoves DEF Dates
  <2>3. QED
    BY <1>2, <2>1, <2>2
<1>4. adjust_initital_repeat_date(type, d, time) = MovedDays(f, n)
  BY <1>1, <1>2 DEF adjust_initital_repeat_date
<1>5. MovedDays(f, n) \in Dates /\ MovedDays(f, n).end - MovedDays(f, n).start = f.end - f.start
  BY <1>3, MovedDay
<1>6. QED
  BY <1>1, <1>4, <1>5

(* The next occurrence of a series that is not monthly is within a week. *)
LEMMA StepWithinWeek ==
  ASSUME NEW type \in RecurrenceType, type # 3, NEW day \in Nat
  PROVE  StepDays(type, day) \in 1..7
<1>1. CASE type \in WeekdayType
  BY <1>1, StepsToNext
<1>2. CASE type \in {1, 2}
  BY <1>2 DEF StepDays
<1>3. QED
  BY <1>1, <1>2 DEF WeekdayType, RecurrenceType

(* A series goes on day by day, week by week, or as its type says. *)
LEMMA StepIsForward ==
  ASSUME EndlessCalendar, NEW type \in RecurrenceType, NEW d \in Dates
  PROVE  /\ increcdays(type, d) \in Dates
         /\ Day(increcdays(type, d).start) > Day(d.start)
         /\ Clock(increcdays(type, d).start) = Clock(d.start)
<1>1. d.start \in Nat /\ d.end \in Nat /\ Day(d.start) \in Nat
  BY DayAndClock DEF Dates
<1>2. CASE type = 3
  <2>1. increcdays(type, d) = [start |-> NextMonth(d.start), end |-> NextMonth(d.end)]
    BY <1>2 DEF increcdays
  <2>2. QED
    BY <1>1, <2>1, NextMonthIs DEF Dates
<1>3. CASE type # 3
  <2>1. increcdays(type, d) = MovedDays(d, StepDays(type, Day(d.start)))
    BY <1>3 DEF increcdays
  <2>2. StepDays(type, Day(d.start)) \in 1..7
    BY <1>1, <1>3, StepWithinWeek
  <2>3. PICK n \in 1..7 : increcdays(type, d) = MovedDays(d, n)
    BY <2>1, <2>2
  <2>4. /\ MovedDays(d, n) \in Dates /\ Day(MovedDays(d, n).start) = Day(d.start) + n
        /\ Clock(MovedDays(d, n).start) = Clock(d.start)
    BY MovedDay
  <2>5. Day(d.start) + n > Day(d.start)
    BY <1>1
  <2>6. QED
    BY <2>3, <2>4, <2>5
<1>4. QED
  BY <1>2, <1>3

(* So occurrence j + k is k days or more after occurrence j, at the same time. *)
LEMMA OccurrencesGoOn ==
  ASSUME EndlessCalendar, NEW type \in RecurrenceType, NEW from \in Dates
  PROVE  /\ \A k \in Nat : /\ Occurrences(type, from)[k] \in Dates
                           /\ Clock(Occurrences(type, from)[k].start) = Clock(from.start)
         /\ \A j, k \in Nat : Day(Occurrences(type, from)[j].start) + k <= Day(Occurrences(type, from)[j + k].start)
<1> DEFINE occ == Occurrences(type, from)
           S == {k \in Nat : occ[k] \in Dates /\ Clock(occ[k].start) = Clock(from.start)}
<1>1. occ[0] = from /\ \A k \in Nat : occ[k + 1] = increcdays(type, occ[k])
  BY OccurrencesAre
<1> HIDE DEF occ
<1>2. 0 \in S
  BY <1>1
<1>3. ASSUME NEW k \in Nat, k \in S PROVE k + 1 \in S
  BY <1>1, <1>3, StepIsForward
<1>4. \A k \in Nat : occ[k] \in Dates /\ Clock(occ[k].start) = Clock(from.start)
  <2> HIDE DEF S
  <2>1. \A k \in Nat : k \in S
    BY <1>2, <1>3, Induction
  <2>2. QED
    BY <2>1 DEF S
<1>5. \A k \in Nat : Day(occ[k].start) \in Nat
  BY <1>4, DayAndClock DEF Dates
<1>6. ASSUME NEW j \in Nat, NEW n \in Nat PROVE Day(occ[j].start) + n <= Day(occ[j + n].start)
  <2> DEFINE T == {k \in Nat : Day(occ[j].start) + k <= Day(occ[j + k].start)}
  <2>1. 0 \in T
    BY <1>5
  <2>2. ASSUME NEW k \in Nat, k \in T PROVE k + 1 \in T
    <3>1. j + k \in Nat /\ (j + k) + 1 = j + (k + 1) /\ j + (k + 1) \in Nat
      OBVIOUS
    <3>2. Day(occ[j + (k + 1)].start) > Day(occ[j + k].start)
      BY <1>1, <1>4, <3>1, StepIsForward
    <3>3. QED
      BY <1>5, <2>2, <3>1, <3>2
  <2> HIDE DEF T
  <2>3. n \in T
    BY <2>1, <2>2, Induction
  <2>4. QED
    BY <2>3 DEF T
<1>7. QED
  BY <1>4, <1>6 DEF occ

-----------------------------------------------------------------------------
(* No occurrence runs into the next. *)

(* Day a of a month, counted from 0, when the month may be too short for it. *)
LEMMA DayCarries ==
  ASSUME EndlessCalendar, NEW m \in Nat \ {0}, NEW a \in 0..30
  PROVE  LET x == MonthStart[m] + a
             len == MonthStart[m + 1] - MonthStart[m]
         IN  /\ x \in Nat /\ len \in 28..31
             /\ a < len => Month(x) = m /\ DayOfMonth(x) = a
             /\ a >= len => Month(x) = m + 1 /\ DayOfMonth(x) = a - len
<1> DEFINE x == MonthStart[m] + a
           len == MonthStart[m + 1] - MonthStart[m]
<1>1. /\ MonthStart[m] \in Nat /\ MonthStart[m + 1] \in Nat /\ MonthStart[(m + 1) + 1] \in Nat /\ len \in 28..31
      /\ MonthStart[(m + 1) + 1] - MonthStart[m + 1] \in 28..31 /\ m + 1 \in Nat \ {0}
  BY MonthsInOrder
<1>2. x \in Nat
  BY <1>1
<1>3. ASSUME a < len PROVE Month(x) = m /\ DayOfMonth(x) = a
  <2>1. MonthStart[m] <= x /\ x < MonthStart[m + 1]
    BY <1>1, <1>3
  <2> HIDE DEF x
  <2>2. Month(x) = m
    BY <1>2, <2>1, MonthIs
  <2>3. x - MonthStart[m] = a
    BY <1>1 DEF x
  <2>4. QED
    BY <2>2, <2>3 DEF DayOfMonth
<1>4. ASSUME a >= len PROVE Month(x) = m + 1 /\ DayOfMonth(x) = a - len
  <2>1. MonthStart[m + 1] <= x /\ x < MonthStart[(m + 1) + 1]
    BY <1>1, <1>4
  <2>2. x - MonthStart[m + 1] = a - len
    BY <1>1
  <2> HIDE DEF x, len
  <2>3. Month(x) = m + 1
    BY <1>1, <1>2, <2>1, MonthIs
  <2>4. QED
    BY <2>2, <2>3 DEF DayOfMonth
<1>5. QED
  BY <1>1, <1>2, <1>3, <1>4

\* Days s and e a monthly recording of less than a day may be from and to: the
\* day itself or the next; or, carried over the end of a short month apart from
\* each other, the first day of the month s has just left or is just in.
MonthlySpan(s, e) ==
  \/ Month(e) = Month(s) /\ DayOfMonth(e) \in {DayOfMonth(s), DayOfMonth(s) + 1}
  \/ Month(e) = Month(s) + 1 /\ DayOfMonth(e) = 0 /\ DayOfMonth(s) >= 27
  \/ Month(e) = Month(s) /\ DayOfMonth(e) = 0 /\ DayOfMonth(s) <= 2

\* The day NextMonth moves a day to.
MonthOn(day) == MonthStart[Month(day) + 1] + DayOfMonth(day)

(* A day of the month is less than 31, and makes the day with its month. *)
LEMMA DayOfMonthIs ==
  ASSUME EndlessCalendar, NEW day \in Nat
  PROVE  /\ DayOfMonth(day) \in 0..30 /\ Month(day) \in Nat \ {0}
         /\ day = MonthStart[Month(day)] + DayOfMonth(day)
         /\ MonthStart[Month(day)] \in Nat /\ MonthStart[Month(day) + 1] \in Nat
         /\ MonthStart[Month(day) + 1] - MonthStart[Month(day)] \in 28..31
<1>1. PICK m \in Nat \ {0} : m = Month(day)
  BY MonthIs
<1>2. /\ MonthStart[m] \in Nat /\ MonthStart[m + 1] \in Nat /\ MonthStart[m] <= day /\ day < MonthStart[m + 1]
      /\ MonthStart[m + 1] - MonthStart[m] \in 28..31
  BY <1>1, MonthIs, MonthsInOrder
<1>3. DayOfMonth(day) = day - MonthStart[m]
  BY <1>1 DEF DayOfMonth
<1>4. DayOfMonth(day) \in 0..30 /\ day = MonthStart[m] + DayOfMonth(day)
  BY <1>2, <1>3
<1>5. QED
  BY <1>1, <1>2, <1>4

(* A span ends before the next begins, and the next is a span again. *)
LEMMA SpanGoesOn ==
  ASSUME EndlessCalendar, NEW s \in Nat, NEW e \in Nat, MonthlySpan(s, e)
  PROVE  e < MonthOn(s) /\ MonthlySpan(MonthOn(s), MonthOn(e))
<1>1. PICK m \in Nat \ {0}, a \in 0..30 : m = Month(s) /\ a = DayOfMonth(s)
  BY DayOfMonthIs
<1>2. PICK n \in Nat \ {0}, b \in 0..30 : n = Month(e) /\ b = DayOfMonth(e)
  BY DayOfMonthIs
<1>3. /\ s = MonthStart[m] + a /\ e = MonthStart[n] + b
      /\ MonthOn(s) = MonthStart[m + 1] + a /\ MonthOn(e) = MonthStart[n + 1] + b
  BY <1>1, <1>2, DayOfMonthIs DEF MonthOn
<1>q. PICK q \in Nat \ {0} : q = m + 1
  OBVIOUS
<1>4. PICK len : len = MonthStart[q + 1] - MonthStart[q]
  OBVIOUS
<1>c. \A d \in 0..30 : /\ len \in 28..31
                       /\ d < len => Month(MonthStart[q] + d) = q /\ DayOfMonth(MonthStart[q] + d) = d
                       /\ d >= len => Month(MonthStart[q] + d) = q + 1 /\ DayOfMonth(MonthStart[q] + d) = d - len
  BY <1>4, DayCarries
<1>5. /\ len \in 28..31 /\ m + 1 \in Nat \ {0}
      /\ a < len => Month(MonthOn(s)) = m + 1 /\ DayOfMonth(MonthOn(s)) = a
      /\ a >= len => Month(MonthOn(s)) = (m + 1) + 1 /\ DayOfMonth(MonthOn(s)) = a - len
  BY <1>3, <1>q, <1>c
<1>6. MonthStart[m] \in Nat /\ MonthStart[m + 1] \in Nat /\ MonthStart[m + 1] - MonthStart[m] \in 28..31
  BY MonthsInOrder
<1>7. CASE n = m
  <2>1. /\ b < len => Month(MonthOn(e)) = m + 1 /\ DayOfMonth(MonthOn(e)) = b
        /\ b >= len => Month(MonthOn(e)) = (m + 1) + 1 /\ DayOfMonth(MonthOn(e)) = b - len
    BY <1>3, <1>q, <1>c, <1>7
  <2>2. b \in {a, a + 1} \/ (b = 0 /\ a <= 2)
    BY <1>1, <1>2, <1>7 DEF MonthlySpan
  <2>3. e < MonthOn(s)
    BY <1>3, <1>6, <1>7, <2>2
  <2>4. CASE a < len /\ b < len
    BY <1>5, <2>1, <2>2, <2>3, <2>4 DEF MonthlySpan
  <2>5. CASE a >= len /\ b >= len
    <3>1. b - len \in {a - len, (a - len) + 1}
      BY <1>5, <2>2, <2>5
    <3>2. QED
      BY <1>5, <2>1, <2>3, <2>5, <3>1 DEF MonthlySpan
  <2>6. CASE a < len /\ b >= len
    <3>1. b - len = 0 /\ a >= 27
      BY <1>5, <2>2, <2>6
    <3>2. QED
      BY <1>5, <2>1, <2>3, <2>6, <3>1 DEF MonthlySpan
  <2>7. CASE a >= len /\ b < len
    BY <1>5, <2>2, <2>7
  <2>8. QED
    BY <1>5, <2>3, <2>4, <2>5, <2>6, <2>7
<1>8. CASE n # m
  <2>1. n = m + 1 /\ b = 0 /\ a >= 27
    BY <1>1, <1>2, <1>8 DEF MonthlySpan
  <2>2. MonthOn(e) = MonthStart[(m + 1) + 1] + 0 /\ e = MonthStart[m + 1]
    BY <1>3, <1>6, <2>1
  <2>3. Month(MonthOn(e)) = (m + 1) + 1 /\ DayOfMonth(MonthOn(e)) = 0
    <3>1. PICK r \in Nat \ {0}, z \in 0..30 : r = (m + 1) + 1 /\ z = 0
      OBVIOUS
    <3>2. MonthStart[r + 1] - MonthStart[r] \in 28..31
      BY MonthsInOrder
    <3>3. Month(MonthStart[r] + z) = r /\ DayOfMonth(MonthStart[r] + z) = z
      BY <3>1, <3>2, DayCarries
    <3>4. QED
      BY <2>2, <3>1, <3>3
  <2>4. e < MonthOn(s)
    BY <1>3, <1>6, <2>1, <2>2
  <2>5. CASE a < len
    BY <1>5, <2>1, <2>3, <2>4, <2>5 DEF MonthlySpan
  <2>6. CASE a >= len
    <3>1. a - len <= 2
      BY <1>5, <2>6
    <3>2. QED
      BY <1>5, <2>3, <2>4, <2>6, <3>1 DEF MonthlySpan
  <2>7. QED
    BY <1>5, <2>5, <2>6
<1>9. QED
  BY <1>7, <1>8

(* Dates less than a day apart are such a span. *)
LEMMA SpanOfADay ==
  ASSUME EndlessCalendar, NEW s \in Nat, NEW e \in {s, s + 1}
  PROVE  MonthlySpan(s, e)
<1>1. PICK m \in Nat \ {0}, a \in 0..30 : m = Month(s) /\ a = DayOfMonth(s)
  BY DayOfMonthIs
<1>2. /\ s = MonthStart[m] + a /\ MonthStart[m] \in Nat /\ MonthStart[m + 1] \in Nat
      /\ MonthStart[m + 1] - MonthStart[m] \in 28..31 /\ s < MonthStart[m + 1]
  BY <1>1, DayOfMonthIs, MonthIs
<1>3. CASE e = s
  BY <1>3 DEF MonthlySpan
<1>4. CASE e = s + 1 /\ s + 1 < MonthStart[m + 1]
  <2>1. e \in Nat /\ MonthStart[m] <= e /\ e < MonthStart[m + 1]
    BY <1>2, <1>4
  <2>2. Month(e) = m
    BY <2>1, MonthIs
  <2>3. DayOfMonth(e) = a + 1
    BY <1>2, <1>4, <2>2 DEF DayOfMonth
  <2>4. QED
    BY <1>1, <2>2, <2>3 DEF MonthlySpan
<1>5. CASE e = s + 1 /\ s + 1 >= MonthStart[m + 1]
  <2>1. e = MonthStart[m + 1] + 0 /\ a >= 27 /\ m + 1 \in Nat \ {0}
    BY <1>2, <1>5
  <2>2. Month(e) = m + 1 /\ DayOfMonth(e) = 0
    <3>1. PICK q \in Nat \ {0}, z \in 0..30 : q = m + 1 /\ z = 0
      OBVIOUS
    <3>2. MonthStart[q + 1] - MonthStart[q] \in 28..31
      BY MonthsInOrder
    <3>3. Month(MonthStart[q] + z) = q /\ DayOfMonth(MonthStart[q] + z) = z
      BY <3>1, <3>2, DayCarries
    <3>4. QED
      BY <2>1, <3>1, <3>3
  <2>3. QED
    BY <1>1, <2>1, <2>2 DEF MonthlySpan
<1>6. QED
  BY <1>2, <1>3, <1>4, <1>5

\* The dates are less than a day apart, or of a series that began so.
Short(type, d) ==
  /\ d \in Dates
  /\ IF type = 3 THEN MonthlySpan(Day(d.start), Day(d.end)) ELSE d.end < d.start + DayLen

(* The dates of an occurrence end before the next start, and those are short again. *)
LEMMA ShortSteps ==
  ASSUME EndlessCalendar, NEW type \in RecurrenceType, NEW d, Short(type, d)
  PROVE  d.end < increcdays(type, d).start /\ Short(type, increcdays(type, d))
<1>1. /\ d \in Dates /\ d.start \in Nat /\ d.end \in Nat /\ Day(d.start) \in Nat /\ Day(d.end) \in Nat
      /\ increcdays(type, d) \in Dates /\ increcdays(type, d).start \in Nat /\ DayLen \in Nat \ {0}
  BY StepIsForward, DayAndClock, CalendarAssumption DEF Short, Dates
<1>2. CASE type = 3
  <2>1. /\ increcdays(type, d).start = NextMonth(d.start)
        /\ increcdays(type, d).end = NextMonth(d.end)
    BY <1>2 DEF increcdays
  <2>2. /\ Day(NextMonth(d.start)) = MonthOn(Day(d.start))
        /\ Day(NextMonth(d.end)) = MonthOn(Day(d.end))
    BY <1>1, NextMonthIs DEF MonthOn
  <2>3. MonthlySpan(Day(d.start), Day(d.end))
    BY <1>2 DEF Short
  <2>4. /\ Day(d.end) < MonthOn(Day(d.start))
        /\ MonthlySpan(MonthOn(Day(d.start)), MonthOn(Day(d.end)))
    BY <1>1, <2>3, SpanGoesOn
  <2>5. Day(d.end) < Day(increcdays(type, d).start)
    BY <2>1, <2>2, <2>4
  <2>6. d.end < increcdays(type, d).start
    BY <1>1, <2>5, DaysInOrder
  <2>7. QED
    BY <1>1, <1>2, <2>1, <2>2, <2>4, <2>6 DEF Short
<1>3. CASE type # 3
  <2>1. PICK n \in Nat \ {0} : increcdays(type, d) = MovedDays(d, n)
    <3>1. increcdays(type, d) = MovedDays(d, StepDays(type, Day(d.start)))
      BY <1>3 DEF increcdays
    <3>2. StepDays(type, Day(d.start)) \in 1..7
      BY <1>1, <1>3, StepWithinWeek
    <3>3. QED
      BY <3>1, <3>2
  <2>2. /\ MovedDays(d, n).end - MovedDays(d, n).start = d.end - d.start
        /\ MovedDays(d, n).start = d.start + n * DayLen
        /\ MovedDays(d, n) \in Dates
    BY <1>1, MovedDay
  <2>3. n * DayLen >= DayLen /\ n * DayLen \in Nat
    <3>1. \A x, y \in Nat : (x + 1) * y = x * y + y /\ x * y \in Nat
      OBVIOUS
    <3>2. n - 1 \in Nat /\ (n - 1) + 1 = n
      OBVIOUS
    <3>3. ((n - 1) + 1) * DayLen = (n - 1) * DayLen + DayLen /\ (n - 1) * DayLen \in Nat
      BY <1>1, <3>1, <3>2
    <3>4. n * DayLen = (n - 1) * DayLen + DayLen
      BY <3>2, <3>3
    <3>5. QED
      BY <1>1, <3>3, <3>4
  <2>4. d.end < d.start + DayLen
    BY <1>3 DEF Short
  <2>5. MovedDays(d, n).end \in Nat /\ MovedDays(d, n).start \in Nat
    BY <2>2 DEF Dates
  <2>6. d.end < MovedDays(d, n).start /\ MovedDays(d, n).end < MovedDays(d, n).start + DayLen
    BY <1>1, <2>2, <2>3, <2>4, <2>5
  <2>7. QED
    BY <1>3, <2>1, <2>2, <2>6 DEF Short
<1>4. QED
  BY <1>2, <1>3

(* Of a series that begins so no two occurrences overlap. *)
LEMMA OccurrencesApart ==
  ASSUME EndlessCalendar, NEW type \in RecurrenceType, NEW from, Short(type, from)
  PROVE  \A j, k \in Nat : j < k => Occurrences(type, from)[j].end < Occurrences(type, from)[k].start
<1> DEFINE occ == Occurrences(type, from)
           S == {k \in Nat : Short(type, occ[k])}
<1>1. occ[0] = from /\ \A k \in Nat : occ[k + 1] = increcdays(type, occ[k])
  BY OccurrencesAre
<1>2. from \in Dates
  BY DEF Short
<1>3. /\ \A k \in Nat : occ[k] \in Dates
      /\ \A j, k \in Nat : Day(occ[j].start) + k <= Day(occ[j + k].start)
  BY <1>2, OccurrencesGoOn
<1> HIDE DEF occ
<1>4. \A k \in Nat : Short(type, occ[k])
  <2>1. 0 \in S
    BY <1>1
  <2>2. ASSUME NEW k \in Nat, k \in S PROVE k + 1 \in S
    BY <1>1, <2>2, ShortSteps
  <2> HIDE DEF S
  <2>3. \A k \in Nat : k \in S
    BY <2>1, <2>2, Induction
  <2>4. QED
    BY <2>3 DEF S
<1>5. \A k \in Nat : occ[k].end < occ[k + 1].start
  BY <1>1, <1>4, ShortSteps
<1>6. \A k \in Nat : occ[k].start \in Nat /\ occ[k].end \in Nat /\ Day(occ[k].start) \in Nat
  BY <1>3, DayAndClock DEF Dates
<1>7. ASSUME NEW j \in Nat, NEW k \in Nat, j < k PROVE occ[j].end < occ[k].start
  <2>1. CASE k = j + 1
    BY <1>5, <2>1
  <2>2. CASE k > j + 1
    <3>1. PICK n \in Nat \ {0} : k = (j + 1) + n
      <4>1. k - (j + 1) \in Nat \ {0} /\ k = (j + 1) + (k - (j + 1))
        BY <2>2
      <4>2. QED
        BY <4>1
    <3>2. Day(occ[j + 1].start) + n <= Day(occ[k].start)
      BY <1>3, <3>1
    <3>3. occ[j + 1].start < occ[k].start
      <4>1. j + 1 \in Nat
        OBVIOUS
      <4>2. Day(occ[j + 1].start) < Day(occ[k].start)
        BY <1>6, <3>2, <4>1
      <4>3. QED
        BY <1>6, <4>1, <4>2, DaysInOrder
    <3>4. QED
      BY <1>5, <1>6, <3>3
  <2>3. QED
    BY <1>7, <2>1, <2>2
<1>8. QED
  BY <1>7 DEF occ

\* The entry is as long as asked for, which is shorter than a day.
LengthInv ==
  pc \in {"check", "insert", "stored"} =>
    /\ entry \in Dates /\ entry.end = entry.start + cmd.length
    /\ cmd.length \in Nat /\ cmd.length <= MaxLength

LEMMA StepLength == LoopInv /\ LoopInv' /\ LengthInv /\ [Next]_vars => LengthInv'
<1> SUFFICES ASSUME LoopInv, LoopInv', LengthInv, [Next]_vars PROVE LengthInv'
  OBVIOUS
<1>0. cmd.type \in RecurrenceType /\ cmd.length \in Nat /\ MaxLength \in Nat
  BY CommandIs, CommandsAssumption DEF LoopInv
<1>1. ASSUME NEW s, HandOver(s) PROVE LengthInv'
  <2>1. /\ entry' = [start |-> s, end |-> s + cmd.length] /\ UNCHANGED cmd
        /\ pc' = IF cmd.length > MaxLength \/ s < now THEN "refused" ELSE "check"
    BY <1>1 DEF HandOver
  <2>2. CASE pc' = "refused"
    BY <2>2 DEF LengthInv
  <2>3. CASE pc' = "check"
    <3>1. entry' \in Dates
      BY <2>3 DEF LoopInv
    <3>2. entry'.end = entry'.start + cmd.length /\ cmd.length <= MaxLength
      BY <1>0, <2>1, <2>3
    <3>3. QED
      BY <1>0, <2>1, <3>1, <3>2 DEF LengthInv
  <2>4. QED
    BY <2>1, <2>2, <2>3
<1>2. CASE StartToday
  BY <1>1, <1>2 DEF StartToday
<1>3. CASE StartOnDay
  BY <1>1, <1>3 DEF StartOnDay, LengthInv
<1>4. CASE AdjustEntry
  <2>1. /\ pc = "check" /\ UNCHANGED cmd /\ now' \in Nat
        /\ entry' = adjust_initital_repeat_date(cmd.type, entry, now')
    BY <1>4 DEF AdjustEntry, LoopInv
  <2>2. entry \in Dates /\ entry.end = entry.start + cmd.length /\ cmd.length <= MaxLength
    BY <2>1 DEF LengthInv
  <2>3. entry' \in Dates /\ entry'.end - entry'.start = entry.end - entry.start
    BY <1>0, <2>1, <2>2, AdjustedIs
  <2>4. entry.start \in Nat /\ entry'.start \in Nat /\ entry'.end \in Nat
    BY <2>2, <2>3 DEF Dates
  <2>5. entry'.end = entry'.start + cmd.length
    BY <1>0, <2>2, <2>3, <2>4
  <2>6. QED
    BY <1>0, <2>1, <2>2, <2>3, <2>5 DEF LengthInv
<1>5. CASE NumberGiven \/ NumberFromNow
  BY <1>5 DEF NumberGiven, NumberFromNow, LengthInv
<1>6. CASE CheckOccurrence \/ InsertOccurrence \/ Stored \/ UNCHANGED vars
  BY <1>6 DEF CheckOccurrence, InsertOccurrence, Stored, vars, LengthInv
<1>7. QED
  BY <1>2, <1>3, <1>4, <1>5, <1>6 DEF Next

LEMMA LengthKept == Spec => []LengthInv
<1>1. Init => LengthInv
  BY DEF Init, LengthInv
<1>2. QED
  BY <1>1, StepLength, LoopsKept, PTL DEF Spec

(* The dates the loops walk lie apart, as they were short at first. *)
LEMMA LoopsStayApart ==
  ASSUME EndlessCalendar
  PROVE  LoopInv /\ LengthInv => NoSelfOverlap
<1> SUFFICES ASSUME LoopInv, LengthInv PROVE NoSelfOverlap
  OBVIOUS
<1>1. CASE pc \in {"insert", "stored"}
  <2>1. /\ cmd.type \in RecurrenceType /\ entry \in Dates /\ Follows(inserted, cmd.type, entry, i)
        /\ entry.end = entry.start + cmd.length /\ cmd.length <= MaxLength /\ cmd.length \in Nat
    BY <1>1, CommandIs DEF LoopInv, LengthInv
  <2>2. /\ MaxLength \in Nat /\ MaxLength < DayLen /\ DayLen \in Nat \ {0}
        /\ entry.start \in Nat /\ entry.end \in Nat
    BY <2>1, CommandsAssumption, CalendarAssumption DEF Dates
  <2>3. entry.start <= entry.end /\ entry.end < entry.start + DayLen
    BY <2>1, <2>2
  <2>4. Day(entry.end) \in {Day(entry.start), Day(entry.start) + 1}
    <3>1. /\ Day(entry.start) <= Day(entry.end) /\ Day(entry.end) <= Day(entry.start) + 1
          /\ Day(entry.start) \in Nat /\ Day(entry.end) \in Nat
      <4>1. PICK a \in Nat, b \in Nat : a = entry.end /\ b = entry.start
        BY <2>2
      <4>2. b <= a /\ a <= b + DayLen
        BY <2>2, <2>3, <4>1
      <4>3. Day(b) <= Day(a) /\ Day(a) <= Day(b) + 1 /\ Day(a) \in Nat /\ Day(b) \in Nat
        BY <4>2, DaysInOrder, DayAndClock
      <4>4. QED
        BY <4>1, <4>3
    <3>2. QED
      BY <3>1
  <2>5. MonthlySpan(Day(entry.start), Day(entry.end))
    BY <2>2, <2>4, SpanOfADay, DayAndClock
  <2>6. Short(cmd.type, entry)
    BY <2>1, <2>3, <2>5 DEF Short
  <2>7. \A j, k \in Nat :
          j < k => Occurrences(cmd.type, entry)[j].end < Occurrences(cmd.type, entry)[k].start
    BY <2>1, <2>6, OccurrencesApart
  <2>8. /\ DOMAIN inserted = 1..i /\ i \in Nat
        /\ \A k \in 1..i : inserted[k] = Occurrences(cmd.type, entry)[k - 1]
    BY <2>1 DEF Follows
  <2>9. \A m, n \in 1..i : m < n => m - 1 \in Nat /\ n - 1 \in Nat /\ m - 1 < n - 1
    BY <2>8
  <2>10. QED
    BY <2>7, <2>8, <2>9 DEF NoSelfOverlap
<1>2. CASE pc \notin {"insert", "stored"}
  BY <1>2 DEF LoopInv, NoSelfOverlap
<1>3. QED
  BY <1>1, <1>2

(* No occurrence of a series runs into the next, in every calendar with months *)
(* of 28 to 31 days: insertrec checks the occurrences against other recordings *)
(* only.  It rests on the limit of four hours, on both dates of a monthly      *)
(* recording being moved each for itself, and on no month being shorter.       *)
THEOREM NoneRunsIntoTheNext == EndlessCalendar => (Spec => []NoSelfOverlap)
<1> SUFFICES ASSUME EndlessCalendar PROVE Spec => []NoSelfOverlap
  OBVIOUS
<1>1. LoopInv /\ LengthInv => NoSelfOverlap
  BY LoopsStayApart
<1>2. QED
  BY <1>1, LoopsKept, LengthKept, PTL

-----------------------------------------------------------------------------
(* Until an end day. *)

\* n of the occurrences are on the given day or before.
UpTo(type, from, until, n) ==
  /\ n \in Nat
  /\ \A k \in 0..(n - 1) : Day(Occurrences(type, from)[k].start) <= until
  /\ Day(Occurrences(type, from)[n].start) > until

(* A time is up to the end of a day when its day is up to that day. *)
LEMMA EndOfDay ==
  ASSUME NEW until \in Nat, NEW ts \in Nat
  PROVE  ts <= until * DayLen + DayLen - 1 <=> Day(ts) <= until
<1>1. DayLen \in Nat \ {0} /\ \A x, y \in Nat : x * y \in Nat /\ (x + 1) * y = x * y + y
  BY CalendarAssumption
<1>2. PICK e \in Nat, f \in Nat, c \in 0..(DayLen - 1), z \in 0..(DayLen - 1) :
        /\ e = until * DayLen + c /\ f = (until + 1) * DayLen + z
        /\ c = DayLen - 1 /\ z = 0
  <2>1. DayLen - 1 \in 0..(DayLen - 1) /\ 0 \in 0..(DayLen - 1)
    BY <1>1
  <2>2. until * DayLen + (DayLen - 1) \in Nat /\ (until + 1) * DayLen + 0 \in Nat
    BY <1>1
  <2>3. QED
    BY <2>1, <2>2
<1>3. Day(e) = until /\ Day(f) = until + 1 /\ Day(ts) \in Nat
  <2>1. \A d \in Nat : \A x \in 0..(DayLen - 1) : Day(d * DayLen + x) = d
    BY DayAndClock
  <2>2. until + 1 \in Nat
    OBVIOUS
  <2>3. Day(until * DayLen + c) = until
    BY <1>2, <2>1, Zenon
  <2>4. Day((until + 1) * DayLen + z) = until + 1
    BY <1>2, <2>1, <2>2, Zenon
  <2>5. Day(ts) \in Nat
    BY DayAndClock
  <2>6. QED
    BY <1>2, <2>3, <2>4, <2>5, Zenon
<1>4. e = until * DayLen + DayLen - 1 /\ f = e + 1
  BY <1>1, <1>2
<1>5. ts <= e => Day(ts) <= until
  BY <1>3, DaysInOrder
<1>6. ts >= f => Day(ts) >= until + 1
  BY <1>3, DaysInOrder
<1>7. QED
  BY <1>3, <1>4, <1>5, <1>6

(* Count counts the occurrences up to the end day, from any first date. *)
LEMMA CountIs ==
  ASSUME EndlessCalendar, cmd \in Commands, cmd.until # NoDay, NEW ts \in Nat, NEW time \in Nat
  PROVE  UpTo(cmd.type, adjust_initital_repeat_date(cmd.type, [start |-> ts, end |-> ts], time),
              cmd.until, Count(ts, time))
<1> DEFINE from == adjust_initital_repeat_date(cmd.type, [start |-> ts, end |-> ts], time)
           occ == Occurrences(cmd.type, from)
           Eq(f) == f = [n \in Nat |-> IF occ[n].start <= EndOfRepeat THEN f[n + 1] ELSE n]
           c == CHOOSE f : Eq(f)
           In(n) == Day(occ[n].start) <= cmd.until
           S == {n \in Nat : ~In(n)}
<1>1. cmd.until \in Nat /\ cmd.type \in RecurrenceType
  BY CommandIs
<1>2. from \in Dates
  <2>1. [start |-> ts, end |-> ts] \in Dates
    BY DEF Dates
  <2>2. QED
    BY <1>1, <2>1, AdjustedIs
<1>3. Count(ts, time) = c[0]
  BY DEF Count
<1> HIDE DEF from
<1>4. /\ \A k \in Nat : occ[k] \in Dates
      /\ \A j, k \in Nat : Day(occ[j].start) + k <= Day(occ[j + k].start)
  BY <1>1, <1>2, OccurrencesGoOn
<1> HIDE DEF occ
<1>5. \A k \in Nat : occ[k].start \in Nat /\ Day(occ[k].start) \in Nat
  BY <1>4, DayAndClock DEF Dates
<1>6. \A k \in Nat : occ[k].start <= EndOfRepeat <=> In(k)
  BY <1>1, <1>5, EndOfDay DEF EndOfRepeat
<1>7. PICK l \in Nat : ~In(l) /\ \A k \in Nat : k < l => In(k)
  <2>1. cmd.until + 1 \in S
    <3>1. PICK n \in Nat : n = cmd.until + 1
      BY <1>1
    <3>2. 0 \in Nat /\ 0 + n = n
      OBVIOUS
    <3>3. Day(occ[0].start) + n <= Day(occ[0 + n].start)
      BY <1>4, <3>2, Zenon
    <3>4. Day(occ[0].start) + n <= Day(occ[n].start)
      BY <3>2, <3>3
    <3>5. ~In(n)
      BY <1>1, <1>5, <3>1, <3>4
    <3>6. QED
      BY <3>1, <3>5
  <2>2. S \in SUBSET Nat
    OBVIOUS
  <2> HIDE DEF S
  <2>3. PICK l \in S : \A k \in S : l <= k
    BY <2>1, <2>2, LeastOf
  <2>4. l \in Nat /\ ~In(l)
    BY <2>3 DEF S
  <2>5. \A k \in Nat : k < l => In(k)
    BY <2>3, <2>4 DEF S
  <2>6. QED
    BY <2>4, <2>5
<1>8. \A k \in Nat : In(k) <=> k < l
  <2>1. ASSUME NEW k \in Nat, ~(k < l) PROVE ~In(k)
    <3>1. k - l \in Nat /\ l + (k - l) = k
      BY <2>1
    <3>2. Day(occ[l].start) + (k - l) <= Day(occ[k].start)
      BY <1>4, <3>1
    <3>3. QED
      BY <1>1, <1>5, <1>7, <3>1, <3>2
  <2>2. QED
    BY <1>7, <2>1
<1>9. Eq([n \in Nat |-> IF n < l THEN l ELSE n])
  <2>1. PICK g : g = [n \in Nat |-> IF n < l THEN l ELSE n]
    OBVIOUS
  <2>2. ASSUME NEW n \in Nat PROVE g[n] = IF occ[n].start <= EndOfRepeat THEN g[n + 1] ELSE n
    <3>1. occ[n].start <= EndOfRepeat <=> n < l
      BY <1>6, <1>8
    <3>2. n < l => g[n] = l /\ g[n + 1] = l
      BY <2>1
    <3>3. ~(n < l) => g[n] = n
      BY <2>1
    <3>4. QED
      BY <3>1, <3>2, <3>3
  <2>3. g = [n \in Nat |-> IF occ[n].start <= EndOfRepeat THEN g[n + 1] ELSE n]
    BY <2>1, <2>2
  <2>4. QED
    BY <2>1, <2>3
<1>10. Eq(c)
  BY <1>9
<1> HIDE DEF c
<1>11. \A n \in Nat : c[n] = IF n < l THEN c[n + 1] ELSE n
  <2>1. c = [n \in Nat |-> IF occ[n].start <= EndOfRepeat THEN c[n + 1] ELSE n]
    BY <1>10
  <2>2. \A n \in Nat : c[n] = IF occ[n].start <= EndOfRepeat THEN c[n + 1] ELSE n
    BY <2>1
  <2>3. QED
    BY <1>6, <1>8, <2>2
<1>12. c[0] = l
  <2> DEFINE T == {k \in Nat : k <= l => c[l - k] = l}
  <2>1. 0 \in T
    BY <1>11
  <2>2. ASSUME NEW k \in Nat, k \in T PROVE k + 1 \in T
    <3>1. SUFFICES ASSUME k + 1 <= l PROVE c[l - (k + 1)] = l
      OBVIOUS
    <3>2. l - (k + 1) \in Nat /\ l - (k + 1) < l /\ (l - (k + 1)) + 1 = l - k /\ c[l - k] = l
      BY <2>2, <3>1
    <3>3. QED
      BY <1>11, <3>2
  <2> HIDE DEF T
  <2>3. l \in T
    BY <2>1, <2>2, Induction
  <2>4. l <= l /\ l - l = 0
    OBVIOUS
  <2>5. QED
    BY <2>3, <2>4 DEF T
<1>13. \A k \in 0..(l - 1) : k \in Nat /\ k < l
  OBVIOUS
<1>14. \A k \in 0..(l - 1) : Day(occ[k].start) <= cmd.until
  BY <1>8, <1>13
<1>15. Day(occ[l].start) > cmd.until
  BY <1>1, <1>5, <1>7
<1>16. QED
  BY <1>3, <1>12, <1>14, <1>15 DEF UpTo, occ, from

(* A first date on a later day is adjusted by its day of the week only. *)
LEMMA AdjustedLater ==
  ASSUME NEW type \in RecurrenceType, NEW d \in Dates, NEW time \in Nat, Day(d.start) > Day(time)
  PROVE  /\ adjust_initital_repeat_date(type, d, time) \in Dates
         /\ Day(adjust_initital_repeat_date(type, d, time).start)
              = Day(d.start) + AdjustDays(type, Weekday(Day(d.start)))
<1>1. d.start \in Nat /\ Day(d.start) \in Nat /\ Day(time) \in Nat
  BY DayAndClock DEF Dates
<1>2. ~(d.start < time)
  <2>1. d.start < time => Day(d.start) <= Day(time)
    BY <1>1, DaysInOrder
  <2>2. QED
    BY <1>1, <2>1
<1>3. Future(d, time) = d
  BY <1>2 DEF Future
<1>4. PICK n : n = AdjustDays(type, Weekday(Day(d.start)))
  OBVIOUS
<1>5. n \in Nat
  <2>1. \A w \in 0..6 : AdjustDays(type, w) \in Nat
    BY DEF AdjustDays
  <2>2. Weekday(Day(d.start)) \in 0..6
    BY <1>1, WeekdayMoves
  <2>3. QED
    BY <1>4, <2>1, <2>2
<1>6. adjust_initital_repeat_date(type, d, time) = MovedDays(d, n)
  BY <1>3, <1>4 DEF adjust_initital_repeat_date
<1>7. MovedDays(d, n) \in Dates /\ Day(MovedDays(d, n).start) = Day(d.start) + n
  BY <1>5, MovedDay
<1>8. QED
  BY <1>4, <1>6, <1>7

(* The days of a series depend on its first day only, not on its time of day. *)
LEMMA SameDays ==
  ASSUME EndlessCalendar, NEW type \in RecurrenceType, NEW a \in Dates, NEW b \in Dates,
         Day(a.start) = Day(b.start)
  PROVE  \A k \in Nat : Day(Occurrences(type, a)[k].start) = Day(Occurrences(type, b)[k].start)
<1> DEFINE oa == Occurrences(type, a)
           ob == Occurrences(type, b)
           S == {k \in Nat : Day(oa[k].start) = Day(ob[k].start)}
<1>1. /\ oa[0] = a /\ \A k \in Nat : oa[k + 1] = increcdays(type, oa[k])
      /\ ob[0] = b /\ \A k \in Nat : ob[k + 1] = increcdays(type, ob[k])
  BY OccurrencesAre
<1>2. \A k \in Nat : oa[k] \in Dates /\ ob[k] \in Dates
  BY OccurrencesGoOn
<1> HIDE DEF oa, ob
<1>3. 0 \in S
  BY <1>1
<1>4. ASSUME NEW k \in Nat, k \in S PROVE k + 1 \in S
  <2>1. PICK x \in Dates, y \in Dates : x = oa[k] /\ y = ob[k] /\ Day(x.start) = Day(y.start)
    BY <1>2, <1>4
  <2>2. Day(increcdays(type, x).start) = Day(increcdays(type, y).start)
    <3>1. x.start \in Nat /\ y.start \in Nat /\ Day(x.start) \in Nat
      BY DayAndClock DEF Dates
    <3>2. CASE type = 3
      <4>1. increcdays(type, x).start = NextMonth(x.start) /\ increcdays(type, y).start = NextMonth(y.start)
        BY <3>2 DEF increcdays
      <4>2. Day(NextMonth(x.start)) = Day(NextMonth(y.start))
        BY <2>1, <3>1, NextMonthIs
      <4>3. QED
        BY <4>1, <4>2
    <3>3. CASE type # 3
      <4>1. PICK n \in 1..7 : n = StepDays(type, Day(x.start))
        BY <3>1, <3>3, StepWithinWeek
      <4>2. increcdays(type, x) = MovedDays(x, n) /\ increcdays(type, y) = MovedDays(y, n)
        BY <2>1, <3>3, <4>1 DEF increcdays
      <4>3. Day(MovedDays(x, n).start) = Day(x.start) + n /\ Day(MovedDays(y, n).start) = Day(y.start) + n
        BY MovedDay
      <4>4. QED
        BY <2>1, <4>2, <4>3
    <3>4. QED
      BY <3>2, <3>3
  <2>3. QED
    BY <1>1, <2>1, <2>2
<1>5. \A k \in Nat : k \in S
  <2> HIDE DEF S
  <2>1. QED
    BY <1>3, <1>4, Induction
<1>6. QED
  BY <1>5 DEF oa, ob

\* A series asked for from a day on, with its end: its number was counted from that day.
CountedAnew == cmd.until # NoDay /\ ~cmd.short /\ cmd.day # NoDay
Midnight == [start |-> cmd.day * DayLen, end |-> cmd.day * DayLen]

AnewInv ==
  pc \in {"check", "insert", "stored"} /\ CountedAnew =>
    /\ (IF pc = "check" THEN entry ELSE checked[1]).start = cmd.day * DayLen + cmd.clock
    /\ \E time \in Nat :
         /\ time <= now
         /\ UpTo(cmd.type, adjust_initital_repeat_date(cmd.type, Midnight, time), cmd.until, repeat_nbr)

LEMMA StepAnew ==
  ASSUME EndlessCalendar, LoopInv, AnewInv, [Next]_vars
  PROVE  AnewInv'
<1>0. /\ cmd \in Commands /\ now \in Nat /\ DayLen \in Nat \ {0}
      /\ cmd.type \in RecurrenceType /\ cmd.clock \in 0..(DayLen - 1) /\ cmd.day \in Nat \cup {NoDay}
  BY CommandIs, CalendarAssumption DEF LoopInv
<1>1. CASE NumberGiven \/ NumberFromNow
  BY <1>1 DEF NumberGiven, NumberFromNow, AnewInv
<1>2. CASE StartToday
  BY <1>2 DEF StartToday, HandOver, AnewInv, CountedAnew
<1>3. CASE StartOnDay
  <2>1. SUFFICES ASSUME pc' = "check", CountedAnew' PROVE AnewInv'
    BY <1>3 DEF StartOnDay, HandOver, AnewInv
  <2>2. /\ HandOver(cmd.day * DayLen + cmd.clock) /\ cmd.day \in Nat /\ now' \in Nat
        /\ repeat_nbr' = IF Recount THEN Count(cmd.day * DayLen, now') ELSE repeat_nbr
    BY <1>0, <1>3, <2>1 DEF StartOnDay, TimePasses
  <2>3. cmd' = cmd /\ entry'.start = cmd.day * DayLen + cmd.clock
    BY <2>2 DEF HandOver
  <2>4. CountedAnew /\ Recount /\ Midnight' = Midnight
    BY <2>1, <2>3 DEF CountedAnew, Recount, Midnight
  <2>5. cmd.day * DayLen \in Nat
    <3>1. \A x, y \in Nat : x * y \in Nat
      OBVIOUS
    <3>2. QED
      BY <1>0, <2>2, <3>1
  <2>6. UpTo(cmd.type, adjust_initital_repeat_date(cmd.type, Midnight, now'), cmd.until, repeat_nbr')
    <3>1. PICK ts \in Nat, time \in Nat : ts = cmd.day * DayLen /\ time = now'
      BY <2>2, <2>5
    <3>2. UpTo(cmd.type, adjust_initital_repeat_date(cmd.type, [start |-> ts, end |-> ts], time),
               cmd.until, Count(ts, time))
      BY <1>0, <2>4, CountIs DEF CountedAnew
    <3>3. Midnight = [start |-> ts, end |-> ts] /\ repeat_nbr' = Count(ts, time)
      BY <2>2, <2>4, <3>1 DEF Midnight
    <3>4. QED
      BY <3>1, <3>2, <3>3
  <2>7. now' <= now'
    BY <2>2
  <2>8. \E time \in Nat :
          /\ time <= now'
          /\ UpTo(cmd'.type, adjust_initital_repeat_date(cmd'.type, Midnight', time), cmd'.until, repeat_nbr')
    BY <2>2, <2>3, <2>4, <2>6, <2>7
  <2>9. (IF pc' = "check" THEN entry' ELSE checked'[1]).start = cmd'.day * DayLen + cmd'.clock
    BY <2>1, <2>3
  <2>10. QED
    BY <2>8, <2>9 DEF AnewInv
<1>4. CASE CheckOccurrence
  BY <1>4 DEF CheckOccurrence, AnewInv, CountedAnew, Midnight
<1>5. CASE AdjustEntry
  <2>1. SUFFICES ASSUME pc' = "insert", CountedAnew' PROVE AnewInv'
    BY <1>5 DEF AdjustEntry, AnewInv
  <2>2. /\ pc = "check" /\ i = repeat_nbr /\ repeat_nbr > 0 /\ now' \in {now, now + 1}
        /\ UNCHANGED <<cmd, repeat_nbr, checked>>
    BY <1>5, <2>1 DEF AdjustEntry, TimePasses
  <2>3. CountedAnew /\ Midnight' = Midnight
    BY <2>1, <2>2 DEF CountedAnew, Midnight
  <2>4. /\ entry.start = cmd.day * DayLen + cmd.clock
        /\ \E time \in Nat :
             /\ time <= now
             /\ UpTo(cmd.type, adjust_initital_repeat_date(cmd.type, Midnight, time), cmd.until, repeat_nbr)
    BY <2>2, <2>3 DEF AnewInv
  <2>5. checked[1] = entry
    <3>1. Follows(checked, cmd.type, entry, repeat_nbr) /\ repeat_nbr \in Nat
      BY <2>2 DEF LoopInv, Follows
    <3>2. 1 \in 1..repeat_nbr /\ 1 - 1 = 0
      BY <2>2, <3>1
    <3>3. checked[1] = Occurrences(cmd.type, entry)[0]
      BY <3>1, <3>2 DEF Follows
    <3>4. QED
      BY <3>3, OccurrencesAre
  <2>6. \A t \in Nat : t <= now => t <= now'
    BY <1>0, <2>2
  <2>7. \E time \in Nat :
          /\ time <= now'
          /\ UpTo(cmd'.type, adjust_initital_repeat_date(cmd'.type, Midnight', time), cmd'.until, repeat_nbr')
    BY <2>2, <2>3, <2>4, <2>6
  <2>8. (IF pc' = "check" THEN entry' ELSE checked'[1]).start = cmd'.day * DayLen + cmd'.clock
    BY <2>1, <2>2, <2>4, <2>5
  <2>9. QED
    BY <2>7, <2>8 DEF AnewInv
<1>6. CASE InsertOccurrence \/ Stored
  <2>1. /\ pc = "insert" /\ pc' # "check" /\ UNCHANGED <<now, cmd, repeat_nbr, checked>>
    BY <1>6 DEF InsertOccurrence, Stored, loop
  <2>2. QED
    BY <2>1 DEF AnewInv, CountedAnew, Midnight
<1>7. CASE UNCHANGED vars
  BY <1>7 DEF vars, AnewInv, CountedAnew, Midnight
<1>8. QED
  BY <1>1, <1>2, <1>3, <1>4, <1>5, <1>6, <1>7 DEF Next

\* A series asked for with an end day and no end time: its number was counted from a time gone by.
CountedFromNow == cmd.until # NoDay /\ cmd.short

FromNowInv ==
  /\ pc \in {"check", "insert", "stored"} /\ cmd.day # NoDay =>
       (IF pc = "check" THEN entry ELSE checked[1]).start = cmd.day * DayLen + cmd.clock
  /\ pc \in {"date", "check", "insert", "stored"} /\ CountedFromNow =>
       \E ts, time \in Nat :
         /\ ts <= now
         /\ UpTo(cmd.type, adjust_initital_repeat_date(cmd.type, [start |-> ts, end |-> ts], time),
                 cmd.until, repeat_nbr)

LEMMA StepFromNow ==
  ASSUME EndlessCalendar, LoopInv, FromNowInv, [Next]_vars
  PROVE  FromNowInv'
<1> DEFINE Counted(nbr, t) ==
      \E ts, time \in Nat :
        /\ ts <= t
        /\ UpTo(cmd.type, adjust_initital_repeat_date(cmd.type, [start |-> ts, end |-> ts], time),
                cmd.until, nbr)
<1>0. cmd \in Commands /\ now \in Nat
  BY DEF LoopInv
<1>1. cmd' = cmd /\ now' \in {now, now + 1}
  BY DEF Next, NumberGiven, NumberFromNow, StartToday, StartOnDay, HandOver, CheckOccurrence,
     AdjustEntry, InsertOccurrence, Stored, TimePasses, loop, vars
<1>2. \A nbr : Counted(nbr, now) => Counted(nbr, now')
  <2>1. \A ts \in Nat : ts <= now => ts <= now'
    BY <1>0, <1>1
  <2>2. QED
    BY <2>1
<1>3. pc \in {"date", "check", "insert", "stored"} /\ CountedFromNow => Counted(repeat_nbr, now)
  BY DEF FromNowInv
<1>4. pc' \in {"date", "check", "insert", "stored"} /\ CountedFromNow => Counted(repeat_nbr', now')
  <2>1. CASE NumberGiven
    BY <2>1 DEF NumberGiven, CountedFromNow
  <2>2. CASE NumberFromNow
    <3>1. SUFFICES ASSUME pc' = "date" PROVE Counted(repeat_nbr', now')
      BY <2>2 DEF NumberFromNow
    <3>2. cmd.until # NoDay /\ repeat_nbr' = Count(now, now') /\ now' \in Nat /\ now <= now'
      BY <1>0, <1>1, <2>2, <3>1 DEF NumberFromNow
    <3>3. PICK ts \in Nat, time \in Nat : ts = now /\ time = now'
      BY <1>0, <3>2
    <3>4. UpTo(cmd.type, adjust_initital_repeat_date(cmd.type, [start |-> ts, end |-> ts], time),
               cmd.until, Count(ts, time))
      BY <1>0, <3>2, CountIs
    <3>5. ts <= now' /\ repeat_nbr' = Count(ts, time)
      BY <3>2, <3>3
    <3>6. QED
      BY <3>4, <3>5
  <2>3. CASE StartToday
    <3>1. pc = "date" /\ repeat_nbr' = repeat_nbr
      BY <2>3 DEF StartToday
    <3>2. QED
      BY <1>2, <1>3, <3>1
  <2>4. CASE StartOnDay
    <3>1. pc = "date" /\ (CountedFromNow => repeat_nbr' = repeat_nbr)
      BY <2>4 DEF StartOnDay, Recount, CountedFromNow
    <3>2. QED
      BY <1>2, <1>3, <3>1
  <2>5. CASE CheckOccurrence \/ AdjustEntry \/ InsertOccurrence \/ Stored
    <3>1. pc \in {"check", "insert"} /\ repeat_nbr' = repeat_nbr
      BY <2>5 DEF CheckOccurrence, AdjustEntry, InsertOccurrence, Stored
    <3>2. QED
      BY <1>2, <1>3, <3>1
  <2>6. CASE UNCHANGED vars
    <3>1. pc' = pc /\ repeat_nbr' = repeat_nbr
      BY <2>6 DEF vars
    <3>2. QED
      BY <1>2, <1>3, <3>1
  <2>7. QED
    BY <2>1, <2>2, <2>3, <2>4, <2>5, <2>6 DEF Next
<1>5. pc' \in {"check", "insert", "stored"} /\ cmd.day # NoDay =>
        (IF pc' = "check" THEN entry' ELSE checked'[1]).start = cmd.day * DayLen + cmd.clock
  <2>1. CASE NumberGiven \/ NumberFromNow
    BY <2>1 DEF NumberGiven, NumberFromNow
  <2>2. CASE StartToday
    BY <2>2 DEF StartToday
  <2>3. CASE StartOnDay
    BY <2>3 DEF StartOnDay, HandOver
  <2>4. CASE CheckOccurrence
    BY <2>4 DEF CheckOccurrence, FromNowInv
  <2>5. CASE AdjustEntry
    <3>1. SUFFICES ASSUME pc' = "insert", cmd.day # NoDay
                   PROVE  checked'[1].start = cmd.day * DayLen + cmd.clock
      BY <2>5 DEF AdjustEntry
    <3>2. pc = "check" /\ i = repeat_nbr /\ repeat_nbr > 0 /\ checked' = checked
      BY <2>5, <3>1 DEF AdjustEntry
    <3>3. entry.start = cmd.day * DayLen + cmd.clock
      BY <3>1, <3>2 DEF FromNowInv
    <3>4. Follows(checked, cmd.type, entry, repeat_nbr) /\ repeat_nbr \in Nat
      BY <3>2 DEF LoopInv, Follows
    <3>5. 1 \in 1..repeat_nbr /\ 1 - 1 = 0
      BY <3>2, <3>4
    <3>6. checked[1] = Occurrences(cmd.type, entry)[0]
      BY <3>4, <3>5 DEF Follows
    <3>7. QED
      BY <3>2, <3>3, <3>6, OccurrencesAre
  <2>6. CASE InsertOccurrence \/ Stored
    BY <2>6 DEF InsertOccurrence, Stored, loop, FromNowInv
  <2>7. CASE UNCHANGED vars
    BY <2>7 DEF vars, FromNowInv
  <2>8. QED
    BY <2>1, <2>2, <2>3, <2>4, <2>5, <2>6, <2>7 DEF Next
<1>6. CountedFromNow' = CountedFromNow
  BY <1>1 DEF CountedFromNow
<1>7. QED
  BY <1>1, <1>4, <1>5, <1>6 DEF FromNowInv

\* Together, what is known of the number of a series with an end day.
UntilInv == AnewInv /\ FromNowInv

LEMMA StepUntil ==
  ASSUME EndlessCalendar, LoopInv, UntilInv, [Next]_vars
  PROVE  UntilInv'
BY StepAnew, StepFromNow DEF UntilInv

(* The count made from midnight fits the days the loops walk. *)
LEMMA AnewEndsOnTime ==
  ASSUME EndlessCalendar
  PROVE  LoopInv /\ UntilInv /\ pc = "stored" /\ cmd.until # NoDay /\ ~cmd.short /\ cmd.day > Day(now)
           => EndsOnTime
<1> SUFFICES ASSUME LoopInv, AnewInv, pc = "stored", cmd.until # NoDay, ~cmd.short, cmd.day > Day(now)
             PROVE  EndsOnTime
  BY DEF UntilInv
<1>1. /\ cmd.type \in RecurrenceType /\ cmd.clock \in 0..(DayLen - 1) /\ now \in Nat /\ Day(now) \in Nat
      /\ cmd.until \in Nat /\ cmd.day \in Nat /\ DayLen \in Nat \ {0}
  <2>1. cmd \in Commands /\ now \in Nat
    BY DEF LoopInv
  <2>2. Day(now) \in Nat
    BY <2>1, DayAndClock
  <2>3. /\ cmd.type \in RecurrenceType /\ cmd.clock \in 0..(DayLen - 1)
        /\ cmd.until \in Nat \cup {NoDay} /\ cmd.day \in Nat \cup {NoDay}
    BY <2>1, CommandIs
  <2>4. cmd.day # NoDay
    BY <2>2 DEF NoDay
  <2>5. DayLen \in Nat \ {0}
    BY CalendarAssumption
  <2>6. QED
    BY <2>1, <2>2, <2>3, <2>4, <2>5
<1>2. CountedAnew
  BY <1>1 DEF CountedAnew, NoDay
<1>3. /\ repeat_nbr \in Nat /\ i = repeat_nbr /\ checked[1] \in Dates
      /\ entry = adjust_initital_repeat_date(cmd.type, checked[1], now)
      /\ Follows(inserted, cmd.type, entry, i) /\ dates = Occurrences(cmd.type, entry)[i]
  BY DEF LoopInv
<1>4. checked[1].start = cmd.day * DayLen + cmd.clock
  BY <1>2 DEF AnewInv
<1>5. PICK time \in Nat :
        /\ time <= now
        /\ UpTo(cmd.type, adjust_initital_repeat_date(cmd.type, Midnight, time), cmd.until, repeat_nbr)
  BY <1>2 DEF AnewInv
<1>6. Day(time) < cmd.day
  <2>1. Day(time) <= Day(now) /\ Day(time) \in Nat
    BY <1>1, <1>5, DaysInOrder, DayAndClock
  <2>2. QED
    BY <1>1, <2>1
<1>7. PICK z \in 0..(DayLen - 1) : z = 0
  BY <1>1
<1>8. /\ Day(cmd.day * DayLen + cmd.clock) = cmd.day
      /\ cmd.day * DayLen + z \in Nat /\ Day(cmd.day * DayLen + z) = cmd.day
  BY <1>1, DayAndClock, Zenon
<1>9. cmd.day * DayLen + z = cmd.day * DayLen
  BY <1>1, <1>7
<1>10. Midnight \in Dates /\ Day(Midnight.start) = cmd.day
  BY <1>8, <1>9 DEF Midnight, Dates
<1>11. PICK a : a = adjust_initital_repeat_date(cmd.type, Midnight, time)
  OBVIOUS
<1>12. a \in Dates /\ Day(a.start) = cmd.day + AdjustDays(cmd.type, Weekday(cmd.day))
  <2>1. Day(Midnight.start) > Day(time)
    BY <1>6, <1>10, DayAndClock
  <2>2. QED
    BY <1>1, <1>10, <1>11, <2>1, AdjustedLater
<1>13. entry \in Dates /\ Day(entry.start) = cmd.day + AdjustDays(cmd.type, Weekday(cmd.day))
  <2>1. Day(checked[1].start) = cmd.day
    BY <1>4, <1>8
  <2>2. QED
    BY <1>1, <1>3, <2>1, AdjustedLater
<1>14. \A k \in Nat : Day(Occurrences(cmd.type, a)[k].start) = Day(Occurrences(cmd.type, entry)[k].start)
  BY <1>1, <1>12, <1>13, SameDays
<1>15. /\ \A k \in 0..(repeat_nbr - 1) : Day(Occurrences(cmd.type, a)[k].start) <= cmd.until
       /\ Day(Occurrences(cmd.type, a)[repeat_nbr].start) > cmd.until
  BY <1>5, <1>11 DEF UpTo
<1>16. \A k \in Nat : /\ Occurrences(cmd.type, entry)[k].start \in Nat
                      /\ Occurrences(cmd.type, entry)[k].start <= EndOfRepeat
                           <=> Day(Occurrences(cmd.type, entry)[k].start) <= cmd.until
  <2>1. \A k \in Nat : Occurrences(cmd.type, entry)[k].start \in Nat
    BY <1>1, <1>13, OccurrencesGoOn DEF Dates
  <2>2. QED
    BY <1>1, <2>1, EndOfDay DEF EndOfRepeat
<1>17. ASSUME NEW n \in DOMAIN inserted PROVE inserted[n].start <= EndOfRepeat
  <2>1. n \in 1..repeat_nbr /\ inserted[n] = Occurrences(cmd.type, entry)[n - 1]
    BY <1>3 DEF Follows
  <2>2. PICK k \in 0..(repeat_nbr - 1) : k = n - 1
    BY <1>3, <2>1
  <2>3. k \in Nat /\ Day(Occurrences(cmd.type, entry)[k].start) <= cmd.until
    BY <1>3, <1>14, <1>15
  <2>4. QED
    BY <1>16, <2>1, <2>2, <2>3
<1>18. dates.start > EndOfRepeat
  <2>1. Day(Occurrences(cmd.type, entry)[repeat_nbr].start) > cmd.until
    BY <1>3, <1>14, <1>15
  <2>2. /\ dates = Occurrences(cmd.type, entry)[repeat_nbr]
        /\ dates.start \in Nat /\ ~(dates.start <= EndOfRepeat)
    <3>1. dates.start \in Nat /\ (dates.start <= EndOfRepeat <=> Day(dates.start) <= cmd.until)
      BY <1>3, <1>16
    <3>2. Day(dates.start) \in Nat
      BY <3>1, DayAndClock
    <3>3. QED
      BY <1>1, <1>3, <2>1, <3>1, <3>2
  <2>3. EndOfRepeat \in Int
    <3>1. \A x, y \in Nat : x * y \in Nat
      OBVIOUS
    <3>2. cmd.until * DayLen \in Nat
      BY <1>1, <3>1
    <3>3. QED
      BY <1>1, <3>2 DEF EndOfRepeat
  <2>4. QED
    BY <2>2, <2>3
<1>19. QED
  BY <1>17, <1>18 DEF EndsOnTime

(* Adjusting keeps the order of days. *)
LEMMA LaterAdjusted ==
  ASSUME NEW type \in RecurrenceType, NEW a \in Nat, NEW b \in Nat, a <= b
  PROVE  a + AdjustDays(type, Weekday(a)) <= b + AdjustDays(type, Weekday(b))
<1>1. CASE type \in WeekdayType
  <2>1. PICK m : m = AdjustDays(type, Weekday(a))
    OBVIOUS
  <2>2. PICK n : n = AdjustDays(type, Weekday(b))
    OBVIOUS
  <2>3. m \in 0..6 /\ \A k \in 0..(m - 1) : Weekday(a + k) \in SkippedBy(type)
    BY <1>1, <2>1, AdjustedToFirst
  <2>4. n \in 0..6 /\ Weekday(b + n) \notin SkippedBy(type)
    BY <1>1, <2>2, AdjustedToFirst
  <2>5. PICK k \in Nat : a + k = b + n
    <3>1. (b + n) - a \in Nat /\ a + ((b + n) - a) = b + n
      BY <2>4
    <3>2. QED
      BY <3>1
  <2>6. Weekday(a + k) \notin SkippedBy(type)
    BY <2>4, <2>5
  <2>7. ~(k \in 0..(m - 1))
    BY <2>3, <2>6
  <2>8. a + m <= b + n
    BY <2>3, <2>4, <2>5, <2>7
  <2>9. QED
    BY <2>1, <2>2, <2>8
<1>2. CASE type \in {1, 2, 3}
  <2>1. \A w \in 0..6 : AdjustDays(type, w) = 0
    BY <1>2 DEF AdjustDays
  <2>2. Weekday(a) \in 0..6 /\ Weekday(b) \in 0..6
    BY WeekdayMoves
  <2>3. QED
    BY <2>1, <2>2
<1>3. QED
  BY <1>1, <1>2 DEF RecurrenceType, WeekdayType

(* So does going on to the next occurrence, if it is not a month away. *)
LEMMA LaterStep ==
  ASSUME NEW type \in RecurrenceType, type # 3, NEW a \in Nat, NEW b \in Nat, a <= b
  PROVE  a + StepDays(type, a) <= b + StepDays(type, b)
<1>1. CASE type \in WeekdayType
  <2>1. PICK m : m = StepDays(type, a)
    OBVIOUS
  <2>2. PICK n : n = StepDays(type, b)
    OBVIOUS
  <2>3. m \in 1..7 /\ \A k \in 1..(m - 1) : Weekday(a + k) \in SkippedBy(type)
    BY <1>1, <2>1, StepsToNext
  <2>4. n \in 1..7 /\ Weekday(b + n) \notin SkippedBy(type)
    BY <1>1, <2>2, StepsToNext
  <2>5. PICK k \in Nat : a + k = b + n
    <3>1. (b + n) - a \in Nat /\ a + ((b + n) - a) = b + n
      BY <2>4
    <3>2. QED
      BY <3>1
  <2>6. Weekday(a + k) \notin SkippedBy(type)
    BY <2>4, <2>5
  <2>7. ~(k \in 1..(m - 1))
    BY <2>3, <2>6
  <2>8. a + m <= b + n
    BY <2>3, <2>4, <2>5, <2>7
  <2>9. QED
    BY <2>1, <2>2, <2>8
<1>2. CASE type \in {1, 2}
  BY <1>2 DEF StepDays
<1>3. QED
  BY <1>1, <1>2 DEF RecurrenceType, WeekdayType

(* Of two series of one type, not monthly, the one that begins later stays later. *)
LEMMA LaterSeries ==
  ASSUME EndlessCalendar, NEW type \in RecurrenceType, type # 3, NEW a \in Dates, NEW b \in Dates,
         Day(a.start) <= Day(b.start)
  PROVE  \A k \in Nat : Day(Occurrences(type, a)[k].start) <= Day(Occurrences(type, b)[k].start)
<1> DEFINE oa == Occurrences(type, a)
           ob == Occurrences(type, b)
           S == {k \in Nat : Day(oa[k].start) <= Day(ob[k].start)}
<1>1. /\ oa[0] = a /\ \A k \in Nat : oa[k + 1] = increcdays(type, oa[k])
      /\ ob[0] = b /\ \A k \in Nat : ob[k + 1] = increcdays(type, ob[k])
  BY OccurrencesAre
<1>2. \A k \in Nat : oa[k] \in Dates /\ ob[k] \in Dates
  BY OccurrencesGoOn
<1> HIDE DEF oa, ob
<1>3. 0 \in S
  BY <1>1
<1>4. ASSUME NEW k \in Nat, k \in S PROVE k + 1 \in S
  <2>1. PICK x \in Dates, y \in Dates : x = oa[k] /\ y = ob[k] /\ Day(x.start) <= Day(y.start)
    BY <1>2, <1>4
  <2>2. PICK dx \in Nat, dy \in Nat : dx = Day(x.start) /\ dy = Day(y.start)
    BY DayAndClock DEF Dates
  <2>3. PICK m \in 1..7, n \in 1..7 : m = StepDays(type, dx) /\ n = StepDays(type, dy)
    BY StepWithinWeek
  <2>4. dx + m <= dy + n
    BY <2>1, <2>2, <2>3, LaterStep
  <2>5. increcdays(type, x) = MovedDays(x, m) /\ increcdays(type, y) = MovedDays(y, n)
    BY <2>2, <2>3 DEF increcdays
  <2>6. Day(MovedDays(x, m).start) = Day(x.start) + m /\ Day(MovedDays(y, n).start) = Day(y.start) + n
    BY MovedDay
  <2>7. Day(increcdays(type, x).start) <= Day(increcdays(type, y).start)
    BY <2>2, <2>4, <2>5, <2>6
  <2>8. QED
    BY <1>1, <2>1, <2>7
<1>5. \A k \in Nat : k \in S
  <2> HIDE DEF S
  <2>1. QED
    BY <1>3, <1>4, Induction
<1>6. QED
  BY <1>5 DEF oa, ob

(* A day before another, adjusted, is not after the other, adjusted. *)
LEMMA AdjustedSooner ==
  ASSUME NEW type \in RecurrenceType, NEW ts \in Nat, NEW time \in Nat, NEW day \in Nat, Day(ts) < day
  PROVE  LET a == adjust_initital_repeat_date(type, [start |-> ts, end |-> ts], time)
         IN  a \in Dates /\ Day(a.start) <= day + AdjustDays(type, Weekday(day))
<1>1. PICK d \in Dates : d = [start |-> ts, end |-> ts]
  BY DEF Dates
<1>2. Day(ts) \in Nat
  BY DayAndClock
<1>3. PICK f : f = Future(d, time)
  OBVIOUS
<1>4. f \in Dates /\ Day(f.start) <= day
  <2>1. MovedDays(d, 1) \in Dates /\ Day(MovedDays(d, 1).start) = Day(d.start) + 1
    BY MovedDay
  <2>2. d.start = ts
    BY <1>1
  <2>3. QED
    BY <1>2, <1>3, <2>1, <2>2 DEF Future
<1>5. PICK e \in Nat : e = Day(f.start)
  BY <1>4, DayAndClock DEF Dates
<1>6. PICK n : n = AdjustDays(type, Weekday(e))
  OBVIOUS
<1>7. n \in Nat
  <2>1. \A w \in 0..6 : AdjustDays(type, w) \in Nat
    BY DEF AdjustDays
  <2>2. Weekday(e) \in 0..6
    BY WeekdayMoves
  <2>3. QED
    BY <1>6, <2>1, <2>2
<1>8. adjust_initital_repeat_date(type, d, time) = MovedDays(f, n)
  BY <1>3, <1>5, <1>6 DEF adjust_initital_repeat_date
<1>9. MovedDays(f, n) \in Dates /\ Day(MovedDays(f, n).start) = e + n
  BY <1>4, <1>5, <1>7, MovedDay
<1>10. e + n <= day + AdjustDays(type, Weekday(day))
  BY <1>4, <1>5, <1>6, LaterAdjusted
<1>11. QED
  BY <1>1, <1>8, <1>9, <1>10

(* The count made from a time gone by is too high or right, not too low. *)
LEMMA FromNowEndsLate ==
  ASSUME EndlessCalendar
  PROVE  LoopInv /\ UntilInv /\ pc = "stored" /\ cmd.until # NoDay
         /\ cmd.short /\ cmd.type # 3 /\ cmd.day > Day(now)
           => dates.start > EndOfRepeat
<1> SUFFICES ASSUME LoopInv, FromNowInv, pc = "stored", cmd.until # NoDay,
                    cmd.short, cmd.type # 3, cmd.day > Day(now)
             PROVE  dates.start > EndOfRepeat
  BY DEF UntilInv
<1>1. /\ cmd.type \in RecurrenceType /\ cmd.clock \in 0..(DayLen - 1) /\ now \in Nat /\ Day(now) \in Nat
      /\ cmd.until \in Nat /\ cmd.day \in Nat /\ DayLen \in Nat \ {0}
  <2>1. cmd \in Commands /\ now \in Nat
    BY DEF LoopInv
  <2>2. Day(now) \in Nat
    BY <2>1, DayAndClock
  <2>3. /\ cmd.type \in RecurrenceType /\ cmd.clock \in 0..(DayLen - 1)
        /\ cmd.until \in Nat \cup {NoDay} /\ cmd.day \in Nat \cup {NoDay}
    BY <2>1, CommandIs
  <2>4. cmd.day # NoDay
    BY <2>2 DEF NoDay
  <2>5. DayLen \in Nat \ {0}
    BY CalendarAssumption
  <2>6. QED
    BY <2>1, <2>2, <2>3, <2>4, <2>5
<1>2. /\ repeat_nbr \in Nat /\ i = repeat_nbr /\ checked[1] \in Dates
      /\ entry = adjust_initital_repeat_date(cmd.type, checked[1], now)
      /\ dates = Occurrences(cmd.type, entry)[i]
  BY DEF LoopInv
<1>3. checked[1].start = cmd.day * DayLen + cmd.clock
  BY <1>1 DEF FromNowInv, NoDay
<1>4. PICK ts \in Nat, time \in Nat :
        /\ ts <= now
        /\ UpTo(cmd.type, adjust_initital_repeat_date(cmd.type, [start |-> ts, end |-> ts], time),
                cmd.until, repeat_nbr)
  BY DEF FromNowInv, CountedFromNow
<1>5. Day(ts) < cmd.day
  <2>1. Day(ts) <= Day(now) /\ Day(ts) \in Nat
    BY <1>1, <1>4, DaysInOrder, DayAndClock
  <2>2. QED
    BY <1>1, <2>1
<1>6. PICK a : a = adjust_initital_repeat_date(cmd.type, [start |-> ts, end |-> ts], time)
  OBVIOUS
<1>7. a \in Dates /\ Day(a.start) <= cmd.day + AdjustDays(cmd.type, Weekday(cmd.day))
  BY <1>1, <1>5, <1>6, AdjustedSooner
<1>8. entry \in Dates /\ Day(entry.start) = cmd.day + AdjustDays(cmd.type, Weekday(cmd.day))
  <2>1. Day(checked[1].start) = cmd.day
    BY <1>1, <1>3, DayAndClock
  <2>2. QED
    BY <1>1, <1>2, <2>1, AdjustedLater
<1>9. Day(Occurrences(cmd.type, a)[repeat_nbr].start) <= Day(Occurrences(cmd.type, entry)[repeat_nbr].start)
  BY <1>1, <1>2, <1>7, <1>8, LaterSeries
<1>10. Day(Occurrences(cmd.type, a)[repeat_nbr].start) > cmd.until
  BY <1>4, <1>6 DEF UpTo
<1>11. /\ Day(Occurrences(cmd.type, a)[repeat_nbr].start) \in Nat
       /\ dates.start \in Nat /\ Day(dates.start) \in Nat
  <2>1. Occurrences(cmd.type, a)[repeat_nbr].start \in Nat
    BY <1>1, <1>2, <1>7, OccurrencesGoOn DEF Dates
  <2>2. dates.start \in Nat
    BY <1>1, <1>2, <1>8, OccurrencesGoOn DEF Dates
  <2>3. QED
    BY <2>1, <2>2, DayAndClock
<1>12. Day(dates.start) > cmd.until
  BY <1>1, <1>2, <1>9, <1>10, <1>11
<1>13. ~(dates.start <= EndOfRepeat)
  <2>1. dates.start <= EndOfRepeat <=> Day(dates.start) <= cmd.until
    BY <1>1, <1>11, EndOfDay DEF EndOfRepeat
  <2>2. QED
    BY <1>1, <1>11, <1>12, <2>1
<1>14. EndOfRepeat \in Int
  <2>1. \A x, y \in Nat : x * y \in Nat
    OBVIOUS
  <2>2. cmd.until * DayLen \in Nat
    BY <1>1, <2>1
  <2>3. QED
    BY <1>1, <2>2 DEF EndOfRepeat
<1>15. QED
  BY <1>11, <1>13, <1>14

(* What is known of the number is what the property asks. *)
LEMMA LoopsEndOnTime ==
  ASSUME EndlessCalendar
  PROVE  LoopInv /\ UntilInv => UntilFromLaterDay
BY AnewEndsOnTime, FromNowEndsLate DEF UntilFromLaterDay

(* In every calendar: a series asked for from a later day until an end day,    *)
(* with an end time, stops at the end of that day and not before, because      *)
(* _cmd_add counts the occurrences anew from the start of the first day        *)
(* (tvcmd.c), which gives the same days as insertrec's dates as long as no     *)
(* start is past.  Without an end time they are not counted anew: the series   *)
(* may go on past that day, but does not stop before it unless it is monthly.  *)
THEOREM EndsOnItsDay == EndlessCalendar => (Spec => []UntilFromLaterDay)
<1> SUFFICES ASSUME EndlessCalendar PROVE Spec => []UntilFromLaterDay
  OBVIOUS
<1>1. LoopInv /\ UntilInv => UntilFromLaterDay
  BY LoopsEndOnTime
<1>2. Init => UntilInv
  BY DEF Init, UntilInv, AnewInv, FromNowInv
<1>3. LoopInv /\ UntilInv /\ [Next]_vars => UntilInv'
  BY StepUntil
<1>4. QED
  BY <1>1, <1>2, <1>3, LoopsKept, PTL DEF Spec

-----------------------------------------------------------------------------
(* Every day the type names. *)

\* Of the days from a on, b is the first in P.
FirstIn(P, a, b) == b \in P /\ a <= b /\ \A d \in a..(b - 1) : d \notin P

(* One number more. *)
LEMMA OneMore == \A n \in Nat : 0..(n + 1) = (0..n) \cup {n + 1}
OBVIOUS

(* Days each of which is the first due after the one before are all the days due. *)
LEMMA AllTheDue ==
  ASSUME NEW f \in [Nat -> Nat], NEW P \in SUBSET Nat, NEW a \in Nat,
         FirstIn(P, a, f[0]), \A k \in Nat : FirstIn(P, f[k] + 1, f[k + 1])
  PROVE  \A n \in Nat : {d \in a..f[n] : d \in P} = {f[k] : k \in 0..n}
<1> DEFINE Up(n) == {d \in a..f[n] : d \in P}
           Of(n) == {f[k] : k \in 0..n}
           S == {n \in Nat : a <= f[n] /\ Up(n) = Of(n)}
<1>1. 0 \in S
  <2>1. f[0] \in Nat /\ f[0] \in P /\ a <= f[0] /\ \A d \in a..(f[0] - 1) : d \notin P
    BY DEF FirstIn
  <2>2. Up(0) = {f[0]}
    BY <2>1
  <2>3. Of(0) = {f[0]}
    OBVIOUS
  <2>4. QED
    BY <2>1, <2>2, <2>3
<1>2. ASSUME NEW n \in Nat, n \in S PROVE n + 1 \in S
  <2>1. PICK x \in Nat, y \in Nat : x = f[n] /\ y = f[n + 1]
    OBVIOUS
  <2>2. FirstIn(P, x + 1, y)
    BY <2>1
  <2>3. y \in P /\ x + 1 <= y /\ \A d \in (x + 1)..(y - 1) : d \notin P
    BY <2>2 DEF FirstIn
  <2>4. a <= x /\ Up(n) = Of(n)
    BY <1>2, <2>1
  <2>5. {d \in a..y : d \in P} = {d \in a..x : d \in P} \cup {y}
    <3>1. ASSUME NEW d \in a..y, d \in P PROVE d \in a..x \/ d = y
      <4>1. d \notin (x + 1)..(y - 1)
        BY <2>3, <3>1
      <4>2. QED
        BY <3>1, <4>1
    <3>2. a..x \subseteq a..y /\ y \in a..y
      BY <2>3, <2>4
    <3>3. QED
      BY <2>3, <3>1, <3>2
  <2>6. 0..(n + 1) = (0..n) \cup {n + 1}
    BY OneMore
  <2>7. Of(n + 1) = Of(n) \cup {y}
    BY <2>1, <2>6
  <2>8. Up(n + 1) = Up(n) \cup {y}
    BY <2>1, <2>5
  <2>9. a <= y
    BY <2>3, <2>4
  <2>10. a <= f[n + 1] /\ n + 1 \in Nat
    BY <2>1, <2>9
  <2>11. Up(n + 1) = Of(n + 1)
    <3> HIDE DEF Up, Of
    <3>1. QED
      BY <2>4, <2>7, <2>8
  <2>12. QED
    BY <2>10, <2>11
<1> HIDE DEF S
<1>3. \A n \in Nat : n \in S
  BY <1>1, <1>2, Induction
<1>4. QED
  BY <1>3 DEF S

(* Days one after the other are as many as there are numbers. *)
LEMMA NumberOfDays ==
  ASSUME NEW f \in [Nat -> Nat], \A j, k \in Nat : f[j] + k <= f[j + k]
  PROVE  \A n \in Nat : Cardinality({f[k] : k \in 0..n}) = n + 1
<1> DEFINE Of(n) == {f[k] : k \in 0..n}
           S == {n \in Nat : IsFiniteSet(Of(n)) /\ Cardinality(Of(n)) = n + 1}
<1>1. 0 \in S
  <2>1. Of(0) = {f[0]}
    OBVIOUS
  <2>2. IsFiniteSet({f[0]}) /\ Cardinality({f[0]}) = 1
    BY FS_Singleton
  <2>3. 0 \in Nat /\ 0 + 1 = 1
    OBVIOUS
  <2>4. IsFiniteSet(Of(0)) /\ Cardinality(Of(0)) = 0 + 1
    <3> HIDE DEF Of
    <3>1. QED
      BY <2>1, <2>2, <2>3
  <2>5. QED
    BY <2>3, <2>4
<1>2. ASSUME NEW n \in Nat, n \in S PROVE n + 1 \in S
  <2>0. f \in [Nat -> Nat] /\ \A j, k \in Nat : f[j] + k <= f[j + k]
    OBVIOUS
  <2>1. 0..(n + 1) = (0..n) \cup {n + 1}
    BY OneMore
  <2>2. Of(n + 1) = Of(n) \cup {f[n + 1]}
    BY <2>1
  <2>3. f[n + 1] \notin Of(n)
    <3>1. ASSUME NEW k \in 0..n PROVE f[k] < f[n + 1]
      <4>1. PICK m \in Nat : m = (n + 1) - k /\ m > 0 /\ k + m = n + 1
        BY <3>1
      <4>2. k \in Nat /\ f[k] + m <= f[k + m]
        BY <4>1
      <4>3. f[k] \in Nat /\ f[n + 1] \in Nat
        <5>1. n + 1 \in Nat
          OBVIOUS
        <5>2. QED
          BY <2>0, <4>2, <5>1, Zenon
      <4>4. QED
        BY <4>1, <4>2, <4>3
    <3>2. f[n + 1] \in Nat
      OBVIOUS
    <3>3. QED
      BY <3>1, <3>2
  <2>4. IsFiniteSet(Of(n)) /\ Cardinality(Of(n)) = n + 1
    BY <1>2
  <2> HIDE DEF Of
  <2>5. IsFiniteSet(Of(n) \cup {f[n + 1]}) /\ Cardinality(Of(n) \cup {f[n + 1]}) = (n + 1) + 1
    BY <2>3, <2>4, FS_AddElement
  <2>6. IsFiniteSet(Of(n + 1)) /\ Cardinality(Of(n + 1)) = (n + 1) + 1
    BY <2>2, <2>5, Zenon
  <2>7. n + 1 \in Nat
    OBVIOUS
  <2>8. QED
    BY <2>6, <2>7, Zenon
<1> HIDE DEF S
<1>3. \A n \in Nat : n \in S
  BY <1>1, <1>2, Induction
<1>4. QED
  BY <1>3 DEF S

\* The days a series is to have that is asked for from a day on.
DueDays(type, first) ==
  CASE type = 2 -> {d \in Nat : (d - first) % 7 = 0}
    [] type = 3 -> {d \in Nat : DayOfMonth(d) = DayOfMonth(first)}
    [] OTHER -> {d \in Nat : Weekday(d) \in Named(type)}

(* The loops skip the days that the name of the type leaves out, and no others. *)
LEMMA NamedOrSkipped ==
  ASSUME NEW type \in RecurrenceType, type \notin {2, 3}, NEW day \in Nat
  PROVE  Weekday(day) \in Named(type) <=> Weekday(day) \notin SkippedBy(type)
<1>1. PICK w \in 0..6 : w = Weekday(day)
  BY WeekdayMoves
<1>2. w \in Named(type) <=> w \notin SkippedBy(type)
  <2>1. CASE type = 4
    BY <2>1 DEF Named, SkippedBy
  <2>2. CASE type = 5
    BY <2>2 DEF Named, SkippedBy
  <2>3. CASE type = 6
    BY <2>3 DEF Named, SkippedBy
  <2>4. CASE type = 7
    BY <2>4 DEF Named, SkippedBy
  <2>5. CASE type = 8
    BY <2>5 DEF Named, SkippedBy
  <2>6. CASE type = 9
    BY <2>6 DEF Named, SkippedBy
  <2>7. CASE type = 1
    BY <2>7 DEF Named, SkippedBy
  <2>8. QED
    BY <2>1, <2>2, <2>3, <2>4, <2>5, <2>6, <2>7 DEF RecurrenceType
<1>3. QED
  BY <1>1, <1>2

(* The first date of a series is the first day it is due. *)
LEMMA FirstDue ==
  ASSUME NEW type \in RecurrenceType, NEW first \in Nat
  PROVE  FirstIn(DueDays(type, first), first, first + AdjustDays(type, Weekday(first)))
<1> DEFINE P == DueDays(type, first)
<1>1. CASE type \in WeekdayType
  <2>1. PICK n : n = AdjustDays(type, Weekday(first))
    OBVIOUS
  <2>2. /\ n \in 0..6 /\ Weekday(first + n) \notin SkippedBy(type)
        /\ \A m \in 0..(n - 1) : Weekday(first + m) \in SkippedBy(type)
    BY <1>1, <2>1, AdjustedToFirst
  <2>3. type \notin {2, 3} /\ P = {d \in Nat : Weekday(d) \in Named(type)}
    BY <1>1 DEF WeekdayType, DueDays
  <2>4. first + n \in P
    BY <2>2, <2>3, NamedOrSkipped
  <2>5. ASSUME NEW d \in first..((first + n) - 1) PROVE d \notin P
    <3>1. PICK m \in 0..(n - 1) : d = first + m
      <4>1. d - first \in 0..(n - 1) /\ d = first + (d - first)
        BY <2>2
      <4>2. QED
        BY <4>1
    <3>2. d \in Nat /\ Weekday(d) \in SkippedBy(type)
      BY <2>2, <3>1
    <3>3. QED
      BY <2>3, <3>2, NamedOrSkipped
  <2>6. first <= first + n
    BY <2>2
  <2>7. QED
    BY <2>1, <2>4, <2>5, <2>6 DEF FirstIn
<1>2. CASE type \in {1, 2, 3}
  <2>1. \A w \in 0..6 : AdjustDays(type, w) = 0
    BY <1>2 DEF AdjustDays
  <2>2. Weekday(first) \in 0..6
    BY WeekdayMoves
  <2>3. first + AdjustDays(type, Weekday(first)) = first
    BY <2>1, <2>2
  <2>4. first \in P
    <3>1. CASE type = 2
      BY <3>1 DEF DueDays
    <3>2. CASE type = 3
      BY <3>2 DEF DueDays
    <3>3. CASE type = 1
      BY <2>2, <3>3 DEF DueDays, Named
    <3>4. QED
      BY <1>2, <3>1, <3>2, <3>3
  <2>5. FirstIn(P, first, first)
    BY <2>4 DEF FirstIn
  <2>6. QED
    BY <2>3, <2>5
<1>3. QED
  BY <1>1, <1>2 DEF RecurrenceType, WeekdayType

(* The day of the month comes again in the next month, and not before. *)
LEMMA NextInMonth ==
  ASSUME EndlessCalendar, NEW s \in Nat, DayOfMonth(s) < 28
  PROVE  FirstIn({d \in Nat : DayOfMonth(d) = DayOfMonth(s)}, s + 1, MonthOn(s))
<1>1. PICK m \in Nat \ {0}, a \in 0..27 : m = Month(s) /\ a = DayOfMonth(s)
  <2>1. DayOfMonth(s) \in 0..27 /\ Month(s) \in Nat \ {0}
    BY DayOfMonthIs
  <2>2. QED
    BY <2>1
<1>2. PICK q \in Nat \ {0} : q = m + 1
  OBVIOUS
<1>3. /\ s = MonthStart[m] + a /\ MonthOn(s) = MonthStart[q] + a
      /\ MonthStart[m] \in Nat /\ MonthStart[q] \in Nat /\ MonthStart[q + 1] \in Nat
      /\ MonthStart[q] - MonthStart[m] \in 28..31 /\ MonthStart[q + 1] - MonthStart[q] \in 28..31
  BY <1>1, <1>2, DayOfMonthIs, MonthsInOrder DEF MonthOn
<1>4. PICK b \in 0..30 : b = a
  OBVIOUS
<1>5. MonthStart[q] + b \in Nat /\ DayOfMonth(MonthStart[q] + b) = b
  <2>1. MonthStart[q] + b \in Nat /\ MonthStart[q + 1] - MonthStart[q] \in 28..31
        /\ (b < MonthStart[q + 1] - MonthStart[q] => DayOfMonth(MonthStart[q] + b) = b)
    BY DayCarries
  <2>2. QED
    BY <1>4, <2>1
<1>6. ASSUME NEW d \in (s + 1)..((MonthStart[q] + a) - 1) PROVE DayOfMonth(d) # a
  <2>1. d \in Nat /\ d > s /\ d < MonthStart[q] + a
    BY <1>3
  <2>2. CASE d < MonthStart[q]
    <3>1. Month(d) = m
      <4>1. MonthStart[m] <= d /\ d < MonthStart[m + 1]
        BY <1>2, <1>3, <2>1, <2>2
      <4>2. QED
        BY <2>1, <4>1, MonthIs, Zenon
    <3>2. DayOfMonth(d) = d - MonthStart[m]
      BY <3>1 DEF DayOfMonth
    <3>3. QED
      BY <1>3, <2>1, <3>2
  <2>3. CASE d >= MonthStart[q]
    <3>1. Month(d) = q
      <4>1. MonthStart[q] <= d /\ d < MonthStart[q + 1]
        BY <1>3, <2>1, <2>3
      <4>2. QED
        BY <2>1, <4>1, MonthIs, Zenon
    <3>2. DayOfMonth(d) = d - MonthStart[q]
      BY <3>1 DEF DayOfMonth
    <3>3. QED
      BY <1>3, <2>1, <3>2
  <2>4. QED
    BY <1>3, <2>1, <2>2, <2>3
<1>7. s + 1 <= MonthStart[q] + a
  BY <1>3
<1>8. QED
  BY <1>1, <1>3, <1>4, <1>5, <1>6, <1>7 DEF FirstIn

(* The next occurrence is on the next day the series is due. *)
LEMMA NextDue ==
  ASSUME EndlessCalendar, NEW type \in RecurrenceType, NEW first \in Nat,
         type = 3 => DayOfMonth(first) < 28,
         NEW d \in Dates, Day(d.start) \in DueDays(type, first)
  PROVE  FirstIn(DueDays(type, first), Day(d.start) + 1, Day(increcdays(type, d).start))
<1> DEFINE P == DueDays(type, first)
<1>1. PICK s \in Nat : s = Day(d.start) /\ d.start \in Nat
  BY DayAndClock DEF Dates
<1>2. ASSUME type # 3 PROVE Day(increcdays(type, d).start) = s + StepDays(type, s) /\ StepDays(type, s) \in 1..7
  <2>1. PICK n \in 1..7 : n = StepDays(type, s)
    BY <1>2, StepWithinWeek
  <2>2. increcdays(type, d) = MovedDays(d, n)
    BY <1>1, <1>2, <2>1 DEF increcdays
  <2>3. Day(MovedDays(d, n).start) = Day(d.start) + n
    BY MovedDay
  <2>4. QED
    BY <1>1, <2>1, <2>2, <2>3
<1>3. CASE type = 3
  <2>1. P = {x \in Nat : DayOfMonth(x) = DayOfMonth(first)}
    BY <1>3 DEF DueDays
  <2>2. DayOfMonth(s) = DayOfMonth(first) /\ DayOfMonth(s) < 28
    BY <1>1, <1>3, <2>1
  <2>3. Day(increcdays(type, d).start) = MonthOn(s)
    <3>1. increcdays(type, d).start = NextMonth(d.start)
      BY <1>3 DEF increcdays
    <3>2. QED
      BY <1>1, <3>1, NextMonthIs DEF MonthOn
  <2>4. FirstIn({x \in Nat : DayOfMonth(x) = DayOfMonth(s)}, s + 1, MonthOn(s))
    BY <2>2, NextInMonth
  <2>5. QED
    BY <1>1, <2>1, <2>2, <2>3, <2>4
<1>4. CASE type = 2
  <2>1. P = {x \in Nat : (x - first) % 7 = 0}
    BY <1>4 DEF DueDays
  <2>2. StepDays(type, s) = 7
    BY <1>4 DEF StepDays
  <2>3. (s - first) % 7 = 0
    BY <1>1, <2>1
  <2>4. ((s + 7) - first) % 7 = 0 /\ \A x \in (s + 1)..((s + 7) - 1) : (x - first) % 7 # 0
    BY <2>3
  <2>5. FirstIn(P, s + 1, s + 7)
    BY <2>1, <2>4 DEF FirstIn
  <2>6. QED
    BY <1>1, <1>2, <1>4, <2>2, <2>5
<1>5. CASE type \notin {2, 3}
  <2>1. P = {x \in Nat : Weekday(x) \in Named(type)}
    BY <1>5 DEF DueDays
  <2>2. PICK n \in 1..7 : /\ n = StepDays(type, s)
                          /\ Weekday(s + n) \notin SkippedBy(type)
                          /\ \A m \in 1..(n - 1) : Weekday(s + m) \in SkippedBy(type)
    <3>1. CASE type \in WeekdayType
      BY <3>1, StepsToNext
    <3>2. CASE type = 1
      BY <3>2 DEF StepDays, SkippedBy
    <3>3. QED
      BY <1>5, <3>1, <3>2 DEF WeekdayType, RecurrenceType
  <2>3. s + n \in P
    BY <1>5, <2>1, <2>2, NamedOrSkipped
  <2>4. ASSUME NEW x \in (s + 1)..((s + n) - 1) PROVE x \notin P
    <3>1. PICK m \in 1..(n - 1) : x = s + m
      <4>1. x - s \in 1..(n - 1) /\ x = s + (x - s)
        OBVIOUS
      <4>2. QED
        BY <4>1
    <3>2. x \in Nat /\ Weekday(x) \in SkippedBy(type)
      BY <2>2, <3>1
    <3>3. QED
      BY <1>5, <2>1, <3>2, NamedOrSkipped
  <2>5. s + 1 <= s + n
    OBVIOUS
  <2>6. FirstIn(P, s + 1, s + n)
    BY <2>3, <2>4, <2>5 DEF FirstIn
  <2>7. QED
    BY <1>1, <1>2, <1>5, <2>2, <2>6
<1>6. QED
  BY <1>3, <1>4, <1>5

(* The days the loops walk are all the days due. *)
LEMMA LoopsTakeDays ==
  ASSUME EndlessCalendar
  PROVE  LoopInv => EveryNamedDay
<1> SUFFICES ASSUME LoopInv, inserted # <<>> PROVE EveryNamedDay
  BY DEF EveryNamedDay
<1>1. /\ cmd.type \in RecurrenceType /\ now \in Nat /\ checked[1] \in Dates
      /\ entry = adjust_initital_repeat_date(cmd.type, checked[1], now)
      /\ Follows(inserted, cmd.type, entry, i)
  BY CommandIs DEF LoopInv
<1>2. PICK c \in Dates : c = checked[1]
  BY <1>1
<1>3. PICK first \in Nat : first = IF c.start < now THEN Day(c.start) + 1 ELSE Day(c.start)
  <2>1. PICK day \in Nat : day = Day(c.start)
    BY DayAndClock DEF Dates
  <2>2. day + 1 \in Nat
    OBVIOUS
  <2>3. QED
    BY <2>1, <2>2
<1>4. entry \in Dates /\ Day(entry.start) = first + AdjustDays(cmd.type, Weekday(first))
  <2>1. PICK e \in Dates : e = Future(c, now) /\ Day(e.start) = first
    <3>1. CASE c.start < now
      BY <1>3, <3>1, MovedDay DEF Future
    <3>2. CASE ~(c.start < now)
      BY <1>3, <3>2 DEF Future
    <3>3. QED
      BY <3>1, <3>2
  <2>2. PICK n : n = AdjustDays(cmd.type, Weekday(first))
    OBVIOUS
  <2>3. n \in Nat
    <3>1. \A w \in 0..6 : AdjustDays(cmd.type, w) \in Nat
      BY DEF AdjustDays
    <3>2. Weekday(first) \in 0..6
      BY WeekdayMoves
    <3>3. QED
      BY <2>2, <3>1, <3>2
  <2>4. entry = MovedDays(e, n)
    BY <1>1, <1>2, <2>1, <2>2 DEF adjust_initital_repeat_date
  <2>5. MovedDays(e, n) \in Dates /\ Day(MovedDays(e, n).start) = Day(e.start) + n
    BY <2>3, MovedDay
  <2>6. QED
    BY <2>1, <2>2, <2>4, <2>5
<1>5. SUFFICES ASSUME cmd.type = 3 => DayOfMonth(first) < 28
               PROVE  LET last == Day(inserted[Len(inserted)].start)
                          due == CASE cmd.type = 2 -> {d \in first..last : (d - first) % 7 = 0}
                                   [] cmd.type = 3 -> {d \in first..last : DayOfMonth(d) = DayOfMonth(first)}
                                   [] OTHER -> {d \in first..last : Weekday(d) \in Named(cmd.type)}
                      IN  StartDays = due /\ Cardinality(due) = Len(inserted)
  BY <1>2, <1>3 DEF EveryNamedDay
<1>6. PICK P \in SUBSET Nat : P = DueDays(cmd.type, first)
  BY DEF DueDays
<1>7. PICK occ : occ = Occurrences(cmd.type, entry)
  OBVIOUS
<1>8. /\ occ[0] = entry /\ \A k \in Nat : occ[k] \in Dates /\ occ[k + 1] = increcdays(cmd.type, occ[k])
      /\ \A j, k \in Nat : Day(occ[j].start) + k <= Day(occ[j + k].start)
  <2>1. /\ Occurrences(cmd.type, entry)[0] = entry
        /\ \A k \in Nat : Occurrences(cmd.type, entry)[k + 1]
                            = increcdays(cmd.type, Occurrences(cmd.type, entry)[k])
    BY OccurrencesAre
  <2>2. /\ \A k \in Nat : Occurrences(cmd.type, entry)[k] \in Dates
        /\ \A j, k \in Nat : Day(Occurrences(cmd.type, entry)[j].start) + k
                               <= Day(Occurrences(cmd.type, entry)[j + k].start)
    BY <1>1, <1>4, OccurrencesGoOn
  <2>3. QED
    BY <1>7, <2>1, <2>2
<1>9. PICK f \in [Nat -> Nat] : f = [k \in Nat |-> Day(occ[k].start)]
  <2>1. \A k \in Nat : Day(occ[k].start) \in Nat
    BY <1>8, DayAndClock DEF Dates
  <2>2. QED
    BY <2>1
<1>10. FirstIn(P, first, f[0])
  <2>1. FirstIn(DueDays(cmd.type, first), first, first + AdjustDays(cmd.type, Weekday(first)))
    BY <1>1, FirstDue
  <2>2. f[0] = first + AdjustDays(cmd.type, Weekday(first))
    BY <1>4, <1>8, <1>9
  <2>3. QED
    BY <1>6, <2>1, <2>2
<1>11. \A k \in Nat : f[k] \in P => FirstIn(P, f[k] + 1, f[k + 1])
  <2>1. ASSUME NEW k \in Nat, f[k] \in P PROVE FirstIn(P, f[k] + 1, f[k + 1])
    <3>1. PICK d \in Dates : d = occ[k] /\ f[k] = Day(d.start)
      BY <1>8, <1>9
    <3>2. f[k + 1] = Day(increcdays(cmd.type, d).start)
      <4>1. k + 1 \in Nat /\ occ[k + 1] = increcdays(cmd.type, d)
        BY <1>8, <3>1
      <4>2. QED
        BY <1>9, <4>1, Zenon
    <3>3. FirstIn(DueDays(cmd.type, first), Day(d.start) + 1, Day(increcdays(cmd.type, d).start))
      BY <1>1, <1>5, <1>6, <2>1, <3>1, NextDue
    <3>4. QED
      BY <1>6, <3>1, <3>2, <3>3
  <2>2. QED
    BY <2>1
<1>12. \A k \in Nat : f[k] \in P
  <2> DEFINE S == {k \in Nat : f[k] \in P}
  <2>1. 0 \in S
    BY <1>10 DEF FirstIn
  <2>2. ASSUME NEW k \in Nat, k \in S PROVE k + 1 \in S
    BY <1>11, <2>2 DEF FirstIn
  <2> HIDE DEF S
  <2>3. \A k \in Nat : k \in S
    BY <2>1, <2>2, Induction
  <2>4. QED
    BY <2>3 DEF S
<1>13. PICK n \in Nat : n = Len(inserted) - 1 /\ Len(inserted) = n + 1
  <2>1. Len(inserted) \in Nat /\ Len(inserted) # 0
    <3>1. \E S : inserted \in Seq(S)
      BY <1>1 DEF Follows
    <3>2. QED
      BY <3>1
  <2>2. Len(inserted) - 1 \in Nat /\ Len(inserted) = (Len(inserted) - 1) + 1
    BY <2>1
  <2>3. QED
    BY <2>2
<1>14. /\ DOMAIN inserted = 1..(n + 1)
       /\ \A k \in 1..(n + 1) : inserted[k] = occ[k - 1]
  BY <1>1, <1>7, <1>13 DEF Follows
<1>15. StartDays = {f[k] : k \in 0..n}
  <2>1. ASSUME NEW k \in 1..(n + 1) PROVE k - 1 \in 0..n /\ Day(inserted[k].start) = f[k - 1]
    <3>1. k - 1 \in 0..n /\ k - 1 \in Nat
      OBVIOUS
    <3>2. f[k - 1] = Day(occ[k - 1].start)
      BY <1>9, <3>1, Zenon
    <3>3. QED
      BY <1>14, <3>1, <3>2
  <2>2. ASSUME NEW k \in 0..n PROVE k + 1 \in 1..(n + 1) /\ Day(inserted[k + 1].start) = f[k]
    BY <2>1
  <2>3. StartDays \subseteq {f[k] : k \in 0..n}
    BY <1>14, <2>1 DEF StartDays
  <2>4. {f[k] : k \in 0..n} \subseteq StartDays
    BY <1>14, <2>2 DEF StartDays
  <2>5. QED
    BY <2>3, <2>4
<1>16. PICK last \in Nat : last = f[n] /\ last = Day(inserted[Len(inserted)].start)
  <2>1. n + 1 \in 1..(n + 1) /\ (n + 1) - 1 = n
    OBVIOUS
  <2>2. Day(inserted[n + 1].start) = f[n]
    BY <1>9, <1>14, <2>1
  <2>3. QED
    BY <1>13, <2>2
<1>17. {d \in first..last : d \in P} = StartDays
  <2>1. \A k \in Nat : FirstIn(P, f[k] + 1, f[k + 1])
    BY <1>11, <1>12
  <2>2. \A k \in Nat : {d \in first..f[k] : d \in P} = {f[j] : j \in 0..k}
    BY <1>10, <2>1, AllTheDue
  <2>3. QED
    BY <1>15, <1>16, <2>2
<1>18. Cardinality(StartDays) = Len(inserted)
  <2>1. \A j, k \in Nat : f[j] + k <= f[j + k]
    BY <1>8, <1>9
  <2>2. QED
    BY <1>13, <1>15, <2>1, NumberOfDays
<1>19. PICK due : due = CASE cmd.type = 2 -> {d \in first..last : (d - first) % 7 = 0}
                          [] cmd.type = 3 -> {d \in first..last : DayOfMonth(d) = DayOfMonth(first)}
                          [] OTHER -> {d \in first..last : Weekday(d) \in Named(cmd.type)}
  OBVIOUS
<1>20. due = {d \in first..last : d \in P}
  <2>1. \A d \in first..last : d \in Nat
    OBVIOUS
  <2>2. CASE cmd.type = 2
    <3>1. P = {d \in Nat : (d - first) % 7 = 0} /\ due = {d \in first..last : (d - first) % 7 = 0}
      BY <1>6, <1>19, <2>2 DEF DueDays
    <3>2. QED
      BY <2>1, <3>1
  <2>3. CASE cmd.type = 3
    <3>1. /\ P = {d \in Nat : DayOfMonth(d) = DayOfMonth(first)}
          /\ due = {d \in first..last : DayOfMonth(d) = DayOfMonth(first)}
      BY <1>6, <1>19, <2>3 DEF DueDays
    <3>2. QED
      BY <2>1, <3>1
  <2>4. CASE cmd.type \notin {2, 3}
    <3>1. /\ P = {d \in Nat : Weekday(d) \in Named(cmd.type)}
          /\ due = {d \in first..last : Weekday(d) \in Named(cmd.type)}
      BY <1>6, <1>19, <2>4 DEF DueDays
    <3>2. QED
      BY <2>1, <3>1
  <2>5. QED
    BY <2>2, <2>3, <2>4
<1>21. StartDays = due /\ Cardinality(due) = Len(inserted)
  BY <1>17, <1>18, <1>20
<1>22. QED
  BY <1>16, <1>19, <1>21

(* A series takes every day its type names and no other, from the day asked    *)
(* for on, in every calendar and on any number of days: the tables of the      *)
(* adjustment, the loops of the steps and the carry of mktime fit together     *)
(* (adjust_initital_repeat_date, increcdays, insertrec).                       *)
THEOREM TakesItsDays == EndlessCalendar => (Spec => []EveryNamedDay)
<1> SUFFICES ASSUME EndlessCalendar PROVE Spec => []EveryNamedDay
  OBVIOUS
<1>1. LoopInv => EveryNamedDay
  BY LoopsTakeDays
<1>2. QED
  BY <1>1, LoopsKept, PTL

-----------------------------------------------------------------------------
(* The series in the file. *)

\* t is s without its entry n.
Without(t, s, n) ==
  /\ Len(t) = Len(s) - 1
  /\ \A k \in 1..(Len(s) - 1) : t[k] = s[IF k < n THEN k ELSE k + 1]

(* What RemoveAt and Tail leave of a sequence. *)
LEMMA RemovedAt ==
  ASSUME NEW S, NEW s \in Seq(S), NEW n \in DOMAIN s
  PROVE  /\ RemoveAt(s, n) \in Seq(S) /\ Without(RemoveAt(s, n), s, n)
         /\ Tail(s) \in Seq(S) /\ Without(Tail(s), s, 1)
<1>1. Len(s) \in Nat /\ n \in 1..Len(s) /\ s # <<>>
  OBVIOUS
<1>2. PICK a : a = SubSeq(s, 1, n - 1)
  OBVIOUS
<1>3. PICK b : b = SubSeq(s, n + 1, Len(s))
  OBVIOUS
<1>4. a \in Seq(S) /\ Len(a) = n - 1 /\ \A k \in 1..(n - 1) : a[k] = s[k]
  BY <1>1, <1>2
<1>5. b \in Seq(S) /\ Len(b) = Len(s) - n /\ \A k \in 1..(Len(s) - n) : b[k] = s[n + k]
  <2>1. b \in Seq(S)
    BY <1>1, <1>3
  <2>2. CASE n = Len(s)
    BY <1>1, <1>3, <2>1, <2>2
  <2>3. CASE n < Len(s)
    BY <1>1, <1>3, <2>1, <2>3
  <2>4. QED
    BY <1>1, <2>1, <2>2, <2>3
<1>6. PICK t : t = a \o b
  OBVIOUS
<1>7. /\ t \in Seq(S) /\ Len(t) = Len(a) + Len(b)
      /\ \A k \in 1..(Len(a) + Len(b)) : t[k] = IF k <= Len(a) THEN a[k] ELSE b[k - Len(a)]
  BY <1>4, <1>5, <1>6, ConcatProperties
<1>8. Len(t) = Len(s) - 1
  BY <1>1, <1>4, <1>5, <1>7
<1>9. ASSUME NEW k \in 1..(Len(s) - 1) PROVE t[k] = s[IF k < n THEN k ELSE k + 1]
  <2>1. k \in 1..(Len(a) + Len(b)) /\ k \in Nat /\ n \in Nat
    BY <1>1, <1>4, <1>5
  <2>2. CASE k < n
    BY <1>4, <1>7, <2>1, <2>2
  <2>3. CASE ~(k < n)
    <3>1. k - (n - 1) \in 1..(Len(s) - n) /\ n + (k - (n - 1)) = k + 1 /\ ~(k <= n - 1)
      BY <1>1, <2>1, <2>3
    <3>2. t[k] = b[k - (n - 1)]
      BY <1>4, <1>7, <2>1, <3>1
    <3>3. QED
      BY <1>5, <2>3, <3>1, <3>2
  <2>4. QED
    BY <2>2, <2>3
<1>10. RemoveAt(s, n) = t
  BY <1>2, <1>3, <1>6 DEF RemoveAt
<1>11. Tail(s) \in Seq(S) /\ Len(Tail(s)) = Len(s) - 1 /\ \A k \in 1..(Len(s) - 1) : Tail(s)[k] = s[k + 1]
  BY <1>1
<1>12. QED
  BY <1>7, <1>8, <1>9, <1>10, <1>11 DEF Without

(* The occurrences after occurrence j are those of its own dates. *)
LEMMA OccurrencesOn ==
  ASSUME NEW type, NEW from, NEW j \in Nat
  PROVE  \A k \in Nat : Occurrences(type, Occurrences(type, from)[j])[k] = Occurrences(type, from)[j + k]
<1>1. PICK occ : occ = Occurrences(type, from)
  OBVIOUS
<1>2. PICK on : on = Occurrences(type, occ[j])
  OBVIOUS
<1>3. \A k \in Nat : occ[k + 1] = increcdays(type, occ[k])
  BY <1>1, OccurrencesAre
<1>4. on[0] = occ[j] /\ \A k \in Nat : on[k + 1] = increcdays(type, on[k])
  BY <1>2, OccurrencesAre
<1> DEFINE S == {k \in Nat : on[k] = occ[j + k]}
<1>5. 0 \in S
  BY <1>4
<1>6. ASSUME NEW k \in Nat, k \in S PROVE k + 1 \in S
  <2>1. on[k] = occ[j + k] /\ j + k \in Nat /\ j + (k + 1) = (j + k) + 1
    BY <1>6
  <2>2. QED
    BY <1>3, <1>4, <2>1
<1> HIDE DEF S
<1>7. \A k \in Nat : k \in S
  BY <1>5, <1>6, Induction
<1>8. QED
  BY <1>1, <1>2, <1>7 DEF S

\* Dates that are not adjusted.
Adjusted(type, d) == d \in Dates /\ AdjustDays(type, Weekday(Day(d.start))) = 0

(* A day that the loops do not skip needs no adjustment. *)
LEMMA UnskippedIsAdjusted ==
  ASSUME NEW type \in RecurrenceType, NEW day \in Nat, Weekday(day) \notin SkippedBy(type)
  PROVE  AdjustDays(type, Weekday(day)) = 0
<1>1. CASE type \in WeekdayType
  <2>1. PICK n : n = AdjustDays(type, Weekday(day))
    OBVIOUS
  <2>2. n \in 0..6 /\ \A m \in 0..(n - 1) : Weekday(day + m) \in SkippedBy(type)
    BY <1>1, <2>1, AdjustedToFirst
  <2>3. n > 0 => Weekday(day + 0) \in SkippedBy(type)
    BY <2>2
  <2>4. day + 0 = day
    OBVIOUS
  <2>5. QED
    BY <2>1, <2>2, <2>3, <2>4
<1>2. CASE type \notin WeekdayType
  <2>1. type \in {1, 2, 3}
    BY <1>2 DEF RecurrenceType, WeekdayType
  <2>2. QED
    BY <2>1 DEF AdjustDays
<1>3. QED
  BY <1>1, <1>2

(* Dates that start as late as they are read need no moving, once adjusted. *)
LEMMA AdjustedStays ==
  ASSUME NEW type, NEW d, Adjusted(type, d), NEW time \in Nat, time <= d.start
  PROVE  adjust_initital_repeat_date(type, d, time) = d
<1>1. d.start \in Nat /\ d.end \in Nat /\ d = [start |-> d.start, end |-> d.end] /\ DayLen \in Nat
  BY CalendarAssumption DEF Adjusted, Dates
<1>2. Future(d, time) = d
  BY <1>1 DEF Future
<1>3. 0 * DayLen = 0
  BY <1>1
<1>4. MovedDays(d, 0) = d
  BY <1>1, <1>3 DEF MovedDays
<1>5. QED
  BY <1>2, <1>4 DEF adjust_initital_repeat_date, Adjusted

(* insertrec adjusts the dates of a series once: its occurrences need no more of it. *)
LEMMA OccurrencesAreAdjusted ==
  ASSUME EndlessCalendar, NEW type \in RecurrenceType, NEW d \in Dates, NEW time \in Nat
  PROVE  \A k \in Nat : Adjusted(type, Occurrences(type, adjust_initital_repeat_date(type, d, time))[k])
<1>1. PICK from : from = adjust_initital_repeat_date(type, d, time)
  OBVIOUS
<1>2. from \in Dates
  BY <1>1, AdjustedIs
<1>3. PICK occ : occ = Occurrences(type, from)
  OBVIOUS
<1>4. \A k \in Nat : occ[k] \in Dates
  BY <1>2, <1>3, OccurrencesGoOn
<1>5. occ[0] = from /\ \A k \in Nat : occ[k + 1] = increcdays(type, occ[k])
  BY <1>3, OccurrencesAre
<1>6. \A k \in Nat : Day(occ[k].start) \in Nat
  BY <1>4, DayAndClock DEF Dates
<1>7. CASE type \notin WeekdayType
  <2>1. type \in {1, 2, 3}
    BY <1>7 DEF RecurrenceType, WeekdayType
  <2>2. \A w : AdjustDays(type, w) = 0
    BY <2>1 DEF AdjustDays
  <2>3. QED
    BY <1>1, <1>3, <1>4, <2>2 DEF Adjusted
<1>8. CASE type \in WeekdayType
  <2>1. Weekday(Day(from.start)) \notin SkippedBy(type)
    <3>1. PICK f : f = Future(d, time)
      OBVIOUS
    <3>2. f \in Dates
      BY <3>1, MovedAreDates DEF Future
    <3>3. PICK day \in Nat : day = Day(f.start)
      BY <3>2, DayAndClock DEF Dates
    <3>4. PICK n : n = AdjustDays(type, Weekday(day))
      OBVIOUS
    <3>5. n \in Nat /\ Weekday(day + n) \notin SkippedBy(type)
      BY <1>8, <3>4, AdjustedToFirst
    <3>6. from = MovedDays(f, n)
      BY <1>1, <3>1, <3>3, <3>4 DEF adjust_initital_repeat_date
    <3>7. Day(from.start) = day + n
      BY <3>2, <3>3, <3>5, <3>6, MovedDay
    <3>8. QED
      BY <3>5, <3>7
  <2>2. ASSUME NEW k \in Nat PROVE Weekday(Day(occ[k + 1].start)) \notin SkippedBy(type)
    <3>1. PICK e \in Dates : e = occ[k]
      BY <1>4
    <3>2. PICK day \in Nat : day = Day(e.start)
      BY <3>1, <1>6
    <3>3. PICK n : n = StepDays(type, day)
      OBVIOUS
    <3>4. n \in Nat /\ Weekday(day + n) \notin SkippedBy(type)
      BY <1>8, <3>3, StepsToNext
    <3>5. type # 3
      BY <1>8 DEF WeekdayType
    <3>6. occ[k + 1] = MovedDays(e, n)
      BY <1>5, <3>1, <3>2, <3>3, <3>5 DEF increcdays
    <3>7. Day(occ[k + 1].start) = day + n
      BY <3>2, <3>4, <3>6, MovedDay
    <3>8. QED
      BY <3>4, <3>7
  <2>3. ASSUME NEW k \in Nat PROVE Weekday(Day(occ[k].start)) \notin SkippedBy(type)
    <3>1. CASE k = 0
      BY <1>5, <2>1, <3>1
    <3>2. CASE k # 0
      <4>1. k - 1 \in Nat /\ (k - 1) + 1 = k
        BY <3>2
      <4>2. QED
        BY <2>2, <4>1
    <3>3. QED
      BY <3>1, <3>2
  <2>4. \A k \in Nat : AdjustDays(type, Weekday(Day(occ[k].start))) = 0
    BY <1>6, <2>3, UnskippedIsAdjusted
  <2>5. QED
    BY <1>1, <1>3, <1>4, <2>4 DEF Adjusted
<1>9. QED
  BY <1>7, <1>8

\* What the loop of insertrec has made of a record, before each of its turns.
Loop(rec, first, made, num) ==
  /\ DOMAIN made = 0..num /\ made[0] = <<>>
  /\ \A k \in 1..num :
       made[k] = IF k - 1 + rec.number \in rec.excludes THEN made[k - 1]
                 ELSE Append(made[k - 1],
                             Occurrence(Occurrences(rec.type, first)[Len(made[k - 1])], first,
                                        rec.num, rec.number, k - 1, rec.mangling))

(* insertrec returns what its loop has made at its end. *)
LEMMA LoopOfInsertrec ==
  ASSUME NEW rec, rec.num \in Nat, NEW time, NEW first,
         first = adjust_initital_repeat_date(rec.type, [start |-> rec.start, end |-> rec.end], time)
  PROVE  \E made : Loop(rec, first, made, rec.num) /\ insertrec(rec, time) = made[rec.num]
<1> DEFINE Turn(k, before) ==
             IF k - 1 + rec.number \in rec.excludes THEN before
             ELSE Append(before, Occurrence(Occurrences(rec.type, first)[Len(before)], first,
                                            rec.num, rec.number, k - 1, rec.mangling))
           L(f, m) == DOMAIN f = 0..m /\ f[0] = <<>> /\ \A k \in 1..m : f[k] = Turn(k, f[k - 1])
           S == {m \in Nat : \E f : L(f, m)}
           Eq(f) == f = [k \in 0..rec.num |-> IF k = 0 THEN <<>> ELSE Turn(k, f[k - 1])]
           made == CHOOSE f : Eq(f)
<1>1. insertrec(rec, time) = made[rec.num]
  BY DEF insertrec
<1>2. \A f : Loop(rec, first, f, rec.num) <=> L(f, rec.num)
  BY DEF Loop
<1> HIDE DEF Turn
<1>3. 0 \in S
  <2>1. L([k \in 0..0 |-> <<>>], 0)
    OBVIOUS
  <2>2. QED
    BY <2>1
<1>4. ASSUME NEW m \in Nat, m \in S PROVE m + 1 \in S
  <2>1. PICK f : L(f, m)
    BY <1>4
  <2> DEFINE g == [k \in 0..(m + 1) |-> IF k = m + 1 THEN Turn(m + 1, f[m]) ELSE f[k]]
  <2>2. g[m + 1] = Turn(m + 1, f[m]) /\ \A k \in 0..m : g[k] = f[k]
    OBVIOUS
  <2>3. DOMAIN g = 0..(m + 1)
    OBVIOUS
  <2> HIDE DEF g
  <2>4. ASSUME NEW k \in 1..(m + 1) PROVE g[k] = Turn(k, g[k - 1])
    <3>1. CASE k = m + 1
      <4>1. k - 1 = m /\ g[m] = f[m]
        BY <2>2, <3>1
      <4>2. QED
        BY <2>2, <3>1, <4>1
    <3>2. CASE k \in 1..m
      <4>1. k \in 0..m /\ k - 1 \in 0..m
        BY <3>2
      <4>2. f[k] = Turn(k, f[k - 1])
        BY <2>1, <3>2
      <4>3. QED
        BY <2>2, <4>1, <4>2
    <3>3. QED
      BY <3>1, <3>2
  <2>5. L(g, m + 1)
    <3>1. g[0] = <<>>
      BY <2>1, <2>2
    <3>2. QED
      BY <2>3, <2>4, <3>1
  <2>6. QED
    BY <2>5
<1>5. \E f : L(f, rec.num)
  <2> HIDE DEF S
  <2>1. rec.num \in S
    BY <1>3, <1>4, Induction
  <2>2. QED
    BY <2>1 DEF S
<1>6. PICK f : L(f, rec.num)
  BY <1>5
<1>7. Eq(f)
  <2>1. \A k \in 0..rec.num : k # 0 => k \in 1..rec.num
    OBVIOUS
  <2>2. \A k \in 0..rec.num : f[k] = IF k = 0 THEN <<>> ELSE Turn(k, f[k - 1])
    BY <1>6, <2>1
  <2>3. f = [k \in 0..rec.num |-> f[k]]
    BY <1>6
  <2>4. QED
    BY <2>2, <2>3
<1>8. Eq(made)
  BY <1>7
<1>9. PICK d : d = made
  OBVIOUS
<1>10. d = [k \in 0..rec.num |-> IF k = 0 THEN <<>> ELSE Turn(k, d[k - 1])]
  BY <1>8, <1>9
<1>11. L(d, rec.num)
  <2>1. DOMAIN d = 0..rec.num /\ 0 \in 0..rec.num /\ \A k \in 1..rec.num : k \in 0..rec.num /\ k # 0
    BY <1>10
  <2>2. d[0] = <<>>
    BY <1>10, <2>1
  <2>3. \A k \in 1..rec.num : d[k] = Turn(k, d[k - 1])
    BY <1>10, <2>1
  <2>4. QED
    BY <2>1, <2>2, <2>3
<1>12. QED
  BY <1>1, <1>2, <1>9, <1>11

(* A sequence given entry by entry, and one entry more. *)
LEMMA OneEntryMore ==
  ASSUME NEW f, NEW n \in Nat
  PROVE  /\ Len([k \in 1..n |-> f[k]]) = n
         /\ Append([k \in 1..n |-> f[k]], f[n + 1]) = [k \in 1..(n + 1) |-> f[k]]
<1> DEFINE S == {f[k] : k \in 1..(n + 1)}
<1>1. PICK s : s = [k \in 1..n |-> f[k]]
  OBVIOUS
<1>2. s \in Seq(S) /\ Len(s) = n
  BY <1>1
<1>3. f[n + 1] \in S
  OBVIOUS
<1>4. PICK t : t = Append(s, f[n + 1])
  OBVIOUS
<1>5. /\ t \in Seq(S) /\ Len(t) = n + 1 /\ t[n + 1] = f[n + 1]
      /\ \A k \in 1..n : t[k] = s[k]
  <2> HIDE DEF S
  <2>1. QED
    BY <1>2, <1>3, <1>4
<1>6. \A k \in 1..(n + 1) : t[k] = f[k]
  BY <1>1, <1>5
<1>7. DOMAIN t = 1..(n + 1) /\ t = [k \in DOMAIN t |-> t[k]]
  BY <1>5
<1>8. t = [k \in 1..(n + 1) |-> f[k]]
  BY <1>6, <1>7
<1>9. QED
  BY <1>1, <1>2, <1>4, <1>8

\* Of the occurrences of a record, those not excluded, in their order: len of them, p[n] the n-th.
Kept(rec, len, p) ==
  /\ rec.num \in Nat /\ rec.number \in Int /\ len \in Nat
  /\ p \in [1..len -> 0..(rec.num - 1)]
  /\ \A m, n \in 1..len : m < n => p[m] < p[n]
  /\ \A k \in 0..(rec.num - 1) : k + rec.number \notin rec.excludes <=> \E n \in 1..len : p[n] = k

(***************************************************************************)
(* Of the occurrences of a record, insertrec makes those not excluded, in  *)
(* their order and with their numbers, on the dates next to each other.    *)
(***************************************************************************)
LEMMA MakesTheKept ==
  ASSUME NEW rec, NEW time, NEW first, NEW len, NEW p, Kept(rec, len, p),
         first = adjust_initital_repeat_date(rec.type, [start |-> rec.start, end |-> rec.end], time)
  PROVE  /\ Len(insertrec(rec, time)) = len
         /\ \A n \in 1..len :
              insertrec(rec, time)[n] = Occurrence(Occurrences(rec.type, first)[n - 1], first,
                                                   rec.num, rec.number, p[n], rec.mangling)
<1> DEFINE Of(l, k) == Occurrence(Occurrences(rec.type, first)[l], first, rec.num, rec.number, k, rec.mangling)
<1> rec.num \in Nat /\ len \in Nat
  BY DEF Kept
<1> /\ p \in [1..len -> 0..(rec.num - 1)]
    /\ \A m, n \in 1..len : m < n => p[m] < p[n]
    /\ \A k \in 0..(rec.num - 1) : k + rec.number \notin rec.excludes <=> \E n \in 1..len : p[n] = k
  BY DEF Kept
<1>1. PICK made : Loop(rec, first, made, rec.num) /\ insertrec(rec, time) = made[rec.num]
  BY LoopOfInsertrec
<1>2. \A k \in 1..rec.num :
        made[k] = IF k - 1 + rec.number \in rec.excludes THEN made[k - 1]
                  ELSE Append(made[k - 1], Of(Len(made[k - 1]), k - 1))
  BY <1>1 DEF Loop
<1> HIDE DEF Of
<1>3. PICK f : f = [n \in 1..len |-> Of(n - 1, p[n])]
  OBVIOUS
<1> DEFINE Q(k) == \E l \in 0..len : /\ made[k] = [n \in 1..l |-> f[n]]
                                     /\ \A n \in 1..l : p[n] < k
                                     /\ \A n \in (l + 1)..len : p[n] >= k
           T == {k \in Nat : k <= rec.num => Q(k)}
<1>4. 0 \in T
  <2>1. made[0] = [n \in 1..0 |-> f[n]]
    BY <1>1 DEF Loop
  <2>2. 0 \in 0..len /\ (\A n \in 1..0 : p[n] < 0) /\ \A n \in (0 + 1)..len : p[n] >= 0
    OBVIOUS
  <2>3. Q(0)
    BY <2>1, <2>2, Zenon
  <2> HIDE DEF Q
  <2>4. QED
    BY <2>3
<1>5. ASSUME NEW k \in Nat, k \in T PROVE k + 1 \in T
  <2>1. SUFFICES ASSUME k + 1 <= rec.num PROVE Q(k + 1)
    <3> HIDE DEF Q
    <3>1. QED
      OBVIOUS
  <2>9. Q(k)
    <3> HIDE DEF Q
    <3>1. QED
      BY <1>5, <2>1
  <2>2. PICK l \in 0..len : /\ made[k] = [n \in 1..l |-> f[n]]
                            /\ \A n \in 1..l : p[n] < k
                            /\ \A n \in (l + 1)..len : p[n] >= k
    BY <2>9
  <2>3. k + 1 \in 1..rec.num /\ (k + 1) - 1 = k /\ k \in 0..(rec.num - 1) /\ l \in Nat
    BY <2>1 DEF Kept
  <2>4. made[k + 1] = IF k + rec.number \in rec.excludes THEN made[k]
                      ELSE Append(made[k], Of(Len(made[k]), k))
    BY <1>2, <2>3
  <2>5. k + rec.number \notin rec.excludes <=> \E n \in 1..len : p[n] = k
    BY <2>3
  <2>6. CASE k + rec.number \in rec.excludes
    <3>1. \A n \in 1..len : p[n] # k /\ p[n] \in Int
      BY <2>5, <2>6
    <3>2. made[k + 1] = [n \in 1..l |-> f[n]]
      BY <2>2, <2>4, <2>6
    <3>3. \A n \in 1..l : p[n] < k + 1
      BY <2>2, <3>1
    <3>4. \A n \in (l + 1)..len : p[n] >= k + 1
      BY <2>2, <3>1
    <3>5. QED
      BY <3>2, <3>3, <3>4
  <2>7. CASE k + rec.number \notin rec.excludes
    <3>1. PICK q \in 1..len : p[q] = k
      BY <2>5, <2>7
    <3>2. q = l + 1
      <4>1. q > l
        BY <2>2, <3>1
      <4>2. ~(q > l + 1)
        <5>1. SUFFICES ASSUME q > l + 1 PROVE FALSE
          OBVIOUS
        <5>2. l + 1 \in 1..len /\ l + 1 \in (l + 1)..len
          BY <2>3, <5>1
        <5>3. p[l + 1] < k /\ p[l + 1] >= k /\ p[l + 1] \in Int
          BY <2>2, <3>1, <5>1, <5>2
        <5>4. QED
          BY <5>3
      <4>3. QED
        BY <2>3, <4>1, <4>2
    <3>3. l + 1 \in 0..len /\ (l + 1) - 1 = l
      BY <2>3, <3>2 DEF Kept
    <3>4. f[l + 1] = Of(l, k)
      BY <1>3, <3>1, <3>2, <3>3
    <3>5. made[k + 1] = [n \in 1..(l + 1) |-> f[n]]
      <4>1. Len(made[k]) = l /\ Append(made[k], f[l + 1]) = [n \in 1..(l + 1) |-> f[n]]
        BY <2>2, <2>3, OneEntryMore
      <4>2. QED
        BY <2>4, <2>7, <3>4, <4>1
    <3>6. \A n \in 1..(l + 1) : p[n] < k + 1
      <4>1. \A n \in 1..(l + 1) : n \in 1..l \/ n = l + 1
        BY <2>3
      <4>2. \A n \in 1..l : p[n] < k + 1
        <5>1. \A n \in 1..l : p[n] \in Int
          BY <2>3
        <5>2. QED
          BY <2>2, <5>1
      <4>3. QED
        BY <3>1, <3>2, <4>1, <4>2
    <3>7. \A n \in ((l + 1) + 1)..len : p[n] >= k + 1
      <4>1. SUFFICES ASSUME NEW n \in ((l + 1) + 1)..len PROVE p[n] >= k + 1
        OBVIOUS
      <4>2. n \in 1..len /\ l + 1 < n /\ l + 1 \in 1..len
        BY <2>3, <3>2
      <4>3. p[l + 1] < p[n] /\ p[n] \in Int
        BY <4>2
      <4>4. QED
        BY <3>1, <3>2, <4>3
    <3>8. QED
      BY <3>3, <3>5, <3>6, <3>7
  <2>8. QED
    BY <2>6, <2>7
<1>6. Q(rec.num)
  <2> HIDE DEF T
  <2>1. rec.num \in T
    BY <1>4, <1>5, Induction
  <2> HIDE DEF Q
  <2>2. QED
    BY <2>1 DEF T
<1>7. PICK l \in 0..len : made[rec.num] = [n \in 1..l |-> f[n]] /\ \A n \in (l + 1)..len : p[n] >= rec.num
  BY <1>6
<1>8. l = len
  <2>1. SUFFICES ASSUME l < len PROVE FALSE
    OBVIOUS
  <2>2. len \in (l + 1)..len /\ len \in 1..len
    BY <2>1
  <2>3. p[len] >= rec.num /\ p[len] \in 0..(rec.num - 1)
    BY <1>7, <2>2
  <2>4. QED
    BY <2>3
<1>9. made[rec.num] = [n \in 1..len |-> f[n]]
  BY <1>7, <1>8
<1>10. Len(made[rec.num]) = len
  BY <1>9, OneEntryMore
<1>11. \A n \in 1..len : made[rec.num][n] = Of(n - 1, p[n])
  BY <1>3, <1>9
<1>12. QED
  BY <1>1, <1>10, <1>11 DEF Of

\* The values of a function.
Values(g) == {g[k] : k \in DOMAIN g}

(***************************************************************************)
(* s is what is left of the series g that is numbered from `from': entry n *)
(* is occurrence p[n] of it; those missing after the first one left are    *)
(* the ones with an excluded number.                                       *)
(***************************************************************************)
LeftOf(s, numbers, g, from, p) ==
  /\ s \in Seq(Values(g))
  /\ p \in [1..Len(s) -> DOMAIN g]
  /\ \A m, n \in 1..Len(s) : m < n => p[m] < p[n]
  /\ \A n \in 1..Len(s) : s[n] = g[p[n]]
  /\ \A k \in DOMAIN g : s # <<>> /\ p[1] < k =>
       (k + from \in numbers <=> \A n \in 1..Len(s) : p[n] # k)

(* One entry recorded, or deleted and its number excluded. *)
LEMMA OneLess ==
  ASSUME NEW s, NEW numbers, NEW g, NEW from \in Int, NEW p, LeftOf(s, numbers, g, from, p),
         DOMAIN g \in SUBSET Nat, NEW n \in 1..Len(s),
         NEW t \in Seq(Values(g)), Without(t, s, n),
         NEW fewer, fewer = numbers \cup {p[n] + from} \/ (n = 1 /\ fewer = numbers)
  PROVE  \E q : LeftOf(t, fewer, g, from, q)
<1>1. /\ Len(s) \in Nat /\ n \in Nat /\ n <= Len(s) /\ 1 <= n /\ Len(t) = Len(s) - 1 /\ Len(t) \in Nat
      /\ \A k \in 1..Len(t) : t[k] = s[IF k < n THEN k ELSE k + 1]
  <2>1. Len(s) \in Nat /\ Len(t) \in Nat
    <3> DEFINE S == Values(g)
    <3>1. s \in Seq(S) /\ t \in Seq(S)
      BY DEF LeftOf
    <3> HIDE DEF S
    <3>2. QED
      BY <3>1
  <2>2. QED
    BY <2>1 DEF Without
<1>2. p \in [1..Len(s) -> DOMAIN g] /\ \A k \in 1..Len(s) : p[k] \in Int /\ s[k] = g[p[k]]
  <2>1. p \in [1..Len(s) -> DOMAIN g] /\ \A k \in 1..Len(s) : s[k] = g[p[k]]
    BY DEF LeftOf
  <2>2. \A k \in 1..Len(s) : p[k] \in DOMAIN g
    BY <2>1
  <2>3. \A x \in DOMAIN g : x \in Int
    OBVIOUS
  <2>4. QED
    BY <2>1, <2>2, <2>3
<1>3. \A k, m \in 1..Len(s) : k < m => p[k] < p[m]
  BY DEF LeftOf
<1> DEFINE J(k) == IF k < n THEN k ELSE k + 1
<1>4. \A k \in 1..Len(t) : J(k) \in 1..Len(s) /\ J(k) # n
  BY <1>1
<1>5. \A k, m \in 1..Len(t) : k < m => J(k) < J(m)
  BY <1>1
<1>6. \A m \in 1..Len(s) : m # n => \E k \in 1..Len(t) : J(k) = m
  <2>1. SUFFICES ASSUME NEW m \in 1..Len(s), m # n PROVE \E k \in 1..Len(t) : J(k) = m
    OBVIOUS
  <2>2. CASE m < n
    <3>1. m \in 1..Len(t) /\ J(m) = m
      BY <1>1, <2>2
    <3>2. QED
      BY <3>1
  <2>3. CASE m > n
    <3>1. m - 1 \in 1..Len(t) /\ J(m - 1) = m
      BY <1>1, <2>3
    <3>2. QED
      BY <3>1
  <2>4. QED
    BY <1>1, <2>1, <2>2, <2>3
<1>7. \A k \in 1..Len(t) : t[k] = s[J(k)]
  BY <1>1
<1> HIDE DEF J
<1>8. PICK q : q = [k \in 1..Len(t) |-> p[J(k)]]
  OBVIOUS
<1>9. q \in [1..Len(t) -> DOMAIN g] /\ \A k \in 1..Len(t) : q[k] = p[J(k)] /\ q[k] \in Int
  BY <1>2, <1>4, <1>8
<1>10. \A k, m \in 1..Len(t) : k < m => q[k] < q[m]
  BY <1>3, <1>4, <1>5, <1>9
<1>11. \A k \in 1..Len(t) : t[k] = g[q[k]]
  BY <1>2, <1>4, <1>7, <1>9
<1>12. \A m \in 1..Len(s) : m # n => p[m] # p[n]
  <2>1. SUFFICES ASSUME NEW m \in 1..Len(s), m # n PROVE p[m] # p[n]
    OBVIOUS
  <2>2. m < n \/ n < m
    BY <1>1, <2>1
  <2>3. p[m] < p[n] \/ p[n] < p[m]
    BY <1>3, <2>2
  <2>4. QED
    BY <1>2, <2>3
<1>13. ASSUME NEW k \in DOMAIN g, t # <<>>, q[1] < k
       PROVE  k + from \in fewer <=> \A m \in 1..Len(t) : q[m] # k
  <2>1. 1 \in 1..Len(t) /\ k \in Int
    <3> DEFINE S == Values(g)
    <3>1. t \in Seq(S)
      OBVIOUS
    <3> HIDE DEF S
    <3>2. Len(t) # 0
      BY <1>13, <3>1
    <3>3. QED
      BY <1>1, <3>2
  <2>2. q[1] = p[J(1)] /\ J(1) \in 1..Len(s) /\ 1 \in 1..Len(s) /\ 1 <= J(1)
    BY <1>1, <1>4, <1>9, <2>1
  <2>3. p[1] <= p[J(1)]
    BY <1>2, <1>3, <2>2
  <2>4. p[1] < k
    BY <1>2, <1>9, <1>13, <2>1, <2>2, <2>3
  <2>5. s # <<>>
    BY <2>2
  <2>6. k + from \in numbers <=> \A m \in 1..Len(s) : p[m] # k
    BY <2>4, <2>5 DEF LeftOf
  <2>7. (\A m \in 1..Len(t) : q[m] # k) <=> (\A m \in 1..Len(s) : m # n => p[m] # k)
    <3>1. ASSUME \A m \in 1..Len(t) : q[m] # k, NEW m \in 1..Len(s), m # n PROVE p[m] # k
      <4>1. PICK x \in 1..Len(t) : J(x) = m
        BY <1>6, <3>1
      <4>2. q[x] = p[m] /\ q[x] # k
        BY <1>9, <3>1, <4>1
      <4>3. QED
        BY <4>2
    <3>2. ASSUME \A m \in 1..Len(s) : m # n => p[m] # k, NEW x \in 1..Len(t) PROVE q[x] # k
      <4>1. J(x) \in 1..Len(s) /\ J(x) # n /\ q[x] = p[J(x)]
        BY <1>4, <1>9
      <4>2. QED
        BY <3>2, <4>1
    <3>3. QED
      BY <3>1, <3>2
  <2>8. CASE p[n] = k
    <3>1. n # 1
      BY <2>4, <2>8, <1>2
    <3>2. k + from \in fewer
      BY <2>8, <3>1
    <3>3. \A m \in 1..Len(s) : m # n => p[m] # k
      BY <1>12, <2>8
    <3>4. QED
      BY <2>7, <3>2, <3>3
  <2>9. CASE p[n] # k
    <3>1. p[n] + from # k + from
      BY <1>2, <2>1, <2>9
    <3>2. k + from \in fewer <=> k + from \in numbers
      BY <3>1
    <3>3. QED
      BY <2>6, <2>7, <2>9, <3>2
  <2>10. QED
    BY <2>8, <2>9
<1>14. LeftOf(t, fewer, g, from, q)
  BY <1>9, <1>10, <1>11, <1>13 DEF LeftOf
<1>15. QED
  BY <1>14

\* The series as it was stored, all its occurrences, numbered from `from'.
TheSeries(from) ==
  [k \in 0..(repeat_nbr - 1) |->
     Occurrence(Occurrences(cmd.type, entry)[k], entry, repeat_nbr, from, k, mangling)]

\* b are the entries of the series as they are in recs[] (ReadsBack).
SameEntries(b) ==
  /\ Len(b) = Len(entries)
  /\ \A n \in DOMAIN entries :
       /\ b[n].number = entries[n].number /\ b[n].num = entries[n].num
       /\ mangling # 0 => b[n].name = entries[n].name
       /\ Gapless => b[n].start = entries[n].start /\ b[n].end = entries[n].end

(* What is left of a series is what the file gives back. *)
LEMMA ReadAgain ==
  ASSUME EndlessCalendar, mangling \in 0..2, repeat_nbr \in Nat,
         NEW from \in Nat, NEW p, LeftOf(entries, excluded, TheSeries(from), from, p),
         \A k \in Nat : Adjusted(cmd.type, Occurrences(cmd.type, entry)[k]),
         entries # <<>>, entries[1].start < entries[1].end,
         NEW time \in Nat, time <= entries[1].start
  PROVE  SameEntries(processRecording(_writeXMLFile, time))
<1>1. PICK occ : occ = Occurrences(cmd.type, entry)
  OBVIOUS
<1>2. PICK len : len = Len(entries)
  OBVIOUS
<1>3. len \in Nat \ {0} /\ 1 \in 1..len /\ DOMAIN entries = 1..len
  <2> DEFINE S == Values(TheSeries(from))
  <2>1. entries \in Seq(S)
    BY DEF LeftOf
  <2> HIDE DEF S
  <2>2. QED
    BY <1>2, <2>1
<1>4. DOMAIN TheSeries(from) = 0..(repeat_nbr - 1)
  BY DEF TheSeries
<1>5. /\ p \in [1..len -> 0..(repeat_nbr - 1)]
      /\ \A m, n \in 1..len : m < n => p[m] < p[n]
      /\ \A k \in 0..(repeat_nbr - 1) : p[1] < k =>
           (k + from \in excluded <=> \A n \in 1..len : p[n] # k)
  BY <1>2, <1>4 DEF LeftOf
<1>6. \A n \in 1..len : p[n] \in 0..(repeat_nbr - 1) /\ p[n] \in Nat
  BY <1>5
<1>7. ASSUME NEW n \in 1..len
      PROVE  /\ entries[n].start = occ[p[n]].start /\ entries[n].end = occ[p[n]].end
             /\ entries[n].num = repeat_nbr - p[n] /\ entries[n].number = from + p[n]
             /\ entries[n].name = rec_title_mangling(mangling, entry, repeat_nbr, from, p[n])
  <2>1. PICK k : k = p[n]
    OBVIOUS
  <2>2. k \in 0..(repeat_nbr - 1)
    BY <1>6, <2>1
  <2>3. entries[n] = TheSeries(from)[k]
    BY <1>2, <2>1 DEF LeftOf
  <2>4. TheSeries(from)[k] = Occurrence(occ[k], entry, repeat_nbr, from, k, mangling)
    BY <1>1, <2>2 DEF TheSeries
  <2>5. /\ entries[n].start = occ[k].start /\ entries[n].end = occ[k].end
        /\ entries[n].num = repeat_nbr - k /\ entries[n].number = from + k
        /\ entries[n].name = rec_title_mangling(mangling, entry, repeat_nbr, from, k)
    BY <2>3, <2>4 DEF Occurrence
  <2>6. QED
    BY <2>1, <2>5
<1>8. PICK j \in 0..(repeat_nbr - 1) : j = p[1]
  BY <1>3, <1>6
<1>9. PICK d : d = occ[j]
  OBVIOUS
<1>10. Adjusted(cmd.type, d) /\ d.start \in Nat /\ d.end \in Nat /\ d = [start |-> d.start, end |-> d.end]
  BY <1>1, <1>9 DEF Adjusted, Dates
<1>11. PICK rec : rec = _writeXMLFile
  OBVIOUS
<1>12. /\ rec.type = cmd.type /\ rec.start = d.start /\ rec.end = d.end /\ rec.num = repeat_nbr - j
       /\ rec.mangling = mangling /\ rec.number = from + j
       /\ rec.excludes = {x \in excluded : x > from + j}
  <2>1. /\ entries[1].start = d.start /\ entries[1].end = d.end /\ entries[1].num = repeat_nbr - j
        /\ entries[1].number = from + j
    BY <1>3, <1>7, <1>8, <1>9
  <2>2. QED
    BY <1>11, <2>1 DEF _writeXMLFile
<1>13. d.start < d.end /\ time <= d.start
  BY <1>3, <1>7, <1>8, <1>9
<1>14. rec.num \in Nat /\ rec.number \in Int /\ 0..(rec.num - 1) = 0..(repeat_nbr - 1 - j)
  BY <1>8, <1>12
<1>15. d = adjust_initital_repeat_date(rec.type, [start |-> rec.start, end |-> rec.end], time)
  BY <1>10, <1>12, <1>13, AdjustedStays
<1>16. PICK r : r = [n \in 1..len |-> p[n] - j]
  OBVIOUS
<1>17. ASSUME NEW n \in 1..len PROVE p[n] >= j /\ r[n] = p[n] - j /\ r[n] \in 0..(rec.num - 1)
  <2>1. p[n] >= j
    <3>1. CASE n = 1
      BY <1>8, <3>1
    <3>2. CASE n # 1
      <4>1. 1 < n
        BY <1>3, <3>2
      <4>2. p[1] < p[n]
        BY <1>3, <1>5, <4>1
      <4>3. QED
        BY <1>3, <1>6, <1>8, <4>2
    <3>3. QED
      BY <3>1, <3>2
  <2>2. r[n] = p[n] - j
    BY <1>16
  <2>3. p[n] \in 0..(repeat_nbr - 1) /\ j \in Nat
    BY <1>6, <1>8
  <2>4. QED
    BY <1>12, <2>1, <2>2, <2>3
<1>18. r \in [1..len -> 0..(rec.num - 1)]
  BY <1>16, <1>17
<1>19. \A m, n \in 1..len : m < n => r[m] < r[n]
  BY <1>5, <1>6, <1>8, <1>17
<1>20. ASSUME NEW k \in 0..(rec.num - 1)
       PROVE  k + rec.number \notin rec.excludes <=> \E n \in 1..len : r[n] = k
  <2>1. k \in Nat /\ j \in Nat /\ k + rec.number = (k + j) + from /\ k + j \in 0..(repeat_nbr - 1)
    <3>1. k \in 0..(repeat_nbr - 1 - j) /\ rec.number = from + j
      BY <1>12, <1>14
    <3>2. j \in Nat /\ j <= repeat_nbr - 1
      OBVIOUS
    <3>3. QED
      BY <3>1, <3>2
  <2>2. CASE k = 0
    <3>1. k + rec.number \notin rec.excludes
      BY <1>12, <2>1, <2>2
    <3>2. r[1] = k
      <4>1. r[1] = p[1] - j
        BY <1>3, <1>17
      <4>2. QED
        BY <1>8, <2>1, <2>2, <4>1
    <3>3. QED
      BY <1>3, <3>1, <3>2
  <2>3. CASE k # 0
    <3>1. p[1] < k + j
      BY <1>8, <2>1, <2>3
    <3>2. (k + j) + from \in excluded <=> \A n \in 1..len : p[n] # k + j
      BY <1>5, <2>1, <3>1
    <3>3. k + rec.number \in rec.excludes <=> (k + j) + from \in excluded
      <4>1. (k + j) + from > from + j
        BY <2>1, <2>3
      <4>2. QED
        BY <1>12, <2>1, <4>1
    <3>4. \A n \in 1..len : p[n] = k + j <=> r[n] = k
      BY <1>6, <1>17, <2>1
    <3>5. QED
      BY <3>2, <3>3, <3>4
  <2>4. QED
    BY <2>2, <2>3
<1>21. /\ Len(insertrec(rec, time)) = len
       /\ \A n \in 1..len :
            insertrec(rec, time)[n] = Occurrence(Occurrences(rec.type, d)[n - 1], d,
                                                 rec.num, rec.number, r[n], rec.mangling)
  <2>1. len \in Nat /\ rec.num \in Nat /\ rec.number \in Int
    BY <1>3, <1>14
  <2>2. \A k \in 0..(rec.num - 1) : k + rec.number \notin rec.excludes <=> \E n \in 1..len : r[n] = k
    BY <1>20
  <2>3. Kept(rec, len, r)
    BY <1>18, <1>19, <2>1, <2>2 DEF Kept
  <2>4. QED
    BY <1>15, <2>3, MakesTheKept
<1>22. PICK b : b = processRecording(_writeXMLFile, time)
  OBVIOUS
<1>23. b = insertrec(rec, time)
  <2>1. ~(rec.start >= rec.end)
    BY <1>10, <1>12, <1>13
  <2>2. QED
    BY <1>11, <1>22, <2>1 DEF processRecording
<1>24. /\ Len(b) = len
       /\ \A n \in 1..len : b[n] = Occurrence(Occurrences(cmd.type, d)[n - 1], d, repeat_nbr - j,
                                              from + j, r[n], mangling)
  BY <1>12, <1>21, <1>23
<1>25. ASSUME NEW n \in 1..len
       PROVE  /\ b[n].start = occ[j + (n - 1)].start /\ b[n].end = occ[j + (n - 1)].end
              /\ b[n].num = (repeat_nbr - j) - r[n] /\ b[n].number = (from + j) + r[n]
              /\ b[n].name = rec_title_mangling(mangling, d, repeat_nbr - j, from + j, r[n])
  <2>1. n - 1 \in Nat /\ j \in Nat
    OBVIOUS
  <2>2. PICK k \in Nat : k = n - 1
    BY <2>1
  <2>3. Occurrences(cmd.type, d)[k] = occ[j + k]
    <3>1. PICK type, first : type = cmd.type /\ first = entry
      OBVIOUS
    <3>2. Occurrences(type, Occurrences(type, first)[j])[k] = Occurrences(type, first)[j + k]
      BY <2>1, OccurrencesOn
    <3>3. QED
      BY <1>1, <1>9, <3>1, <3>2
  <2>4. b[n] = Occurrence(Occurrences(cmd.type, d)[k], d, repeat_nbr - j, from + j, r[n], mangling)
    BY <1>24, <2>2
  <2>5. b[n] = Occurrence(occ[j + k], d, repeat_nbr - j, from + j, r[n], mangling)
    BY <2>3, <2>4
  <2>6. /\ b[n].start = occ[j + k].start /\ b[n].end = occ[j + k].end
        /\ b[n].num = (repeat_nbr - j) - r[n] /\ b[n].number = (from + j) + r[n]
        /\ b[n].name = rec_title_mangling(mangling, d, repeat_nbr - j, from + j, r[n])
    BY <2>5 DEF Occurrence
  <2>7. QED
    BY <2>2, <2>6
<1>26. ASSUME NEW n \in 1..len
       PROVE  b[n].number = entries[n].number /\ b[n].num = entries[n].num
  <2>1. p[n] \in Int /\ j \in Int /\ r[n] = p[n] - j
    BY <1>6, <1>17
  <2>2. b[n].number = (from + j) + r[n] /\ b[n].num = (repeat_nbr - j) - r[n]
    BY <1>25
  <2>3. entries[n].number = from + p[n] /\ entries[n].num = repeat_nbr - p[n]
    BY <1>7
  <2>4. QED
    BY <2>1, <2>2, <2>3
<1>27. ASSUME NEW n \in 1..len, mangling # 0 PROVE b[n].name = entries[n].name
  <2>1. p[n] \in Int /\ j \in Int /\ r[n] = p[n] - j
    BY <1>6, <1>17
  <2>2. r[n] + (from + j) = p[n] + from /\ (repeat_nbr - j) + (from + j) - 1 = repeat_nbr + from - 1
    BY <2>1
  <2>3. b[n].name = rec_title_mangling(mangling, d, repeat_nbr - j, from + j, r[n])
    BY <1>25
  <2>4. entries[n].name = rec_title_mangling(mangling, entry, repeat_nbr, from, p[n])
    BY <1>7
  <2>5. mangling = 1 \/ mangling = 2
    BY <1>27
  <2>6. CASE mangling = 1
    <3>1. b[n].name = <<r[n] + (from + j), (repeat_nbr - j) + (from + j) - 1>>
      BY <2>3, <2>6 DEF rec_title_mangling
    <3>2. entries[n].name = <<p[n] + from, repeat_nbr + from - 1>>
      BY <2>4, <2>6 DEF rec_title_mangling
    <3>3. QED
      BY <2>2, <3>1, <3>2
  <2>7. CASE mangling = 2
    <3>1. b[n].name = <<r[n] + (from + j)>>
      BY <2>3, <2>7 DEF rec_title_mangling
    <3>2. entries[n].name = <<p[n] + from>>
      BY <2>4, <2>7 DEF rec_title_mangling
    <3>3. QED
      BY <2>2, <3>1, <3>2
  <2>8. QED
    BY <2>5, <2>6, <2>7
<1>28. ASSUME Gapless
       PROVE  \A n \in 1..len : b[n].start = entries[n].start /\ b[n].end = entries[n].end
  <2> DEFINE T == {k \in Nat : k + 1 <= len => p[k + 1] = j + k}
  <2>1. 0 \in T
    BY <1>3, <1>8
  <2>2. ASSUME NEW k \in Nat, k \in T PROVE k + 1 \in T
    <3>1. SUFFICES ASSUME (k + 1) + 1 <= len PROVE p[(k + 1) + 1] = j + (k + 1)
      OBVIOUS
    <3>2. k + 1 \in 1..(len - 1) /\ k + 1 \in 1..len /\ (k + 1) + 1 \in 1..len /\ p[k + 1] = j + k
      BY <1>3, <2>2, <3>1
    <3>3. entries[(k + 1) + 1].number = entries[k + 1].number + 1
      BY <1>2, <1>28, <3>2 DEF Gapless
    <3>4. from + p[(k + 1) + 1] = (from + p[k + 1]) + 1
      BY <1>7, <3>2, <3>3
    <3>5. QED
      BY <1>6, <3>2, <3>4
  <2> HIDE DEF T
  <2>3. \A k \in Nat : k \in T
    BY <2>1, <2>2, Induction
  <2>4. SUFFICES ASSUME NEW n \in 1..len PROVE b[n].start = entries[n].start /\ b[n].end = entries[n].end
    OBVIOUS
  <2>5. n - 1 \in Nat /\ (n - 1) + 1 = n /\ n <= len
    BY <1>3
  <2>6. p[n] = j + (n - 1)
    BY <2>3, <2>5 DEF T
  <2>7. QED
    BY <1>7, <1>25, <2>6
<1>29. SameEntries(b)
  BY <1>2, <1>3, <1>24, <1>26, <1>27, <1>28 DEF SameEntries
<1>30. QED
  BY <1>22, <1>29

\* While the series is stored its loops keep LoopInv; then entries are left of it until they are read back.
DbInv ==
  /\ pc \notin {"pending", "read"} => LoopInv /\ entries = <<>> /\ excluded = {}
  /\ pc = "pending" =>
       /\ now \in Nat /\ mangling \in 0..2 /\ repeat_nbr \in Nat
       /\ \A k \in Nat : Adjusted(cmd.type, Occurrences(cmd.type, entry)[k])
       /\ \E from \in Nat : \E p : LeftOf(entries, excluded, TheSeries(from), from, p)
  /\ ReadsBack

(* The entries of a series just stored are all its occurrences. *)
LEMMA AllAreLeft ==
  ASSUME EndlessCalendar, LoopInv, excluded = {}, Pend
  PROVE  DbInv'
<1>1. /\ pc = "stored" /\ pc' = "pending" /\ now' = now /\ cmd' = cmd /\ repeat_nbr' = repeat_nbr
      /\ entry' = entry /\ excluded' = {}
  BY DEF Pend, loop
<1>2. PICK kind \in Manglings, number \in StartNumbers :
        /\ mangling' = _cmd_set_rep_name_mangling(kind)
        /\ entries' = [n \in DOMAIN inserted |->
                         Occurrence(inserted[n], entry, repeat_nbr,
                                    _cmd_set_rep_start_number(number), n - 1, mangling')]
  BY DEF Pend
<1>3. PICK from : from = _cmd_set_rep_start_number(number)
  OBVIOUS
<1>4. from \in Nat /\ mangling' \in 0..2
  BY <1>2, <1>3, ManglingsKnown DEF _cmd_set_rep_start_number, _cmd_set_rep_name_mangling
<1>5. /\ now \in Nat /\ repeat_nbr \in Nat /\ checked[1] \in Dates /\ cmd \in Commands
      /\ entry = adjust_initital_repeat_date(cmd.type, checked[1], now)
      /\ Follows(inserted, cmd.type, entry, repeat_nbr)
  BY <1>1 DEF LoopInv
<1>6. \A k \in Nat : Adjusted(cmd.type, Occurrences(cmd.type, entry)[k])
  <2>1. PICK type, d, time : type = cmd.type /\ d = checked[1] /\ time = now
    OBVIOUS
  <2>2. type \in RecurrenceType /\ d \in Dates /\ time \in Nat
    BY <1>5, <2>1, CommandIs
  <2>3. \A k \in Nat : Adjusted(type, Occurrences(type, adjust_initital_repeat_date(type, d, time))[k])
    BY <2>2, OccurrencesAreAdjusted
  <2>4. QED
    BY <1>5, <2>1, <2>3
<1>7. PICK num, occ, s, m, first : /\ num = repeat_nbr /\ occ = Occurrences(cmd.type, entry) /\ s = entries'
                                   /\ m = mangling' /\ first = entry
  OBVIOUS
<1>8. PICK g : g = [k \in 0..(num - 1) |-> Occurrence(occ[k], first, num, from, k, m)]
  OBVIOUS
<1>9. num \in Nat /\ DOMAIN inserted = 1..num /\ \A n \in 1..num : inserted[n] = occ[n - 1]
  <2> DEFINE S == {Occurrences(cmd.type, entry)[k] : k \in Nat}
  <2>1. inserted \in Seq(S) /\ Len(inserted) = num /\ \A n \in 1..num : inserted[n] = occ[n - 1]
    BY <1>5, <1>7 DEF Follows
  <2> HIDE DEF S
  <2>2. QED
    BY <1>5, <1>7, <2>1
<1>10. s = [n \in 1..num |-> g[n - 1]]
  <2>1. s = [n \in 1..num |-> Occurrence(inserted[n], first, num, from, n - 1, m)]
    BY <1>2, <1>3, <1>7, <1>9
  <2>2. ASSUME NEW n \in 1..num
        PROVE  Occurrence(inserted[n], first, num, from, n - 1, m) = g[n - 1]
    <3>1. n - 1 \in 0..(num - 1) /\ inserted[n] = occ[n - 1]
      BY <1>9
    <3>2. QED
      BY <1>8, <3>1
  <2>3. QED
    BY <2>1, <2>2
<1>11. DOMAIN g = 0..(num - 1)
  BY <1>8
<1>12. s \in Seq(Values(g)) /\ Len(s) = num /\ \A n \in 1..num : s[n] = g[n - 1]
  <2>1. \A n \in 1..num : g[n - 1] \in Values(g)
    <3>1. \A n \in 1..num : n - 1 \in DOMAIN g
      BY <1>9, <1>11
    <3>2. QED
      BY <3>1 DEF Values
  <2> DEFINE S == Values(g)
  <2>2. S = S /\ \A n \in 1..num : g[n - 1] \in S
    BY <2>1
  <2> HIDE DEF S
  <2>3. s \in Seq(S) /\ Len(s) = num
    BY <1>9, <1>10, <2>2
  <2>4. QED
    BY <1>10, <2>3 DEF S
<1>13. PICK p : p = [n \in 1..num |-> n - 1]
  OBVIOUS
<1>14. /\ p \in [1..Len(s) -> DOMAIN g] /\ \A n \in 1..Len(s) : p[n] = n - 1
  BY <1>9, <1>11, <1>12, <1>13
<1>15. LeftOf(s, {}, g, from, p)
  <2>1. \A n, k \in 1..Len(s) : n < k => p[n] < p[k]
    BY <1>9, <1>12, <1>14
  <2>2. \A n \in 1..Len(s) : s[n] = g[p[n]]
    BY <1>12, <1>14
  <2>3. ASSUME NEW k \in DOMAIN g PROVE \E n \in 1..Len(s) : p[n] = k
    <3>1. k + 1 \in 1..Len(s) /\ (k + 1) - 1 = k
      BY <1>9, <1>11, <1>12
    <3>2. QED
      BY <1>14, <3>1
  <2>4. QED
    BY <1>12, <1>14, <2>1, <2>2, <2>3 DEF LeftOf
<1>16. TheSeries(from)' = g
  BY <1>1, <1>7, <1>8 DEF TheSeries
<1>17. (\E q : LeftOf(entries, excluded, TheSeries(from), from, q))'
  BY <1>1, <1>7, <1>15, <1>16
<1>18. (\E f \in Nat : \E q : LeftOf(entries, excluded, TheSeries(f), f, q))'
  BY <1>4, <1>17
<1>19. ReadsBack'
  BY <1>1 DEF ReadsBack
<1>20. QED
  BY <1>1, <1>4, <1>5, <1>6, <1>18, <1>19 DEF DbInv

(* One entry recorded or deleted. *)
LEMMA OneIsLess ==
  ASSUME DbInv, pc = "pending", UNCHANGED <<vars, mangling, back>>, NEW n \in DOMAIN entries,
         \/ entries' = RemoveAt(entries, n) /\ excluded' = excluded \cup {entries[n].number}
         \/ n = 1 /\ entries' = Tail(entries) /\ excluded' = excluded
  PROVE  DbInv'
<1>1. /\ pc' = "pending" /\ now' = now /\ cmd' = cmd /\ repeat_nbr' = repeat_nbr /\ entry' = entry
      /\ mangling' = mangling
  BY DEF vars
<1>2. PICK from \in Nat : \E p : LeftOf(entries, excluded, TheSeries(from), from, p)
  BY DEF DbInv
<1>3. PICK s, t, g, numbers, fewer :
        /\ s = entries /\ t = entries' /\ g = TheSeries(from) /\ numbers = excluded /\ fewer = excluded'
  OBVIOUS
<1>4. PICK p : LeftOf(s, numbers, g, from, p)
  BY <1>2, <1>3
<1>5. repeat_nbr \in Nat /\ DOMAIN g = 0..(repeat_nbr - 1)
  BY <1>3 DEF DbInv, TheSeries
<1>6. s \in Seq(Values(g)) /\ n \in DOMAIN s
  BY <1>3, <1>4 DEF LeftOf
<1>7. n \in 1..Len(s)
  <2> DEFINE S == Values(g)
  <2>1. s \in Seq(S) /\ n \in DOMAIN s
    BY <1>6
  <2> HIDE DEF S
  <2>2. QED
    BY <2>1
<1>8. p[n] \in DOMAIN g /\ s[n] = g[p[n]]
  BY <1>4, <1>7 DEF LeftOf
<1>9. s[n].number = p[n] + from
  <2>1. PICK k \in 0..(repeat_nbr - 1) : k = p[n]
    BY <1>5, <1>8
  <2>2. g[k] = Occurrence(Occurrences(cmd.type, entry)[k], entry, repeat_nbr, from, k, mangling)
    BY <1>3, <2>1 DEF TheSeries
  <2>3. g[k].number = from + k
    BY <2>2 DEF Occurrence
  <2>4. QED
    BY <1>8, <2>1, <2>3
<1>10. /\ RemoveAt(s, n) \in Seq(Values(g)) /\ Without(RemoveAt(s, n), s, n)
       /\ Tail(s) \in Seq(Values(g)) /\ Without(Tail(s), s, 1)
  BY <1>6, RemovedAt
<1>11. /\ t \in Seq(Values(g)) /\ Without(t, s, n)
       /\ fewer = numbers \cup {p[n] + from} \/ (n = 1 /\ fewer = numbers)
  BY <1>3, <1>9, <1>10
<1>12. DOMAIN g \in SUBSET Nat
  BY <1>5
<1>13. \E q : LeftOf(t, fewer, g, from, q)
  <2>1. from \in Int
    OBVIOUS
  <2>2. QED
    BY <2>1, <1>4, <1>7, <1>11, <1>12, OneLess, Zenon
<1>14. TheSeries(from)' = g
  BY <1>1, <1>3 DEF TheSeries
<1>15. (\E q : LeftOf(entries, excluded, TheSeries(from), from, q))'
  BY <1>3, <1>13, <1>14
<1>16. (\E f \in Nat : \E q : LeftOf(entries, excluded, TheSeries(f), f, q))'
  BY <1>15
<1>17. /\ now \in Nat /\ mangling \in 0..2
       /\ \A k \in Nat : Adjusted(cmd.type, Occurrences(cmd.type, entry)[k])
  BY DEF DbInv
<1>18. ReadsBack'
  BY <1>1 DEF ReadsBack
<1>19. QED
  BY <1>1, <1>5, <1>16, <1>17, <1>18 DEF DbInv

LEMMA StepDb ==
  ASSUME EndlessCalendar, DbInv, [DbNext]_<<vars, dbvars>>
  PROVE  DbInv'
<1>1. CASE UNCHANGED <<vars, dbvars>>
  <2>1. /\ pc' = pc /\ now' = now /\ cmd' = cmd /\ repeat_nbr' = repeat_nbr /\ entry' = entry
        /\ mangling' = mangling /\ entries' = entries /\ excluded' = excluded /\ back' = back
    BY <1>1 DEF vars, dbvars
  <2>2. LoopInv => LoopInv'
    BY <1>1, StepLoop
  <2>3. \A from : TheSeries(from)' = TheSeries(from)
    BY <2>1 DEF TheSeries
  <2>4. ReadsBack'
    BY <2>1 DEF DbInv, ReadsBack, Gapless
  <2>5. QED
    BY <2>1, <2>2, <2>3, <2>4 DEF DbInv
<1>2. CASE Next /\ UNCHANGED dbvars
  <2>1. pc \notin {"pending", "read"}
    BY <1>2 DEF Next, NumberGiven, NumberFromNow, StartToday, StartOnDay, CheckOccurrence, AdjustEntry,
       InsertOccurrence, Stored
  <2>2. LoopInv'
    BY <1>2, <2>1, StepLoop DEF DbInv
  <2>3. pc' \notin {"pending", "read"}
    BY <2>2 DEF LoopInv
  <2>4. entries' = <<>> /\ excluded' = {}
    BY <1>2, <2>1 DEF DbInv, dbvars
  <2>5. QED
    BY <2>2, <2>3, <2>4 DEF DbInv, ReadsBack
<1>3. CASE Pend
  <2>1. pc = "stored"
    BY <1>3 DEF Pend
  <2>2. LoopInv /\ excluded = {}
    BY <2>1 DEF DbInv
  <2>3. QED
    BY <1>3, <2>2, AllAreLeft
<1>4. CASE remove_toprec
  <2>1. /\ pc = "pending" /\ UNCHANGED <<vars, mangling, back>> /\ entries # <<>>
        /\ entries' = Tail(entries) /\ excluded' = excluded
    BY <1>4 DEF remove_toprec
  <2>2. 1 \in DOMAIN entries
    <3>0. PICK from \in Nat : \E p : LeftOf(entries, excluded, TheSeries(from), from, p)
      BY <2>1 DEF DbInv
    <3>1. PICK p : LeftOf(entries, excluded, TheSeries(from), from, p)
      BY <3>0
    <3> DEFINE S == Values(TheSeries(from))
    <3>2. entries \in Seq(S)
      BY <3>1 DEF LeftOf
    <3> HIDE DEF S
    <3>3. QED
      BY <2>1, <3>2
  <2>3. QED
    BY <2>1, <2>2, OneIsLess
<1>5. ASSUME NEW n \in DOMAIN entries, delete_recid(n) PROVE DbInv'
  <2>1. /\ pc = "pending" /\ UNCHANGED <<vars, mangling, back>>
        /\ entries' = RemoveAt(entries, n) /\ excluded' = excluded \cup {entries[n].number}
    BY <1>5 DEF delete_recid
  <2>2. QED
    BY <2>1, OneIsLess
<1>6. CASE readXMLFile
  <2>1. PICK time \in {now, entries[1].start} :
          time <= entries[1].start /\ back' = processRecording(_writeXMLFile, time)
    BY <1>6 DEF readXMLFile
  <2>2. /\ pc = "pending" /\ entries # <<>> /\ pc' = "read" /\ entries' = entries /\ mangling' = mangling
    BY <1>6 DEF readXMLFile
  <2>0. PICK from \in Nat : \E p : LeftOf(entries, excluded, TheSeries(from), from, p)
    BY <2>2 DEF DbInv
  <2>3. PICK p : LeftOf(entries, excluded, TheSeries(from), from, p)
    BY <2>0
  <2>4. /\ mangling \in 0..2 /\ repeat_nbr \in Nat /\ now \in Nat
        /\ \A k \in Nat : Adjusted(cmd.type, Occurrences(cmd.type, entry)[k])
    BY <2>2 DEF DbInv
  <2>5. entries[1].start \in Nat
    <3>1. PICK s, g : s = entries /\ g = TheSeries(from)
      OBVIOUS
    <3>2. 1 \in 1..Len(s)
      <4> DEFINE S == Values(g)
      <4>1. s \in Seq(S) /\ s # <<>>
        BY <2>2, <2>3, <3>1 DEF LeftOf
      <4> HIDE DEF S
      <4>2. QED
        BY <4>1
    <3>3. PICK k \in 0..(repeat_nbr - 1) : s[1] = g[k]
      <4>1. DOMAIN g = 0..(repeat_nbr - 1)
        BY <3>1 DEF TheSeries
      <4>2. p[1] \in DOMAIN g /\ s[1] = g[p[1]]
        BY <2>3, <3>1, <3>2 DEF LeftOf
      <4>3. QED
        BY <4>1, <4>2
    <3>4. g[k] = Occurrence(Occurrences(cmd.type, entry)[k], entry, repeat_nbr, from, k, mangling)
      BY <3>1 DEF TheSeries
    <3>5. g[k].start = Occurrences(cmd.type, entry)[k].start
      BY <3>4 DEF Occurrence
    <3>6. Occurrences(cmd.type, entry)[k].start \in Nat
      BY <2>4 DEF Adjusted, Dates
    <3>7. QED
      BY <3>1, <3>3, <3>5, <3>6
  <2>6. time \in Nat
    BY <2>1, <2>4, <2>5
  <2>7. ASSUME entries[1].start < entries[1].end PROVE SameEntries(back')
    BY <2>1, <2>2, <2>3, <2>4, <2>6, <2>7, ReadAgain
  <2>8. ReadsBack'
    BY <2>2, <2>7 DEF ReadsBack, SameEntries, Gapless
  <2>9. QED
    BY <2>2, <2>8 DEF DbInv
<1>7. QED
  BY <1>1, <1>2, <1>3, <1>4, <1>5, <1>6 DEF DbNext

(* Reading the database gives back what was written of a series, in every      *)
(* calendar, whichever of its occurrences were recorded or deleted before, on  *)
(* whatever day its master is adjusted again: the same number of entries with  *)
(* the same numbers and names and, if none in the middle is missing, the same  *)
(* dates (_writeXMLFile, processRecording, insertrec).                         *)
THEOREM SeriesIsReadBack == EndlessCalendar => (DbSpec => []ReadsBack)
<1>1. SUFFICES ASSUME EndlessCalendar PROVE DbSpec => []ReadsBack
  OBVIOUS
<1>2. DbInit => DbInv
  <2>1. SUFFICES ASSUME DbInit PROVE DbInv
    OBVIOUS
  <2>2. LoopInv
    BY <2>1, CommandsAssumption DEF DbInit, Init, LoopInv
  <2>3. pc = "number" /\ entries = <<>> /\ excluded = {}
    BY <2>1 DEF DbInit, Init
  <2>4. QED
    BY <2>2, <2>3 DEF DbInv, ReadsBack
<1>3. DbInv /\ [DbNext]_<<vars, dbvars>> => DbInv'
  BY <1>1, StepDb
<1>4. DbInv => ReadsBack
  BY DEF DbInv
<1>5. QED
  BY <1>2, <1>3, <1>4, PTL DEF DbSpec

\* What the theorems above say of the command.
SeriesIsRight ==
  EveryNamedDay /\ NoSelfOverlap /\ StoredAsChecked /\ UntilFromLaterDay /\ LoopsAreExpand

\* While it is stored what they rest on holds; the steps of the database leave it alone.
KeptInv ==
  /\ pc \notin {"pending", "read"} => LoopInv /\ LengthInv /\ UntilInv
  /\ SeriesIsRight

(* A step that leaves the command alone, but for where it is, leaves it right. *)
LEMMA LeftRight ==
  ASSUME SeriesIsRight, pc' \in {pc, "pending", "read"},
         UNCHANGED <<now, cmd, repeat_nbr, entry, loop>>
  PROVE  SeriesIsRight'
<1>1. /\ now' = now /\ cmd' = cmd /\ repeat_nbr' = repeat_nbr /\ entry' = entry
      /\ dates' = dates /\ checked' = checked /\ inserted' = inserted
  BY DEF loop
<1>2. EveryNamedDay'
  BY <1>1 DEF SeriesIsRight, EveryNamedDay, StartDays
<1>3. NoSelfOverlap'
  BY <1>1 DEF SeriesIsRight, NoSelfOverlap
<1>4. pc' # "stored" \/ pc' = pc
  OBVIOUS
<1>5. StoredAsChecked'
  BY <1>1, <1>4 DEF SeriesIsRight, StoredAsChecked
<1>6. UntilFromLaterDay'
  BY <1>1, <1>4 DEF SeriesIsRight, UntilFromLaterDay, EndsOnTime, EndOfRepeat
<1>7. LoopsAreExpand'
  BY <1>1, <1>4 DEF SeriesIsRight, LoopsAreExpand
<1>8. QED
  BY <1>2, <1>3, <1>5, <1>6, <1>7 DEF SeriesIsRight

LEMMA StepKept ==
  ASSUME EndlessCalendar, KeptInv, [DbNext]_<<vars, dbvars>>
  PROVE  KeptInv'
<1>1. ASSUME [Next]_vars, pc \notin {"pending", "read"}
      PROVE  KeptInv'
  <2>1. LoopInv /\ LengthInv /\ UntilInv
    BY <1>1 DEF KeptInv
  <2>2. LoopInv'
    BY <1>1, <2>1, StepLoop
  <2>3. LengthInv' /\ UntilInv'
    BY <1>1, <2>1, <2>2, StepLength, StepUntil
  <2>4. (LoopInv => StoredAsChecked /\ LoopsAreExpand)'
    BY LoopsStoreChecked, LoopsExpand, PTL
  <2>5. (LoopInv /\ LengthInv /\ UntilInv => NoSelfOverlap /\ UntilFromLaterDay /\ EveryNamedDay)'
    BY LoopsStayApart, LoopsEndOnTime, LoopsTakeDays, PTL
  <2>6. QED
    BY <2>2, <2>3, <2>4, <2>5 DEF KeptInv, SeriesIsRight
<1>2. ASSUME pc' \in {pc, "pending", "read"}, UNCHANGED <<now, cmd, repeat_nbr, entry, loop>>,
             pc' \in {"pending", "read"}
      PROVE  KeptInv'
  BY <1>2, LeftRight DEF KeptInv
<1>3. CASE UNCHANGED <<vars, dbvars>>
  <2>1. CASE pc \in {"pending", "read"}
    BY <1>2, <1>3, <2>1 DEF vars, loop
  <2>2. CASE pc \notin {"pending", "read"}
    BY <1>1, <1>3, <2>2
  <2>3. QED
    BY <2>1, <2>2
<1>4. CASE Next /\ UNCHANGED dbvars
  <2>1. pc \notin {"pending", "read"}
    BY <1>4 DEF Next, NumberGiven, NumberFromNow, StartToday, StartOnDay, CheckOccurrence, AdjustEntry,
       InsertOccurrence, Stored
  <2>2. QED
    BY <1>1, <1>4, <2>1
<1>5. CASE Pend
  BY <1>2, <1>5 DEF Pend
<1>6. CASE remove_toprec
  BY <1>2, <1>6 DEF remove_toprec, vars, loop
<1>7. ASSUME NEW n \in DOMAIN entries, delete_recid(n) PROVE KeptInv'
  BY <1>2, <1>7 DEF delete_recid, vars, loop
<1>8. CASE readXMLFile
  BY <1>2, <1>8 DEF readXMLFile
<1>9. QED
  BY <1>3, <1>4, <1>5, <1>6, <1>7, <1>8 DEF DbNext

(* What is true of the command stays true of what it has stored, while entries *)
(* of the series are recorded, deleted, written and read (DbSpec).             *)
THEOREM SeriesStaysRight == EndlessCalendar => (DbSpec => []SeriesIsRight)
<1> SUFFICES ASSUME EndlessCalendar PROVE DbSpec => []SeriesIsRight
  OBVIOUS
<1>1. DbInit => KeptInv
  <2>1. DbInit => LoopInv /\ LengthInv /\ UntilInv
    BY CommandsAssumption DEF DbInit, Init, LoopInv, LengthInv, UntilInv, AnewInv, FromNowInv
  <2>2. LoopInv => StoredAsChecked /\ LoopsAreExpand
    BY LoopsStoreChecked, LoopsExpand
  <2>3. LoopInv /\ LengthInv /\ UntilInv => NoSelfOverlap /\ UntilFromLaterDay /\ EveryNamedDay
    BY LoopsStayApart, LoopsEndOnTime, LoopsTakeDays
  <2>4. QED
    BY <2>1, <2>2, <2>3 DEF KeptInv, SeriesIsRight
<1>2. KeptInv /\ [DbNext]_<<vars, dbvars>> => KeptInv'
  BY StepKept
<1>3. KeptInv => SeriesIsRight
  BY DEF KeptInv
<1>4. QED
  BY <1>1, <1>2, <1>3, PTL DEF DbSpec
=============================================================================
