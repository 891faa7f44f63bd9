---------------------------- MODULE AutoShutdown ----------------------------
(***************************************************************************)
(* tvshutdown.c: the chkrec thread of tvpvrd looks before each pass over   *)
(* the cards whether the machine can be switched off.  It looks the next   *)
(* recording up under recs_mutex, decides without it, sets the alarm,      *)
(* sends a mail and orders the shutdown; if the machine does not go down   *)
(* it tries once more and goes on with its passes.                         *)
(***************************************************************************)
EXTENDS Machine

CONSTANTS
    MinUptime,          \* shutdown_min_uptime
    MinTime,            \* shutdown_min_time
    PreStartup,         \* shutdown_pre_startup_time
    Delay,              \* shutdown_time_delay
    IgnoreUsers,        \* shutdown_ignore_users
    NoRecordings        \* shutdown_no_recordings

ASSUME AutoAssumption == {MinUptime, MinTime, PreStartup, Delay} \subseteq Nat

\* The alarm must not ring before the machine is off.  read_inisettings
\* lets each value range on its own (min_time from 120 s, time_delay to 600 s).
ASSUME DelayFits == Delay + 2 < MinTime

VARIABLES
    shutdown_enable,    \* from the ini file
    chk                 \* the thread: where it is (pc), until when it sleeps
                        \* (due), what it looked up (ts, rec), what was
                        \* scheduled then (seen), whether the alarm was set (set)

chkvars == <<shutdown_enable, chk>>

Idle == [pc |-> "check", due |-> 0, ts |-> None, rec |-> None, seen |-> {}, set |-> FALSE]

AutoInit == /\ shutdown_enable \in BOOLEAN
            /\ chk = Idle

\* get_nextsched_rec: of the cards with entries, in their order, the first
\* whose first entry starts before all others.  The entry that is handed out
\* with that time is the one of the card that was the earliest before it.
WithRecs == {v \in Videos : pending[v] # {}}
Head1(v) == Min(pending[v])
Before(v, u) == Head1(v) < Head1(u) \/ (Head1(v) = Head1(u) /\ v < u)
Earliest(cards) == CHOOSE v \in cards : \A u \in cards \ {v} : Before(v, u)

\* A mutant of get_nextsched_rec: only the first card that has entries.
get_nextsched_rec_first ==
    IF WithRecs = {} THEN [ts |-> None, rec |-> None]
    ELSE [ts |-> Head1(Min(WithRecs)), rec |-> Head1(Min(WithRecs))]

get_nextsched_rec ==
    LET video == Earliest(WithRecs)
        earlier == {u \in WithRecs : u < video}
    IN  IF WithRecs = {} THEN [ts |-> None, rec |-> None]
        ELSE [ts |-> Head1(video), rec |-> Head1(IF earlier = {} THEN video ELSE Earliest(earlier))]

Goto(pc) == chk' = [chk EXCEPT !.pc = pc]
At(pc) == tvpvrd /\ chk.pc = pc /\ now >= chk.due
Else(pc) == Goto(pc) /\ UNCHANGED machine

get_num_users == IF user THEN 1 ELSE 0

\* Switched off, too short a time since power on, or users: start the pass.
check_for_shutdown ==
    /\ At("check")
    /\ IF shutdown_enable /\ now - up_since >= MinUptime /\ (IgnoreUsers \/ get_num_users = 0)
       THEN Goto("lookup") ELSE Goto("pass")
    /\ UNCHANGED <<machine, shutdown_enable>>

LookUp ==
    /\ At("lookup")
    /\ chk' = [chk EXCEPT !.pc = "decide", !.seen = Scheduled,
                          !.ts = get_nextsched_rec.ts, !.rec = get_nextsched_rec.rec]
    /\ UNCHANGED <<machine, shutdown_enable>>

\* The next recording is far enough away, or there is none and that is allowed.
LongEnough == IF chk.ts = None THEN NoRecordings
              ELSE chk.ts - now > MinTime + PreStartup

\* set_rtc_alarm: the old alarm is cleared first; a failure leaves the old
\* alarm or none, and the shutdown goes on.
set_rtc_alarm(t) ==
    \/ alarm' = t /\ chk' = [chk EXCEPT !.pc = "script", !.set = TRUE] /\ Works(TRUE)
    \/ alarm' \in {alarm, None} /\ chk' = [chk EXCEPT !.pc = "script", !.set = FALSE] /\ Works(FALSE)

\* The load and the transcodings are the environment's (busy).
Decide(busy) ==
    /\ At("decide")
    /\ IF LongEnough /\ ~busy /\ Recording = {}
       THEN IF chk.ts = None
            THEN Goto("script") /\ UNCHANGED <<alarm, faults>>
            ELSE set_rtc_alarm(chk.ts - PreStartup)
       ELSE Goto("pass") /\ UNCHANGED <<alarm, faults>>
    /\ UNCHANGED <<now, power, up_since, down_at, by, tvpvrd, pending, ongoing, user, shutdown_enable>>

\* do_shutdown: the script orders the shutdown, if it is there and works ...
RunScript(ok) ==
    /\ At("script")
    /\ IF ok THEN OrderDown(now + Delay, "auto") ELSE UNCHANGED <<down_at, by>>
    /\ chk' = [chk EXCEPT !.pc = "direct", !.due = now + Delay + 1]
    /\ Works(ok)
    /\ UNCHANGED <<now, power, up_since, alarm, tvpvrd, pending, ongoing, user, shutdown_enable>>

\* ... and, if the machine is still on, the command itself does.
ShutdownDirectly(ok) ==
    /\ At("direct")
    /\ IF ok THEN OrderDown(now + 1, "auto") ELSE UNCHANGED <<down_at, by>>
    /\ chk' = [chk EXCEPT !.pc = "pass", !.due = now + 2]
    /\ Works(ok)
    /\ UNCHANGED <<now, power, up_since, alarm, tvpvrd, pending, ongoing, user, shutdown_enable>>

\* A pass over the cards: what is too late is dropped, what is due starts on
\* a free card.
TooLate(v) == pending[v] # {} /\ now - Head1(v) > MissLimit
Starting(v) == pending[v] # {} /\ ~TooLate(v) /\ now >= Head1(v) /\ ongoing[v] = None
Pass ==
    /\ At("pass")
    /\ pending' = [v \in Videos |-> IF TooLate(v) \/ Starting(v) THEN pending[v] \ {Head1(v)} ELSE pending[v]]
    /\ ongoing' = [v \in Videos |-> IF Starting(v) THEN Head1(v) ELSE ongoing[v]]
    /\ chk' = [Idle EXCEPT !.due = now + 1]
    /\ UNCHANGED <<now, power, up_since, down_at, by, alarm, tvpvrd, user, faults, shutdown_enable>>

chkrec == \/ check_for_shutdown \/ LookUp \/ Pass
          \/ \E busy \in BOOLEAN : Decide(busy)
          \/ \E ok \in BOOLEAN : RunScript(ok) \/ ShutdownDirectly(ok)

\* The thread works now: the clock waits for it.
ChkDue == tvpvrd /\ now >= chk.due

(***************************************************************************)
(* Properties.                                                             *)
(***************************************************************************)
\* A machine that tvshutdown.c switched off with recordings scheduled, and
\* whose alarm could be set, wakes PreStartup before the first of all the
\* recordings of all the cards that were there when it looked, and the alarm
\* has not passed (get_nextsched_rec over the cards, the time between the
\* decision and the end).
WakesForNext ==
    ~power /\ by = "auto" /\ chk.set /\ chk.seen # {} =>
        alarm = Min(chk.seen) - PreStartup /\ alarm >= now

\* Does not hold (README): tvshutdown.c:376 says of an alarm that cannot be set `Automatic shutdown
\* disabled'; then no machine is off by it without an alarm while it knew of
\* recordings.
OffWithAlarm ==
    ~power /\ by = "auto" /\ chk.seen # {} => chk.set
=============================================================================
