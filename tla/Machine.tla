------------------------------- MODULE Machine -------------------------------
(***************************************************************************)
(* The recording server's machine as the two programs that switch it off   *)
(* see it: its power, the alarm of its real time clock, a user who is      *)
(* logged in or not, and the daemon tvpvrd with its pending recordings     *)
(* (known by their start times) and the one each card records.  A unit of  *)
(* time is a minute; a machine that is on starts tvpvrd, which starts with *)
(* no recordings at all (init_tvxmldb looks for the DB file, it does not   *)
(* read it).                                                               *)
(***************************************************************************)
EXTENDS Integers, FiniteSets, FiniteSetsExt

CONSTANTS
    Videos,         \* the video cards, 0 .. max_video - 1
    Starts,         \* the start times recordings are asked for
    Length,         \* how long a recording takes
    MissLimit,      \* a recording later than this is dropped (ten minutes)
    MaxTime,        \* bound of the clock
    MaxRecs,        \* bound on the recordings pending at a time
    MaxFaults       \* bound on the failures of a script, a link or a packet

ASSUME MachineAssumption ==
    /\ Videos \subseteq Nat /\ Starts \subseteq Nat
    /\ {Length, MissLimit, MaxTime, MaxRecs, MaxFaults} \subseteq Nat

None == -1          \* no time: no shutdown ordered, no alarm, a free card

VARIABLES
    now,            \* the clock
    power,          \* is the machine on?
    up_since,       \* when it was switched on
    down_at,        \* when an ordered `shutdown -h' takes effect, or None
    by,             \* who ordered it: "auto", "tvpowerd" or "user"
    alarm,          \* RTC_WAKEUP_DEVICE
    tvpvrd,         \* does the daemon answer?
    pending,        \* recs[], by card: the start times
    ongoing,        \* ongoing_recs[]: the start time of what a card records
    user,           \* is somebody logged in?
    faults          \* failures so far

machine == <<now, power, up_since, down_at, by, alarm, tvpvrd, pending, ongoing, user, faults>>

MachineInit ==
    /\ now = 0 /\ power = TRUE /\ up_since = 0 /\ down_at = None /\ by = "user"
    /\ alarm = None /\ tvpvrd = TRUE /\ user = FALSE /\ faults = 0
    /\ pending \in {p \in [Videos -> SUBSET Starts] :
                      /\ \A v \in Videos : Cardinality(p[v]) <= 1
                      /\ Cardinality(UNION {p[v] : v \in Videos}) <= MaxRecs}
    /\ ongoing = [v \in Videos |-> None]

Scheduled == UNION {pending[v] : v \in Videos}
Recording == {ongoing[v] : v \in Videos} \ {None}

\* Something that may fail did, or did not.
Works(ok) == \/ ok /\ UNCHANGED faults
             \/ ~ok /\ faults < MaxFaults /\ faults' = faults + 1

\* The machine comes up and its init script starts tvpvrd, or fails to.
Boot(ok) ==
    /\ power' = TRUE /\ up_since' = now
    /\ tvpvrd' = ok
    /\ pending' = [v \in Videos |-> {}]
    /\ ongoing' = [v \in Videos |-> None]

\* `shutdown -h': the later order replaces the earlier one.
OrderDown(t, who) == down_at' = t /\ by' = who

\* A client asks for a recording.
AddRec(v, t) ==
    /\ tvpvrd
    /\ t > now /\ t \notin Scheduled /\ Cardinality(Scheduled) < MaxRecs
    /\ pending' = [pending EXCEPT ![v] = @ \cup {t}]
    /\ UNCHANGED <<now, power, up_since, down_at, by, alarm, tvpvrd, ongoing, user, faults>>

EndRec(v) ==
    /\ ongoing[v] # None /\ now >= ongoing[v] + Length
    /\ ongoing' = [ongoing EXCEPT ![v] = None]
    /\ UNCHANGED <<now, power, up_since, down_at, by, alarm, tvpvrd, pending, user, faults>>

Log(in) ==
    /\ power /\ user # in
    /\ user' = in
    /\ UNCHANGED <<now, power, up_since, down_at, by, alarm, tvpvrd, pending, ongoing, faults>>

\* A user at the machine calls an ordered shutdown off.
CancelShutdown ==
    /\ user /\ down_at # None
    /\ down_at' = None
    /\ UNCHANGED <<now, power, up_since, by, alarm, tvpvrd, pending, ongoing, user, faults>>

\* The ordered shutdown takes effect: tvpvrd ends with its recordings.
GoDown ==
    /\ power /\ down_at # None /\ now >= down_at
    /\ power' = FALSE /\ down_at' = None /\ tvpvrd' = FALSE /\ user' = FALSE
    /\ pending' = [v \in Videos |-> {}]
    /\ ongoing' = [v \in Videos |-> None]
    /\ UNCHANGED <<now, up_since, by, alarm, faults>>

\* The alarm of the clock, or a user, switches the machine on.
AlarmRings(ok) ==
    /\ ~power /\ alarm = now
    /\ Boot(ok) /\ Works(ok)
    /\ alarm' = None
    /\ UNCHANGED <<now, down_at, by, user>>

UserSwitchesOn ==
    /\ ~power
    /\ Boot(TRUE)
    /\ UNCHANGED <<now, down_at, by, alarm, user, faults>>

Due == \/ power /\ down_at # None /\ now >= down_at
       \/ ~power /\ alarm = now
       \/ \E v \in Videos : ongoing[v] # None /\ now >= ongoing[v] + Length

Tick ==
    /\ now < MaxTime /\ ~Due
    /\ now' = now + 1
    /\ UNCHANGED <<power, up_since, down_at, by, alarm, tvpvrd, pending, ongoing, user, faults>>
=============================================================================
