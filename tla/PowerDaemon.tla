----------------------------- MODULE PowerDaemon -----------------------------
(***************************************************************************)
(* tvpowerd, on another machine: every RefreshTime it asks over ssh who is *)
(* logged in and what the load is, and tvpvrd for its recordings; when     *)
(* nothing is due for MinPoweroff it orders a shutdown, waits, looks       *)
(* whether tvpvrd still answers, and if not it wakes the machine           *)
(* WakeupMargin before the recording with a packet that may get lost.      *)
(*                                                                         *)
(* remote_command fails only if ssh cannot be started; a link that is down *)
(* or a command that fails is an empty reply and a success.                *)
(***************************************************************************)
EXTENDS Machine

CONSTANTS
    RefreshTime,    \* server_refresh_time
    MinPoweroff,    \* min_poweroff_time
    WarningTime,    \* shutdown_warning_time
    WakeupMargin,   \* wakeup_margin_time
    UnloadDriver,   \* unload_ivtv_driver
    FreeReply       \* what tvpvrd answers to `o' when no card records

ASSUME DaemonAssumption == {RefreshTime, MinPoweroff, WarningTime, WakeupMargin} \subseteq Nat

\* tvpowerd takes the machine to be off half a minute after the warning
\* time; the ini file's values are not checked against each other.
ASSUME WarningFits == WarningTime + 1 < MinPoweroff

VARIABLES
    tvpowerd,       \* where server_loop is (pc), until when it sleeps (due),
                    \* the start of the next recording (ts); seen and lost are
                    \* for the properties: what was scheduled or recorded at
                    \* the last look, and whether a wake-up has failed since
    start_tvp       \* does the file /tmp/start_tvp exist?

powervars == <<tvpowerd, start_tvp>>

PowerInit ==
    /\ tvpowerd = [pc |-> "users", due |-> 0, ts |-> None, seen |-> {}, lost |-> FALSE]
    /\ start_tvp = FALSE

In(pc) == tvpowerd.pc = pc /\ now >= tvpowerd.due
Next1(pc) == tvpowerd' = [tvpowerd EXCEPT !.pc = pc]
After(pc, t) == tvpowerd' = [tvpowerd EXCEPT !.pc = pc, !.due = now + t]
\* The end of a round: n = 0, and server_refresh_time of sleep.
Round == After("users", RefreshTime)

\* An ssh command reaches a machine that is on and a link that works.
Ssh(ok) == (ok => power) /\ IF power THEN Works(ok) ELSE UNCHANGED faults
\* tvpvrd_command: tvpvrd answers in time, or not.
Tvpvrd(ok) == (ok => tvpvrd) /\ IF tvpvrd THEN Works(ok) ELSE UNCHANGED faults

\* users_on_remote_server: no answer counts as nobody.
users_on_remote_server(ok) ==
    /\ In("users")
    /\ Ssh(ok)
    /\ IF ok /\ user THEN Round ELSE Next1("refresh")
    /\ UNCHANGED <<now, power, up_since, down_at, by, alarm, tvpvrd, pending, ongoing, user, start_tvp>>

\* refresh_recordings, time_nextrecording; an empty list is a timeout.
refresh_recordings(ok) ==
    /\ In("refresh")
    /\ Tvpvrd(ok)
    /\ IF ok /\ Scheduled # {}
       THEN tvpowerd' = [tvpowerd EXCEPT !.pc = "ongoing", !.ts = Min(Scheduled),
                                         !.seen = Scheduled \cup Recording]
       ELSE Round
    /\ UNCHANGED <<now, power, up_since, down_at, by, alarm, tvpvrd, pending, ongoing, user, start_tvp>>

\* A mutant of NothingRecorded: any answer will do.
NothingRecordedAny(ok) == ok /\ FreeReply = "None."

\* remote_recording: only the reply `None.' says that nothing is recorded;
\* without an answer something is taken to be.
NothingRecorded(ok) == ok /\ Recording = {} /\ FreeReply = "None."

remote_recording(ok) ==
    /\ In("ongoing")
    /\ Tvpvrd(ok)
    /\ IF NothingRecorded(ok) /\ tvpowerd.ts - now >= MinPoweroff
       THEN Next1("load") ELSE Round
    /\ UNCHANGED <<now, power, up_since, down_at, by, alarm, tvpvrd, pending, ongoing, user, start_tvp>>

\* remote_server_load, low or not; without an answer it is taken to be high.
remote_server_load(low) ==
    /\ In("load")
    /\ (low => power)
    /\ IF low THEN Next1(IF UnloadDriver THEN "unload" ELSE "shutdown") ELSE Round
    /\ UNCHANGED <<machine, start_tvp>>

\* shutdown_remote_server: tvpvrd is stopped so that the driver can be
\* unloaded; then the shutdown is ordered.
unload_ivtv(ok) ==
    /\ In("unload")
    /\ Ssh(ok)
    /\ IF ok THEN /\ tvpvrd' = FALSE
                  /\ pending' = [v \in Videos |-> {}] /\ ongoing' = [v \in Videos |-> None]
       ELSE UNCHANGED <<tvpvrd, pending, ongoing>>
    /\ Next1("shutdown")
    /\ UNCHANGED <<now, power, up_since, down_at, by, alarm, user, start_tvp>>

shutdown_remote_server(ok) ==
    /\ In("shutdown")
    /\ Ssh(ok)
    /\ IF ok THEN OrderDown(now + WarningTime, "tvpowerd") ELSE UNCHANGED <<down_at, by>>
    /\ After("verify", WarningTime + 1)
    /\ UNCHANGED <<now, power, up_since, alarm, tvpvrd, pending, ongoing, user, start_tvp>>

\* verify_tvpvrd: if tvpvrd does not answer the machine is taken to be off.
verify_tvpvrd(ok) ==
    /\ In("verify")
    /\ Tvpvrd(ok)
    /\ IF ok THEN Round ELSE After("asleep", 0)
    /\ UNCHANGED <<now, power, up_since, down_at, by, alarm, tvpvrd, pending, ongoing, user, start_tvp>>

\* A mutant of WakeTime: when the recording starts.
WakeTimeAtStart == tvpowerd.ts < now

\* The time to wake the machine has come.
WakeTime == tvpowerd.ts - WakeupMargin <= now

\* Every few seconds: has a user switched the machine on, or asked for it
\* with the file, which is removed?
Watch(ok) ==
    /\ In("asleep") /\ ~WakeTime
    /\ Tvpvrd(ok)
    /\ start_tvp' = FALSE
    /\ IF ok THEN Round
       ELSE IF start_tvp THEN Next1("wake") ELSE After("asleep", 1)
    /\ UNCHANGED <<now, power, up_since, down_at, by, alarm, tvpvrd, pending, ongoing, user>>

WatchOver == /\ In("asleep") /\ WakeTime
             /\ Next1("wake")
             /\ UNCHANGED <<machine, start_tvp>>

\* wakeup_remote_server: one packet, over UDP.  Then the machine gets a
\* minute, or the driver is loaded after twenty seconds.
wakelan(ok) ==
    /\ In("wake")
    /\ Works(ok)
    /\ IF ok /\ ~power THEN Boot(TRUE)
       ELSE UNCHANGED <<power, up_since, tvpvrd, pending, ongoing>>
    /\ tvpowerd' = [tvpowerd EXCEPT !.pc = "version", !.due = now + 1, !.lost = ~ok]
    /\ UNCHANGED <<now, down_at, by, alarm, user, start_tvp>>

\* tvpvrd must answer to `v', or it is restarted; after that the round is
\* over either way.
AskVersion(ok) ==
    /\ In("version")
    /\ Tvpvrd(ok)
    /\ IF ok THEN Round ELSE Next1("restart")
    /\ UNCHANGED <<now, power, up_since, down_at, by, alarm, tvpvrd, pending, ongoing, user, start_tvp>>

RestartTvpvrd(ok) ==
    /\ In("restart")
    /\ Ssh(ok)
    /\ IF ok THEN /\ tvpvrd' = TRUE
                  /\ pending' = [v \in Videos |-> {}] /\ ongoing' = [v \in Videos |-> None]
       ELSE UNCHANGED <<tvpvrd, pending, ongoing>>
    /\ Round
    /\ UNCHANGED <<now, power, up_since, down_at, by, alarm, user, start_tvp>>

\* sighandler: server_loop returns at the end of a step of its sleeps.
Signal ==
    /\ tvpowerd.pc \in {"users", "verify", "asleep"}
    /\ Next1("ended")
    /\ UNCHANGED <<machine, start_tvp>>

TouchStartTvp ==
    /\ ~start_tvp /\ tvpowerd.pc = "asleep"
    /\ start_tvp' = TRUE
    /\ UNCHANGED <<machine, tvpowerd>>

server_loop ==
    \/ WatchOver
    \/ \E ok \in BOOLEAN :
         \/ users_on_remote_server(ok) \/ refresh_recordings(ok) \/ remote_recording(ok)
         \/ remote_server_load(ok) \/ unload_ivtv(ok) \/ shutdown_remote_server(ok)
         \/ verify_tvpvrd(ok) \/ Watch(ok) \/ wakelan(ok) \/ AskVersion(ok)
         \/ RestartTvpvrd(ok)

DaemonDue == tvpowerd.pc # "ended" /\ now >= tvpowerd.due

(***************************************************************************)
(* Properties.                                                             *)
(***************************************************************************)
\* A machine that tvpowerd switched off is on again when the recording it
\* was switched off for starts, unless the packet was lost or tvpowerd was
\* stopped: neither the wait for the shutdown, nor the watch, nor a user's
\* file makes it miss the time (server_loop, wakeup_remote_server).
WokenInTime ==
    ~power /\ by = "tvpowerd" /\ ~tvpowerd.lost /\ tvpowerd.pc # "ended" =>
        now + WakeupMargin <= tvpowerd.ts

\* docs/manpages/tvpowerd.1.xml:241: the server is shut down if nobody is
\* logged in, nothing is recorded and the next recording is far enough away.
\* So when tvpvrd answers the question for ongoing recordings while no card
\* records, tvpowerd goes on to the load (remote_recording, _cmd_ongoingrec).
FreeIsSeen ==
    [][tvpowerd.pc = "ongoing" /\ tvpowerd'.pc \in {"users", "load"} /\ tvpvrd /\ faults' = faults
        /\ Recording = {} /\ tvpowerd.ts - now >= MinPoweroff => tvpowerd'.pc = "load"]_powervars
=============================================================================
