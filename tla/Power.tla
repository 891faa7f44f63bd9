-------------------------------- MODULE Power --------------------------------
(***************************************************************************)
(* The two programs that switch the recording server off, on one machine:  *)
(* the chkrec thread of tvpvrd and tvpowerd.  The clock moves on when      *)
(* neither has anything to do.                                             *)
(***************************************************************************)
EXTENDS AutoShutdown, PowerDaemon

vars == <<machine, chkvars, powervars>>

Init == MachineInit /\ AutoInit /\ PowerInit

\* A tvpvrd that has just been started, or once more, begins with a pass.
Restarted == tvpvrd' /\ (~tvpvrd \/ RestartTvpvrd(TRUE))
Fresh == chk' = IF Restarted THEN [Idle EXCEPT !.due = now] ELSE chk

Server == chkrec /\ UNCHANGED powervars
Watcher == (server_loop \/ Signal \/ TouchStartTvp) /\ Fresh /\ UNCHANGED shutdown_enable
Environment ==
    \/ /\ \/ \E v \in Videos : EndRec(v) \/ \E t \in Starts : AddRec(v, t)
          \/ \E in \in BOOLEAN : Log(in)
          \/ CancelShutdown \/ GoDown
       /\ UNCHANGED <<chkvars, powervars>>
    \/ /\ UserSwitchesOn \/ \E ok \in BOOLEAN : AlarmRings(ok)
       /\ Fresh /\ UNCHANGED <<shutdown_enable, powervars>>
    \/ /\ ~ChkDue /\ ~DaemonDue /\ Tick
       /\ UNCHANGED <<chkvars, powervars>>

Next == Server \/ Watcher \/ Environment

Spec == Init /\ [][Next]_vars

\* Neither program cuts off a recording that it could have known of when it
\* last looked: what goes on when tvpvrd is stopped or the machine goes down
\* was asked for later (check_for_shutdown and server_loop decide on what
\* they read earlier, one of them before it waits for the warning time).
SeenByStopper == IF tvpowerd.pc = "unload" \/ by = "tvpowerd" THEN tvpowerd.seen ELSE chk.seen
KnownNotCut == [][tvpvrd /\ ~tvpvrd' => Recording \cap SeenByStopper = {}]_vars
=============================================================================
