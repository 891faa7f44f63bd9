----------------------------- MODULE PowerProofs -----------------------------
(***************************************************************************)
(* Theorems about the two programs that switch the machine off, for any    *)
(* cards, recordings, values of the two ini files and any number of        *)
(* failures.                                                               *)
(***************************************************************************)
EXTENDS Power, WellFoundedInduction, TLAPS

-----------------------------------------------------------------------------
(* The states. *)

ChkPc == {"check", "lookup", "decide", "script", "direct", "pass"}
DaemonPc == {"users", "refresh", "ongoing", "load", "unload", "shutdown", "verify", "asleep", "wake",
             "version", "restart", "ended"}
Instants == Starts \cup {None}

Chk == [pc : ChkPc, due : Nat, ts : Instants, rec : Instants, seen : SUBSET Starts, set : BOOLEAN]
Daemon == [pc : DaemonPc, due : Nat, ts : Instants, seen : SUBSET Starts, lost : BOOLEAN]

MachineTyped ==
  /\ now \in Nat /\ power \in BOOLEAN /\ tvpvrd \in BOOLEAN
  /\ down_at \in Nat \cup {None} /\ by \in {"auto", "tvpowerd", "user"}
  /\ alarm \in Int
  /\ pending \in [Videos -> SUBSET Starts]
  /\ ongoing \in [Videos -> Instants]

TypeOK == MachineTyped /\ chk \in Chk /\ tvpowerd \in Daemon

(* The constants, as the steps below need them. *)
LEMMA Constants ==
  /\ Videos \subseteq Nat /\ Starts \subseteq Nat /\ None \notin Starts /\ None \notin Nat
  /\ Length \in Nat /\ MissLimit \in Nat /\ MaxTime \in Nat
  /\ MinTime \in Nat /\ PreStartup \in Nat /\ Delay \in Nat /\ Delay + 2 < MinTime
  /\ RefreshTime \in Nat /\ MinPoweroff \in Nat /\ WarningTime \in Nat /\ WakeupMargin \in Nat
  /\ WarningTime + 1 < MinPoweroff
BY MachineAssumption, AutoAssumption, DaemonAssumption, DelayFits, WarningFits DEF None

(* Instants are numbers. *)
LEMMA InstantsAre == Instants \subseteq Int
<1>1. None \in Int
  BY DEF None
<1>2. \A t \in Starts : t \in Int
  BY Constants
<1>3. QED
  BY <1>1, <1>2 DEF Instants

(* The earliest of some times is one of them, and none of them is earlier. *)
LEMMA MinIs ==
  ASSUME NEW S \in SUBSET Nat, S # {}
  PROVE  Min(S) \in S /\ \A t \in S : Min(S) <= t
<1>1. \E s \in S : \A u \in S : ~(<<u, s>> \in OpToRel(<, Nat))
  BY WFMin, NatLessThanWellFounded, Zenon
<1>2. \A u, t \in Nat : <<u, t>> \in OpToRel(<, Nat) <=> u < t
  BY Zenon DEF OpToRel
<1>3. \E s \in S : \A u \in S : ~(u < s)
  BY <1>1, <1>2, Zenon
<1>4. \E s \in S : \A u \in S : s <= u
  BY <1>3, SMT
<1>5. QED
  BY <1>4 DEF Min

-----------------------------------------------------------------------------
(* The next recording of all cards. *)

(* The first entry of a card that has entries is one of them. *)
LEMMA HeadIs ==
  ASSUME TypeOK, NEW v \in Videos, pending[v] # {}
  PROVE  Head1(v) \in pending[v] /\ Head1(v) \in Starts /\ Head1(v) \in Nat
         /\ \A t \in pending[v] : Head1(v) <= t
<1>1. pending[v] \in SUBSET Starts /\ pending[v] \in SUBSET Nat
  BY Constants DEF TypeOK, MachineTyped
<1>2. QED
  BY <1>1, MinIs DEF Head1

(* Among cards with entries one comes before all others. *)
LEMMA EarliestIs ==
  ASSUME TypeOK, NEW cards \in SUBSET WithRecs, cards # {}
  PROVE  Earliest(cards) \in cards /\ \A u \in cards : Head1(Earliest(cards)) <= Head1(u)
<1>1. \A v \in cards : v \in Videos /\ v \in Nat /\ Head1(v) \in Nat
  BY HeadIs, Constants DEF WithRecs
<1> DEFINE heads == {Head1(v) : v \in cards}
           first == Min(heads)
           ties == {v \in cards : Head1(v) = first}
<1>2. heads \in SUBSET Nat /\ heads # {}
  BY <1>1
<1>3. first \in heads /\ \A t \in heads : first <= t
  BY <1>2, MinIs
<1>4. ties \in SUBSET Nat /\ ties # {}
  BY <1>1, <1>3
<1>5. Min(ties) \in ties /\ \A v \in ties : Min(ties) <= v
  BY <1>4, MinIs
<1>6. \A u \in cards \ {Min(ties)} : Before(Min(ties), u)
  <2>1. SUFFICES ASSUME NEW u \in cards \ {Min(ties)} PROVE Before(Min(ties), u)
    OBVIOUS
  <2>2. Head1(Min(ties)) = first /\ Min(ties) \in Nat /\ u \in Nat /\ Head1(u) \in Nat /\ first <= Head1(u)
        /\ first \in Nat
    BY <1>1, <1>2, <1>3, <1>5
  <2>3. Head1(u) = first => Min(ties) <= u
    BY <1>5
  <2>4. u # Min(ties)
    OBVIOUS
  <2> HIDE DEF first, ties, heads
  <2>5. QED
    BY <2>2, <2>3, <2>4 DEF Before
<1>7. \E v \in cards : \A u \in cards \ {v} : Before(v, u)
  BY <1>5, <1>6
<1>8. Earliest(cards) \in cards /\ \A u \in cards \ {Earliest(cards)} : Before(Earliest(cards), u)
  BY <1>7 DEF Earliest
<1>9. \A u \in cards : Head1(Earliest(cards)) <= Head1(u)
  BY <1>1, <1>8 DEF Before
<1>10. QED
  BY <1>8, <1>9

(* What is handed out as the time of the next recording is that of the first of all cards. *)
LEMMA NextIs ==
  ASSUME TypeOK
  PROVE  /\ get_nextsched_rec.ts = (IF Scheduled = {} THEN None ELSE Min(Scheduled))
         /\ get_nextsched_rec.ts \in Instants /\ get_nextsched_rec.rec \in Instants
<1>1. Scheduled \in SUBSET Nat /\ Scheduled \subseteq Starts
  BY Constants DEF TypeOK, MachineTyped, Scheduled
<1>2. CASE WithRecs = {}
  <2>1. Scheduled = {}
    BY <1>2 DEF WithRecs, Scheduled
  <2>2. QED
    BY <1>2, <2>1 DEF get_nextsched_rec, Instants
<1>3. CASE WithRecs # {}
  <2> DEFINE video == Earliest(WithRecs)
             earlier == {u \in WithRecs : u < video}
             card == IF earlier = {} THEN video ELSE Earliest(earlier)
  <2>1. video \in WithRecs /\ \A u \in WithRecs : Head1(video) <= Head1(u)
    BY <1>3, EarliestIs
  <2>2. card \in WithRecs
    BY <2>1, EarliestIs
  <2> HIDE DEF video
  <2>3. get_nextsched_rec = [ts |-> Head1(video), rec |-> Head1(card)]
    BY <1>3 DEF get_nextsched_rec, video
  <2> HIDE DEF card
  <2>4. \A u \in WithRecs : u \in Videos /\ pending[u] # {} /\ Head1(u) \in pending[u]
            /\ Head1(u) \in Starts /\ Head1(u) \in Nat /\ \A t \in pending[u] : Head1(u) <= t
    BY HeadIs DEF WithRecs
  <2>5. Head1(video) \in Scheduled
    BY <2>1, <2>4 DEF Scheduled
  <2>6. \A t \in Scheduled : Head1(video) <= t
    <3>1. SUFFICES ASSUME NEW t \in Scheduled PROVE Head1(video) <= t
      OBVIOUS
    <3>2. PICK u \in Videos : t \in pending[u]
      BY DEF Scheduled
    <3>3. u \in WithRecs
      BY <3>2 DEF WithRecs
    <3>4. t \in Nat
      BY <1>1
    <3>5. QED
      BY <2>1, <2>4, <3>2, <3>3, <3>4
  <2>7. Min(Scheduled) \in Scheduled /\ \A t \in Scheduled : Min(Scheduled) <= t
    BY <1>1, <2>5, MinIs
  <2>8. Head1(video) = Min(Scheduled)
    <3>1. Head1(video) \in Nat /\ Min(Scheduled) \in Nat
      BY <1>1, <2>5, <2>7
    <3>2. Head1(video) <= Min(Scheduled) /\ Min(Scheduled) <= Head1(video)
      BY <2>5, <2>6, <2>7
    <3>3. QED
      BY <3>1, <3>2
  <2>9. QED
    BY <2>1, <2>2, <2>3, <2>4, <2>5, <2>8 DEF Instants
<1>4. QED
  BY <1>2, <1>3

-----------------------------------------------------------------------------
(* The types. *)

(* What is scheduled or recorded are start times. *)
LEMMA TimesAre ==
  ASSUME TypeOK
  PROVE  /\ Scheduled \subseteq Starts /\ Scheduled \in SUBSET Nat
         /\ Recording \subseteq Starts /\ Recording \in SUBSET Nat
         /\ Scheduled # {} => Min(Scheduled) \in Scheduled /\ \A t \in Scheduled : Min(Scheduled) <= t
<1>1. Scheduled \subseteq Starts /\ Recording \subseteq Starts
  BY DEF TypeOK, MachineTyped, Scheduled, Recording, Instants
<1>2. Scheduled \in SUBSET Nat /\ Recording \in SUBSET Nat
  BY <1>1, Constants
<1>3. QED
  BY <1>1, <1>2, MinIs

(* The machine has its types when it is switched on, and a new tvpvrd its thread. *)
LEMMA BootTyped ==
  ASSUME TypeOK
  PROVE  /\ \A ok \in BOOLEAN : Boot(ok) => /\ power' = TRUE /\ tvpvrd' = ok
                                            /\ pending' \in [Videos -> SUBSET Starts]
                                            /\ ongoing' \in [Videos -> Instants]
         /\ Fresh => chk' \in Chk
<1>1. \A ok \in BOOLEAN : Boot(ok) => /\ power' = TRUE /\ tvpvrd' = ok
                                      /\ pending' \in [Videos -> SUBSET Starts]
                                      /\ ongoing' \in [Videos -> Instants]
  BY DEF Boot, Instants
<1>2. [Idle EXCEPT !.due = now] \in Chk
  BY DEF Idle, Chk, ChkPc, TypeOK, MachineTyped, Instants
<1>3. QED
  BY <1>1, <1>2 DEF Fresh, TypeOK

(* The chkrec thread keeps the types. *)
LEMMA ChkrecTyped == TypeOK /\ Server => TypeOK'
<1>1. SUFFICES ASSUME TypeOK, chkrec, UNCHANGED powervars PROVE TypeOK'
  BY DEF Server
<1>2. MachineTyped /\ chk \in Chk /\ now \in Nat
  BY <1>1 DEF TypeOK, MachineTyped
<1>3. SUFFICES MachineTyped' /\ chk' \in Chk
  BY <1>1 DEF TypeOK, powervars
<1>4. ASSUME NEW pc \in ChkPc, Goto(pc) PROVE chk' \in Chk
  BY <1>2, <1>4 DEF Goto, Chk
<1>5. CASE check_for_shutdown
  BY <1>2, <1>4, <1>5 DEF check_for_shutdown, machine, MachineTyped, ChkPc
<1>6. CASE LookUp
  <2>1. Scheduled \in SUBSET Starts /\ get_nextsched_rec.ts \in Instants /\ get_nextsched_rec.rec \in Instants
    BY <1>1, TimesAre, NextIs
  <2>2. chk' \in Chk
    BY <1>2, <1>6, <2>1 DEF LookUp, Chk, ChkPc
  <2>3. QED
    BY <1>2, <1>6, <2>2 DEF LookUp, machine, MachineTyped
<1>7. ASSUME NEW busy \in BOOLEAN, Decide(busy) PROVE MachineTyped' /\ chk' \in Chk
  <2>1. ASSUME chk.ts # None, set_rtc_alarm(chk.ts - PreStartup) PROVE alarm' \in Int /\ chk' \in Chk
    <3>1. chk.ts - PreStartup \in Int /\ alarm \in Int /\ None \in Int
      <4>1. chk.ts \in Nat /\ PreStartup \in Nat
        BY <1>2, <2>1, Constants DEF Chk, Instants
      <4>2. QED
        BY <1>2, <4>1 DEF MachineTyped, None
    <3>2. QED
      BY <1>2, <2>1, <3>1 DEF set_rtc_alarm, Chk, ChkPc
  <2>2. alarm' \in Int /\ chk' \in Chk
    BY <1>2, <1>4, <1>7, <2>1 DEF Decide, MachineTyped, ChkPc
  <2>3. QED
    BY <1>2, <1>7, <2>2 DEF Decide, MachineTyped
<1>8. ASSUME NEW ok \in BOOLEAN, RunScript(ok) \/ ShutdownDirectly(ok) PROVE MachineTyped' /\ chk' \in Chk
  <2>1. now + Delay \in Nat /\ now + Delay + 1 \in Nat /\ now + 1 \in Nat /\ now + 2 \in Nat
    BY <1>2, Constants
  <2>2. chk' \in Chk
    BY <1>2, <1>8, <2>1 DEF RunScript, ShutdownDirectly, Chk, ChkPc
  <2>3. QED
    BY <1>2, <1>8, <2>1, <2>2 DEF RunScript, ShutdownDirectly, OrderDown, MachineTyped
<1>9. CASE Pass
  <2>1. \A v \in Videos : Starting(v) => Head1(v) \in Instants
    BY <1>1, HeadIs DEF Starting, Instants
  <2>2. \A v \in Videos : pending[v] \in SUBSET Starts /\ ongoing[v] \in Instants
    BY <1>2 DEF MachineTyped
  <2>3. pending' \in [Videos -> SUBSET Starts] /\ ongoing' \in [Videos -> Instants]
    BY <1>9, <2>1, <2>2 DEF Pass
  <2>4. [Idle EXCEPT !.due = now + 1] \in Chk
    <3>1. now + 1 \in Nat
      BY <1>2
    <3>2. QED
      BY <3>1 DEF Idle, Chk, ChkPc, Instants
  <2>5. QED
    BY <1>2, <1>9, <2>3, <2>4 DEF Pass, MachineTyped
<1>10. QED
  BY <1>1, <1>5, <1>6, <1>7, <1>8, <1>9 DEF chkrec

(* So does tvpowerd. *)
LEMMA WatcherTyped == TypeOK /\ Watcher => TypeOK'
<1>1. SUFFICES ASSUME TypeOK, server_loop \/ Signal \/ TouchStartTvp, Fresh PROVE TypeOK'
  BY DEF Watcher
<1>2. MachineTyped /\ tvpowerd \in Daemon /\ now \in Nat
  BY <1>1 DEF TypeOK, MachineTyped
<1>3. SUFFICES MachineTyped' /\ tvpowerd' \in Daemon
  BY <1>1, BootTyped DEF TypeOK
<1>4. ASSUME NEW pc \in DaemonPc, Next1(pc) PROVE tvpowerd' \in Daemon
  BY <1>2, <1>4 DEF Next1, Daemon
<1>5. ASSUME NEW pc \in DaemonPc, NEW t \in Nat, After(pc, t) PROVE tvpowerd' \in Daemon
  <2>1. now + t \in Nat
    BY <1>2
  <2>2. QED
    BY <1>2, <1>5, <2>1 DEF After, Daemon
<1>6. Round => tvpowerd' \in Daemon
  BY <1>5, Constants DEF Round, DaemonPc
<1>7. ASSUME NEW ok \in BOOLEAN, users_on_remote_server(ok) \/ remote_recording(ok) \/ remote_server_load(ok)
      PROVE  MachineTyped' /\ tvpowerd' \in Daemon
  BY <1>2, <1>4, <1>6, <1>7
     DEF users_on_remote_server, remote_recording, remote_server_load, machine, MachineTyped, DaemonPc
<1>8. ASSUME NEW ok \in BOOLEAN, refresh_recordings(ok) PROVE MachineTyped' /\ tvpowerd' \in Daemon
  <2>1. Scheduled # {} => Min(Scheduled) \in Instants /\ Scheduled \cup Recording \in SUBSET Starts
    BY <1>1, TimesAre DEF Instants
  <2>2. tvpowerd' \in Daemon
    BY <1>2, <1>6, <1>8, <2>1 DEF refresh_recordings, Daemon, DaemonPc
  <2>3. QED
    BY <1>2, <1>8, <2>2 DEF refresh_recordings, MachineTyped
<1>9. ASSUME NEW ok \in BOOLEAN, unload_ivtv(ok) \/ RestartTvpvrd(ok) PROVE MachineTyped' /\ tvpowerd' \in Daemon
  <2>1. tvpowerd' \in Daemon
    BY <1>4, <1>6, <1>9 DEF unload_ivtv, RestartTvpvrd, DaemonPc
  <2>2. pending' \in [Videos -> SUBSET Starts] /\ ongoing' \in [Videos -> Instants] /\ tvpvrd' \in BOOLEAN
    BY <1>2, <1>9 DEF unload_ivtv, RestartTvpvrd, MachineTyped, Instants
  <2>3. QED
    BY <1>2, <1>9, <2>1, <2>2 DEF unload_ivtv, RestartTvpvrd, MachineTyped
<1>10. ASSUME NEW ok \in BOOLEAN, shutdown_remote_server(ok) PROVE MachineTyped' /\ tvpowerd' \in Daemon
  <2>1. WarningTime + 1 \in Nat /\ now + WarningTime \in Nat
    BY <1>2, Constants
  <2>2. QED
    BY <1>2, <1>5, <1>10, <2>1 DEF shutdown_remote_server, OrderDown, MachineTyped, DaemonPc
<1>11. ASSUME NEW ok \in BOOLEAN, verify_tvpvrd(ok) \/ Watch(ok) \/ AskVersion(ok)
       PROVE  MachineTyped' /\ tvpowerd' \in Daemon
  BY <1>2, <1>4, <1>5, <1>6, <1>11 DEF verify_tvpvrd, Watch, AskVersion, MachineTyped, DaemonPc
<1>12. ASSUME NEW ok \in BOOLEAN, wakelan(ok) PROVE MachineTyped' /\ tvpowerd' \in Daemon
  <2>1. tvpowerd' \in Daemon
    <3>1. now + 1 \in Nat
      BY <1>2
    <3>2. (~ok) \in BOOLEAN
      BY Zenon
    <3>3. tvpowerd' = [tvpowerd EXCEPT !.pc = "version", !.due = now + 1, !.lost = ~ok]
      BY <1>12 DEF wakelan
    <3>4. QED
      BY <1>2, <3>1, <3>2, <3>3, Zenon DEF Daemon, DaemonPc
  <2>2. QED
    BY <1>1, <1>2, <1>12, <2>1, BootTyped DEF wakelan, MachineTyped
<1>13. CASE WatchOver \/ Signal \/ TouchStartTvp
  BY <1>2, <1>4, <1>13 DEF WatchOver, Signal, TouchStartTvp, machine, MachineTyped, DaemonPc
<1>14. QED
  BY <1>1, <1>7, <1>8, <1>9, <1>10, <1>11, <1>12, <1>13 DEF server_loop

(* And what happens around them. *)
LEMMA EnvironmentTyped == TypeOK /\ Environment => TypeOK'
<1>1. SUFFICES ASSUME TypeOK, Environment PROVE TypeOK'
  OBVIOUS
<1>2. MachineTyped
  BY <1>1 DEF TypeOK
<1>3. SUFFICES MachineTyped'
  BY <1>1, BootTyped DEF Environment, TypeOK, chkvars, powervars
<1>4. ASSUME NEW v \in Videos, EndRec(v) PROVE MachineTyped'
  BY <1>2, <1>4 DEF EndRec, MachineTyped, Instants
<1>5. ASSUME NEW v \in Videos, NEW t \in Starts, AddRec(v, t) PROVE MachineTyped'
  <2>1. pending' \in [Videos -> SUBSET Starts]
    BY <1>2, <1>5 DEF AddRec, MachineTyped
  <2>2. QED
    BY <1>2, <1>5, <2>1 DEF AddRec, MachineTyped
<1>6. ASSUME NEW in \in BOOLEAN, Log(in) PROVE MachineTyped'
  BY <1>2, <1>6 DEF Log, MachineTyped
<1>7. CASE CancelShutdown \/ GoDown
  BY <1>2, <1>7 DEF CancelShutdown, GoDown, MachineTyped, Instants
<1>8. CASE UserSwitchesOn
  BY <1>1, <1>2, <1>8, BootTyped DEF UserSwitchesOn, MachineTyped
<1>9. ASSUME NEW ok \in BOOLEAN, AlarmRings(ok) PROVE MachineTyped'
  <2>1. /\ power' = TRUE /\ tvpvrd' \in BOOLEAN
        /\ pending' \in [Videos -> SUBSET Starts] /\ ongoing' \in [Videos -> Instants]
    BY <1>1, <1>9, BootTyped DEF AlarmRings
  <2>2. alarm' \in Int
    BY <1>9 DEF AlarmRings, None
  <2>3. QED
    BY <1>2, <1>9, <2>1, <2>2 DEF AlarmRings, MachineTyped
<1>10. CASE Tick
  BY <1>2, <1>10 DEF Tick, MachineTyped
<1>11. QED
  BY <1>1, <1>4, <1>5, <1>6, <1>7, <1>8, <1>9, <1>10 DEF Environment

(* The machine, the thread and tvpowerd have their types from the start on. *)
LEMMA Typed == Spec => []TypeOK
<1>1. Init => TypeOK
  BY Constants DEF Init, MachineInit, AutoInit, PowerInit, Idle, TypeOK, MachineTyped, Chk, ChkPc, Daemon,
               DaemonPc, Instants, None
<1>2. TypeOK /\ [Next]_vars => TypeOK'
  <2>1. TypeOK /\ UNCHANGED vars => TypeOK'
    BY DEF vars, machine, chkvars, powervars, TypeOK, MachineTyped
  <2>2. QED
    BY <2>1, ChkrecTyped, WatcherTyped, EnvironmentTyped DEF Next
<1>3. QED
  BY <1>1, <1>2, PTL DEF Spec

-----------------------------------------------------------------------------
(* The inductive invariants. *)

Pending(who) == down_at # None /\ by = who

\* Only a machine that is on runs tvpvrd, or goes down, and a shutdown that is ordered is not late.
PowerInv ==
  /\ tvpvrd => power
  /\ down_at # None => power /\ now <= down_at /\ by # "user"
  /\ \A t \in Recording : t <= now

\* tvpowerd never lets a moment pass that it should not.
DaemonClock ==
  /\ tvpowerd.pc \in {"verify", "asleep"} => now <= tvpowerd.due
  /\ tvpowerd.pc \in {"ongoing", "load", "unload", "shutdown", "wake"} => tvpowerd.due <= now
  /\ tvpowerd.pc \in {"load", "unload", "shutdown"} => now + MinPoweroff <= tvpowerd.ts

\* If it wakes the machine no longer before a recording than it looks whether that is off.
MarginFits == WarningTime + 1 + WakeupMargin <= MinPoweroff
InTime ==
  /\ tvpowerd.pc \in {"verify", "asleep"} => tvpowerd.due + WakeupMargin <= tvpowerd.ts
  /\ tvpowerd.pc = "wake" => now + WakeupMargin <= tvpowerd.ts

\* While its order is pending it waits for it; a machine that is off by it is watched over.
DaemonOrder ==
  /\ Pending("tvpowerd") => /\ tvpowerd.pc \in {"verify", "ended"}
                            /\ tvpowerd.pc = "verify" => down_at < tvpowerd.due
  /\ ~power /\ by = "tvpowerd" /\ ~tvpowerd.lost =>
       tvpowerd.pc \in {"verify", "asleep", "wake", "ended"}

\* What tvpowerd has seen and is earlier than the next recording it waits for was recorded then.
OldOnly == \A t \in tvpowerd.seen : t < tvpowerd.ts => t <= now /\ t \notin Scheduled
Stops == tvpowerd.pc \in {"load", "unload", "shutdown"} \/ Pending("tvpowerd")
DaemonSeen ==
  /\ tvpowerd.pc = "ongoing" => OldOnly
  /\ Stops => OldOnly /\ now < tvpowerd.ts /\ tvpowerd.seen \cap Recording = {}
  /\ Pending("tvpowerd") => down_at < tvpowerd.ts

\* The thread remembers the alarm it has set as long as it may still switch the machine off.
ChkSet ==
  /\ chk.set => chk.pc \in {"script", "direct", "pass"} /\ chk.seen # {}
  /\ chk.pc = "decide" => chk.ts = (IF chk.seen = {} THEN None ELSE Min(chk.seen))

\* It orders the shutdown, and the machine is down, before any recording it has seen.
ChkClock ==
  tvpvrd => /\ chk.pc = "script" => chk.due <= now /\ \A t \in chk.seen : now + MinTime < t
            /\ chk.pc = "direct" => now <= chk.due /\ \A t \in chk.seen : chk.due + 2 < t

\* Before the alarm, too.
Alarm == Min(chk.seen) - PreStartup
AlarmInv ==
  /\ chk.set /\ tvpvrd =>
       /\ alarm = Alarm
       /\ chk.pc = "script" => now + MinTime < Alarm
       /\ chk.pc = "direct" => chk.due + 2 < Alarm
       /\ chk.pc = "pass" => now <= chk.due /\ chk.due < Alarm
  /\ Pending("auto") => down_at <= now + Delay + 1
  /\ chk.set /\ Pending("auto") => alarm = Alarm /\ down_at < Alarm
  /\ chk.set /\ ~power /\ by = "auto" => alarm = Alarm /\ now <= Alarm

\* No recording is there twice.
Single ==
  /\ \A u, v \in Videos : u # v => pending[u] \cap pending[v] = {}
  /\ Recording \cap Scheduled = {}

\* An order of the thread is for before what it has seen, or is left from an earlier tvpvrd.
ChkOrder ==
  tvpvrd /\ Pending("auto") =>
    \/ Single /\ Recording \cap chk.seen = {}
    \/ /\ chk.pc \in {"direct", "pass"} /\ down_at < chk.due
       /\ \A t \in chk.seen : down_at < t

-----------------------------------------------------------------------------
(* The recordings, and the machine. *)

\* Nothing is scheduled or recorded.
Empty == Scheduled = {} /\ Recording = {}

(* What each step makes of the recordings. *)
LEMMA RecSteps ==
  ASSUME TypeOK
  PROVE  /\ UNCHANGED <<pending, ongoing>> => Scheduled' = Scheduled /\ Recording' = Recording
         /\ Pass => /\ Scheduled' \subseteq Scheduled
                    /\ \A t \in Recording' \ Recording : t \in Scheduled /\ t <= now
         /\ \A v \in Videos : EndRec(v) => Scheduled' = Scheduled /\ Recording' \subseteq Recording
         /\ \A v \in Videos, t \in Starts : AddRec(v, t) =>
              /\ Scheduled' = Scheduled \cup {t} /\ Recording' = Recording
              /\ now < t
         /\ pending' = [v \in Videos |-> {}] /\ ongoing' = [v \in Videos |-> None] => Empty'
<1>1. UNCHANGED <<pending, ongoing>> => Scheduled' = Scheduled /\ Recording' = Recording
  BY DEF Scheduled, Recording
<1>2. ASSUME Pass
      PROVE  /\ Scheduled' \subseteq Scheduled
             /\ \A t \in Recording' \ Recording : t \in Scheduled /\ t <= now
  <2>1. \A v \in Videos : pending'[v] \subseteq pending[v]
    BY <1>2 DEF Pass
  <2>2. Scheduled' \subseteq Scheduled
    BY <2>1 DEF Scheduled
  <2>3. \A v \in Videos : ongoing'[v] = (IF Starting(v) THEN Head1(v) ELSE ongoing[v])
    BY <1>2 DEF Pass
  <2>4. ASSUME NEW t \in Recording' \ Recording PROVE t \in Scheduled /\ t <= now
    <3>1. PICK v \in Videos : ongoing'[v] = t /\ t # None
      BY <2>4 DEF Recording
    <3>2. Starting(v) /\ t = Head1(v)
      BY <2>3, <2>4, <3>1 DEF Recording
    <3>3. Head1(v) \in pending[v] /\ Head1(v) \in Nat /\ now >= Head1(v) /\ now \in Nat
      BY <3>2, HeadIs DEF Starting, TypeOK, MachineTyped
    <3>4. QED
      BY <3>1, <3>2, <3>3 DEF Scheduled
  <2>5. QED
    BY <2>2, <2>4
<1>3. ASSUME NEW v \in Videos, EndRec(v) PROVE Scheduled' = Scheduled /\ Recording' \subseteq Recording
  BY <1>3 DEF EndRec, Scheduled, Recording, TypeOK, MachineTyped
<1>4. ASSUME NEW v \in Videos, NEW t \in Starts, AddRec(v, t)
      PROVE  Scheduled' = Scheduled \cup {t} /\ Recording' = Recording /\ now < t
  <2>1. pending' = [pending EXCEPT ![v] = @ \cup {t}] /\ pending \in [Videos -> SUBSET Starts]
    BY <1>4 DEF AddRec, TypeOK, MachineTyped
  <2>2. Scheduled' \subseteq Scheduled \cup {t}
    BY <2>1 DEF Scheduled
  <2>3. Scheduled \cup {t} \subseteq Scheduled'
    BY <2>1 DEF Scheduled
  <2>4. now < t
    BY <1>4, Constants DEF AddRec, TypeOK, MachineTyped
  <2>5. QED
    BY <1>4, <2>2, <2>3, <2>4 DEF AddRec, Recording
<1>5. ASSUME pending' = [v \in Videos |-> {}], ongoing' = [v \in Videos |-> None] PROVE Empty'
  BY <1>5 DEF Empty, Scheduled, Recording
<1>6. QED
  BY <1>1, <1>2, <1>3, <1>4, <1>5

(* A recording that is not there twice does not come to be. *)
LEMMA SingleSteps ==
  ASSUME TypeOK, PowerInv
  PROVE  /\ Single /\ UNCHANGED <<pending, ongoing>> => Single'
         /\ Single /\ Pass => Single'
         /\ \A v \in Videos : Single /\ EndRec(v) => Single'
         /\ \A v \in Videos, t \in Starts : Single /\ AddRec(v, t) => Single'
         /\ pending' = [v \in Videos |-> {}] /\ ongoing' = [v \in Videos |-> None] => Single'
<1>1. Single /\ UNCHANGED <<pending, ongoing>> => Single'
  BY RecSteps DEF Single
<1>2. ASSUME Single, Pass PROVE Single'
  <2>1. \A v \in Videos : /\ pending'[v] = (IF TooLate(v) \/ Starting(v) THEN pending[v] \ {Head1(v)}
                                            ELSE pending[v])
                          /\ ongoing'[v] = (IF Starting(v) THEN Head1(v) ELSE ongoing[v])
    BY <1>2 DEF Pass
  <2>2. \A u, v \in Videos : u # v => pending'[u] \cap pending'[v] = {}
    BY <1>2, <2>1 DEF Single
  <2>3. ASSUME NEW t \in Recording', t \in Scheduled' PROVE FALSE
    <3>1. PICK u \in Videos : t \in pending'[u]
      BY <2>3 DEF Scheduled
    <3>2. t \in pending[u] /\ t \in Scheduled
      BY <2>1, <3>1 DEF Scheduled
    <3>3. PICK v \in Videos : ongoing'[v] = t /\ t # None
      BY <2>3 DEF Recording
    <3>4. Starting(v) /\ t = Head1(v)
      BY <1>2, <2>1, <3>2, <3>3 DEF Single, Recording
    <3>5. t \in pending[v] /\ t \notin pending'[v]
      BY <2>1, <3>4, HeadIs DEF Starting
    <3>6. QED
      BY <1>2, <3>1, <3>2, <3>5 DEF Single
  <2>4. QED
    BY <2>2, <2>3 DEF Single
<1>3. ASSUME NEW v \in Videos, Single, EndRec(v) PROVE Single'
  <2>1. UNCHANGED pending
    BY <1>3 DEF EndRec
  <2>2. QED
    BY <1>3, <2>1, RecSteps DEF Single
<1>4. ASSUME NEW v \in Videos, NEW t \in Starts, Single, AddRec(v, t) PROVE Single'
  <2>1. t \notin Scheduled /\ pending' = [pending EXCEPT ![v] = @ \cup {t}]
        /\ pending \in [Videos -> SUBSET Starts]
    BY <1>4 DEF AddRec, TypeOK, MachineTyped
  <2>2. \A u \in Videos : t \notin pending[u]
    BY <2>1 DEF Scheduled
  <2>3. \A u, w \in Videos : u # w => pending'[u] \cap pending'[w] = {}
    BY <1>4, <2>1, <2>2 DEF Single
  <2>4. t \notin Recording
    <3>1. now < t /\ now \in Nat /\ t \in Nat
      BY <1>4, RecSteps, Constants DEF TypeOK, MachineTyped
    <3>2. t \in Recording => t <= now
      BY DEF PowerInv
    <3>3. QED
      BY <3>1, <3>2
  <2>5. Recording' \cap Scheduled' = {}
    BY <1>4, <2>4, RecSteps DEF Single
  <2>6. QED
    BY <2>3, <2>5 DEF Single
<1>5. ASSUME pending' = [v \in Videos |-> {}], ongoing' = [v \in Videos |-> None] PROVE Single'
  BY <1>5, RecSteps DEF Single, Empty
<1>6. QED
  BY <1>1, <1>2, <1>3, <1>4, <1>5

\* What leaves the machine and its recordings as they are, but for the alarm and what is scheduled.
Quiet == UNCHANGED <<now, power, down_at, by, tvpvrd, ongoing>>

(* Looking changes nothing about the machine. *)
LEMMA QuietSteps ==
  /\ check_for_shutdown \/ LookUp => Quiet /\ UNCHANGED <<pending, alarm>>
  /\ \A busy \in BOOLEAN : Decide(busy) => Quiet /\ UNCHANGED pending
  /\ \A ok \in BOOLEAN : \/ users_on_remote_server(ok) \/ refresh_recordings(ok) \/ remote_recording(ok)
                         \/ remote_server_load(ok) \/ verify_tvpvrd(ok) \/ Watch(ok) \/ AskVersion(ok)
                         => Quiet /\ UNCHANGED <<pending, alarm>>
  /\ WatchOver \/ Signal \/ TouchStartTvp => Quiet /\ UNCHANGED <<pending, alarm>>
  /\ \A v \in Videos, t \in Starts : AddRec(v, t) => Quiet /\ UNCHANGED alarm
  /\ \A in \in BOOLEAN : Log(in) => Quiet /\ UNCHANGED <<pending, alarm>>
BY DEF check_for_shutdown, LookUp, Decide, users_on_remote_server, refresh_recordings, remote_recording,
       remote_server_load, verify_tvpvrd, Watch, AskVersion, WatchOver, Signal, TouchStartTvp, AddRec, Log,
       machine, Quiet

(* The machine that runs tvpvrd is on, and does not miss its time to go down. *)
LEMMA PowerKept == TypeOK /\ PowerInv /\ [Next]_vars => PowerInv'
<1>1. SUFFICES ASSUME TypeOK, PowerInv, [Next]_vars PROVE PowerInv'
  OBVIOUS
<1>2. /\ now \in Nat /\ down_at \in Nat \cup {None} /\ None \notin Nat
      /\ Delay \in Nat /\ WarningTime \in Nat
  BY <1>1, Constants DEF TypeOK, MachineTyped
<1>3. \A t \in Recording : t \in Nat
  BY <1>1, TimesAre
<1>4. ASSUME Quiet PROVE PowerInv'
  BY <1>1, <1>4 DEF Quiet, PowerInv, Recording
<1>5. ASSUME NEW ok \in BOOLEAN, RunScript(ok) \/ ShutdownDirectly(ok) PROVE PowerInv'
  <2>1. tvpvrd /\ UNCHANGED <<now, power, tvpvrd, ongoing>>
    BY <1>5 DEF RunScript, ShutdownDirectly, At
  <2>2. UNCHANGED <<down_at, by>> \/ (down_at' \in {now + Delay, now + 1} /\ by' = "auto")
    BY <1>5 DEF RunScript, ShutdownDirectly, OrderDown
  <2>3. QED
    BY <1>1, <1>2, <2>1, <2>2 DEF PowerInv, Recording
<1>6. CASE Pass
  <2>1. UNCHANGED <<now, power, down_at, by, tvpvrd>>
    BY <1>6 DEF Pass
  <2>2. \A t \in Recording' : t <= now
    BY <1>1, <1>6, RecSteps DEF PowerInv
  <2>3. QED
    BY <1>1, <2>1, <2>2 DEF PowerInv
<1>7. ASSUME NEW ok \in BOOLEAN, unload_ivtv(ok) \/ RestartTvpvrd(ok) PROVE PowerInv'
  <2>1. UNCHANGED <<now, power, down_at, by>> /\ (ok => power)
    BY <1>7 DEF unload_ivtv, RestartTvpvrd, Ssh
  <2>2. \A t \in Recording' : t <= now
    BY <1>1, <1>7, RecSteps DEF unload_ivtv, RestartTvpvrd, PowerInv, Empty
  <2>3. tvpvrd' => power
    BY <1>1, <1>7, <2>1 DEF unload_ivtv, RestartTvpvrd, PowerInv
  <2>4. QED
    BY <1>1, <2>1, <2>2, <2>3 DEF PowerInv
<1>8. ASSUME NEW ok \in BOOLEAN, shutdown_remote_server(ok) PROVE PowerInv'
  <2>1. UNCHANGED <<now, power, tvpvrd, ongoing>> /\ (ok => power)
    BY <1>8 DEF shutdown_remote_server, Ssh
  <2>2. UNCHANGED <<down_at, by>> \/ (ok /\ down_at' = now + WarningTime /\ by' = "tvpowerd")
    BY <1>8 DEF shutdown_remote_server, OrderDown
  <2>3. QED
    BY <1>1, <1>2, <2>1, <2>2 DEF PowerInv, Recording
<1>9. ASSUME NEW ok \in BOOLEAN, wakelan(ok) PROVE PowerInv'
  <2>1. CASE Quiet
    BY <1>4, <2>1
  <2>2. CASE ~power /\ Boot(TRUE) /\ UNCHANGED <<now, down_at, by>>
    BY <1>1, <2>2, RecSteps DEF Boot, PowerInv, Empty
  <2>3. QED
    BY <1>9, <2>1, <2>2 DEF wakelan, Quiet
<1>10. ASSUME NEW v \in Videos, EndRec(v) PROVE PowerInv'
  <2>1. UNCHANGED <<now, power, down_at, by, tvpvrd>>
    BY <1>10 DEF EndRec
  <2>2. QED
    BY <1>1, <1>10, <2>1, RecSteps DEF PowerInv
<1>11. CASE CancelShutdown
  BY <1>1, <1>11 DEF CancelShutdown, PowerInv, Recording
<1>12. CASE GoDown
  BY <1>1, <1>12, RecSteps DEF GoDown, PowerInv, Empty
<1>13. ASSUME UserSwitchesOn \/ \E ok \in BOOLEAN : AlarmRings(ok) PROVE PowerInv'
  <2>1. ~power /\ power' = TRUE /\ UNCHANGED <<now, down_at, by>>
    BY <1>13 DEF UserSwitchesOn, AlarmRings, Boot
  <2>2. Recording' = {}
    BY <1>1, <1>13, RecSteps DEF UserSwitchesOn, AlarmRings, Boot, Empty
  <2>3. QED
    BY <1>1, <2>1, <2>2 DEF PowerInv
<1>14. CASE Tick
  <2>1. now' = now + 1 /\ UNCHANGED <<power, down_at, by, tvpvrd, ongoing>> /\ (power /\ down_at # None => now < down_at)
    BY <1>2, <1>14 DEF Tick, Due
  <2>2. \A t \in Recording : t <= now'
    BY <1>1, <1>2, <1>3, <2>1 DEF PowerInv
  <2>3. QED
    BY <1>1, <1>2, <2>1, <2>2 DEF PowerInv, Recording
<1>15. CASE UNCHANGED vars
  BY <1>4, <1>15 DEF vars, machine, Quiet
<1>16. QED
  BY <1>1, <1>4, <1>5, <1>6, <1>7, <1>8, <1>9, <1>10, <1>11, <1>12, <1>13, <1>14, <1>15, QuietSteps
     DEF Next, Server, Watcher, Environment, chkrec, server_loop

-----------------------------------------------------------------------------
(* tvpowerd. *)

\* What is new is for later; what begins to be recorded was scheduled, for now or earlier.
RecsMove ==
  /\ \A t \in Scheduled' \ Scheduled : now < t
  /\ \A t \in Recording' \ Recording : t \in Scheduled /\ t <= now

(* Whatever happens around tvpowerd makes no order of it, and the clock waits for it. *)
LEMMA AroundDaemon ==
  ASSUME TypeOK, Server \/ Environment
  PROVE  /\ UNCHANGED tvpowerd /\ RecsMove
         /\ UNCHANGED now \/ (now' = now + 1 /\ ~DaemonDue /\ ~(power /\ down_at # None /\ now >= down_at))
         /\ Pending("tvpowerd")' => Pending("tvpowerd") /\ UNCHANGED down_at
         /\ ~power' /\ by' = "tvpowerd" => (~power /\ by = "tvpowerd") \/ Pending("tvpowerd")
<1> DEFINE Fine ==
      /\ RecsMove
      /\ UNCHANGED now \/ (now' = now + 1 /\ ~DaemonDue /\ ~(power /\ down_at # None /\ now >= down_at))
      /\ Pending("tvpowerd")' => Pending("tvpowerd") /\ UNCHANGED down_at
      /\ ~power' /\ by' = "tvpowerd" => (~power /\ by = "tvpowerd") \/ Pending("tvpowerd")
<1>1. UNCHANGED tvpowerd
  BY DEF Server, Environment, powervars
<1>2. ASSUME UNCHANGED <<now, power, down_at, by>>, RecsMove PROVE Fine
  BY <1>2 DEF Pending
<1>3. UNCHANGED <<pending, ongoing>> => RecsMove
  BY RecSteps DEF RecsMove
<1>4. ASSUME Empty' PROVE RecsMove
  BY <1>4 DEF RecsMove, Empty
<1>5. check_for_shutdown \/ LookUp => Fine
  BY <1>2, <1>3, QuietSteps DEF Quiet
<1>6. \A busy \in BOOLEAN : Decide(busy) => Fine
  BY <1>2, <1>3, QuietSteps DEF Quiet
<1>7. ASSUME NEW ok \in BOOLEAN, RunScript(ok) \/ ShutdownDirectly(ok) PROVE Fine
  <2>1. UNCHANGED <<now, power, pending, ongoing>>
    BY <1>7 DEF RunScript, ShutdownDirectly
  <2>2. UNCHANGED <<down_at, by>> \/ by' = "auto"
    BY <1>7 DEF RunScript, ShutdownDirectly, OrderDown
  <2>3. RecsMove
    BY <1>3, <2>1
  <2>4. Pending("tvpowerd")' => Pending("tvpowerd") /\ UNCHANGED down_at
    BY <2>2 DEF Pending
  <2>5. ~power' /\ by' = "tvpowerd" => (~power /\ by = "tvpowerd") \/ Pending("tvpowerd")
    BY <2>1, <2>2
  <2>6. QED
    BY <2>1, <2>3, <2>4, <2>5
<1>8. CASE Pass
  BY <1>1, <1>2, <1>8, RecSteps DEF Pass, RecsMove
<1>9. ASSUME NEW v \in Videos, EndRec(v) PROVE Fine
  BY <1>2, <1>9, RecSteps DEF EndRec, RecsMove
<1>10. ASSUME NEW v \in Videos, NEW t \in Starts, AddRec(v, t) PROVE Fine
  <2>1. RecsMove
    BY <1>10, RecSteps DEF RecsMove
  <2>2. QED
    BY <1>2, <1>10, <2>1 DEF AddRec
<1>11. \A in \in BOOLEAN : Log(in) => Fine
  BY <1>2, <1>3, QuietSteps DEF Quiet
<1>12. CASE CancelShutdown
  BY <1>1, <1>3, <1>12 DEF CancelShutdown, Pending
<1>13. CASE GoDown
  <2>1. Empty'
    BY <1>13, RecSteps DEF GoDown
  <2>2. QED
    BY <1>1, <1>4, <1>13, <2>1 DEF GoDown, Pending
<1>14. CASE UserSwitchesOn \/ \E ok \in BOOLEAN : AlarmRings(ok)
  <2>1. Empty' /\ UNCHANGED <<now, down_at, by>> /\ power' = TRUE
    BY <1>14, RecSteps DEF UserSwitchesOn, AlarmRings, Boot
  <2>2. QED
    BY <1>1, <1>4, <2>1 DEF Pending
<1>15. CASE Tick /\ ~DaemonDue
  BY <1>1, <1>3, <1>15 DEF Tick, Due, Pending
<1>16. QED
  BY <1>1, <1>5, <1>6, <1>7, <1>8, <1>9, <1>10, <1>11, <1>12, <1>13, <1>14, <1>15
     DEF Server, Environment, chkrec

\* What tvpowerd knows of time, of its order and of the recordings.
DaemonInv == DaemonClock /\ DaemonOrder /\ DaemonSeen

(* It stays so whatever happens around it. *)
LEMMA AroundDaemonKept ==
  ASSUME TypeOK, PowerInv, DaemonInv, Server \/ Environment
  PROVE  DaemonInv' /\ (InTime => InTime')
<1>0. /\ now \in Nat /\ down_at \in Nat \cup {None} /\ None \notin Nat /\ tvpowerd.due \in Nat
      /\ tvpowerd.ts \in Int /\ tvpowerd.pc \in DaemonPc
      /\ MinPoweroff \in Nat /\ WakeupMargin \in Nat
      /\ tvpowerd.seen \subseteq Starts /\ \A t \in tvpowerd.seen : t \in Nat
      /\ \A t \in Recording : t \in Nat
  <2>1. /\ now \in Nat /\ down_at \in Nat \cup {None} /\ tvpowerd.due \in Nat
        /\ tvpowerd.ts \in Instants /\ tvpowerd.pc \in DaemonPc /\ tvpowerd.seen \subseteq Starts
    BY DEF TypeOK, MachineTyped, Daemon
  <2>2. tvpowerd.ts \in Int
    BY <2>1, InstantsAre
  <2>3. QED
    BY <2>1, <2>2, Constants, TimesAre
<1>1. /\ UNCHANGED tvpowerd /\ RecsMove
      /\ UNCHANGED now \/ (now' = now + 1 /\ ~DaemonDue /\ ~(power /\ down_at # None /\ now >= down_at))
      /\ Pending("tvpowerd")' => Pending("tvpowerd") /\ UNCHANGED down_at
      /\ ~power' /\ by' = "tvpowerd" => (~power /\ by = "tvpowerd") \/ Pending("tvpowerd")
  BY AroundDaemon
<1>2. now' = now + 1 => tvpowerd.pc = "ended" \/ now < tvpowerd.due
  BY <1>0, <1>1 DEF DaemonDue
<1>3. DaemonClock'
  BY <1>0, <1>1, <1>2 DEF DaemonInv, DaemonClock
<1>4. DaemonOrder'
  BY <1>0, <1>1 DEF DaemonInv, DaemonOrder
<1>5. DaemonSeen'
  <2>1. Stops' => Stops
    BY <1>1 DEF Stops
  <2>2. OldOnly => OldOnly'
    <3>1. SUFFICES ASSUME OldOnly, NEW t \in tvpowerd.seen, t < tvpowerd.ts
                   PROVE  t <= now' /\ t \notin Scheduled'
      BY <1>1 DEF OldOnly
    <3>2. t <= now /\ t \notin Scheduled /\ t \in Nat
      BY <1>0, <3>1 DEF OldOnly
    <3>3. t \in Scheduled' => now < t
      BY <1>1, <3>2 DEF RecsMove
    <3>4. QED
      BY <1>0, <1>1, <3>2, <3>3
  <2>3. ASSUME Stops PROVE tvpowerd.seen \cap Recording' = {}
    <3>1. OldOnly /\ now < tvpowerd.ts /\ tvpowerd.seen \cap Recording = {}
      BY <2>3 DEF DaemonInv, DaemonSeen
    <3>2. ASSUME NEW t \in tvpowerd.seen, t \in Recording' PROVE FALSE
      <4>1. t \in Scheduled /\ t <= now /\ t \in Nat
        BY <1>0, <1>1, <3>1, <3>2 DEF RecsMove
      <4>2. t < tvpowerd.ts
        BY <1>0, <3>1, <4>1
      <4>3. QED
        BY <3>1, <3>2, <4>1, <4>2 DEF OldOnly
    <3>3. QED
      BY <3>2
  <2>4. Stops' => now' < tvpowerd.ts
    <3>1. ASSUME Stops', now' = now + 1 PROVE now' < tvpowerd.ts
      <4>1. tvpowerd.pc \in {"load", "unload", "shutdown"} => now < tvpowerd.due /\ tvpowerd.due <= now
        BY <1>2, <3>1 DEF DaemonInv, DaemonClock
      <4>2. Pending("tvpowerd") /\ down_at' = down_at
        BY <1>0, <1>1, <3>1, <4>1 DEF Stops
      <4>3. power /\ down_at # None /\ down_at \in Nat /\ down_at < tvpowerd.ts
        BY <1>0, <4>2 DEF PowerInv, Pending, DaemonInv, DaemonSeen
      <4>4. now < down_at
        BY <1>0, <1>1, <3>1, <4>3
      <4>5. QED
        BY <1>0, <3>1, <4>3, <4>4
    <3>2. QED
      BY <1>1, <2>1, <3>1 DEF DaemonInv, DaemonSeen
  <2>5. QED
    BY <1>1, <2>1, <2>2, <2>3, <2>4 DEF DaemonInv, DaemonSeen
<1>6. InTime => InTime'
  BY <1>0, <1>1, <1>2 DEF InTime, DaemonInv, DaemonClock
<1>7. QED
  BY <1>3, <1>4, <1>5, <1>6 DEF DaemonInv

(* Where tvpowerd has no order and watches over no machine, there is nothing to know. *)
LEMMA IdleKnows ==
  ASSUME tvpowerd'.pc \in {"users", "refresh", "version", "restart"}, UNCHANGED <<down_at, by>>,
         ~Pending("tvpowerd"), power' \/ by # "tvpowerd" \/ tvpowerd'.lost
  PROVE  DaemonInv' /\ InTime'
<1>1. ~Pending("tvpowerd")'
  BY DEF Pending
<1>2. DaemonClock' /\ InTime'
  BY DEF DaemonClock, InTime
<1>3. DaemonOrder'
  BY <1>1 DEF DaemonOrder
<1>4. DaemonSeen'
  BY <1>1 DEF DaemonSeen, Stops
<1>5. QED
  BY <1>2, <1>3, <1>4 DEF DaemonInv

(* How tvpowerd goes on. *)
LEMMA DaemonGoes ==
  ASSUME TypeOK
  PROVE  /\ \A pc : Next1(pc) => /\ tvpowerd'.pc = pc /\ tvpowerd'.due = tvpowerd.due
                                 /\ tvpowerd'.ts = tvpowerd.ts /\ tvpowerd'.seen = tvpowerd.seen
                                 /\ tvpowerd'.lost = tvpowerd.lost
         /\ \A pc, t : After(pc, t) => /\ tvpowerd'.pc = pc /\ tvpowerd'.due = now + t
                                       /\ tvpowerd'.ts = tvpowerd.ts /\ tvpowerd'.seen = tvpowerd.seen
                                       /\ tvpowerd'.lost = tvpowerd.lost
         /\ Round => tvpowerd'.pc = "users" /\ tvpowerd'.lost = tvpowerd.lost
BY DEF TypeOK, Daemon, Next1, After, Round

(* Before tvpowerd orders a shutdown it makes sure that nothing is recorded or due; then it waits, *)
(* looks whether the machine is off, and wakes it. *)
LEMMA DaemonKept ==
  ASSUME TypeOK, PowerInv, DaemonInv, server_loop \/ Signal \/ TouchStartTvp
  PROVE  DaemonInv' /\ (MarginFits /\ InTime => InTime')
<1>0. /\ now \in Nat /\ down_at \in Nat \cup {None} /\ None \notin Nat /\ tvpowerd.due \in Nat
      /\ tvpowerd.ts \in Int /\ tvpowerd.pc \in DaemonPc
      /\ MinPoweroff \in Nat /\ WakeupMargin \in Nat /\ WarningTime \in Nat /\ WarningTime + 1 < MinPoweroff
      /\ \A t \in tvpowerd.seen : t \in Nat
      /\ Scheduled \in SUBSET Nat /\ Recording \in SUBSET Nat
  <2>1. /\ now \in Nat /\ down_at \in Nat \cup {None} /\ tvpowerd.due \in Nat
        /\ tvpowerd.ts \in Instants /\ tvpowerd.pc \in DaemonPc /\ tvpowerd.seen \subseteq Starts
    BY DEF TypeOK, MachineTyped, Daemon
  <2>2. tvpowerd.ts \in Int
    BY <2>1, InstantsAre
  <2>3. QED
    BY <2>1, <2>2, Constants, TimesAre
<1>1. DaemonClock /\ DaemonOrder /\ DaemonSeen
  BY DEF DaemonInv
<1> DEFINE Fine == DaemonInv' /\ (MarginFits /\ InTime => InTime')
<1>2. ASSUME tvpowerd.pc \notin {"verify", "asleep", "wake", "ended"}, UNCHANGED <<power, down_at, by>>,
             tvpowerd'.lost = tvpowerd.lost, tvpowerd'.pc \in {"users", "refresh", "version", "restart"}
      PROVE  Fine
  <2>1. ~Pending("tvpowerd") /\ (power' \/ by # "tvpowerd" \/ tvpowerd'.lost)
    BY <1>1, <1>2 DEF DaemonOrder
  <2>2. QED
    BY <1>2, <2>1, IdleKnows
<1>3. UNCHANGED <<pending, ongoing>> => UNCHANGED <<Scheduled, Recording>>
  BY RecSteps
<1>4. ASSUME NEW ok \in BOOLEAN, users_on_remote_server(ok) \/ AskVersion(ok) \/ RestartTvpvrd(ok) PROVE Fine
  BY <1>2, <1>4, DaemonGoes DEF users_on_remote_server, AskVersion, RestartTvpvrd, In
<1>5. ASSUME NEW ok \in BOOLEAN, refresh_recordings(ok) PROVE Fine
  <2>1. tvpowerd.pc = "refresh" /\ tvpowerd.due <= now /\ UNCHANGED <<now, power, down_at, by, pending, ongoing>>
    BY <1>0, <1>5 DEF refresh_recordings, In
  <2>2. CASE Round
    BY <1>2, <2>1, <2>2, DaemonGoes
  <2>3. CASE Scheduled # {} /\ tvpowerd' = [tvpowerd EXCEPT !.pc = "ongoing", !.ts = Min(Scheduled),
                                                            !.seen = Scheduled \cup Recording]
    <3>1. /\ tvpowerd'.pc = "ongoing" /\ tvpowerd'.ts = Min(Scheduled) /\ tvpowerd'.due = tvpowerd.due
          /\ tvpowerd'.seen = Scheduled \cup Recording /\ tvpowerd'.lost = tvpowerd.lost
      BY <2>3 DEF TypeOK, Daemon
    <3>2. ~Pending("tvpowerd") /\ (power \/ by # "tvpowerd" \/ tvpowerd.lost)
      BY <1>1, <2>1 DEF DaemonOrder
    <3>3. DaemonClock' /\ DaemonOrder' /\ InTime'
      BY <2>1, <3>1, <3>2 DEF DaemonClock, DaemonOrder, InTime, Pending
    <3>4. ASSUME NEW t \in Scheduled \cup Recording, t < Min(Scheduled) PROVE t <= now /\ t \notin Scheduled
      <4>1. Min(Scheduled) \in Nat /\ \A u \in Scheduled : Min(Scheduled) <= u
        BY <1>0, <2>3, TimesAre
      <4>2. t \in Nat
        BY <1>0
      <4>3. t \notin Scheduled
        BY <3>4, <4>1, <4>2
      <4>4. QED
        BY <3>4, <4>3 DEF PowerInv
    <3>5. OldOnly'
      BY <1>3, <2>1, <3>1, <3>4 DEF OldOnly
    <3>6. ~Stops'
      BY <2>1, <3>1, <3>2 DEF Stops, Pending
    <3>7. DaemonSeen'
      BY <3>5, <3>6 DEF DaemonSeen, Stops
    <3>8. QED
      BY <3>3, <3>7 DEF DaemonInv
  <2>4. QED
    BY <1>5, <2>2, <2>3 DEF refresh_recordings
<1>6. ASSUME NEW ok \in BOOLEAN, remote_recording(ok) PROVE Fine
  <2>1. tvpowerd.pc = "ongoing" /\ UNCHANGED <<now, power, down_at, by, pending, ongoing>>
    BY <1>6 DEF remote_recording, In
  <2>2. CASE Round
    BY <1>2, <2>1, <2>2, DaemonGoes
  <2>3. CASE NothingRecorded(ok) /\ tvpowerd.ts - now >= MinPoweroff /\ Next1("load")
    <3>1. /\ tvpowerd'.pc = "load" /\ tvpowerd'.due = tvpowerd.due /\ tvpowerd'.ts = tvpowerd.ts
          /\ tvpowerd'.seen = tvpowerd.seen /\ tvpowerd'.lost = tvpowerd.lost
      BY <2>3, DaemonGoes
    <3>2. ~Pending("tvpowerd") /\ (power \/ by # "tvpowerd" \/ tvpowerd.lost)
      BY <1>1, <2>1 DEF DaemonOrder
    <3>3. Recording = {} /\ now + MinPoweroff <= tvpowerd.ts
      BY <1>0, <2>3 DEF NothingRecorded
    <3>4. DaemonClock' /\ DaemonOrder' /\ InTime'
      BY <1>1, <2>1, <3>1, <3>2, <3>3 DEF DaemonClock, DaemonOrder, InTime, Pending
    <3>5. OldOnly' /\ now' < tvpowerd'.ts /\ tvpowerd'.seen \cap Recording' = {} /\ ~Pending("tvpowerd")'
      BY <1>0, <1>1, <1>3, <2>1, <3>1, <3>2, <3>3 DEF DaemonSeen, OldOnly, Pending
    <3>6. DaemonSeen'
      BY <3>5 DEF DaemonSeen
    <3>7. QED
      BY <3>4, <3>6 DEF DaemonInv
  <2>4. QED
    BY <1>6, <2>2, <2>3 DEF remote_recording
\* From the load to the order nothing changes but where tvpowerd is.
<1>7. ASSUME NEW pc \in {"unload", "shutdown"}, Next1(pc), tvpowerd.pc \in {"load", "unload"},
             UNCHANGED <<now, power, down_at, by>>,
             UNCHANGED <<Scheduled, Recording>> \/ Empty'
      PROVE  Fine
  <2>1. /\ tvpowerd'.pc = pc /\ tvpowerd'.due = tvpowerd.due /\ tvpowerd'.ts = tvpowerd.ts
        /\ tvpowerd'.seen = tvpowerd.seen /\ tvpowerd'.lost = tvpowerd.lost
    BY <1>7, DaemonGoes
  <2>2. ~Pending("tvpowerd") /\ (power \/ by # "tvpowerd" \/ tvpowerd.lost)
    BY <1>1, <1>7 DEF DaemonOrder
  <2>3. DaemonClock' /\ DaemonOrder' /\ InTime'
    BY <1>1, <1>7, <2>1, <2>2 DEF DaemonClock, DaemonOrder, InTime, Pending
  <2>4. OldOnly /\ now < tvpowerd.ts /\ tvpowerd.seen \cap Recording = {}
    BY <1>1, <1>7 DEF DaemonSeen, Stops
  <2>5. OldOnly' /\ now' < tvpowerd'.ts /\ tvpowerd'.seen \cap Recording' = {} /\ ~Pending("tvpowerd")'
    BY <1>7, <2>1, <2>2, <2>4 DEF OldOnly, Pending, Empty
  <2>6. DaemonSeen'
    BY <2>1, <2>5 DEF DaemonSeen
  <2>7. QED
    BY <2>3, <2>6 DEF DaemonInv
<1>8. ASSUME NEW low \in BOOLEAN, remote_server_load(low) PROVE Fine
  <2>1. tvpowerd.pc = "load" /\ UNCHANGED <<now, power, down_at, by, pending, ongoing>>
    BY <1>8 DEF remote_server_load, In, machine
  <2>2. CASE Round
    BY <1>2, <2>1, <2>2, DaemonGoes
  <2>3. CASE Next1("unload") \/ Next1("shutdown")
    BY <1>3, <1>7, <2>1, <2>3
  <2>4. QED
    BY <1>8, <2>2, <2>3 DEF remote_server_load
<1>9. ASSUME NEW ok \in BOOLEAN, unload_ivtv(ok) PROVE Fine
  <2>1. tvpowerd.pc = "unload" /\ UNCHANGED <<now, power, down_at, by>> /\ Next1("shutdown")
    BY <1>9 DEF unload_ivtv, In
  <2>2. UNCHANGED <<Scheduled, Recording>> \/ Empty'
    BY <1>3, <1>9, RecSteps DEF unload_ivtv
  <2>3. QED
    BY <1>7, <2>1, <2>2
<1>10. ASSUME NEW ok \in BOOLEAN, shutdown_remote_server(ok) PROVE Fine
  <2>1. tvpowerd.pc = "shutdown" /\ UNCHANGED <<now, power, pending, ongoing>>
        /\ After("verify", WarningTime + 1)
    BY <1>10 DEF shutdown_remote_server, In
  <2>2. /\ tvpowerd'.pc = "verify" /\ tvpowerd'.due = now + (WarningTime + 1) /\ tvpowerd'.ts = tvpowerd.ts
        /\ tvpowerd'.seen = tvpowerd.seen
    BY <2>1, DaemonGoes
  <2>3. ~Pending("tvpowerd") /\ now + MinPoweroff <= tvpowerd.ts
    BY <1>1, <2>1 DEF DaemonOrder, DaemonClock
  <2>4. Pending("tvpowerd")' => down_at' = now + WarningTime
    BY <1>10, <2>3 DEF shutdown_remote_server, OrderDown, Pending
  <2>5. DaemonClock'
    BY <1>0, <2>1, <2>2 DEF DaemonClock
  <2>6. DaemonOrder'
    BY <1>0, <2>2, <2>4 DEF DaemonOrder
  <2>7. OldOnly /\ now < tvpowerd.ts /\ tvpowerd.seen \cap Recording = {}
    BY <1>1, <2>1 DEF DaemonSeen, Stops
  <2>8. OldOnly' /\ now' < tvpowerd'.ts /\ tvpowerd'.seen \cap Recording' = {}
    BY <1>3, <2>1, <2>2, <2>7 DEF OldOnly
  <2>9. Pending("tvpowerd")' => down_at' < tvpowerd'.ts
    BY <1>0, <2>2, <2>3, <2>4
  <2>10. DaemonSeen'
    BY <2>2, <2>8, <2>9 DEF DaemonSeen
  <2>11. MarginFits => InTime'
    BY <1>0, <2>1, <2>2, <2>3 DEF MarginFits, InTime
  <2>12. QED
    BY <2>5, <2>6, <2>10, <2>11 DEF DaemonInv
<1>11. ASSUME NEW ok \in BOOLEAN, verify_tvpvrd(ok) PROVE Fine
  <2>1. /\ tvpowerd.pc = "verify" /\ now >= tvpowerd.due /\ UNCHANGED <<now, power, down_at, by>>
        /\ ok => tvpvrd
    BY <1>11 DEF verify_tvpvrd, In, Tvpvrd
  <2>2. ~Pending("tvpowerd")
    BY <1>0, <1>1, <2>1 DEF DaemonOrder, PowerInv, Pending
  <2>3. now = tvpowerd.due
    BY <1>0, <1>1, <2>1 DEF DaemonClock
  <2>4. CASE ok
    <3>1. Round /\ power' = power /\ (power \/ by # "tvpowerd" \/ tvpowerd'.lost)
      BY <1>11, <2>1, <2>4 DEF verify_tvpvrd, PowerInv
    <3>2. QED
      BY <2>1, <2>2, <3>1, DaemonGoes, IdleKnows
  <2>5. CASE ~ok
    <3>1. After("asleep", 0)
      BY <1>11, <2>5 DEF verify_tvpvrd
    <3>2. tvpowerd'.pc = "asleep" /\ tvpowerd'.due = now /\ tvpowerd'.ts = tvpowerd.ts
      BY <1>0, <3>1, DaemonGoes
    <3>3. ~Pending("tvpowerd")'
      BY <2>1, <2>2 DEF Pending
    <3>4. DaemonClock' /\ DaemonOrder' /\ DaemonSeen'
      BY <1>0, <2>1, <3>2, <3>3 DEF DaemonClock, DaemonOrder, DaemonSeen, Stops
    <3>5. InTime => InTime'
      BY <2>1, <2>3, <3>2 DEF InTime
    <3>6. QED
      BY <3>4, <3>5 DEF DaemonInv
  <2>6. QED
    BY <2>4, <2>5
<1>12. ASSUME NEW ok \in BOOLEAN, Watch(ok) PROVE Fine
  <2>1. /\ tvpowerd.pc = "asleep" /\ now >= tvpowerd.due /\ UNCHANGED <<now, power, down_at, by>>
        /\ ok => tvpvrd
    BY <1>12 DEF Watch, In, Tvpvrd
  <2>2. ~Pending("tvpowerd") /\ ~Pending("tvpowerd")'
    BY <1>1, <2>1 DEF DaemonOrder, Pending
  <2>3. now + WakeupMargin + 1 <= tvpowerd.ts
    BY <1>0, <1>12 DEF Watch, WakeTime
  <2>4. CASE ok
    <3>1. Round /\ power' = power /\ (power \/ by # "tvpowerd" \/ tvpowerd'.lost)
      BY <1>12, <2>1, <2>4 DEF Watch, PowerInv
    <3>2. QED
      BY <2>1, <2>2, <3>1, DaemonGoes, IdleKnows
  <2>5. CASE ~ok
    <3>1. Next1("wake") \/ After("asleep", 1)
      BY <1>12, <2>5 DEF Watch
    <3>2. /\ \/ tvpowerd'.pc = "wake" /\ tvpowerd'.due = tvpowerd.due
             \/ tvpowerd'.pc = "asleep" /\ tvpowerd'.due = now + 1
          /\ tvpowerd'.ts = tvpowerd.ts
      BY <3>1, DaemonGoes
    <3>3. DaemonClock'
      BY <1>0, <2>1, <3>2 DEF DaemonClock
    <3>4. DaemonOrder' /\ DaemonSeen'
      BY <2>2, <3>2 DEF DaemonOrder, DaemonSeen, Stops
    <3>5. InTime'
      BY <1>0, <2>1, <2>3, <3>2 DEF InTime
    <3>6. QED
      BY <3>3, <3>4, <3>5 DEF DaemonInv
  <2>6. QED
    BY <2>4, <2>5
<1>13. CASE WatchOver
  <2>1. tvpowerd.pc = "asleep" /\ now >= tvpowerd.due /\ UNCHANGED <<now, power, down_at, by>> /\ Next1("wake")
    BY <1>13 DEF WatchOver, In, machine
  <2>2. tvpowerd'.pc = "wake" /\ tvpowerd'.due = tvpowerd.due /\ tvpowerd'.ts = tvpowerd.ts
    BY <2>1, DaemonGoes
  <2>3. ~Pending("tvpowerd")'
    BY <1>1, <2>1 DEF DaemonOrder, Pending
  <2>4. DaemonClock'
    BY <1>0, <2>1, <2>2 DEF DaemonClock
  <2>5. DaemonOrder' /\ DaemonSeen'
    BY <2>2, <2>3 DEF DaemonOrder, DaemonSeen, Stops
  <2>6. InTime => InTime'
    BY <1>0, <1>1, <2>1, <2>2 DEF InTime, DaemonClock
  <2>7. QED
    BY <2>4, <2>5, <2>6 DEF DaemonInv
<1>14. ASSUME NEW ok \in BOOLEAN, wakelan(ok) PROVE Fine
  <2>1. /\ tvpowerd.pc = "wake" /\ UNCHANGED <<down_at, by>>
        /\ tvpowerd' = [tvpowerd EXCEPT !.pc = "version", !.due = now + 1, !.lost = ~ok]
    BY <1>14 DEF wakelan, In
  <2>2. tvpowerd'.pc = "version" /\ (~ok => tvpowerd'.lost)
    BY <2>1 DEF TypeOK, Daemon
  <2>3. ok => power'
    BY <1>14 DEF wakelan, Boot
  <2>4. ~Pending("tvpowerd")
    BY <1>1, <2>1 DEF DaemonOrder
  <2>5. QED
    BY <2>1, <2>2, <2>3, <2>4, IdleKnows
<1>15. CASE Signal
  <2>1. UNCHANGED <<now, power, down_at, by, pending, ongoing>> /\ Next1("ended")
    BY <1>15 DEF Signal, machine
  <2>2. tvpowerd'.pc = "ended" /\ tvpowerd'.ts = tvpowerd.ts /\ tvpowerd'.seen = tvpowerd.seen
    BY <2>1, DaemonGoes
  <2>3. DaemonClock' /\ DaemonOrder' /\ InTime'
    BY <2>2 DEF DaemonClock, DaemonOrder, InTime
  <2>4. DaemonSeen'
    BY <1>1, <1>3, <2>1, <2>2 DEF DaemonSeen, Stops, Pending, OldOnly
  <2>5. QED
    BY <2>3, <2>4 DEF DaemonInv
<1>16. CASE TouchStartTvp
  <2>1. UNCHANGED <<now, power, down_at, by, pending, ongoing, tvpowerd>>
    BY <1>16 DEF TouchStartTvp, machine
  <2>2. DaemonClock' /\ DaemonOrder' /\ (InTime => InTime')
    BY <1>1, <2>1 DEF DaemonClock, DaemonOrder, InTime, Pending
  <2>3. DaemonSeen'
    BY <1>1, <1>3, <2>1 DEF DaemonSeen, Stops, Pending, OldOnly
  <2>4. QED
    BY <2>2, <2>3 DEF DaemonInv
<1>17. QED
  BY <1>4, <1>5, <1>6, <1>8, <1>9, <1>10, <1>11, <1>12, <1>13, <1>14, <1>15, <1>16 DEF server_loop

-----------------------------------------------------------------------------
(* The chkrec thread. *)

ChkInv == ChkSet /\ ChkClock /\ AlarmInv /\ ChkOrder

(* A tvpvrd that is started begins without recordings; what else happens around the thread makes no *)
(* order of it, and the clock waits for it. *)
LEMMA AroundChk ==
  ASSUME TypeOK, PowerInv, Watcher \/ Environment
  PROVE  /\ \/ /\ chk' = [Idle EXCEPT !.due = now] /\ UNCHANGED now /\ Single'
            \/ /\ UNCHANGED chk /\ (tvpvrd' => tvpvrd)
               /\ Recording' \subseteq Recording /\ (Single => Single')
               /\ \/ UNCHANGED now
                  \/ /\ now' = now + 1 /\ ~ChkDue /\ ~(~power /\ alarm = now)
                     /\ UNCHANGED <<power, tvpvrd, alarm>>
         /\ Pending("auto")' => Pending("auto") /\ UNCHANGED down_at
         /\ ~power' /\ by' = "auto" => (~power /\ by = "auto") \/ Pending("auto")
         /\ UNCHANGED alarm \/ (~power /\ power' /\ UNCHANGED <<down_at, by>>)
<1> DEFINE Fine ==
      /\ \/ /\ chk' = [Idle EXCEPT !.due = now] /\ UNCHANGED now /\ Single'
         \/ /\ UNCHANGED chk /\ (tvpvrd' => tvpvrd)
            /\ Recording' \subseteq Recording /\ (Single => Single')
            /\ \/ UNCHANGED now
               \/ /\ now' = now + 1 /\ ~ChkDue /\ ~(~power /\ alarm = now)
                  /\ UNCHANGED <<power, tvpvrd, alarm>>
      /\ Pending("auto")' => Pending("auto") /\ UNCHANGED down_at
      /\ ~power' /\ by' = "auto" => (~power /\ by = "auto") \/ Pending("auto")
      /\ UNCHANGED alarm \/ (~power /\ power' /\ UNCHANGED <<down_at, by>>)
<1>1. UNCHANGED <<pending, ongoing>> => Recording' \subseteq Recording /\ (Single => Single')
  BY RecSteps, SingleSteps
<1>2. ASSUME pending' = [v \in Videos |-> {}], ongoing' = [v \in Videos |-> None]
      PROVE  Recording' \subseteq Recording /\ Single'
  BY <1>2, RecSteps, SingleSteps DEF Empty
\* A step of tvpowerd, or of a machine that comes up, that has the thread begin anew or go on.
<1>3. ASSUME Fresh, UNCHANGED now,
             \/ UNCHANGED <<pending, ongoing>> /\ (tvpvrd' => tvpvrd) /\ ~RestartTvpvrd(TRUE)
             \/ pending' = [v \in Videos |-> {}] /\ ongoing' = [v \in Videos |-> None],
             Pending("auto")' => Pending("auto") /\ UNCHANGED down_at,
             ~power' /\ by' = "auto" => (~power /\ by = "auto") \/ Pending("auto"),
             UNCHANGED alarm \/ (~power /\ power' /\ UNCHANGED <<down_at, by>>)
      PROVE  Fine
  <2>1. CASE Restarted
    <3>1. chk' = [Idle EXCEPT !.due = now]
      BY <1>3, <2>1 DEF Fresh
    <3>2. Single'
      BY <1>2, <1>3, <2>1 DEF Restarted
    <3>3. QED
      BY <1>3, <3>1, <3>2
  <2>2. CASE ~Restarted
    <3>1. UNCHANGED chk /\ (tvpvrd' => tvpvrd)
      BY <1>3, <2>2 DEF Fresh, Restarted
    <3>2. Recording' \subseteq Recording /\ (Single => Single')
      BY <1>1, <1>2, <1>3
    <3>3. QED
      BY <1>3, <3>1, <3>2
  <2>3. QED
    BY <2>1, <2>2
<1>4. ASSUME Fresh, tvpowerd.pc # "restart", Quiet, UNCHANGED <<pending, alarm>> PROVE Fine
  <2>1. UNCHANGED <<now, power, down_at, by, tvpvrd, pending, ongoing, alarm>>
    BY <1>4 DEF Quiet
  <2>2. ~RestartTvpvrd(TRUE)
    BY <1>4 DEF RestartTvpvrd, In
  <2>3. QED
    BY <1>3, <1>4, <2>1, <2>2 DEF Pending
<1>5. ASSUME NEW ok \in BOOLEAN, Fresh,
             \/ users_on_remote_server(ok) \/ refresh_recordings(ok) \/ remote_recording(ok)
             \/ remote_server_load(ok) \/ verify_tvpvrd(ok) \/ Watch(ok) \/ AskVersion(ok)
      PROVE  Fine
  <2>1. tvpowerd.pc # "restart"
    BY <1>5 DEF users_on_remote_server, refresh_recordings, remote_recording, remote_server_load,
                verify_tvpvrd, Watch, AskVersion, In
  <2>2. QED
    BY <1>4, <1>5, <2>1, QuietSteps
<1>6. ASSUME Fresh, WatchOver \/ Signal \/ TouchStartTvp PROVE Fine
  <2>1. tvpowerd.pc # "restart"
    BY <1>6 DEF WatchOver, Signal, TouchStartTvp, In
  <2>2. QED
    BY <1>4, <1>6, <2>1, QuietSteps
<1>7. ASSUME NEW ok \in BOOLEAN, Fresh, unload_ivtv(ok) PROVE Fine
  <2>1. UNCHANGED <<now, power, down_at, by, alarm>> /\ ~RestartTvpvrd(TRUE)
    BY <1>7 DEF unload_ivtv, RestartTvpvrd, In
  <2>2. \/ UNCHANGED <<pending, ongoing, tvpvrd>>
        \/ pending' = [v \in Videos |-> {}] /\ ongoing' = [v \in Videos |-> None]
    BY <1>7 DEF unload_ivtv
  <2>3. QED
    BY <1>3, <1>7, <2>1, <2>2 DEF Pending
<1>8. ASSUME NEW ok \in BOOLEAN, Fresh, RestartTvpvrd(ok) PROVE Fine
  <2>1. UNCHANGED <<now, power, down_at, by, alarm>>
    BY <1>8 DEF RestartTvpvrd
  <2>2. \/ UNCHANGED <<pending, ongoing, tvpvrd>>
        \/ pending' = [v \in Videos |-> {}] /\ ongoing' = [v \in Videos |-> None]
    BY <1>8 DEF RestartTvpvrd
  <2>3. RestartTvpvrd(TRUE) => pending' = [v \in Videos |-> {}] /\ ongoing' = [v \in Videos |-> None]
    BY DEF RestartTvpvrd
  <2>4. QED
    BY <1>3, <1>8, <2>1, <2>2, <2>3 DEF Pending
<1>9. ASSUME NEW ok \in BOOLEAN, Fresh, shutdown_remote_server(ok) PROVE Fine
  <2>1. UNCHANGED <<now, power, tvpvrd, alarm, pending, ongoing>> /\ ~RestartTvpvrd(TRUE)
    BY <1>9 DEF shutdown_remote_server, RestartTvpvrd, In
  <2>2. UNCHANGED <<down_at, by>> \/ by' = "tvpowerd"
    BY <1>9 DEF shutdown_remote_server, OrderDown
  <2>3. Pending("auto")' => Pending("auto") /\ UNCHANGED down_at
    BY <2>2 DEF Pending
  <2>4. QED
    BY <1>3, <1>9, <2>1, <2>2, <2>3
<1>10. ASSUME NEW ok \in BOOLEAN, Fresh, wakelan(ok) PROVE Fine
  <2>1. UNCHANGED <<now, down_at, by, alarm>> /\ ~RestartTvpvrd(TRUE) /\ tvpowerd.pc = "wake"
    BY <1>10 DEF wakelan, RestartTvpvrd, In
  <2>2. \/ UNCHANGED <<power, pending, ongoing, tvpvrd>>
        \/ power' = TRUE /\ pending' = [v \in Videos |-> {}] /\ ongoing' = [v \in Videos |-> None]
    BY <1>10 DEF wakelan, Boot
  <2>3. QED
    BY <1>3, <1>10, <2>1, <2>2 DEF Pending
<1>11. ASSUME Fresh, UserSwitchesOn \/ \E ok \in BOOLEAN : AlarmRings(ok) PROVE Fine
  <2>1. /\ UNCHANGED <<now, down_at, by>> /\ ~power /\ power' = TRUE
        /\ pending' = [v \in Videos |-> {}] /\ ongoing' = [v \in Videos |-> None]
    BY <1>11 DEF UserSwitchesOn, AlarmRings, Boot
  <2>2. QED
    BY <1>3, <1>11, <2>1 DEF Pending
<1>12. ASSUME UNCHANGED chk, UNCHANGED <<now, power, down_at, by, tvpvrd, alarm>>,
              Recording' \subseteq Recording, Single => Single'
       PROVE  Fine
  BY <1>12 DEF Pending
<1>13. ASSUME UNCHANGED chkvars, NEW v \in Videos, EndRec(v) \/ \E t \in Starts : AddRec(v, t) PROVE Fine
  <2>1. UNCHANGED chk /\ UNCHANGED <<now, power, down_at, by, tvpvrd, alarm>>
    BY <1>13 DEF chkvars, EndRec, AddRec
  <2>2. Recording' \subseteq Recording /\ (Single => Single')
    BY <1>13, RecSteps, SingleSteps
  <2>3. QED
    BY <1>12, <2>1, <2>2
<1>14. ASSUME UNCHANGED chkvars, \E in \in BOOLEAN : Log(in) PROVE Fine
  BY <1>1, <1>12, <1>14 DEF chkvars, Log
<1>15. ASSUME UNCHANGED chkvars, CancelShutdown PROVE Fine
  <2>1. UNCHANGED <<now, power, by, tvpvrd, alarm, pending, ongoing, chk>> /\ down_at' = None
    BY <1>15 DEF chkvars, CancelShutdown
  <2>2. QED
    BY <1>1, <2>1 DEF Pending
<1>16. ASSUME UNCHANGED chkvars, GoDown PROVE Fine
  <2>1. /\ UNCHANGED <<now, by, alarm, chk>> /\ down_at' = None /\ down_at # None /\ tvpvrd' = FALSE
        /\ pending' = [v \in Videos |-> {}] /\ ongoing' = [v \in Videos |-> None]
    BY <1>16 DEF chkvars, GoDown
  <2>2. QED
    BY <1>2, <2>1 DEF Pending
<1>17. ASSUME UNCHANGED chkvars, ~ChkDue, Tick PROVE Fine
  <2>1. /\ now' = now + 1 /\ ~(~power /\ alarm = now)
        /\ UNCHANGED <<power, down_at, by, tvpvrd, alarm, pending, ongoing, chk>>
    BY <1>17 DEF chkvars, Tick, Due
  <2>2. QED
    BY <1>1, <1>17, <2>1 DEF Pending
<1>18. QED
  BY <1>5, <1>6, <1>7, <1>8, <1>9, <1>10, <1>11, <1>13, <1>14, <1>15, <1>16, <1>17
     DEF Watcher, Environment, server_loop

(* What the thread knows stays so whatever happens around it. *)
LEMMA AroundChkKept ==
  ASSUME TypeOK, PowerInv, ChkInv, Watcher \/ Environment
  PROVE  ChkInv'
<1>0. /\ now \in Nat /\ down_at \in Nat \cup {None} /\ None \notin Nat /\ chk.due \in Nat
      /\ Delay \in Nat /\ MinTime \in Nat /\ alarm \in Int
  BY Constants DEF TypeOK, MachineTyped, Chk
<1>1. /\ Pending("auto")' => Pending("auto") /\ UNCHANGED down_at
      /\ ~power' /\ by' = "auto" => (~power /\ by = "auto") \/ Pending("auto")
      /\ UNCHANGED alarm \/ (~power /\ power' /\ UNCHANGED <<down_at, by>>)
  BY AroundChk
<1>2. ChkSet /\ ChkClock /\ AlarmInv /\ ChkOrder
  BY DEF ChkInv
<1>3. now' \in Nat /\ now <= now'
  BY <1>0, AroundChk
<1>4. Pending("auto")' => down_at' <= now' + Delay + 1
  <2>1. SUFFICES ASSUME Pending("auto")' PROVE down_at' <= now' + Delay + 1
    OBVIOUS
  <2>2. Pending("auto") /\ down_at' = down_at
    BY <1>1, <2>1
  <2>3. down_at \in Nat /\ down_at <= now + Delay + 1
    BY <1>0, <1>2, <2>2 DEF Pending, AlarmInv
  <2>4. now + Delay + 1 <= now' + Delay + 1 /\ now + Delay + 1 \in Nat /\ now' + Delay + 1 \in Nat
    <3>1. \A m, n, d \in Nat : m <= n => m + d + 1 <= n + d + 1 /\ m + d + 1 \in Nat /\ n + d + 1 \in Nat
      OBVIOUS
    <3>2. now \in Nat /\ now' \in Nat /\ Delay \in Nat /\ now <= now'
      BY <1>0, <1>3
    <3>3. QED
      BY <3>1, <3>2, Zenon
  <2>5. down_at <= now' + Delay + 1
    BY <2>3, <2>4
  <2>6. QED
    BY <2>2, <2>5
<1>5. CASE chk' = [Idle EXCEPT !.due = now] /\ UNCHANGED now /\ Single'
  <2>1. chk'.pc = "check" /\ chk'.seen = {} /\ chk'.set = FALSE
    BY <1>5 DEF Idle
  <2>2. ChkSet' /\ ChkClock' /\ ChkOrder'
    BY <1>5, <2>1 DEF ChkSet, ChkClock, ChkOrder
  <2>3. AlarmInv'
    BY <1>4, <2>1 DEF AlarmInv
  <2>4. QED
    BY <2>2, <2>3 DEF ChkInv
<1>6. CASE /\ UNCHANGED chk /\ (tvpvrd' => tvpvrd)
           /\ Recording' \subseteq Recording /\ (Single => Single')
           /\ \/ UNCHANGED now
              \/ /\ now' = now + 1 /\ ~ChkDue /\ ~(~power /\ alarm = now)
                 /\ UNCHANGED <<power, tvpvrd, alarm>>
  <2>1. ASSUME tvpvrd PROVE UNCHANGED now \/ (now' = now + 1 /\ now < chk.due)
    <3>1. \/ UNCHANGED now
          \/ now' = now + 1 /\ ~(now >= chk.due)
      BY <1>6, <2>1 DEF ChkDue
    <3>2. ~(now >= chk.due) => now < chk.due
      BY <1>0
    <3>3. QED
      BY <3>1, <3>2, Zenon
  <2>2. ChkSet'
    BY <1>2, <1>6 DEF ChkSet
  <2>3. ChkClock'
    <3>1. SUFFICES ASSUME tvpvrd'
                   PROVE  /\ chk.pc = "script" => chk.due <= now' /\ \A t \in chk.seen : now' + MinTime < t
                          /\ chk.pc = "direct" => now' <= chk.due /\ \A t \in chk.seen : chk.due + 2 < t
      BY <1>6 DEF ChkClock
    <3>2. tvpvrd /\ (UNCHANGED now \/ (now' = now + 1 /\ now < chk.due))
      BY <1>6, <2>1, <3>1
    <3>3. CASE UNCHANGED now
      BY <1>2, <3>2, <3>3 DEF ChkClock
    <3>4. CASE now' = now + 1 /\ now < chk.due
      <4>1. chk.pc # "script"
        BY <1>0, <1>2, <3>2, <3>4 DEF ChkClock
      <4>2. now' <= chk.due
        BY <1>0, <3>4
      <4>3. QED
        BY <1>2, <3>2, <4>1, <4>2 DEF ChkClock
    <3>5. QED
      BY <3>2, <3>3, <3>4
  <2>4. ChkOrder'
    BY <1>1, <1>2, <1>6 DEF ChkOrder
  <2>5. Alarm' = Alarm
    BY <1>6 DEF Alarm
  <2>6. chk.set /\ tvpvrd' =>
          /\ alarm' = Alarm
          /\ chk.pc = "script" => now' + MinTime < Alarm
          /\ chk.pc = "direct" => chk.due + 2 < Alarm
          /\ chk.pc = "pass" => now' <= chk.due /\ chk.due < Alarm
    <3>1. SUFFICES ASSUME chk.set, tvpvrd'
                   PROVE  /\ alarm' = Alarm
                          /\ chk.pc = "script" => now' + MinTime < Alarm
                          /\ chk.pc = "direct" => chk.due + 2 < Alarm
                          /\ chk.pc = "pass" => now' <= chk.due /\ chk.due < Alarm
      OBVIOUS
    <3>2. tvpvrd /\ power /\ alarm' = alarm
      BY <1>1, <1>6, <3>1 DEF PowerInv
    <3>3. ASSUME chk.pc = "script" PROVE UNCHANGED now
      <4>1. chk.due <= now
        BY <1>2, <3>2, <3>3 DEF ChkClock
      <4>2. ~(now < chk.due)
        BY <1>0, <4>1
      <4>3. QED
        BY <2>1, <3>2, <4>2
    <3>4. ASSUME chk.pc = "pass" PROVE now' <= chk.due
      <4>1. now <= chk.due
        BY <1>2, <3>1, <3>2, <3>4 DEF AlarmInv
      <4>2. now + 1 <= chk.due \/ ~(now < chk.due)
        BY <1>0
      <4>3. QED
        BY <2>1, <3>2, <4>1, <4>2
    <3>5. QED
      BY <1>2, <3>1, <3>2, <3>3, <3>4 DEF AlarmInv
  <2>7. chk.set /\ Pending("auto")' => alarm' = Alarm /\ down_at' < Alarm
    <3>1. SUFFICES ASSUME chk.set, Pending("auto")' PROVE alarm' = Alarm /\ down_at' < Alarm
      OBVIOUS
    <3>2. Pending("auto") /\ down_at' = down_at /\ power
      BY <1>1, <3>1 DEF PowerInv, Pending
    <3>3. QED
      BY <1>1, <1>2, <3>1, <3>2 DEF AlarmInv
  <2>8. chk.set /\ ~power' /\ by' = "auto" => alarm' = Alarm /\ now' <= Alarm
    <3>1. SUFFICES ASSUME chk.set, ~power', by' = "auto" PROVE alarm' = Alarm /\ now' <= Alarm
      OBVIOUS
    <3>2. alarm' = alarm
      BY <1>1, <3>1
    <3>3. CASE ~power /\ by = "auto"
      <4>1. alarm = Alarm /\ now <= Alarm
        BY <1>2, <3>1, <3>3 DEF AlarmInv
      <4>2. QED
        BY <1>0, <1>6, <3>2, <3>3, <4>1
    <3>4. CASE Pending("auto")
      <4>1. alarm = Alarm /\ down_at < Alarm /\ down_at \in Nat /\ now <= down_at /\ power
        BY <1>0, <1>2, <3>1, <3>4 DEF AlarmInv, PowerInv, Pending
      <4>2. now' = now
        BY <1>6, <3>1, <4>1
      <4>3. QED
        BY <1>0, <3>2, <4>1, <4>2
    <3>5. QED
      BY <1>1, <3>1, <3>3, <3>4
  <2>9. AlarmInv'
    BY <1>4, <1>6, <2>5, <2>6, <2>7, <2>8 DEF AlarmInv
  <2>10. QED
    BY <2>2, <2>3, <2>4, <2>9 DEF ChkInv
<1>7. QED
  BY <1>5, <1>6, AroundChk

(* The thread looks, decides on what it has seen, sets the alarm and orders the shutdown for a time *)
(* before both. *)
LEMMA ChkKept ==
  ASSUME TypeOK, PowerInv, ChkInv, chkrec
  PROVE  ChkInv'
<1>0. /\ now \in Nat /\ down_at \in Nat \cup {None} /\ None \notin Nat /\ chk \in Chk /\ chk.due \in Nat
      /\ Delay \in Nat /\ MinTime \in Nat /\ PreStartup \in Nat /\ Delay + 2 < MinTime /\ alarm \in Int
      /\ chk.seen \subseteq Starts /\ chk.seen \in SUBSET Nat
  BY Constants DEF TypeOK, MachineTyped, Chk
<1>1. ChkSet /\ ChkClock /\ AlarmInv /\ ChkOrder
  BY DEF ChkInv
<1>2. tvpvrd /\ power /\ UNCHANGED <<now, power, tvpvrd>> /\ now >= chk.due
  <2>1. tvpvrd /\ now >= chk.due
    BY DEF chkrec, check_for_shutdown, LookUp, Decide, RunScript, ShutdownDirectly, Pass, At
  <2>2. UNCHANGED <<now, power, tvpvrd>>
    BY DEF chkrec, check_for_shutdown, LookUp, Decide, RunScript, ShutdownDirectly, Pass, machine
  <2>3. QED
    BY <2>1, <2>2 DEF PowerInv
\* Before it has decided there is no alarm; an order is one of an earlier tvpvrd.
<1>3. ASSUME chk.pc \in {"check", "lookup", "decide"}
      PROVE  /\ ~chk.set
             /\ Pending("auto") => Single /\ Recording \cap chk.seen = {} /\ down_at <= now + Delay + 1
  BY <1>1, <1>2, <1>3 DEF ChkSet, AlarmInv, ChkOrder
<1>4. ASSUME ~chk'.set, UNCHANGED <<down_at, by, ongoing, pending>>, chk'.pc \notin {"script", "direct"},
             chk.pc \in {"check", "lookup", "decide"},
             Single => Recording \cap chk'.seen = {},
             chk'.pc = "decide" => chk'.ts = (IF chk'.seen = {} THEN None ELSE Min(chk'.seen))
      PROVE  ChkInv'
  <2>1. ChkSet' /\ ChkClock'
    BY <1>4 DEF ChkSet, ChkClock
  <2>2. AlarmInv'
    BY <1>1, <1>2, <1>3, <1>4 DEF AlarmInv, Pending
  <2>3. ChkOrder'
    BY <1>2, <1>3, <1>4, RecSteps, SingleSteps DEF ChkOrder, Pending
  <2>4. QED
    BY <2>1, <2>2, <2>3 DEF ChkInv
<1>5. ASSUME NEW pc, Goto(pc)
      PROVE  chk'.pc = pc /\ chk'.due = chk.due /\ chk'.ts = chk.ts /\ chk'.seen = chk.seen /\ chk'.set = chk.set
  BY <1>0, <1>5 DEF Goto, Chk
<1>6. CASE check_for_shutdown
  <2>1. /\ chk.pc = "check" /\ UNCHANGED <<down_at, by, ongoing, pending>>
        /\ chk'.pc \in {"lookup", "pass"} /\ chk'.seen = chk.seen /\ chk'.set = chk.set
    BY <1>5, <1>6 DEF check_for_shutdown, At, machine
  <2>2. UNCHANGED <<down_at, by, pending, ongoing>>
    BY <2>1
  <2>3. ChkSet' /\ ChkClock'
    BY <1>3, <2>1 DEF ChkSet, ChkClock
  <2>4. AlarmInv'
    BY <1>1, <1>2, <1>3, <2>1 DEF AlarmInv, Pending
  <2>5. ChkOrder'
    BY <1>2, <1>3, <2>1, RecSteps, SingleSteps DEF ChkOrder, Pending
  <2>6. QED
    BY <2>3, <2>4, <2>5 DEF ChkInv
<1>7. CASE LookUp
  <2>1. /\ chk.pc = "lookup" /\ UNCHANGED <<down_at, by, ongoing, pending>>
        /\ chk'.pc = "decide" /\ chk'.seen = Scheduled /\ chk'.set = chk.set
        /\ chk'.ts = get_nextsched_rec.ts
    BY <1>0, <1>7 DEF LookUp, At, machine, Chk
  <2>2. ~chk'.set
    BY <1>3, <2>1
  <2>3. chk'.ts = (IF chk'.seen = {} THEN None ELSE Min(chk'.seen))
    BY <2>1, NextIs
  <2>4. Single => Recording \cap chk'.seen = {}
    BY <2>1 DEF Single
  <2>5. QED
    BY <1>4, <2>1, <2>2, <2>3, <2>4
<1>8. ASSUME NEW busy \in BOOLEAN, Decide(busy) PROVE ChkInv'
  <2>1. chk.pc = "decide" /\ UNCHANGED <<down_at, by, ongoing, pending>>
    BY <1>8 DEF Decide, At
  <2>2. ~chk.set /\ chk.ts = (IF chk.seen = {} THEN None ELSE Min(chk.seen))
    BY <1>1, <1>3, <2>1 DEF ChkSet
  <2>3. ASSUME chk'.seen = chk.seen PROVE ChkOrder'
    BY <1>2, <1>3, <2>1, <2>3, RecSteps, SingleSteps DEF ChkOrder, Pending
  <2>4. CASE Goto("pass")
    <3>1. chk'.pc = "pass" /\ chk'.seen = chk.seen /\ ~chk'.set
      BY <1>5, <2>2, <2>4
    <3>2. ChkSet' /\ ChkClock'
      BY <3>1 DEF ChkSet, ChkClock
    <3>3. AlarmInv'
      BY <1>1, <1>2, <2>1, <3>1 DEF AlarmInv, Pending
    <3>4. QED
      BY <2>3, <3>1, <3>2, <3>3 DEF ChkInv
  <2>5. CASE chk.ts = None /\ Goto("script")
    <3>1. chk.seen = {}
      BY <1>0, <2>2, <2>5, MinIs
    <3>2. chk'.pc = "script" /\ chk'.seen = chk.seen /\ ~chk'.set /\ chk'.due = chk.due
      BY <1>5, <2>2, <2>5
    <3>3. ChkSet' /\ ChkClock'
      BY <1>0, <1>2, <3>1, <3>2 DEF ChkSet, ChkClock
    <3>4. AlarmInv'
      BY <1>1, <1>2, <2>1, <3>2 DEF AlarmInv, Pending
    <3>5. QED
      BY <2>3, <3>2, <3>3, <3>4 DEF ChkInv
  <2>6. CASE chk.ts # None /\ LongEnough /\ set_rtc_alarm(chk.ts - PreStartup)
    <3>1. chk.seen # {} /\ chk.ts = Min(chk.seen) /\ Min(chk.seen) \in Nat /\ \A t \in chk.seen : Min(chk.seen) <= t
      BY <1>0, <2>2, <2>6, MinIs
    <3>2. Min(chk.seen) - now > MinTime + PreStartup
      BY <2>6, <3>1 DEF LongEnough
    <3>3. /\ chk'.pc = "script" /\ chk'.seen = chk.seen /\ chk'.due = chk.due
          /\ chk'.set => alarm' = chk.ts - PreStartup
      BY <1>0, <2>6 DEF set_rtc_alarm, Chk
    <3>4. ChkSet' /\ ChkClock'
      <4>1. \A t \in chk.seen : now + MinTime < t
        BY <1>0, <3>1, <3>2
      <4>2. QED
        BY <1>0, <1>2, <3>1, <3>3, <4>1 DEF ChkSet, ChkClock
    <3>5. AlarmInv'
      <4>1. Alarm' = Alarm /\ Alarm = Min(chk.seen) - PreStartup /\ Alarm \in Int
        BY <1>0, <3>1, <3>3 DEF Alarm
      <4>2. now + MinTime < Alarm
        BY <1>0, <3>1, <3>2, <4>1
      <4>3. Pending("auto")' => down_at' <= now + Delay + 1 /\ down_at' \in Nat
        BY <1>0, <1>3, <2>1 DEF Pending
      <4>4. Pending("auto")' => down_at' < Alarm
        BY <1>0, <4>1, <4>2, <4>3
      <4>5. QED
        BY <1>2, <3>1, <3>3, <4>1, <4>2, <4>3, <4>4 DEF AlarmInv
    <3>6. QED
      BY <2>3, <3>3, <3>4, <3>5 DEF ChkInv
  <2>7. QED
    BY <1>8, <2>4, <2>5, <2>6 DEF Decide
<1>9. ASSUME NEW ok \in BOOLEAN, RunScript(ok) PROVE ChkInv'
  <2>1. /\ chk.pc = "script" /\ UNCHANGED <<alarm, ongoing, pending>>
        /\ \/ UNCHANGED <<down_at, by>>
           \/ down_at' = now + Delay /\ by' = "auto"
    BY <1>9 DEF RunScript, At, OrderDown
  <2>2. chk'.pc = "direct" /\ chk'.due = now + Delay + 1 /\ chk'.seen = chk.seen /\ chk'.set = chk.set
    BY <1>0, <1>9 DEF RunScript, Chk
  <2>3. \A t \in chk.seen : now + MinTime < t
    BY <1>1, <1>2, <2>1 DEF ChkClock
  <2>4. ChkSet'
    BY <1>1, <2>1, <2>2 DEF ChkSet
  <2>5. ChkClock'
    BY <1>0, <1>2, <2>2, <2>3 DEF ChkClock
  <2>6. AlarmInv'
    <3>1. Alarm' = Alarm
      BY <2>2 DEF Alarm
    <3>2. chk.set => alarm = Alarm /\ now + MinTime < Alarm
      BY <1>1, <1>2, <2>1 DEF AlarmInv
    <3>3. chk.set => now + Delay + 1 + 2 < Alarm /\ now + Delay < Alarm
      BY <1>0, <3>2
    <3>4. Pending("auto")' => /\ down_at' <= now + Delay + 1
                              /\ chk.set => down_at' < Alarm
      BY <1>0, <1>1, <2>1, <3>2, <3>3 DEF AlarmInv, Pending
    <3>5. QED
      BY <1>2, <2>1, <2>2, <3>1, <3>2, <3>3, <3>4 DEF AlarmInv
  <2>7. ChkOrder'
    <3>1. CASE UNCHANGED <<down_at, by>>
      BY <1>1, <1>2, <2>1, <2>2, <3>1, RecSteps, SingleSteps DEF ChkOrder, Pending
    <3>2. CASE down_at' = now + Delay
      <4>1. down_at' < chk'.due /\ \A t \in chk'.seen : down_at' < t
        BY <1>0, <2>2, <2>3, <3>2
      <4>2. QED
        BY <2>2, <4>1 DEF ChkOrder
    <3>3. QED
      BY <2>1, <3>1, <3>2
  <2>8. QED
    BY <2>4, <2>5, <2>6, <2>7 DEF ChkInv
<1>10. ASSUME NEW ok \in BOOLEAN, ShutdownDirectly(ok) PROVE ChkInv'
  <2>1. /\ chk.pc = "direct" /\ UNCHANGED <<alarm, ongoing, pending>>
        /\ \/ UNCHANGED <<down_at, by>>
           \/ down_at' = now + 1 /\ by' = "auto"
    BY <1>10 DEF ShutdownDirectly, At, OrderDown
  <2>2. chk'.pc = "pass" /\ chk'.due = now + 2 /\ chk'.seen = chk.seen /\ chk'.set = chk.set
    BY <1>0, <1>10 DEF ShutdownDirectly, Chk
  <2>3. now = chk.due /\ \A t \in chk.seen : chk.due + 2 < t
    BY <1>0, <1>1, <1>2, <2>1 DEF ChkClock
  <2>4. ChkSet' /\ ChkClock'
    BY <1>1, <2>1, <2>2 DEF ChkSet, ChkClock
  <2>5. AlarmInv'
    <3>1. Alarm' = Alarm
      BY <2>2 DEF Alarm
    <3>2. chk.set => alarm = Alarm /\ now + 2 < Alarm /\ Alarm \in Int
      BY <1>0, <1>1, <1>2, <2>1, <2>3 DEF AlarmInv
    <3>3. chk.set => now + 1 < Alarm /\ now <= now + 2
      BY <1>0, <3>2
    <3>4. Pending("auto")' => /\ down_at' <= now + Delay + 1
                              /\ chk.set => down_at' < Alarm
      BY <1>0, <1>1, <2>1, <3>2, <3>3 DEF AlarmInv, Pending
    <3>5. QED
      BY <1>2, <2>1, <2>2, <3>1, <3>2, <3>3, <3>4 DEF AlarmInv
  <2>6. ChkOrder'
    <3>1. CASE UNCHANGED <<down_at, by>>
      <4>1. down_at \in Nat /\ down_at < chk.due => down_at < chk'.due
        BY <1>0, <2>2, <2>3
      <4>2. Single => Single' /\ Recording' = Recording
        BY <2>1, RecSteps, SingleSteps
      <4>3. QED
        BY <1>0, <1>1, <1>2, <2>2, <3>1, <4>1, <4>2 DEF ChkOrder, Pending
    <3>2. CASE down_at' = now + 1
      <4>1. down_at' < chk'.due /\ \A t \in chk'.seen : down_at' < t
        BY <1>0, <2>2, <2>3, <3>2
      <4>2. QED
        BY <2>2, <4>1 DEF ChkOrder
    <3>3. QED
      BY <2>1, <3>1, <3>2
  <2>7. QED
    BY <2>4, <2>5, <2>6 DEF ChkInv
<1>11. CASE Pass
  <2>1. chk'.pc = "check" /\ chk'.seen = {} /\ chk'.set = FALSE
    BY <1>11 DEF Pass, Idle
  <2>2. UNCHANGED <<down_at, by>> /\ chk.pc = "pass"
    BY <1>11 DEF Pass, At
  <2>3. ChkSet' /\ ChkClock'
    BY <2>1 DEF ChkSet, ChkClock
  <2>4. AlarmInv'
    BY <1>1, <1>2, <2>1, <2>2 DEF AlarmInv, Pending
  <2>5. Pending("auto") => Single
    <3>1. SUFFICES ASSUME Pending("auto") PROVE Single
      OBVIOUS
    <3>2. down_at \in Nat /\ now <= down_at
      BY <1>0, <3>1 DEF Pending, PowerInv
    <3>3. ~(down_at < chk.due)
      BY <1>0, <1>2, <3>2
    <3>4. QED
      BY <1>1, <1>2, <3>1, <3>3 DEF ChkOrder
  <2>6. ChkOrder'
    BY <1>11, <2>1, <2>2, <2>5, SingleSteps DEF ChkOrder, Pending
  <2>7. QED
    BY <2>3, <2>4, <2>6 DEF ChkInv
<1>12. QED
  BY <1>6, <1>7, <1>8, <1>9, <1>10, <1>11 DEF chkrec

-----------------------------------------------------------------------------
(* The theorems. *)

\* All of it together.
MachineInv == PowerInv /\ DaemonInv /\ ChkInv

(* Of everything that happens, only the steps of tvpowerd need its values to fit together. *)
LEMMA NextKept ==
  ASSUME TypeOK, MachineInv, [Next]_vars
  PROVE  MachineInv' /\ (MarginFits /\ InTime => InTime')
<1>1. PowerInv'
  BY PowerKept DEF MachineInv
<1>2. CASE Server
  BY <1>1, <1>2, AroundDaemonKept, ChkKept DEF MachineInv, Server
<1>3. CASE Watcher
  BY <1>1, <1>3, DaemonKept, AroundChkKept DEF MachineInv, Watcher
<1>4. CASE Environment
  BY <1>1, <1>4, AroundDaemonKept, AroundChkKept DEF MachineInv
<1>5. CASE UNCHANGED vars
  <2>1. /\ UNCHANGED <<now, power, down_at, by, alarm, tvpvrd, chk, tvpowerd>>
        /\ Scheduled' = Scheduled /\ Recording' = Recording /\ (Single => Single')
    BY <1>5, RecSteps, SingleSteps DEF vars, machine, chkvars, powervars, MachineInv
  <2>2. DaemonInv' /\ (InTime => InTime')
    BY <2>1 DEF MachineInv, DaemonInv, DaemonClock, DaemonOrder, DaemonSeen, OldOnly, Stops, Pending, InTime
  <2>3. ChkSet' /\ ChkClock' /\ AlarmInv'
    BY <2>1 DEF MachineInv, ChkInv, ChkSet, ChkClock, AlarmInv, Alarm, Pending
  <2>4. ChkOrder'
    BY <2>1 DEF MachineInv, ChkInv, ChkOrder, Pending
  <2>5. QED
    BY <1>1, <2>2, <2>3, <2>4 DEF MachineInv, ChkInv
<1>6. QED
  BY <1>2, <1>3, <1>4, <1>5 DEF Next

(* At the start nothing is ordered, recorded or seen. *)
LEMMA StartsKnowing == Init => MachineInv /\ InTime
<1>1. SUFFICES ASSUME Init PROVE MachineInv /\ InTime
  OBVIOUS
<1>2. /\ now = 0 /\ power = TRUE /\ down_at = None /\ tvpvrd = TRUE /\ by = "user"
      /\ ongoing = [v \in Videos |-> None]
      /\ chk.pc = "check" /\ chk.set = FALSE /\ tvpowerd.pc = "users"
  BY <1>1 DEF Init, MachineInit, AutoInit, PowerInit, Idle
<1>3. Recording = {}
  BY <1>2 DEF Recording
<1>4. PowerInv
  BY <1>2, <1>3 DEF PowerInv
<1>5. DaemonInv /\ InTime
  BY <1>2 DEF DaemonInv, DaemonClock, DaemonOrder, DaemonSeen, Stops, Pending, InTime
<1>6. ChkInv
  BY <1>2 DEF ChkInv, ChkSet, ChkClock, AlarmInv, ChkOrder, Pending
<1>7. QED
  BY <1>4, <1>5, <1>6 DEF MachineInv

(* What the two programs know they know at all times. *)
LEMMA Known == Spec => []MachineInv
<1>1. Init => MachineInv
  BY StartsKnowing
<1>2. TypeOK /\ MachineInv /\ [Next]_vars => MachineInv'
  BY NextKept
<1>3. QED
  BY <1>1, <1>2, Typed, PTL DEF Spec

(* A machine that the chkrec thread has switched off with recordings scheduled, and whose alarm could *)
(* be set, has its alarm ahead, and that is PreStartup before the first of all the recordings the     *)
(* thread has seen: over any cards, whoever else orders a shutdown meanwhile or calls one off         *)
(* (check_for_shutdown, get_nextsched_rec, set_rtc_alarm and do_shutdown of tvshutdown.c).            *)
THEOREM WakesForTheNext == Spec => []WakesForNext
<1>1. TypeOK /\ MachineInv => WakesForNext
  <2>1. SUFFICES ASSUME TypeOK, MachineInv, ~power, by = "auto", chk.set
                 PROVE  alarm = Min(chk.seen) - PreStartup /\ alarm >= now
    BY DEF WakesForNext
  <2>2. alarm = Alarm /\ now <= Alarm
    BY <2>1 DEF MachineInv, ChkInv, AlarmInv
  <2>3. now \in Nat /\ alarm \in Int
    BY <2>1 DEF TypeOK, MachineTyped
  <2>4. QED
    BY <2>2, <2>3 DEF Alarm
<1>2. QED
  BY <1>1, Typed, Known, PTL

(* A machine that tvpowerd has switched off is on again WakeupMargin before the recording it waits    *)
(* for, unless the packet was lost or tvpowerd was stopped - if the ini file has it switch off only   *)
(* for longer than the warning time, the minute after it and that margin together (server_loop and    *)
(* wakeup_remote_server of tvpowerd.c, which compares none of these values, 486-492).                 *)
THEOREM OnInTime == MarginFits => (Spec => []WokenInTime)
<1> SUFFICES ASSUME MarginFits PROVE Spec => []WokenInTime
  OBVIOUS
<1>1. TypeOK /\ MachineInv /\ InTime => WokenInTime
  <2>1. SUFFICES ASSUME TypeOK, MachineInv, InTime,
                        ~power, by = "tvpowerd", ~tvpowerd.lost, tvpowerd.pc # "ended"
                 PROVE  now + WakeupMargin <= tvpowerd.ts
    BY DEF WokenInTime
  <2>2. now \in Nat /\ tvpowerd.due \in Nat /\ tvpowerd.ts \in Instants /\ WakeupMargin \in Nat
    BY <2>1, Constants DEF TypeOK, MachineTyped, Daemon
  <2>3. tvpowerd.ts \in Int
    BY <2>2, InstantsAre
  <2>4. tvpowerd.pc \in {"verify", "asleep", "wake"}
    BY <2>1 DEF MachineInv, DaemonInv, DaemonOrder
  <2>5. CASE tvpowerd.pc = "wake"
    BY <2>1, <2>5 DEF InTime
  <2>6. CASE tvpowerd.pc \in {"verify", "asleep"}
    <3>1. now <= tvpowerd.due /\ tvpowerd.due + WakeupMargin <= tvpowerd.ts
      BY <2>1, <2>6 DEF InTime, MachineInv, DaemonInv, DaemonClock
    <3>2. QED
      BY <2>2, <2>3, <3>1
  <2>7. QED
    BY <2>4, <2>5, <2>6
<1>2. Init => InTime
  BY StartsKnowing
<1>3. TypeOK /\ MachineInv /\ InTime /\ [Next]_vars => InTime'
  BY NextKept
<1>4. QED
  BY <1>1, <1>2, <1>3, Typed, Known, PTL DEF Spec

(* Which steps end tvpvrd: tvpowerd's, to unload the driver, and the machine's, when it goes down. *)
LEMMA WhoEndsIt ==
  ASSUME TypeOK, PowerInv, Next, tvpvrd, ~tvpvrd'
  PROVE  tvpowerd.pc = "unload" \/ GoDown
<1>1. CASE Server
  BY <1>1 DEF Server, chkrec, check_for_shutdown, LookUp, Decide, RunScript, ShutdownDirectly, Pass, machine
<1>2. CASE Watcher
  BY <1>2 DEF Watcher, server_loop, Signal, TouchStartTvp, WatchOver, users_on_remote_server,
              refresh_recordings, remote_recording, remote_server_load, unload_ivtv, shutdown_remote_server,
              verify_tvpvrd, Watch, wakelan, Boot, AskVersion, RestartTvpvrd, machine, In
<1>3. CASE Environment
  <2>1. power
    BY DEF PowerInv
  <2>2. QED
    BY <1>3, <2>1 DEF Environment, EndRec, AddRec, Log, CancelShutdown, UserSwitchesOn, AlarmRings, Tick
<1>4. QED
  BY <1>1, <1>2, <1>3 DEF Next

(* Neither program cuts off a recording it could have known of: what is recorded when tvpvrd is       *)
(* stopped, or the machine goes down, was asked for after the program behind it last looked - though  *)
(* one of them decides on what it read before it waits for the warning time, and either may find the  *)
(* other's order pending (check_for_shutdown, server_loop).                                           *)
THEOREM KnownAreNotCut == Spec => KnownNotCut
<1>1. ASSUME TypeOK, MachineInv, [Next]_vars
      PROVE  [tvpvrd /\ ~tvpvrd' => Recording \cap SeenByStopper = {}]_vars
  <2>1. SUFFICES ASSUME Next, tvpvrd, ~tvpvrd' PROVE Recording \cap SeenByStopper = {}
    BY <1>1
  <2>2. PowerInv /\ DaemonSeen /\ ChkOrder
    BY <1>1 DEF MachineInv, DaemonInv, ChkInv
  <2>3. CASE tvpowerd.pc = "unload"
    BY <2>2, <2>3 DEF SeenByStopper, DaemonSeen, Stops
  <2>4. CASE tvpowerd.pc # "unload" /\ GoDown
    <3>1. down_at # None /\ now >= down_at /\ now \in Nat /\ down_at \in Nat
      BY <1>1, <2>4 DEF GoDown, TypeOK, MachineTyped
    <3>2. now <= down_at /\ by \in {"auto", "tvpowerd"}
      BY <1>1, <2>2, <3>1 DEF PowerInv, TypeOK, MachineTyped
    <3>3. CASE by = "tvpowerd"
      BY <2>2, <3>1, <3>3 DEF SeenByStopper, DaemonSeen, Stops, Pending
    <3>4. CASE by = "auto"
      <4>1. SeenByStopper = chk.seen
        BY <2>4, <3>4 DEF SeenByStopper
      <4>2. \/ Recording \cap chk.seen = {}
            \/ \A t \in chk.seen : down_at < t
        BY <2>1, <2>2, <3>1, <3>4 DEF ChkOrder, Pending
      <4>3. \A t \in Recording : t <= now
        BY <2>2 DEF PowerInv
      <4>4. \A t \in chk.seen : t \in Nat
        BY <1>1, Constants DEF TypeOK, Chk
      <4>5. QED
        BY <3>1, <3>2, <4>1, <4>2, <4>3, <4>4
    <3>5. QED
      BY <3>2, <3>3, <3>4
  <2>5. QED
    BY <1>1, <2>1, <2>2, <2>3, <2>4, WhoEndsIt
<1>2. QED
  BY <1>1, Typed, Known, PTL DEF Spec, KnownNotCut
=============================================================================
