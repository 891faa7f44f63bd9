---------------------------- MODULE RestartProofs ----------------------------
(***************************************************************************)
(* Theorems about servers that start, end and are killed, for any process  *)
(* numbers, users and threads, any number of starts and a history of any   *)
(* length.                                                                 *)
(***************************************************************************)
EXTENDS Restart, SequenceTheorems, TLAPS

-----------------------------------------------------------------------------
(* The processes. *)

StartingPc == Looking \cup {"locked", "reborn"}
ServingPc == {"boot", "data", "listen", "up", "ending", "ended"}
Users == {"root", username} \cup StartedAs
Texts == Pids \cup {NoFile, Empty}
Process == [pc : {"none"} \cup StartingPc \cup ServingPc, as : Users, uid : Users, at : {"run", "cwd"},
            old : Texts]

ServerTyped == server \in [Pids -> Process]

\* One process starts at a time, as the user who started it.
StartInv ==
  /\ \A p, q \in Starting : p = q
  /\ \A p \in Starting : server[p].uid = server[p].as

\* The server of root looks for its file in /var/run, any other leaves one in its directory.
PlaceInv ==
  \A p \in Pids :
    /\ server[p].pc # "none" /\ server[p].as = "root" => server[p].at = "run"
    /\ Past(p) /\ server[p].as # "root" => server[p].at = "cwd"

\* The file names the server that left it, unless that has just become a daemon; nobody shares one; who
\* has read one knows the server that has it, and who is about to leave one has seen that there was none,
\* or that of a process that is no more.
NamedInv ==
  /\ lock \in [{"run", "cwd"} -> Texts]
  /\ \A p \in Pids : Past(p) /\ server[p].pc # "reborn" => lock[server[p].at] = p
  /\ \A p, q \in Pids : Past(p) /\ Past(q) /\ server[p].at = server[q].at => p = q
  /\ \A p, q \in Pids : server[p].pc = "look" /\ Past(q) /\ server[q].at = server[p].at =>
        server[p].old = q
  /\ \A p \in Pids : server[p].pc \in {"stale", "create"} =>
        \A q \in Pids : Past(q) => server[q].at # server[p].at
  /\ \A p \in Pids : server[p].pc = "create" => lock[server[p].at] = NoFile

LockIInv == StartInv /\ PlaceInv /\ NamedInv

(* What each step makes of the processes: `Later' are those of a server that has its lock. *)
Later(p) ==
  /\ server[p].pc \in ServingPc /\ server'[p].pc \in ServingPc
  /\ server'[p].as = server[p].as /\ server'[p].at = server[p].at
  /\ \A q \in Pids \ {p} : server'[q] = server[q]
  /\ UNCHANGED lock

\* One that ends deletes or cuts at most a file that is no other server's.
Ended(p) ==
  /\ Ends(p)
  /\ \/ UNCHANGED lock
     \/ \E text \in {NoFile, Empty} :
          /\ lock' = [lock EXCEPT ![server[p].at] = text]
          /\ \A q \in Pids \ {p} : Past(q) => server[q].at # server[p].at
          /\ text = Empty => p \in Starting

(* Who starts is one of these; who is past the lock one of those. *)
LEMMA Places ==
  ASSUME ServerTyped
  PROVE  \A p \in Pids : /\ server[p] \in Process /\ server[p].at \in {"run", "cwd"}
                         /\ p \in Starting <=> server[p].pc \in StartingPc
                         /\ Past(p) <=> server[p].pc \in {"locked", "reborn"} \cup ServingPc
BY DEF ServerTyped, Process, Starting, Running, Past, StartingPc, ServingPc, Looking

(* Going on keeps the type of the processes. *)
LEMMA GotoTyped ==
  ASSUME ServerTyped, NEW p \in Pids, NEW pc \in {"none"} \cup StartingPc \cup ServingPc, Goto(p, pc)
  PROVE  /\ ServerTyped'
         /\ server'[p].pc = pc /\ server'[p].as = server[p].as
         /\ server'[p].at = server[p].at /\ server'[p].uid = server[p].uid
         /\ \A q \in Pids \ {p} : server'[q] = server[q]
BY DEF ServerTyped, Process, Goto

(* So does reading a text, or having read it. *)
LEMMA ReadTyped ==
  ASSUME ServerTyped, NEW p \in Pids, NEW pc \in StartingPc, NEW text \in Texts,
         Reads(p, pc, text)
  PROVE  /\ ServerTyped'
         /\ server'[p].pc = pc /\ server'[p].as = server[p].as /\ server'[p].old = text
         /\ server'[p].at = server[p].at /\ server'[p].uid = server[p].uid
         /\ \A q \in Pids \ {p} : server'[q] = server[q]
BY DEF ServerTyped, Process, Reads

(* And the end. *)
LEMMA EndsTyped ==
  ASSUME ServerTyped, NEW p \in Pids, Ends(p)
  PROVE  /\ ServerTyped' /\ server'[p].pc = "none"
         /\ \A q \in Pids \ {p} : server'[q] = server[q]
<1>1. NoProc \in Process /\ NoProc.pc = "none"
  BY DEF NoProc, Process, Users, Texts
<1>2. QED
  BY <1>1 DEF ServerTyped, Ends

(* The steps of a server that has its lock, one at a time. *)
LEMMA LaterSteps ==
  ASSUME ServerTyped, NEW p \in Pids
  PROVE  /\ Boot(p) => ServerTyped' /\ Later(p) /\ server[p].pc = "boot" /\ server'[p].pc = "data"
         /\ LoadData(p) => ServerTyped' /\ Later(p) /\ server[p].pc = "data" /\ server'[p].pc = "listen"
         /\ startupsrv(p) => ServerTyped' /\ Later(p) /\ server[p].pc = "listen" /\ server'[p].pc = "up"
         /\ Stop(p) => ServerTyped' /\ Later(p) /\ server[p].pc = "up" /\ server'[p].pc = "ending"
         /\ \A ok : WriteStats(p, ok) =>
                ServerTyped' /\ Later(p) /\ server[p].pc = "ending" /\ server'[p].pc = "ended"
<1>1. ASSUME Boot(p)
      PROVE  ServerTyped' /\ Later(p) /\ server[p].pc = "boot" /\ server'[p].pc = "data"
  BY <1>1 DEF Boot, chkswitchuser, ServerTyped, Process, Users, Later, ServingPc, At
<1>2. ASSUME LoadData(p)
      PROVE  ServerTyped' /\ Later(p) /\ server[p].pc = "data" /\ server'[p].pc = "listen"
  BY <1>2, GotoTyped DEF LoadData, Later, ServingPc, At
<1>3. ASSUME startupsrv(p)
      PROVE  ServerTyped' /\ Later(p) /\ server[p].pc = "listen" /\ server'[p].pc = "up"
  BY <1>3, GotoTyped DEF startupsrv, Later, ServingPc, At
<1>4. ASSUME Stop(p)
      PROVE  ServerTyped' /\ Later(p) /\ server[p].pc = "up" /\ server'[p].pc = "ending"
  BY <1>4, GotoTyped DEF Stop, Later, ServingPc, At
<1>5. ASSUME NEW ok, WriteStats(p, ok)
      PROVE  ServerTyped' /\ Later(p) /\ server[p].pc = "ending" /\ server'[p].pc = "ended"
  BY <1>5, GotoTyped DEF WriteStats, Later, ServingPc, At
<1>6. QED
  BY <1>1, <1>2, <1>3, <1>4, <1>5

(* The end of a process, in order or not. *)
LEMMA EndSteps ==
  ASSUME ServerTyped, LockIInv, NEW p \in Pids, Exit(p) \/ Kill(p)
  PROVE  Ended(p)
<1>1. CASE Kill(p)
  BY <1>1 DEF Kill, Killed, Ended
<1>2. CASE Exit(p)
  <2>1. Past(p) /\ Ends(p)
        /\ (UNCHANGED lock \/ lock' = [lock EXCEPT ![server[p].at] = NoFile])
    BY <1>2 DEF Exit, exit, Past, Looking
  <2>2. \A q \in Pids \ {p} : Past(q) => server[q].at # server[p].at
    BY <2>1 DEF LockIInv, NamedInv
  <2>3. NoFile # Empty
    BY DEF NoFile, Empty
  <2>4. QED
    BY <2>1, <2>2, <2>3 DEF Ended
<1>3. QED
  BY <1>1, <1>2

(* A process that looks for the lock file, and gives up or is killed there. *)
LEMMA GivesUp ==
  ASSUME ServerTyped, LockIInv, NEW p \in Pids, Ends(p), Look(p) \/ TakeOver(p) \/ KilledWriting(p)
  PROVE  Ended(p)
<1>1. CASE Look(p)
  BY <1>1 DEF Look, Ended
<1>2. CASE TakeOver(p)
  <2>1. server'[p].pc = "none"
    BY EndsTyped
  <2>2. Goto(p, "locked") => server'[p].pc = "locked"
    BY GotoTyped DEF StartingPc
  <2>3. UNCHANGED lock
    BY <1>2, <2>1, <2>2 DEF TakeOver
  <2>4. QED
    BY <2>3 DEF Ended
<1>3. CASE KilledWriting(p)
  <2>1. server[p].pc \in {"stale", "create", "reborn"} /\ lock' = [lock EXCEPT ![server[p].at] = Empty]
    BY <1>3 DEF KilledWriting, At
  <2>2. p \in Starting
    BY <2>1, Places DEF StartingPc, Looking
  <2>3. \A q \in Pids \ {p} : Past(q) => server[q].at # server[p].at
    BY <2>1, Places DEF LockIInv, NamedInv
  <2>4. QED
    BY <2>1, <2>2, <2>3 DEF Ended
<1>4. QED
  BY <1>1, <1>2, <1>3

(* A process that starts is not yet serving, or about to boot. *)
LEMMA LockingTyped ==
  ASSUME ServerTyped, lock \in [{"run", "cwd"} -> Texts], Locking
  PROVE  /\ ServerTyped'
         /\ \A p \in Pids : server'[p] # server[p] =>
              server[p].pc \notin ServingPc /\ server'[p].pc \notin ServingPc \ {"boot"}
<1> DEFINE Fine == /\ ServerTyped'
                   /\ \A p \in Pids : server'[p] # server[p] =>
                         server[p].pc \notin ServingPc /\ server'[p].pc \notin ServingPc \ {"boot"}
<1>0. ASSUME NEW p \in Pids, server[p].pc \in {"none"} \cup StartingPc, ServerTyped',
             server'[p].pc \in {"none", "boot"} \cup StartingPc,
             \A q \in Pids \ {p} : server'[q] = server[q]
      PROVE  Fine
  BY <1>0 DEF StartingPc, ServingPc, Looking
<1>1. ASSUME NEW p \in Pids, NEW who \in StartedAs, Start(p, who) PROVE Fine
  <2>1. server[p].pc = "none"
    BY <1>1 DEF Start, Proc, Running
  <2>2. QED
    BY <1>1, <2>1 DEF Start, ServerTyped, Process, Users, Texts, StartingPc, ServingPc, Looking
<1>2. ASSUME NEW p \in Pids, Check(p) PROVE Fine
  <2>1. server[p].pc = "check" /\ \E pc \in {"read", "create"} : Goto(p, pc)
    BY <1>2 DEF Check, At
  <2>2. QED
    BY <1>0, <2>1, GotoTyped DEF StartingPc, Looking
<1>3. ASSUME NEW p \in Pids, ReadLock(p) PROVE Fine
  <2>1. server[p].pc = "read" /\ File(p) \in Texts
    BY <1>3, Places DEF ReadLock, At, File
  <2>2. \/ Goto(p, "locked")
        \/ \E text \in Texts : Reads(p, "look", text)
    BY <1>3, <2>1 DEF ReadLock, Texts
  <2>3. QED
    BY <1>0, <2>1, <2>2, GotoTyped, ReadTyped DEF StartingPc, Looking
<1>4. ASSUME NEW p \in Pids, Look(p) PROVE Fine
  <2>1. server[p].pc = "look"
    BY <1>4 DEF Look, At
  <2>2. Ends(p) \/ \E text \in Texts : Reads(p, "stale", text)
    BY <1>4 DEF Look, Texts
  <2>3. QED
    BY <1>0, <2>1, <2>2, EndsTyped, ReadTyped DEF StartingPc, Looking
<1>5. ASSUME NEW p \in Pids, TakeOver(p) PROVE Fine
  <2>1. server[p].pc = "stale" /\ (Ends(p) \/ Goto(p, "locked"))
    BY <1>5 DEF TakeOver, At
  <2>2. QED
    BY <1>0, <2>1, EndsTyped, GotoTyped DEF StartingPc, Looking
<1>6. ASSUME NEW p \in Pids, createlockfile(p) PROVE Fine
  <2>1. server[p].pc = "create"
    BY <1>6 DEF createlockfile, At
  <2>2. CASE Goto(p, "locked")
    BY <1>0, <2>1, <2>2, GotoTyped DEF StartingPc, Looking
  <2>3. CASE server' = [server EXCEPT ![p].pc = "check", ![p].at = "cwd"]
    BY <2>1, <2>3 DEF ServerTyped, Process, StartingPc, ServingPc, Looking
  <2>4. QED
    BY <1>6, <2>2, <2>3 DEF createlockfile
<1>7. ASSUME NEW p \in Pids, KilledWriting(p) PROVE Fine
  <2>1. server[p].pc \in {"stale", "create", "reborn"} /\ Ends(p)
    BY <1>7 DEF KilledWriting, At
  <2>2. QED
    BY <1>0, <2>1, EndsTyped DEF StartingPc, Looking
<1>8. ASSUME NEW p \in Pids, Foreground(p) \/ updatelockfilepid(p) PROVE Fine
  <2>1. server[p].pc \in {"locked", "reborn"} /\ Goto(p, "boot")
    BY <1>8 DEF Foreground, updatelockfilepid, At
  <2>2. QED
    BY <1>0, <2>1, GotoTyped DEF StartingPc, ServingPc, Looking
<1>9. ASSUME NEW p \in Pids, NEW q \in Pids, startdaemon(p, q) PROVE Fine
  <2>1. server[q].pc = "none" /\ server[p].pc = "locked"
    BY <1>9 DEF startdaemon, Proc, Running, At
  <2>2. NoProc \in Process /\ [server[p] EXCEPT !.pc = "reborn"] \in Process
    BY DEF NoProc, ServerTyped, Process, Users, Texts, StartingPc
  <2>3. [server[p] EXCEPT !.pc = "reborn"].pc = "reborn" /\ NoProc.pc = "none"
    BY DEF NoProc, ServerTyped, Process
  <2>4. server' = [server EXCEPT ![q] = [server[p] EXCEPT !.pc = "reborn"], ![p] = NoProc]
    BY <1>9 DEF startdaemon
  <2>5. QED
    BY <2>1, <2>2, <2>3, <2>4 DEF ServerTyped, StartingPc, ServingPc, Looking
<1>10. ASSUME NEW p \in Pids, Other(p) PROVE Fine
  BY <1>10 DEF Other, ServerTyped
<1>11. QED
  BY <1>1, <1>2, <1>3, <1>4, <1>5, <1>6, <1>7, <1>8, <1>9, <1>10 DEF Locking

(* A gap once met stays met. *)
LEMMA GapsStay ==
  ASSUME [Next]_vars, gaps' = {}
  PROVE  gaps = {}
<1>1. ASSUME Locking PROVE gaps = {}
  <2>1. ASSUME NEW p \in Pids, \/ \E who \in StartedAs : Start(p, who)
                               \/ Check(p) \/ Look(p) \/ TakeOver(p) \/ KilledWriting(p)
                               \/ Foreground(p) \/ Other(p) \/ \E q \in Pids : startdaemon(p, q)
        PROVE  UNCHANGED gaps
    BY <2>1 DEF Start, Check, Look, TakeOver, KilledWriting, Foreground, Other, startdaemon
  <2>2. ASSUME NEW p \in Pids, ReadLock(p) PROVE gaps = {}
    BY <2>2 DEF ReadLock
  <2>3. ASSUME NEW p \in Pids, createlockfile(p) \/ updatelockfilepid(p) PROVE gaps = {}
    BY <2>3 DEF createlockfile, updatelockfilepid, WriteOver
  <2>4. QED
    BY <1>1, <2>1, <2>2, <2>3 DEF Locking
<1>2. ASSUME NEW p \in Pids, \/ Boot(p) \/ LoadData(p) \/ startupsrv(p) \/ Record(p)
                             \/ _cmd_refresh_profiles(p) \/ Stop(p) \/ Exit(p) \/ Kill(p)
                             \/ \E ok : _cmd_resetstatistics(p, ok) \/ WriteStats(p, ok)
      PROVE  UNCHANGED gaps
  BY <1>2 DEF Boot, chkswitchuser, LoadData, startupsrv, Record, lockvars, _cmd_refresh_profiles,
              Stop, Exit, exit, Kill, Killed, _cmd_resetstatistics, WriteStats
<1>3. UNCHANGED vars => UNCHANGED gaps
  BY DEF vars, lockvars
<1>4. QED
  BY <1>1, <1>2, <1>3 DEF Next

-----------------------------------------------------------------------------
(* The lock file. *)

(* A server that has its lock stays the owner of it. *)
LEMMA LaterKeepsLock ==
  ASSUME ServerTyped, ServerTyped', LockIInv, NEW p \in Pids, Later(p)
  PROVE  LockIInv'
<1>1. \A q \in Pids : q = p \/ server'[q] = server[q]
  BY DEF Later
<1>2. p \notin Starting /\ p \notin Starting' /\ Past(p) /\ Past(p)'
  BY Places DEF Later, ServingPc, StartingPc, Starting, Past, Looking
<1>3. StartInv'
  BY <1>1, <1>2 DEF LockIInv, StartInv, Starting, Running
<1>4. PlaceInv'
  BY <1>1, <1>2 DEF LockIInv, PlaceInv, Past, Later
<1>5. NamedInv'
  BY <1>1, <1>2 DEF LockIInv, NamedInv, Past, Later, ServingPc
<1>6. QED
  BY <1>3, <1>4, <1>5 DEF LockIInv

(* A process that ends takes with it at most its own lock file. *)
LEMMA EndKeepsLock ==
  ASSUME ServerTyped, ServerTyped', LockIInv, NEW p \in Pids, Ended(p)
  PROVE  LockIInv'
<1>1. /\ \A q \in Pids : q = p \/ server'[q] = server[q]
      /\ server'[p].pc = "none"
  BY EndsTyped DEF Ended
<1>2. ~Past(p)' /\ p \notin Starting'
  BY <1>1 DEF Past, Starting, Running
<1>3. StartInv'
  BY <1>1, <1>2 DEF LockIInv, StartInv, Starting, Running
<1>4. PlaceInv'
  BY <1>1, <1>2 DEF LockIInv, PlaceInv, Past
<1>5. NamedInv'
  <2>1. server[p].at \in {"run", "cwd"}
    BY Places
  <2>2. CASE UNCHANGED lock
    BY <1>1, <1>2, <2>2 DEF LockIInv, NamedInv, Past
  <2>3. ASSUME NEW text \in {NoFile, Empty}, lock' = [lock EXCEPT ![server[p].at] = text],
               \A q \in Pids \ {p} : Past(q) => server[q].at # server[p].at,
               text = Empty => p \in Starting
        PROVE  NamedInv'
    <3>1. \A q \in Pids : server[q].at \in {"run", "cwd"}
      BY Places
    <3>2. lock' \in [{"run", "cwd"} -> Texts]
      BY <2>3 DEF LockIInv, NamedInv, Texts
    <3>3. \A x \in {"run", "cwd"} : lock'[x] = IF x = server[p].at THEN text ELSE lock[x]
      BY <2>1, <2>3 DEF LockIInv, NamedInv
    <3>4. \A q \in Pids \ {p} : Past(q) /\ server[q].pc # "reborn" => lock'[server[q].at] = q
      BY <2>3, <3>1, <3>3 DEF LockIInv, NamedInv
    <3>5. \A q \in Pids \ {p} : server[q].pc = "create" => lock'[server[q].at] = NoFile
      <4>1. ASSUME NEW q \in Pids \ {p}, server[q].pc = "create" PROVE p \notin Starting
        BY <4>1, Places DEF LockIInv, StartInv, StartingPc, Looking
      <4>2. QED
        BY <2>3, <3>1, <3>3, <4>1 DEF LockIInv, NamedInv
    <3>6. QED
      BY <1>1, <1>2, <3>2, <3>4, <3>5 DEF LockIInv, NamedInv, Past
  <2>4. QED
    BY <2>2, <2>3 DEF Ended
<1>6. QED
  BY <1>3, <1>4, <1>5 DEF LockIInv

(* One process is on its way to the lock file at a time, and finds its own place. *)
LEMMA LockingKeepsPlaces ==
  ASSUME ~StartsOverlap, gaps' = {}, ServerTyped, ServerTyped', LockIInv, Locking
  PROVE  StartInv' /\ PlaceInv'
<1> DEFINE Fine == StartInv' /\ PlaceInv'
<1>0. StartInv /\ PlaceInv
  BY DEF LockIInv
<1>1. ASSUME NEW p \in Pids, NEW pc \in StartingPc, p \in Starting, server'[p].pc = pc,
             server'[p].as = server[p].as, server'[p].uid = server[p].uid,
             server'[p].at = server[p].at \/ (pc = "check" /\ server'[p].at = "cwd" /\ server[p].uid # "root"),
             pc = "locked" => MayWrite(p),
             pc = "reborn" => Past(p),
             \A q \in Pids \ {p} : server'[q] = server[q]
      PROVE  Fine
  <2>1. \A q \in Pids : q = p \/ server'[q] = server[q]
    BY <1>1
  <2>2. Starting' = Starting
    BY <1>1, <2>1, Places DEF Starting, Running, StartingPc, Looking
  <2>3. StartInv'
    BY <1>0, <1>1, <2>1, <2>2 DEF StartInv, Starting, Running
  <2>4. server[p].uid = server[p].as /\ server[p].pc # "none"
    BY <1>0, <1>1 DEF StartInv, Starting, Running
  <2>5. PlaceInv'
    BY <1>0, <1>1, <2>1, <2>4, Places DEF PlaceInv, Past, MayWrite, StartingPc, Looking
  <2>6. QED
    BY <2>3, <2>5
<1>2. ASSUME NEW p \in Pids, NEW who \in StartedAs, Start(p, who) PROVE Fine
  <2>1. Starting = {}
    BY <1>2 DEF Start
  <2>2. /\ server'[p].pc = "check" /\ server'[p].as = server'[p].uid /\ server'[p].at = "run"
        /\ \A q \in Pids \ {p} : server'[q] = server[q]
    BY <1>2 DEF Start, ServerTyped
  <2>3. StartInv'
    BY <2>1, <2>2 DEF StartInv, Starting, Running
  <2>4. PlaceInv'
    BY <1>0, <2>2 DEF PlaceInv, Past, Looking
  <2>5. QED
    BY <2>3, <2>4
<1>3. ASSUME NEW p \in Pids, Ends(p), Look(p) \/ TakeOver(p) \/ KilledWriting(p) PROVE Fine
  BY <1>3, GivesUp, EndKeepsLock DEF LockIInv
<1>4. ASSUME NEW p \in Pids, Check(p) PROVE Fine
  <2>1. p \in Starting /\ server[p].pc = "check"
    BY <1>4, Places DEF Check, At, StartingPc, Looking
  <2>2. PICK pc \in {"read", "create"} : Goto(p, pc)
    BY <1>4 DEF Check
  <2>3. QED
    BY <1>1, <2>1, <2>2, GotoTyped DEF StartingPc, Looking
<1>5. ASSUME NEW p \in Pids, ReadLock(p) PROVE Fine
  <2>1. p \in Starting /\ server[p].pc = "read" /\ File(p) \in Texts
    BY <1>5, Places DEF ReadLock, At, StartingPc, Looking, File, LockIInv, NamedInv
  <2>2. PICK text \in Texts : Reads(p, "look", text)
    BY <1>5, <2>1 DEF ReadLock, Texts
  <2>3. QED
    BY <1>1, <2>1, <2>2, ReadTyped DEF StartingPc, Looking
<1>6. ASSUME NEW p \in Pids, Look(p) PROVE Fine
  <2>1. p \in Starting /\ server[p].pc = "look"
    BY <1>6, Places DEF Look, At, StartingPc, Looking
  <2>2. CASE Reads(p, "stale", NoFile)
    BY <1>1, <2>1, <2>2, ReadTyped DEF StartingPc, Looking, Texts
  <2>3. QED
    BY <1>3, <1>6, <2>2 DEF Look
<1>7. ASSUME NEW p \in Pids, TakeOver(p) PROVE Fine
  <2>1. p \in Starting /\ server[p].pc = "stale"
    BY <1>7, Places DEF TakeOver, At, StartingPc, Looking
  <2>2. CASE Goto(p, "locked") /\ MayWrite(p)
    BY <1>1, <2>1, <2>2, GotoTyped DEF StartingPc, Looking
  <2>3. QED
    BY <1>3, <1>7, <2>2 DEF TakeOver
<1>8. ASSUME NEW p \in Pids, createlockfile(p) PROVE Fine
  <2>1. p \in Starting /\ server[p].pc = "create"
    BY <1>8, Places DEF createlockfile, At, StartingPc, Looking
  <2>2. CASE Goto(p, "locked") /\ MayWrite(p)
    BY <1>1, <2>1, <2>2, GotoTyped DEF StartingPc, Looking
  <2>3. CASE server' = [server EXCEPT ![p].pc = "check", ![p].at = "cwd"] /\ ~MayWrite(p)
    <3>1. /\ server'[p].pc = "check" /\ server'[p].as = server[p].as
          /\ server'[p].at = "cwd" /\ server'[p].uid = server[p].uid
          /\ \A q \in Pids \ {p} : server'[q] = server[q]
      BY <2>3 DEF ServerTyped, Process
    <3>2. server[p].uid # "root"
      BY <2>3 DEF MayWrite
    <3>3. QED
      BY <1>1, <2>1, <3>1, <3>2 DEF StartingPc, Looking
  <2>4. QED
    BY <1>8, <2>2, <2>3 DEF createlockfile
<1>9. ASSUME NEW p \in Pids, Foreground(p) \/ updatelockfilepid(p) PROVE Fine
  <2>1. p \in Starting /\ Past(p) /\ Goto(p, "boot")
    BY <1>9, Places DEF Foreground, updatelockfilepid, At, StartingPc
  <2>2. /\ server'[p].pc = "boot" /\ server'[p].as = server[p].as /\ server'[p].at = server[p].at
        /\ \A q \in Pids \ {p} : server'[q] = server[q]
    BY <2>1, GotoTyped DEF ServingPc
  <2>3. \A q \in Pids : q = p \/ server'[q] = server[q]
    BY <2>2
  <2>4. p \notin Starting'
    BY <2>2 DEF Starting, Running, Looking
  <2>5. StartInv'
    BY <1>0, <2>3, <2>4 DEF StartInv, Starting, Running
  <2>6. PlaceInv'
    BY <1>0, <2>1, <2>2, <2>3 DEF PlaceInv, Past
  <2>7. QED
    BY <2>5, <2>6
<1>10. ASSUME NEW p \in Pids, NEW q \in Pids, startdaemon(p, q) PROVE Fine
  <2>1. server[q].pc = "none" /\ server[p].pc = "locked" /\ p # q
    BY <1>10 DEF startdaemon, Proc, Running, At
  <2>2. /\ server'[p].pc = "none" /\ server'[q].pc = "reborn" /\ server'[q].as = server[p].as
        /\ server'[q].uid = server[p].uid /\ server'[q].at = server[p].at
        /\ \A r \in Pids \ {p, q} : server'[r] = server[r]
    BY <1>10, <2>1 DEF startdaemon, ServerTyped, Process, NoProc
  <2>3. \A r \in Pids : r = p \/ r = q \/ server'[r] = server[r]
    BY <2>2
  <2>4. p \in Starting /\ Past(p) /\ server[p].uid = server[p].as
    BY <1>0, <2>1, Places DEF StartInv, StartingPc
  <2>5. Starting' = {q}
    BY <1>0, <2>1, <2>2, <2>3, <2>4 DEF StartInv, Starting, Running
  <2>6. StartInv'
    BY <2>2, <2>4, <2>5 DEF StartInv
  <2>7. PlaceInv'
    BY <1>0, <2>1, <2>2, <2>3, <2>4 DEF PlaceInv, Past
  <2>8. QED
    BY <2>6, <2>7
<1>11. ASSUME NEW p \in Pids, Other(p) PROVE Fine
  BY <1>0, <1>11 DEF Other, StartInv, PlaceInv, Starting, Running, Past
<1>12. ASSUME NEW p \in Pids, KilledWriting(p) PROVE Fine
  BY <1>3, <1>12 DEF KilledWriting
<1>13. QED
  BY <1>2, <1>4, <1>5, <1>6, <1>7, <1>8, <1>9, <1>10, <1>11, <1>12 DEF Locking

(* The file goes on naming its server while others look for theirs. *)
LEMMA LockingKeepsNames ==
  ASSUME gaps' = {}, ServerTyped, ServerTyped', LockIInv, Locking
  PROVE  NamedInv'
<1>0. NamedInv /\ StartInv /\ lock \in [{"run", "cwd"} -> Texts]
  BY DEF LockIInv, NamedInv
<1>1. NoFile \notin Pids /\ Empty \notin Pids
  BY PidsPositive DEF NoFile, Empty
<1>2. \A p, q \in Pids : server[p].pc \in StartingPc /\ server[q].pc \in StartingPc => p = q
  BY <1>0, Places DEF StartInv
<1>3. ASSUME NEW p \in Pids, UNCHANGED lock, ~Past(p), ~Past(p)',
             \A q \in Pids \ {p} : server'[q] = server[q],
             server'[p].pc = "look" => \A q \in Pids : Past(q) /\ server[q].at = server'[p].at =>
                                           server'[p].old = q,
             server'[p].pc \in {"stale", "create"} =>
                 \A q \in Pids : Past(q) => server[q].at # server'[p].at,
             server'[p].pc = "create" => lock[server'[p].at] = NoFile
      PROVE  NamedInv'
  <2>1. \A q \in Pids : q = p \/ server'[q] = server[q]
    BY <1>3
  <2>2. QED
    BY <1>0, <1>3, <2>1 DEF NamedInv, Past
<1>4. ASSUME NEW p \in Pids, NEW who \in StartedAs, Start(p, who) PROVE NamedInv'
  <2>1. server[p].pc = "none" /\ server'[p].pc = "check" /\ UNCHANGED lock
        /\ \A q \in Pids \ {p} : server'[q] = server[q]
    BY <1>4 DEF Start, Proc, Running, ServerTyped
  <2>2. QED
    BY <1>3, <2>1 DEF Past, Looking
<1>5. ASSUME NEW p \in Pids, Ends(p), Look(p) \/ TakeOver(p) \/ KilledWriting(p) PROVE NamedInv'
  BY <1>5, GivesUp, EndKeepsLock DEF LockIInv
\* Of one's own place, the file names the server that has it.
<1>6. ASSUME NEW p \in Pids, server[p].pc \in Looking
      PROVE  \A q \in Pids : Past(q) /\ server[q].at = server[p].at => File(p) = q /\ File(p) # NoFile
  <2>1. SUFFICES ASSUME NEW q \in Pids, Past(q), server[q].at = server[p].at
                 PROVE  File(p) = q
    BY <1>1
  <2>2. server[q].pc # "reborn"
    BY <1>2, <1>6, <2>1 DEF StartingPc, Past, Looking
  <2>3. QED
    BY <1>0, <2>1, <2>2 DEF NamedInv, File
<1>7. ASSUME NEW p \in Pids, Check(p) PROVE NamedInv'
  <2>1. server[p].pc = "check" /\ UNCHANGED lock
    BY <1>7 DEF Check, At
  <2>2. PICK pc \in {"read", "create"} : Goto(p, pc) /\ (pc = "create" => File(p) = NoFile)
    BY <1>7 DEF Check
  <2>3. /\ server'[p].pc = pc /\ server'[p].at = server[p].at
        /\ \A q \in Pids \ {p} : server'[q] = server[q]
    BY <2>2, GotoTyped DEF StartingPc, Looking
  <2>4. QED
    BY <1>3, <1>6, <2>1, <2>2, <2>3 DEF Past, Looking, File
<1>8. ASSUME NEW p \in Pids, ReadLock(p) PROVE NamedInv'
  <2>1. server[p].pc = "read" /\ UNCHANGED lock /\ File(p) \in Texts
    BY <1>0, <1>8, Places DEF ReadLock, At, File
  <2>2. PICK text \in Texts : /\ Reads(p, "look", text)
                              /\ File(p) # NoFile => text = File(p)
    BY <1>8, <2>1 DEF ReadLock, Texts
  <2>3. /\ server'[p].pc = "look" /\ server'[p].at = server[p].at /\ server'[p].old = text
        /\ \A q \in Pids \ {p} : server'[q] = server[q]
    BY <2>2, ReadTyped DEF StartingPc, Looking
  <2>4. QED
    BY <1>3, <1>6, <2>1, <2>2, <2>3 DEF Past, Looking
<1>9. ASSUME NEW p \in Pids, Look(p) PROVE NamedInv'
  <2>1. server[p].pc = "look" /\ UNCHANGED lock
    BY <1>9 DEF Look, At
  <2>2. CASE /\ ~Proc(server[p].old)
             /\ Reads(p, "stale", NoFile)
    <3>1. /\ server'[p].pc = "stale" /\ server'[p].at = server[p].at
          /\ \A q \in Pids \ {p} : server'[q] = server[q]
      BY <2>2, ReadTyped DEF StartingPc, Looking, Texts
    <3>2. \A q \in Pids : Past(q) => server[q].at # server[p].at
      <4>1. \A q \in Pids : Past(q) => Proc(q)
        BY DEF Past, Proc, Running
      <4>2. \A q \in Pids : Past(q) /\ server[q].at = server[p].at => server[p].old = q
        BY <1>0, <2>1 DEF NamedInv
      <4>3. QED
        BY <2>2, <4>1, <4>2
    <3>3. QED
      BY <1>3, <2>1, <3>1, <3>2 DEF Past, Looking
  <2>3. QED
    BY <1>5, <1>9, <2>2 DEF Look
<1>10. ASSUME NEW p \in Pids, server[p].pc \in {"stale", "create"}, Goto(p, "locked"),
              lock' = [lock EXCEPT ![server[p].at] = p]
       PROVE  NamedInv'
  <2>1. /\ server'[p].pc = "locked" /\ server'[p].at = server[p].at
        /\ \A q \in Pids \ {p} : server'[q] = server[q]
    BY <1>10, GotoTyped DEF StartingPc
  <2>2. \A q \in Pids : q = p \/ server'[q] = server[q]
    BY <2>1
  <2>3. \A q \in Pids : server[q].at \in {"run", "cwd"}
    BY Places
  <2>4. \A q \in Pids : Past(q) => server[q].at # server[p].at
    BY <1>0, <1>10 DEF NamedInv
  <2>5. \A x \in {"run", "cwd"} : lock'[x] = IF x = server[p].at THEN p ELSE lock[x]
    BY <1>0, <1>10
  <2>6. \A q \in Pids \ {p} : server[q].pc \notin {"look", "stale", "create"}
    BY <1>2, <1>10 DEF StartingPc, Looking
  <2>7. lock' \in [{"run", "cwd"} -> Texts]
    BY <1>0, <1>10 DEF Texts
  <2>8. ~Past(p)
    BY <1>10 DEF Past, Looking
  <2>9. QED
    BY <1>0, <2>1, <2>2, <2>3, <2>4, <2>5, <2>6, <2>7, <2>8 DEF NamedInv, Past
<1>11. ASSUME NEW p \in Pids, TakeOver(p) PROVE NamedInv'
  <2>1. server[p].pc = "stale"
    BY <1>11 DEF TakeOver, At
  <2>2. QED
    BY <1>5, <1>10, <1>11, <2>1 DEF TakeOver
<1>12. ASSUME NEW p \in Pids, WriteOver(p)
       PROVE  lock' = [lock EXCEPT ![server[p].at] = p]
  BY <1>12 DEF WriteOver, Overwritten, File
<1>13. ASSUME NEW p \in Pids, createlockfile(p) PROVE NamedInv'
  <2>1. server[p].pc = "create"
    BY <1>13 DEF createlockfile, At
  <2>2. CASE server' = [server EXCEPT ![p].pc = "check", ![p].at = "cwd"] /\ UNCHANGED lock
    <3>1. server'[p].pc = "check" /\ \A q \in Pids \ {p} : server'[q] = server[q]
      BY <2>2 DEF ServerTyped, Process
    <3>2. QED
      BY <1>3, <2>1, <2>2, <3>1 DEF Past, Looking
  <2>3. CASE WriteOver(p) /\ Goto(p, "locked")
    BY <1>10, <1>12, <2>1, <2>3
  <2>4. QED
    BY <1>13, <2>2, <2>3 DEF createlockfile
<1>14. ASSUME NEW p \in Pids, Foreground(p) PROVE NamedInv'
  <2>1. server[p].pc = "locked" /\ UNCHANGED lock /\ Goto(p, "boot")
    BY <1>14 DEF Foreground, At
  <2>2. /\ server'[p].pc = "boot" /\ server'[p].at = server[p].at
        /\ \A q \in Pids \ {p} : server'[q] = server[q]
    BY <2>1, GotoTyped DEF ServingPc
  <2>3. \A q \in Pids : q = p \/ server'[q] = server[q]
    BY <2>2
  <2>4. QED
    BY <1>0, <2>1, <2>2, <2>3 DEF NamedInv, Past, Looking
<1>15. ASSUME NEW p \in Pids, updatelockfilepid(p) PROVE NamedInv'
  <2>1. /\ server[p].pc = "reborn" /\ Goto(p, "boot") /\ server[p].at \in {"run", "cwd"}
        /\ lock' = [lock EXCEPT ![server[p].at] = p]
    BY <1>12, <1>15, Places DEF updatelockfilepid, At
  <2>2. /\ server'[p].pc = "boot" /\ server'[p].at = server[p].at
        /\ \A q \in Pids \ {p} : server'[q] = server[q]
    BY <2>1, GotoTyped DEF ServingPc
  <2>3. \A q \in Pids : q = p \/ server'[q] = server[q]
    BY <2>2
  <2>4. \A x \in {"run", "cwd"} : lock'[x] = IF x = server[p].at THEN p ELSE lock[x]
    BY <1>0, <2>1
  <2>5. lock' \in [{"run", "cwd"} -> Texts]
    BY <1>0, <2>1 DEF Texts
  <2>6. \A q \in Pids : server[q].at \in {"run", "cwd"}
    BY Places
  <2>7. Past(p) /\ \A q \in Pids \ {p} : server[q].pc \notin {"look", "stale", "create"}
    BY <1>2, <2>1 DEF StartingPc, Past, Looking
  <2>8. QED
    BY <1>0, <2>1, <2>2, <2>3, <2>4, <2>5, <2>6, <2>7 DEF NamedInv, Past
<1>16. ASSUME NEW p \in Pids, NEW q \in Pids, startdaemon(p, q) PROVE NamedInv'
  <2>1. server[q].pc = "none" /\ server[p].pc = "locked" /\ p # q /\ UNCHANGED lock
    BY <1>16 DEF startdaemon, Proc, Running, At
  <2>2. /\ server'[p].pc = "none" /\ server'[q].pc = "reborn" /\ server'[q].at = server[p].at
        /\ \A r \in Pids \ {p, q} : server'[r] = server[r]
    BY <1>16, <2>1 DEF startdaemon, ServerTyped, Process, NoProc
  <2>3. \A r \in Pids : r = p \/ r = q \/ server'[r] = server[r]
    BY <2>2
  <2>4. \A r \in Pids \ {p} : server[r].pc \notin {"look", "stale", "create"}
    BY <1>2, <2>1 DEF StartingPc, Looking
  <2>5. Past(p)
    BY <2>1 DEF Past, Looking
  <2>6. QED
    BY <1>0, <2>1, <2>2, <2>3, <2>4, <2>5 DEF NamedInv, Past
<1>17. ASSUME NEW p \in Pids, Other(p) PROVE NamedInv'
  BY <1>0, <1>17 DEF Other, NamedInv, Past
<1>18. ASSUME NEW p \in Pids, KilledWriting(p) PROVE NamedInv'
  BY <1>5, <1>18 DEF KilledWriting
<1>19. QED
  BY <1>4, <1>7, <1>8, <1>9, <1>11, <1>13, <1>14, <1>15, <1>16, <1>17, <1>18 DEF Locking

(* If no start overlaps another and none has come through a gap, each lock file names the one server *)
(* past it. *)
LockSafe == ServerTyped /\ LockIInv
LEMMA LockKept == ~StartsOverlap => (Spec => [](gaps = {} => LockSafe))
<1> SUFFICES ASSUME ~StartsOverlap PROVE Spec => [](gaps = {} => LockSafe)
  OBVIOUS
<1>1. Init => LockSafe
  <2>1. SUFFICES ASSUME Init PROVE LockSafe
    OBVIOUS
  <2>2. ServerTyped
    BY <2>1 DEF Init, LockInit, ServerTyped, NoProc, Process, Users, Texts
  <2>3. \A p \in Pids : server[p].pc = "none"
    BY <2>1 DEF Init, LockInit, NoProc
  <2>4. lock \in [{"run", "cwd"} -> Texts]
    BY <2>1 DEF Init, LockInit, Texts
  <2>5. QED
    BY <2>2, <2>3, <2>4 DEF LockSafe, LockIInv, StartInv, PlaceInv, NamedInv, Starting, Running, Past
<1>2. (gaps = {} => LockSafe) /\ [Next]_vars => (gaps = {} => LockSafe)'
  <2>1. SUFFICES ASSUME gaps = {} => LockSafe, [Next]_vars, gaps' = {} PROVE LockSafe'
    OBVIOUS
  <2>2. ServerTyped /\ LockIInv
    BY <2>1, GapsStay DEF LockSafe
  <2>3. UNCHANGED <<server, lock>> => LockSafe'
    BY <2>2 DEF LockSafe, ServerTyped, LockIInv, StartInv, PlaceInv, NamedInv, Starting, Running, Past
  <2>4. ASSUME NEW p \in Pids, Record(p) \/ _cmd_refresh_profiles(p) \/ \E ok : _cmd_resetstatistics(p, ok)
        PROVE  LockSafe'
    BY <2>3, <2>4 DEF Record, _cmd_refresh_profiles, _cmd_resetstatistics, lockvars
  <2>5. CASE Locking
    <3>1. ServerTyped'
      BY <2>2, <2>5, LockingTyped DEF LockIInv, NamedInv
    <3>2. QED
      BY <2>1, <2>2, <2>5, <3>1, LockingKeepsPlaces, LockingKeepsNames DEF LockSafe, LockIInv
  <2>6. ASSUME NEW p \in Pids, \/ Boot(p) \/ LoadData(p) \/ startupsrv(p) \/ Stop(p)
                               \/ \E ok : WriteStats(p, ok)
        PROVE  LockSafe'
    BY <2>2, <2>6, LaterSteps, LaterKeepsLock DEF LockSafe
  <2>7. ASSUME NEW p \in Pids, Exit(p) \/ Kill(p)
        PROVE  LockSafe'
    <3>1. Ended(p)
      BY <2>2, <2>7, EndSteps
    <3>2. ServerTyped'
      BY <2>2, <3>1, EndsTyped DEF Ended
    <3>3. QED
      BY <2>2, <3>1, <3>2, EndKeepsLock DEF LockSafe
  <2>8. CASE UNCHANGED vars
    BY <2>3, <2>8 DEF vars, lockvars
  <2>9. QED
    BY <2>1, <2>4, <2>5, <2>6, <2>7, <2>8 DEF Next
<1>3. QED
  BY <1>1, <1>2, PTL DEF Spec

(* Servers started one after the other, whichever die or leave a file behind, cut or whole, and whichever *)
(* number they get, are never two past the lock file, unless one has come through a gap: a file that *)
(* vanished before it was opened, no current directory, or a number written over a longer one. *)
THEOREM ServersAreAlone == ~StartsOverlap => (Spec => []OneServer)
<1> SUFFICES ASSUME ~StartsOverlap PROVE Spec => []OneServer
  OBVIOUS
<1>1. (gaps = {} => LockSafe) => OneServer
  <2>1. SUFFICES ASSUME LockIInv, NEW p \in Pids, NEW q \in Pids, Past(p), Past(q),
                        server[p].as = server[q].as
                 PROVE  p = q
    BY DEF OneServer, LockSafe
  <2>2. server[p].pc # "none" /\ server[q].pc # "none"
    BY <2>1 DEF Past
  <2>3. server[p].at = server[q].at
    BY <2>1, <2>2 DEF LockIInv, PlaceInv
  <2>4. QED
    BY <2>1, <2>3 DEF LockIInv, NamedInv
<1>2. QED
  BY <1>1, LockKept, PTL

-----------------------------------------------------------------------------
(* What a server remembers, and its files. *)

EnterPc == {"idle", "shift", "put", "write", "fill"}
Entering == [pc : EnterPc, title : Nat]
Memory == [history : [Slots -> Nat], nrecs : 0 .. HISTORY_LENGTH, total : Nat,
           thread : [Threads -> Entering]]
Lists == {s \in Seq(Nat) : Len(s) <= HISTORY_LENGTH}

HistTyped ==
  /\ memory \in [Pids -> Memory]
  /\ histfile \in Lists \cup {Absent, Torn}
  /\ statfile \in Nat /\ ended \in Nat
  /\ listed \in Lists /\ saved \in Lists
  /\ counted \in [Pids -> Nat]

(* What has been filled of a history is a list. *)
LEMMA FilledIs ==
  ASSUME HistTyped, NEW p \in Pids
  PROVE  /\ Filled(p) \in Lists /\ Len(Filled(p)) = memory[p].nrecs
         /\ \A i \in 1 .. memory[p].nrecs : Filled(p)[i] = memory[p].history[i]
<1> DEFINE h == memory[p].history
           n == memory[p].nrecs
<1>1. HISTORY_LENGTH \in Nat \ {0}
  BY HistoryAssumption
<1>2. h \in [1 .. HISTORY_LENGTH -> Nat] /\ n \in 0 .. HISTORY_LENGTH
  BY DEF HistTyped, Memory, Slots
<1> HIDE DEF h, n
<1>3. h \in Seq(Nat) /\ Len(h) = HISTORY_LENGTH
  BY <1>1, <1>2
<1>4. SubSeq(h, 1, n) \in Seq(Nat) /\ Len(SubSeq(h, 1, n)) = n
      /\ \A i \in 1 .. n : SubSeq(h, 1, n)[i] = h[i]
  BY <1>1, <1>2, <1>3, SubSeqProperties
<1>5. QED
  BY <1>1, <1>2, <1>4 DEF Filled, Lists, h, n

(* The newest come first, and the oldest goes when there are too many. *)
LEMMA NewestIs ==
  ASSUME NEW s \in Lists, NEW title \in Nat
  PROVE  LET new == Newest(<<title>> \o s)
         IN  /\ new \in Lists
             /\ Len(new) = (IF Len(s) < HISTORY_LENGTH THEN Len(s) + 1 ELSE HISTORY_LENGTH)
             /\ new[1] = title
             /\ \A i \in 2 .. Len(new) : new[i] = s[i - 1]
<1> DEFINE all == <<title>> \o s
           n == IF Len(all) < HISTORY_LENGTH THEN Len(all) ELSE HISTORY_LENGTH
<1>1. HISTORY_LENGTH \in Nat \ {0}
  BY HistoryAssumption
<1>2. s \in Seq(Nat) /\ Len(s) \in Nat /\ Len(s) <= HISTORY_LENGTH
  BY DEF Lists
<1>3. /\ all \in Seq(Nat) /\ Len(all) = Len(s) + 1 /\ all[1] = title
      /\ \A i \in 2 .. Len(all) : all[i] = s[i - 1]
  BY <1>2
<1>4. Newest(all) = SubSeq(all, 1, n)
  BY DEF Newest
<1>5. n = (IF Len(s) < HISTORY_LENGTH THEN Len(s) + 1 ELSE HISTORY_LENGTH) /\ n \in 1 .. Len(all)
  BY <1>1, <1>2, <1>3
<1> HIDE DEF all, n
<1>6. SubSeq(all, 1, n) \in Seq(Nat) /\ Len(SubSeq(all, 1, n)) = n
      /\ \A i \in 1 .. n : SubSeq(all, 1, n)[i] = all[i]
  <2>1. n \in Int /\ n \in Nat /\ n >= 1 /\ \A i \in 1 .. n : all[i] \in Nat
    BY <1>3, <1>5
  <2>2. SubSeq(all, 1, n) \in Seq(Nat)
        /\ Len(SubSeq(all, 1, n)) = (IF 1 <= n THEN n - 1 + 1 ELSE 0)
        /\ \A i \in 1 .. n - 1 + 1 : SubSeq(all, 1, n)[i] = all[1 + i - 1]
    BY <2>1, SubSeqProperties
  <2>3. n - 1 + 1 = n /\ \A i \in 1 .. n : 1 + i - 1 = i
    BY <2>1
  <2>4. QED
    BY <2>1, <2>2, <2>3
<1>7. Newest(all) \in Lists /\ Len(Newest(all)) = n /\ n <= HISTORY_LENGTH
  BY <1>1, <1>2, <1>4, <1>5, <1>6 DEF Lists
<1>8. Newest(all)[1] = title /\ \A i \in 2 .. n : Newest(all)[i] = s[i - 1]
  BY <1>2, <1>3, <1>4, <1>5, <1>6
<1>9. QED
  BY <1>5, <1>7, <1>8 DEF all

(* A new process remembers nothing. *)
LEMMA NoMemoryTyped == NoMemory \in Memory
<1>1. [i \in Slots |-> NoTitle] \in [Slots -> Nat] /\ NoTitle \in Nat
  BY DEF NoTitle
<1>2. [t \in Threads |-> [pc |-> "idle", title |-> NoTitle]] \in [Threads -> Entering]
  BY <1>1 DEF Entering, EnterPc
<1>3. QED
  BY <1>1, <1>2, HistoryAssumption DEF NoMemory, Memory

(* Each of the steps of the history and the statistics keeps the types. *)
LEMMA HistStepsTyped ==
  ASSUME HistTyped, NEW p \in Pids
  PROVE  /\ ReadProfiles(p) => HistTyped'
         /\ hist_init(p) => HistTyped'
         /\ Forget(p) => HistTyped'
         /\ \A ok : write_stats(p, ok) => HistTyped'
         /\ \A ok : clear_stats(p, ok) => HistTyped'
<1>0. memory[p] \in Memory
  BY DEF HistTyped
<1>1. ASSUME ReadProfiles(p) PROVE HistTyped'
  BY <1>0, <1>1 DEF ReadProfiles, read_profile_stats, HistTyped, Memory
<1>2. ASSUME hist_init(p) PROVE HistTyped'
  <2>1. <<>> \in Lists
    BY HistoryAssumption DEF Lists
  <2>2. CASE Readable /\ tvhist_read(p) /\ UNCHANGED <<histfile, listed, saved, misread, faults>>
    <3> DEFINE h == [i \in Slots |-> IF i <= Len(histfile) THEN histfile[i] ELSE NoTitle]
    <3>1. histfile \in Seq(Nat) /\ Len(histfile) \in 0 .. HISTORY_LENGTH
      BY <2>2, HistoryAssumption DEF Readable, Whole, HistTyped, Lists
    <3>2. h \in [Slots -> Nat]
      BY <3>1, HistoryAssumption DEF Slots, NoTitle
    <3>3. memory' = [memory EXCEPT ![p].history = h, ![p].nrecs = Len(histfile)]
      BY <2>2 DEF tvhist_read
    <3> HIDE DEF h
    <3>4. memory' \in [Pids -> Memory]
      BY <1>0, <3>1, <3>2, <3>3 DEF HistTyped, Memory
    <3>5. QED
      BY <1>2, <2>2, <3>4 DEF hist_init, HistTyped
  <2>3. CASE /\ ~Readable /\ UNCHANGED memory /\ histfile' \in {<<>>, histfile}
             /\ listed' \in {<<>>, listed} /\ saved' \in {<<>>, saved}
    BY <1>2, <2>1, <2>3 DEF hist_init, HistTyped
  <2>4. QED
    BY <1>2, <2>2, <2>3 DEF hist_init
<1>3. ASSUME Forget(p) PROVE HistTyped'
  BY <1>3, NoMemoryTyped DEF Forget, HistTyped
<1>4. ASSUME NEW ok, write_stats(p, ok) PROVE HistTyped'
  BY <1>0, <1>4 DEF write_stats, HistTyped, Memory
<1>5. ASSUME NEW ok, clear_stats(p, ok) PROVE HistTyped'
  BY <1>0, <1>5 DEF clear_stats, HistTyped, Memory
<1>6. QED
  BY <1>1, <1>2, <1>3, <1>4, <1>5

(* So do those of a recording thread. *)
LEMMA RecordTyped ==
  ASSUME HistTyped, NEW p \in Pids, NEW t \in Threads
  PROVE  /\ stats_update(p, t) => HistTyped'
         /\ Shift(p, t) => HistTyped'
         /\ Put(p, t) => HistTyped'
         /\ tvhist_write(p, t) => HistTyped'
         /\ \A ok : Truncate(p, t, ok) => HistTyped'
<1>0. memory[p] \in Memory /\ memory[p].thread[t] \in Entering
  BY DEF HistTyped, Memory
<1>1. ASSUME stats_update(p, t) PROVE HistTyped'
  <2>1. [pc |-> "shift", title |-> ended + 1] \in Entering
    BY DEF Entering, EnterPc, HistTyped
  <2>2. memory' \in [Pids -> Memory]
    <3> DEFINE thread == [memory[p].thread EXCEPT ![t] = [pc |-> "shift", title |-> ended + 1]]
    <3>1. thread \in [Threads -> Entering] /\ memory[p].total + 1 \in Nat
      BY <1>0, <2>1 DEF Memory
    <3>2. memory' = [memory EXCEPT ![p] = [@ EXCEPT !.total = memory[p].total + 1, !.thread = thread]]
      BY <1>0, <1>1 DEF stats_update, HistTyped, Memory
    <3> HIDE DEF thread
    <3>3. QED
      BY <1>0, <3>1, <3>2 DEF HistTyped, Memory
  <2>3. QED
    BY <1>1, <2>2 DEF stats_update, HistTyped
<1>2. \A pc \in EnterPc : Enters(p, t, pc) => memory' \in [Pids -> Memory]
  <2>1. SUFFICES ASSUME NEW pc \in EnterPc, Enters(p, t, pc) PROVE memory' \in [Pids -> Memory]
    OBVIOUS
  <2> DEFINE now == [pc |-> pc, title |-> IF pc = "idle" THEN NoTitle ELSE memory[p].thread[t].title]
             thread == [memory[p].thread EXCEPT ![t] = now]
  <2>2. now \in Entering
    BY <1>0 DEF Entering, NoTitle
  <2>3. thread \in [Threads -> Entering]
    BY <1>0, <2>2 DEF Memory
  <2>4. memory' = [memory EXCEPT ![p] = [@ EXCEPT !.thread = thread]]
    BY <1>0, <2>1 DEF Enters, HistTyped, Memory
  <2> HIDE DEF thread
  <2>5. QED
    BY <1>0, <2>3, <2>4 DEF HistTyped, Memory
<1>3. ASSUME Shift(p, t) PROVE HistTyped'
  <2> DEFINE old == memory[p].history
             h == [i \in Slots |-> IF i = 1 THEN old[1] ELSE old[i - 1]]
  <2>1. h \in [Slots -> Nat]
    BY <1>0, HistoryAssumption DEF Memory, Slots
  <2>2. memory' = [memory EXCEPT ![p].history = h, ![p].thread[t].pc = "put"]
    BY <1>3 DEF Shift
  <2> HIDE DEF h
  <2>3. memory' \in [Pids -> Memory]
    BY <1>0, <2>1, <2>2 DEF HistTyped, Memory, Entering, EnterPc
  <2>4. QED
    BY <1>3, <2>3 DEF Shift, HistTyped
<1>4. ASSUME Put(p, t) PROVE HistTyped'
  <2>1. Thread(p, t).title \in Nat /\ listed \in Lists
    BY <1>0 DEF Thread, Entering, HistTyped
  <2>2. listed' \in Lists
    BY <1>4, <2>1, NewestIs DEF Put
  <2>3. [memory[p].history EXCEPT ![1] = Thread(p, t).title] \in [Slots -> Nat]
    BY <1>0, <2>1 DEF Memory
  <2>4. (IF memory[p].nrecs < HISTORY_LENGTH THEN memory[p].nrecs + 1 ELSE memory[p].nrecs)
          \in 0 .. HISTORY_LENGTH
    BY <1>0, HistoryAssumption DEF Memory
  <2>5. [memory[p].thread EXCEPT ![t].pc = "write"] \in [Threads -> Entering]
    BY <1>0 DEF Memory, Entering, EnterPc
  <2>6. memory' \in [Pids -> Memory]
    BY <1>0, <1>4, <2>3, <2>4, <2>5 DEF Put, HistTyped, Memory
  <2>7. QED
    BY <1>4, <2>2, <2>6 DEF Put, HistTyped
<1>5. ASSUME tvhist_write(p, t) PROVE HistTyped'
  BY <1>2, <1>5, FilledIs DEF tvhist_write, EnterPc, HistTyped
<1>6. ASSUME NEW ok, Truncate(p, t, ok) PROVE HistTyped'
  <2>1. <<>> \in Lists
    BY HistoryAssumption DEF Lists
  <2>2. memory' \in [Pids -> Memory]
    BY <1>2, <1>6 DEF Truncate, EnterPc
  <2>3. QED
    BY <1>6, <2>1, <2>2 DEF Truncate, HistTyped
<1>7. QED
  BY <1>1, <1>3, <1>4, <1>5, <1>6

\* What a step does to histories and statistics: nothing, or one of the steps that History has, of a
\* server of root's.
HistStep(p) ==
  \/ ReadProfiles(p) \/ hist_init(p) \/ Forget(p)
  \/ \E ok \in BOOLEAN : write_stats(p, ok) \/ clear_stats(p, ok)
  \/ \E t \in Threads : \/ stats_update(p, t) \/ Shift(p, t) \/ Put(p, t) \/ tvhist_write(p, t)
                        \/ \E ok \in BOOLEAN : Truncate(p, t, ok)

(* There are no other steps. *)
LEMMA HistSteps ==
  ASSUME [Next]_vars
  PROVE  UNCHANGED histvars \/ \E p \in Pids : Keeps(p) /\ HistStep(p)
<1>1. ASSUME NEW p \in Pids, Boot(p) \/ LoadData(p) \/ startupsrv(p) \/ Stop(p)
      PROVE  UNCHANGED histvars \/ (Keeps(p) /\ HistStep(p))
  BY <1>1 DEF Boot, LoadData, startupsrv, Stop, HistStep
<1>2. ASSUME NEW p \in Pids, Record(p)
      PROVE  Keeps(p) /\ HistStep(p)
  BY <1>2 DEF Record, HistStep
<1>3. ASSUME NEW p \in Pids, NEW ok \in BOOLEAN,
             _cmd_refresh_profiles(p) \/ _cmd_resetstatistics(p, ok) \/ WriteStats(p, ok)
      PROVE  UNCHANGED histvars \/ (Keeps(p) /\ HistStep(p))
  BY <1>3 DEF _cmd_refresh_profiles, _cmd_resetstatistics, WriteStats, HistStep
<1>4. ASSUME NEW p \in Pids, Exit(p) \/ Kill(p)
      PROVE  UNCHANGED histvars \/ (Keeps(p) /\ HistStep(p))
  BY <1>4 DEF Exit, Kill, Gone, HistStep
<1>5. UNCHANGED vars => UNCHANGED histvars
  BY DEF vars
<1>6. QED
  BY <1>1, <1>2, <1>3, <1>4, <1>5 DEF Next

(* A history once given up stays so. *)
LEMMA MisreadStays ==
  ASSUME [Next]_vars, ~misread'
  PROVE  ~misread
<1>1. CASE UNCHANGED histvars
  BY <1>1 DEF histvars
<1>2. ASSUME NEW p \in Pids, HistStep(p) PROVE ~misread
  BY <1>2 DEF HistStep, ReadProfiles, hist_init, Forget, write_stats, clear_stats, stats_update, Shift,
              Put, tvhist_write, Truncate
<1>3. QED
  BY <1>1, <1>2, HistSteps

(* What is remembered and written has its types from the start on. *)
LEMMA HistoriesTyped == Spec => []HistTyped
<1>1. Init => HistTyped
  <2>1. SUFFICES ASSUME Init PROVE HistTyped
    OBVIOUS
  <2>2. <<>> \in Lists
    BY HistoryAssumption DEF Lists
  <2>3. QED
    BY <2>1, <2>2, NoMemoryTyped DEF Init, HistInit, HistTyped
<1>2. HistTyped /\ [Next]_vars => HistTyped'
  <2>1. SUFFICES ASSUME HistTyped, [Next]_vars PROVE HistTyped'
    OBVIOUS
  <2>2. CASE UNCHANGED histvars
    BY <2>1, <2>2 DEF HistTyped, histvars
  <2>3. ASSUME NEW p \in Pids, HistStep(p) PROVE HistTyped'
    BY <2>1, <2>3, HistStepsTyped, RecordTyped DEF HistStep
  <2>4. QED
    BY <2>1, <2>2, <2>3, HistSteps
<1>3. QED
  BY <1>1, <1>2, PTL DEF Spec

-----------------------------------------------------------------------------
(* The statistics. *)

(* What a server counts is what it has in memory, from its profiles on, and whatever is reset or read *)
(* again (read_profile_stats, stats_update, clear_stats). *)
THEOREM AllCounted == Spec => []NothingUncounted
<1> DEFINE Counted == \A p \in Pids : memory[p].total = counted[p]
<1>1. Init => Counted
  BY DEF Init, HistInit, NoMemory
<1>2. HistTyped /\ Counted /\ [Next]_vars => Counted'
  <2>1. SUFFICES ASSUME HistTyped, Counted, [Next]_vars PROVE Counted'
    OBVIOUS
  <2>2. UNCHANGED histvars => Counted'
    BY <2>1 DEF histvars
  <2>3. ASSUME NEW p \in Pids, HistStep(p) PROVE Counted'
    <3>0. memory \in [Pids -> Memory] /\ counted \in [Pids -> Nat] /\ memory[p] \in Memory
      BY <2>1 DEF HistTyped
    <3>1. UNCHANGED <<memory, counted>> => Counted'
      BY <2>1
    <3>2. ReadProfiles(p) => Counted'
      BY <2>1, <3>0 DEF ReadProfiles, read_profile_stats, Memory
    <3>3. hist_init(p) => Counted'
      BY <2>1, <3>0 DEF hist_init, tvhist_read, Memory
    <3>4. Forget(p) => Counted'
      BY <2>1, <3>0 DEF Forget, NoMemory
    <3>5. \A ok : write_stats(p, ok) => Counted'
      BY <3>1 DEF write_stats
    <3>6. \A ok : clear_stats(p, ok) => Counted'
      BY <2>1, <3>0 DEF clear_stats, Memory
    <3>7. \A t \in Threads : stats_update(p, t) => Counted'
      BY <2>1, <3>0 DEF stats_update, Memory
    <3>8. \A t \in Threads : Shift(p, t) => Counted'
      BY <2>1, <3>0 DEF Shift, Memory
    <3>9. \A t \in Threads : Put(p, t) => Counted'
      BY <2>1, <3>0 DEF Put, Memory
    <3>10. \A pc : \A t \in Threads : Enters(p, t, pc) /\ UNCHANGED counted => Counted'
      BY <2>1, <3>0 DEF Enters, Memory
    <3>11. \A t \in Threads : tvhist_write(p, t) => Counted'
      BY <3>10 DEF tvhist_write
    <3>12. \A ok : \A t \in Threads : Truncate(p, t, ok) => Counted'
      BY <3>10 DEF Truncate
    <3>13. QED
      BY <2>3, <3>2, <3>3, <3>4, <3>5, <3>6, <3>7, <3>8, <3>9, <3>11, <3>12 DEF HistStep
  <2>4. QED
    BY <2>1, <2>2, <2>3, HistSteps
<1>3. Counted => NothingUncounted
  BY DEF NothingUncounted
<1>4. QED
  BY <1>1, <1>2, <1>3, HistoriesTyped, PTL DEF Spec

-----------------------------------------------------------------------------
(* The history. *)

Serves(p) == Up(p) /\ Keeps(p)
Loaded(p) == server[p].pc \in {"listen", "up", "ending", "ended"} /\ Keeps(p)
Idle(p) == \A t \in Threads : Thread(p, t).pc = "idle"
Puts(p) == \E t \in Threads : Thread(p, t).pc = "put"

\* The history in memory is the list, or the list moved down by one while a recording is put on top.
Remembers(p) ==
  /\ memory[p].nrecs = Len(listed)
  /\ ~Puts(p) => \A i \in 1 .. Len(listed) : memory[p].history[i] = listed[i]
  /\ Puts(p) => \A i \in 1 .. Len(listed) : i < HISTORY_LENGTH => memory[p].history[i + 1] = listed[i]

ThreadInv ==
  \A p \in Pids : /\ ~Loaded(p) => memory[p].nrecs = 0
                  /\ ~Serves(p) => Idle(p)
                  /\ \A t, u \in Threads : Thread(p, t).pc # "idle" /\ Thread(p, u).pc # "idle" => t = u

FileInv ==
  /\ Readable => histfile = saved
  /\ (\A p \in Pids : ~Serves(p)) => saved = listed

HistIInv == ThreadInv /\ FileInv /\ \A p \in Pids : Loaded(p) => Remembers(p)

\* One server of root's at most is past its lock file.
OneKeeps == \A p, q \in Pids : Past(p) /\ Past(q) /\ Keeps(p) /\ Keeps(q) => p = q

(* A history that is the list is shown as it. *)
LEMMA ShownAsListed ==
  ASSUME HistTyped, NEW p \in Pids, Remembers(p), ~Puts(p)
  PROVE  Filled(p) = listed
<1>1. /\ Filled(p) \in Seq(Nat) /\ Len(Filled(p)) = memory[p].nrecs
      /\ \A i \in 1 .. memory[p].nrecs : Filled(p)[i] = memory[p].history[i]
  BY FilledIs DEF Lists
<1>2. listed \in Seq(Nat) /\ Len(listed) = memory[p].nrecs
      /\ \A i \in 1 .. Len(listed) : memory[p].history[i] = listed[i]
  BY DEF HistTyped, Lists, Remembers
<1>3. Len(Filled(p)) = Len(listed) /\ \A i \in 1 .. Len(listed) : Filled(p)[i] = listed[i]
  BY <1>1, <1>2
<1>4. QED
  BY <1>1, <1>2, <1>3, SeqEqual

(* Processes that come and go without a history of their own change nothing about it. *)
LEMMA OthersKeepHistory ==
  ASSUME HistIInv, UNCHANGED histvars,
         \A p \in Pids : /\ Loaded(p)' <=> Loaded(p)
                         /\ Serves(p) => Serves(p)'
  PROVE  HistIInv'
<1>1. ThreadInv'
  BY DEF HistIInv, ThreadInv, Idle, Thread, histvars
<1>2. FileInv'
  BY DEF HistIInv, FileInv, Readable, Whole, histvars
<1>3. \A p \in Pids : Loaded(p)' => Remembers(p)'
  BY DEF HistIInv, Remembers, Puts, Thread, histvars
<1>4. QED
  BY <1>1, <1>2, <1>3 DEF HistIInv

(* What a step that changes the statistics only makes of it: nothing. *)
LEMMA StatsKeepHistory ==
  ASSUME HistIInv, UNCHANGED <<histfile, listed, saved>>,
         \A p \in Pids : /\ Loaded(p)' <=> Loaded(p)
                         /\ Serves(p)' <=> Serves(p)
                         /\ memory'[p].history = memory[p].history
                         /\ memory'[p].nrecs = memory[p].nrecs
                         /\ memory'[p].thread = memory[p].thread
  PROVE  HistIInv'
<1>1. ThreadInv'
  BY DEF HistIInv, ThreadInv, Idle, Thread
<1>2. FileInv'
  BY DEF HistIInv, FileInv, Readable, Whole
<1>3. \A p \in Pids : Loaded(p)' => Remembers(p)'
  BY DEF HistIInv, Remembers, Puts, Thread
<1>4. QED
  BY <1>1, <1>2, <1>3 DEF HistIInv

(* A server that starts remembers what the one before it has saved, or nothing if that died writing it. *)
LEMMA LoadingRemembers ==
  ASSUME HistTyped, HistIInv, ServerTyped, OneKeeps, NEW p \in Pids, Keeps(p), LoadData(p), ~misread'
  PROVE  HistIInv'
<1>1. /\ server[p].pc = "data" /\ server'[p].pc = "listen" /\ server'[p].as = server[p].as
      /\ \A q \in Pids \ {p} : server'[q] = server[q]
  BY LaterSteps DEF Later
<1>2. Past(p)
  BY <1>1 DEF Past, Looking
<1>3. \A q \in Pids : ~Loaded(q) /\ ~Serves(q)
  BY <1>1, <1>2 DEF OneKeeps, Loaded, Serves, Up, Past, Looking
<1>4. \A q \in Pids : (Loaded(q)' => q = p) /\ ~Serves(q)'
  BY <1>1, <1>3 DEF Loaded, Serves, Up, Keeps
<1>5. saved = listed /\ (Readable => histfile = listed)
  BY <1>3 DEF HistIInv, FileInv
<1>6. Idle(p) /\ memory[p].nrecs = 0
  BY <1>3 DEF HistIInv, ThreadInv
<1>7. hist_init(p)
  BY DEF LoadData
<1>8. memory[p] \in Memory /\ memory \in [Pids -> Memory]
  BY DEF HistTyped
<1>9. CASE Readable /\ tvhist_read(p) /\ UNCHANGED <<histfile, listed, saved, misread, faults>>
  <2> DEFINE h == [i \in Slots |-> IF i <= Len(histfile) THEN histfile[i] ELSE NoTitle]
  <2>1. memory' = [memory EXCEPT ![p].history = h, ![p].nrecs = Len(histfile)]
    BY <1>9 DEF tvhist_read
  <2>2. \A i \in 1 .. Len(listed) : h[i] = listed[i]
    <3>1. listed \in Lists
      BY DEF HistTyped
    <3>2. \A i \in 1 .. Len(listed) : i \in Slots /\ i <= Len(histfile)
      BY <1>5, <1>9, <3>1, HistoryAssumption DEF Lists, Slots
    <3>3. QED
      BY <1>5, <1>9, <3>2
  <2> HIDE DEF h
  <2>3. /\ memory'[p].history = h /\ memory'[p].nrecs = Len(listed) /\ memory'[p].thread = memory[p].thread
        /\ \A q \in Pids \ {p} : memory'[q] = memory[q]
    BY <1>5, <1>8, <1>9, <2>1 DEF Memory
  <2>4. Idle(p)' /\ ~Puts(p)'
    BY <1>6, <2>3 DEF Idle, Puts, Thread
  <2>5. Remembers(p)'
    BY <1>9, <2>2, <2>3, <2>4 DEF Remembers
  <2>6. \A q \in Pids : /\ Idle(q)' /\ (~Loaded(q)' => memory'[q].nrecs = 0)
    <3>1. Loaded(p)'
      BY <1>1 DEF Loaded, Keeps
    <3>2. \A q \in Pids \ {p} : Idle(q)' /\ memory'[q].nrecs = 0
      BY <1>3, <2>3 DEF HistIInv, ThreadInv, Idle, Thread
    <3>3. QED
      BY <2>4, <3>1, <3>2
  <2>7. ThreadInv'
    BY <2>6 DEF ThreadInv, Idle
  <2>8. FileInv'
    BY <1>5, <1>9 DEF FileInv, Readable, Whole
  <2>9. QED
    BY <1>4, <2>5, <2>7, <2>8 DEF HistIInv
<1>10. CASE ~Readable /\ UNCHANGED memory /\ histfile' \in {<<>>, histfile} /\ listed' = <<>> /\ saved' = <<>>
  <2>1. ThreadInv'
    <3>1. \A q \in Pids : Idle(q) /\ memory[q].nrecs = 0
      BY <1>3 DEF HistIInv, ThreadInv
    <3>2. QED
      BY <1>10, <3>1 DEF ThreadInv, Idle, Thread
  <2>2. FileInv'
    BY <1>10 DEF FileInv, Readable, Whole
  <2>3. Remembers(p)'
    <3>1. ~Puts(p)' /\ memory'[p].nrecs = 0
      BY <1>6, <1>10 DEF Puts, Idle, Thread
    <3>2. listed' = <<>> /\ Len(<<>>) = 0
      BY <1>10
    <3>3. QED
      BY <3>1, <3>2 DEF Remembers
  <2>4. QED
    BY <1>4, <2>1, <2>2, <2>3 DEF HistIInv
<1>11. QED
  BY <1>7, <1>9, <1>10 DEF hist_init

(* With a server goes what it has not saved. *)
LEMMA ForgettingKeepsSaved ==
  ASSUME HistTyped, HistIInv, ServerTyped, OneKeeps, NEW p \in Pids, Keeps(p), Forget(p),
         server' = [server EXCEPT ![p] = NoProc]
  PROVE  HistIInv'
<1>1. server'[p].pc = "none" /\ \A q \in Pids \ {p} : server'[q] = server[q]
  BY DEF ServerTyped, NoProc
<1>2. memory'[p] = NoMemory /\ \A q \in Pids \ {p} : memory'[q] = memory[q]
  BY DEF Forget, HistTyped
<1>3. /\ ~Loaded(p)' /\ ~Serves(p)'
      /\ \A q \in Pids \ {p} : (Loaded(q)' <=> Loaded(q)) /\ (Serves(q)' <=> Serves(q))
  BY <1>1 DEF Loaded, Serves, Up, Keeps
<1>4. ThreadInv'
  <2>1. Idle(p)' /\ memory'[p].nrecs = 0
    BY <1>2 DEF NoMemory, Idle, Thread
  <2>2. \A q \in Pids : q = p \/ memory'[q] = memory[q]
    BY <1>2
  <2>3. QED
    BY <1>3, <2>1, <2>2 DEF HistIInv, ThreadInv, Idle, Thread
<1>5. UNCHANGED <<histfile, saved>> /\ listed' = IF Up(p) THEN saved ELSE listed
  BY DEF Forget
<1>6. CASE Up(p)
  <2>1. Past(p)
    BY <1>6 DEF Up, Past, Looking
  <2>2. \A q \in Pids \ {p} : ~Loaded(q)
    BY <2>1 DEF OneKeeps, Loaded, Past, Looking
  <2>3. FileInv'
    BY <1>5, <1>6 DEF HistIInv, FileInv, Readable, Whole
  <2>4. QED
    BY <1>3, <1>4, <2>2, <2>3 DEF HistIInv
<1>7. CASE ~Up(p)
  <2>1. (\A q \in Pids : ~Serves(q)') => \A q \in Pids : ~Serves(q)
    BY <1>3, <1>7 DEF Serves
  <2>2. FileInv'
    BY <1>5, <1>7, <2>1 DEF HistIInv, FileInv, Readable, Whole
  <2>3. \A q \in Pids : Loaded(q)' => Remembers(q)'
    BY <1>2, <1>3, <1>5, <1>7 DEF HistIInv, Remembers, Puts, Thread
  <2>4. QED
    BY <1>4, <2>2, <2>3 DEF HistIInv
<1>8. QED
  BY <1>6, <1>7

\* What a recording thread that moves on leaves alone.
Moves(p, t, pc) ==
  /\ Thread(p, t)'.pc = pc
  /\ \A u \in Threads \ {t} : Thread(p, u)' = Thread(p, u)
  /\ \A q \in Pids \ {p} : memory'[q] = memory[q]

\* No other recording is being entered.
Alone(p, t) == Thread(p, t).pc # "idle" \/ Idle(p)

(* What each step of a recording thread makes of the history in memory. *)
LEMMA RecordMoves ==
  ASSUME HistTyped, NEW p \in Pids, NEW t \in Threads
  PROVE  /\ stats_update(p, t) => /\ Moves(p, t, "shift")
                                  /\ memory'[p].history = memory[p].history
                                  /\ memory'[p].nrecs = memory[p].nrecs
         /\ Shift(p, t) => /\ Moves(p, t, "put")
                           /\ \A i \in Slots : memory'[p].history[i] =
                                 memory[p].history[IF i = 1 THEN 1 ELSE i - 1]
                           /\ memory'[p].nrecs = memory[p].nrecs
         /\ Put(p, t) => /\ Moves(p, t, "write")
                         /\ memory'[p].history = [memory[p].history EXCEPT ![1] = Thread(p, t).title]
                         /\ memory'[p].nrecs = IF memory[p].nrecs < HISTORY_LENGTH
                                                THEN memory[p].nrecs + 1 ELSE memory[p].nrecs
         /\ \A pc : Enters(p, t, pc) => /\ Moves(p, t, pc)
                                        /\ memory'[p].history = memory[p].history
                                        /\ memory'[p].nrecs = memory[p].nrecs
<1>0. memory \in [Pids -> Memory] /\ memory[p] \in Memory /\ memory[p].thread[t] \in Entering
  BY DEF HistTyped, Memory
<1>1. ASSUME stats_update(p, t)
      PROVE  Moves(p, t, "shift") /\ memory'[p].history = memory[p].history
             /\ memory'[p].nrecs = memory[p].nrecs
  BY <1>0, <1>1 DEF stats_update, Moves, Thread, Memory
<1>2. ASSUME Shift(p, t)
      PROVE  /\ Moves(p, t, "put")
             /\ \A i \in Slots : memory'[p].history[i] = memory[p].history[IF i = 1 THEN 1 ELSE i - 1]
             /\ memory'[p].nrecs = memory[p].nrecs
  <2> DEFINE old == memory[p].history
             h == [i \in Slots |-> IF i = 1 THEN old[1] ELSE old[i - 1]]
  <2>1. \A i \in Slots : h[i] = old[IF i = 1 THEN 1 ELSE i - 1]
    OBVIOUS
  <2>2. memory' = [memory EXCEPT ![p].history = h, ![p].thread[t].pc = "put"]
    BY <1>2 DEF Shift
  <2> HIDE DEF h
  <2>3. Moves(p, t, "put") /\ memory'[p].history = h /\ memory'[p].nrecs = memory[p].nrecs
    BY <1>0, <2>2 DEF Moves, Thread, Memory, Entering
  <2>4. QED
    BY <2>1, <2>3
<1>3. ASSUME Put(p, t)
      PROVE  /\ Moves(p, t, "write")
             /\ memory'[p].history = [memory[p].history EXCEPT ![1] = Thread(p, t).title]
             /\ memory'[p].nrecs = IF memory[p].nrecs < HISTORY_LENGTH
                                    THEN memory[p].nrecs + 1 ELSE memory[p].nrecs
  BY <1>0, <1>3 DEF Put, Moves, Thread, Memory, Entering
<1>4. ASSUME NEW pc, Enters(p, t, pc)
      PROVE  Moves(p, t, pc) /\ memory'[p].history = memory[p].history
             /\ memory'[p].nrecs = memory[p].nrecs
  BY <1>0, <1>4 DEF Enters, Moves, Thread, Memory, Entering
<1>5. QED
  BY <1>1, <1>2, <1>3, <1>4

(* A recording that is entered alone stays so, and is the one that is put on top. *)
LEMMA OneMoves ==
  ASSUME ThreadInv, NEW p \in Pids, NEW t \in Threads, NEW pc, Alone(p, t), Moves(p, t, pc)
  PROVE  /\ Puts(p) <=> Thread(p, t).pc = "put"
         /\ Puts(p)' <=> pc = "put"
         /\ \A u, v \in Threads : Thread(p, u)'.pc # "idle" /\ Thread(p, v)'.pc # "idle" => u = v
<1>1. \A u \in Threads \ {t} : Thread(p, u).pc = "idle"
  BY DEF ThreadInv, Alone, Idle
<1>2. \A u \in Threads \ {t} : Thread(p, u)'.pc = "idle"
  BY <1>1 DEF Moves
<1>3. Puts(p) <=> Thread(p, t).pc = "put"
  BY <1>1 DEF Puts
<1>4. Puts(p)' <=> Thread(p, t)'.pc = "put"
  BY <1>2 DEF Puts
<1>5. \A u, v \in Threads : Thread(p, u)'.pc # "idle" /\ Thread(p, v)'.pc # "idle" => u = v
  BY <1>2
<1>6. QED
  BY <1>3, <1>4, <1>5 DEF Moves

(* What one server makes of its history, no other server of root's sees. *)
LEMMA RecordKeepsOthers ==
  ASSUME HistIInv, OneKeeps, UNCHANGED server, NEW p \in Pids, NEW t \in Threads, NEW pc,
         Serves(p), Alone(p, t), Moves(p, t, pc), Remembers(p)', Readable' => histfile' = saved'
  PROVE  HistIInv'
<1>1. Past(p) /\ Keeps(p)
  BY DEF Serves, Up, Past, Looking
<1>2. \A q \in Pids \ {p} : ~Loaded(q)
  BY <1>1 DEF OneKeeps, Loaded, Past, Looking
<1>3. \A q \in Pids : (Loaded(q)' <=> Loaded(q)) /\ (Serves(q)' <=> Serves(q))
  BY DEF Loaded, Serves, Up, Keeps
<1>4. Loaded(p)
  BY DEF Serves, Up, Loaded
<1>5. ThreadInv'
  <2>1. \A u, v \in Threads : Thread(p, u)'.pc # "idle" /\ Thread(p, v)'.pc # "idle" => u = v
    BY OneMoves DEF HistIInv
  <2>2. \A q \in Pids \ {p} : memory'[q] = memory[q]
    BY DEF Moves
  <2>3. QED
    BY <1>3, <1>4, <2>1, <2>2 DEF HistIInv, ThreadInv, Idle, Thread
<1>6. FileInv'
  BY <1>3 DEF FileInv
<1>7. QED
  BY <1>2, <1>3, <1>5, <1>6 DEF HistIInv

(* All records move down by one, and the new one comes on top, in memory as in the list. *)
LEMMA PutRemembers ==
  ASSUME HistTyped, NEW p \in Pids, NEW t \in Threads, Put(p, t), Remembers(p), Puts(p), ~Puts(p)'
  PROVE  Remembers(p)'
<1> DEFINE title == Thread(p, t).title
<1>1. /\ memory[p] \in Memory /\ title \in Nat
      /\ listed \in Lists /\ Len(listed) \in 0 .. HISTORY_LENGTH /\ HISTORY_LENGTH \in Nat \ {0}
  <2>1. memory[p] \in Memory /\ memory[p].thread[t] \in Entering /\ listed \in Lists
    BY DEF HistTyped, Memory
  <2>2. QED
    BY <2>1, HistoryAssumption DEF Thread, Entering, Lists
<1>2. /\ Len(listed') = (IF Len(listed) < HISTORY_LENGTH THEN Len(listed) + 1 ELSE HISTORY_LENGTH)
      /\ listed'[1] = title
      /\ \A i \in 2 .. Len(listed') : listed'[i] = listed[i - 1]
  <2>1. listed' = Newest(<<title>> \o listed)
    BY DEF Put
  <2> HIDE DEF title
  <2>2. QED
    BY <1>1, <2>1, NewestIs
<1>3. /\ memory'[p].history = [memory[p].history EXCEPT ![1] = title]
      /\ memory'[p].nrecs = IF memory[p].nrecs < HISTORY_LENGTH THEN memory[p].nrecs + 1 ELSE memory[p].nrecs
  BY RecordMoves
<1>4. /\ memory[p].nrecs = Len(listed)
      /\ \A i \in 1 .. Len(listed) : i < HISTORY_LENGTH => memory[p].history[i + 1] = listed[i]
  BY DEF Remembers
<1>5. memory[p].history \in [1 .. HISTORY_LENGTH -> Nat]
  BY <1>1 DEF Memory, Slots
<1> HIDE DEF title
<1>6. memory'[p].nrecs = Len(listed')
  BY <1>1, <1>2, <1>3, <1>4
<1>7. \A i \in 1 .. Len(listed') : memory'[p].history[i] = listed'[i]
  <2>1. SUFFICES ASSUME NEW i \in 1 .. Len(listed') PROVE memory'[p].history[i] = listed'[i]
    OBVIOUS
  <2>2. i \in 1 .. HISTORY_LENGTH /\ i <= Len(listed) + 1
    BY <1>1, <1>2, <2>1
  <2>3. CASE i = 1
    BY <1>1, <1>2, <1>3, <1>5, <2>3
  <2>4. CASE i # 1
    <3>1. i - 1 \in 1 .. Len(listed) /\ i - 1 < HISTORY_LENGTH /\ i - 1 + 1 = i
      BY <1>1, <2>2, <2>4
    <3>2. memory[p].history[i] = listed[i - 1]
      BY <1>4, <3>1
    <3>3. memory'[p].history[i] = memory[p].history[i]
      BY <1>3, <1>5, <2>2, <2>4
    <3>4. QED
      BY <1>2, <2>1, <2>2, <2>4, <3>2, <3>3
  <2>5. QED
    BY <2>3, <2>4
<1>8. QED
  BY <1>6, <1>7 DEF Remembers

(* Each step of a recording thread keeps the history what it should be, if no two recordings are *)
(* entered at once. *)
LEMMA RecordKeepsHistory ==
  ASSUME ~EndsOverlap, HistTyped, HistIInv, OneKeeps, NEW p \in Pids, Record(p)
  PROVE  HistIInv'
<1>1. Serves(p) /\ UNCHANGED server
  BY DEF Record, Serves, lockvars
<1>2. /\ Remembers(p) /\ (Readable => histfile = saved) /\ ThreadInv
  BY <1>1 DEF HistIInv, FileInv, Serves, Up, Loaded
<1>3. ASSUME NEW t \in Threads, stats_update(p, t) PROVE HistIInv'
  <2>1. Moves(p, t, "shift") /\ memory'[p].history = memory[p].history /\ memory'[p].nrecs = memory[p].nrecs
    BY <1>3, RecordMoves
  <2>2. Alone(p, t) /\ Thread(p, t).pc = "idle"
    BY <1>3 DEF stats_update, Alone, Idle
  <2>3. ~Puts(p) /\ ~Puts(p)'
    BY <1>2, <2>1, <2>2, OneMoves
  <2>4. UNCHANGED <<listed, histfile, saved>>
    BY <1>3 DEF stats_update
  <2>5. Remembers(p)'
    BY <1>2, <2>1, <2>3, <2>4 DEF Remembers
  <2>6. Readable' => histfile' = saved'
    BY <1>2, <2>4 DEF Readable, Whole
  <2>7. QED
    BY <1>1, <2>1, <2>2, <2>5, <2>6, RecordKeepsOthers
<1>4. ASSUME NEW t \in Threads, Shift(p, t) PROVE HistIInv'
  <2>1. /\ Moves(p, t, "put") /\ memory'[p].nrecs = memory[p].nrecs
        /\ \A i \in Slots : memory'[p].history[i] = memory[p].history[IF i = 1 THEN 1 ELSE i - 1]
    BY <1>4, RecordMoves
  <2>2. Alone(p, t) /\ Thread(p, t).pc = "shift"
    BY <1>4 DEF Shift, Alone
  <2>3. ~Puts(p) /\ Puts(p)'
    BY <1>2, <2>1, <2>2, OneMoves
  <2>4. UNCHANGED <<listed, histfile, saved>>
    BY <1>4 DEF Shift
  <2>5. \A i \in 1 .. Len(listed) : i < HISTORY_LENGTH => memory'[p].history[i + 1] = listed[i]
    <3>1. SUFFICES ASSUME NEW i \in 1 .. Len(listed), i < HISTORY_LENGTH
                   PROVE  memory'[p].history[i + 1] = listed[i]
      OBVIOUS
    <3>2. i \in Nat /\ i >= 1 /\ HISTORY_LENGTH \in Nat
      BY HistoryAssumption
    <3>3. i + 1 \in Slots /\ i + 1 # 1 /\ i + 1 - 1 = i
      BY <3>1, <3>2 DEF Slots
    <3>4. memory'[p].history[i + 1] = memory[p].history[i]
      BY <2>1, <3>3
    <3>5. memory[p].history[i] = listed[i]
      BY <1>2, <2>3 DEF Remembers
    <3>6. QED
      BY <3>4, <3>5
  <2>6. Remembers(p)'
    BY <1>2, <2>1, <2>3, <2>4, <2>5 DEF Remembers
  <2>7. Readable' => histfile' = saved'
    BY <1>2, <2>4 DEF Readable, Whole
  <2>8. QED
    BY <1>1, <2>1, <2>2, <2>6, <2>7, RecordKeepsOthers
<1>5. ASSUME NEW t \in Threads, Put(p, t) PROVE HistIInv'
  <2>1. Moves(p, t, "write")
    BY <1>5, RecordMoves
  <2>2. Alone(p, t) /\ Thread(p, t).pc = "put"
    BY <1>5 DEF Put, Alone
  <2>3. Puts(p) /\ ~Puts(p)'
    BY <1>2, <2>1, <2>2, OneMoves
  <2>4. Remembers(p)'
    BY <1>2, <1>5, <2>3, PutRemembers
  <2>5. Readable' => histfile' = saved'
    BY <1>2, <1>5 DEF Put, Readable, Whole
  <2>6. QED
    BY <1>1, <2>1, <2>2, <2>4, <2>5, RecordKeepsOthers
<1>6. ASSUME NEW t \in Threads, NEW pc, Enters(p, t, pc), pc # "put",
             Thread(p, t).pc \in {"write", "fill"}, UNCHANGED listed, Readable' => histfile' = saved'
      PROVE  HistIInv'
  <2>1. Moves(p, t, pc) /\ memory'[p].history = memory[p].history /\ memory'[p].nrecs = memory[p].nrecs
    BY <1>6, RecordMoves
  <2>2. Alone(p, t)
    BY <1>6 DEF Alone
  <2>3. ~Puts(p) /\ ~Puts(p)'
    BY <1>2, <1>6, <2>1, <2>2, OneMoves
  <2>4. Remembers(p)'
    BY <1>2, <1>6, <2>1, <2>3 DEF Remembers
  <2>5. QED
    BY <1>1, <1>6, <2>1, <2>2, <2>4, RecordKeepsOthers
<1>7. ASSUME NEW t \in Threads, NEW ok \in BOOLEAN, Truncate(p, t, ok) PROVE HistIInv'
  <2>1. /\ Thread(p, t).pc = "write" /\ UNCHANGED listed
        /\ \/ Enters(p, t, "fill") /\ histfile' = Torn
           \/ Enters(p, t, "idle") /\ UNCHANGED <<histfile, saved>>
    BY <1>7 DEF Truncate
  <2>2. Readable' => histfile' = saved'
    BY <1>2, <2>1 DEF Readable, Whole
  <2>3. QED
    BY <1>6, <2>1, <2>2
<1>8. ASSUME NEW t \in Threads, tvhist_write(p, t) PROVE HistIInv'
  <2>1. /\ Thread(p, t).pc = "fill" /\ Enters(p, t, "idle") /\ UNCHANGED listed
        /\ histfile' = Filled(p) /\ saved' = listed
    BY <1>8 DEF tvhist_write
  <2>2. Moves(p, t, "idle") /\ Alone(p, t)
    BY <2>1, RecordMoves DEF Alone
  <2>3. ~Puts(p)
    BY <1>2, <2>1, <2>2, OneMoves
  <2>4. histfile' = saved'
    BY <1>2, <2>1, <2>3, ShownAsListed
  <2>5. QED
    BY <1>6, <2>1, <2>4
<1>9. QED
  BY <1>3, <1>4, <1>5, <1>7, <1>8 DEF Record

(* What a server reads again, resets or writes of its statistics has nothing to do with its history. *)
LEMMA CountingKeepsHistory ==
  ASSUME HistTyped, HistIInv, ServerTyped, NEW p \in Pids, Keeps(p),
         \/ Boot(p) \/ _cmd_refresh_profiles(p)
         \/ \E ok \in BOOLEAN : _cmd_resetstatistics(p, ok) \/ WriteStats(p, ok)
  PROVE  HistIInv'
<1>0. memory \in [Pids -> Memory] /\ memory[p] \in Memory
  BY DEF HistTyped
<1>1. \/ ReadProfiles(p) /\ (Boot(p) \/ UNCHANGED server)
      \/ \E ok \in BOOLEAN : clear_stats(p, ok) /\ UNCHANGED server
      \/ \E ok \in BOOLEAN : write_stats(p, ok) /\ WriteStats(p, ok)
  BY DEF Boot, _cmd_refresh_profiles, _cmd_resetstatistics, WriteStats, lockvars
<1>2. UNCHANGED <<histfile, listed, saved>>
  BY <1>1 DEF ReadProfiles, clear_stats, write_stats
<1>3. \A q \in Pids : /\ memory'[q].history = memory[q].history
                     /\ memory'[q].nrecs = memory[q].nrecs
                     /\ memory'[q].thread = memory[q].thread
  <2>1. UNCHANGED memory \/ \E n : memory' = [memory EXCEPT ![p].total = n]
    BY <1>1 DEF ReadProfiles, read_profile_stats, clear_stats, write_stats
  <2>2. QED
    BY <1>0, <2>1 DEF Memory
<1>4. \A q \in Pids : (Loaded(q)' <=> Loaded(q)) /\ (Serves(q)' <=> Serves(q))
  <2>1. CASE UNCHANGED server
    BY <2>1 DEF Loaded, Serves, Up, Keeps
  <2>2. CASE Boot(p) \/ \E ok \in BOOLEAN : WriteStats(p, ok)
    <3>1. /\ \/ server[p].pc = "boot" /\ server'[p].pc = "data"
             \/ server[p].pc = "ending" /\ server'[p].pc = "ended"
          /\ server'[p].as = server[p].as
          /\ \A q \in Pids \ {p} : server'[q] = server[q]
      BY <2>2, LaterSteps DEF Later
    <3>2. (Loaded(p)' <=> Loaded(p)) /\ (Serves(p)' <=> Serves(p))
      BY <3>1 DEF Loaded, Serves, Up, Keeps
    <3>3. QED
      BY <3>1, <3>2 DEF Loaded, Serves, Up, Keeps
  <2>3. QED
    BY <1>1, <2>1, <2>2
<1>5. QED
  BY <1>2, <1>3, <1>4, StatsKeepHistory

(* Processes that start, servers of other users, the port and SIGTERM change no history. *)
LEMMA ComingAndGoing ==
  ASSUME HistIInv, ServerTyped, lock \in [{"run", "cwd"} -> Texts], UNCHANGED histvars,
         \/ Locking
         \/ \E p \in Pids :
              \/ startupsrv(p) \/ Stop(p)
              \/ ~Keeps(p) /\ (Boot(p) \/ LoadData(p) \/ \E ok \in BOOLEAN : WriteStats(p, ok))
              \/ ~Keeps(p) /\ (Exit(p) \/ Kill(p))
  PROVE  HistIInv'
<1>1. CASE Locking
  <2>1. \A p \in Pids : server'[p] # server[p] =>
              server[p].pc \notin ServingPc /\ server'[p].pc \notin ServingPc \ {"boot"}
    BY <1>1, LockingTyped
  <2>2. \A p \in Pids : (Loaded(p)' <=> Loaded(p)) /\ (Serves(p) => Serves(p)')
    BY <2>1 DEF Loaded, Serves, Up, Keeps, ServingPc
  <2>3. QED
    BY <2>2, OthersKeepHistory
<1>2. ASSUME NEW p \in Pids, startupsrv(p) \/ Stop(p) PROVE HistIInv'
  <2>1. /\ \/ server[p].pc = "listen" /\ server'[p].pc = "up"
           \/ server[p].pc = "up" /\ server'[p].pc = "ending"
        /\ server'[p].as = server[p].as
        /\ \A q \in Pids \ {p} : server'[q] = server[q]
    BY <1>2, LaterSteps DEF Later
  <2>2. (Loaded(p)' <=> Loaded(p)) /\ (Serves(p) => Serves(p)')
    BY <2>1 DEF Loaded, Serves, Up, Keeps
  <2>3. \A q \in Pids : (Loaded(q)' <=> Loaded(q)) /\ (Serves(q) => Serves(q)')
    BY <2>1, <2>2 DEF Loaded, Serves, Up, Keeps
  <2>4. QED
    BY <2>3, OthersKeepHistory
<1>3. ASSUME NEW p \in Pids, ~Keeps(p), \/ Boot(p) \/ LoadData(p)
                                        \/ \E ok \in BOOLEAN : WriteStats(p, ok)
      PROVE  HistIInv'
  <2>1. server'[p].as = server[p].as /\ \A q \in Pids \ {p} : server'[q] = server[q]
    BY <1>3, LaterSteps DEF Later
  <2>2. \A q \in Pids : (Loaded(q)' <=> Loaded(q)) /\ (Serves(q) => Serves(q)')
    BY <1>3, <2>1 DEF Loaded, Serves, Up, Keeps
  <2>3. QED
    BY <2>2, OthersKeepHistory
<1>4. ASSUME NEW p \in Pids, ~Keeps(p), Exit(p) \/ Kill(p) PROVE HistIInv'
  <2>1. Ends(p)
    BY <1>4 DEF Exit, exit, Kill, Killed
  <2>2. server'[p].pc = "none" /\ \A q \in Pids \ {p} : server'[q] = server[q]
    BY <2>1, EndsTyped
  <2>3. \A q \in Pids : (Loaded(q)' <=> Loaded(q)) /\ (Serves(q) => Serves(q)')
    BY <1>4, <2>2 DEF Loaded, Serves, Up, Keeps
  <2>4. QED
    BY <2>3, OthersKeepHistory
<1>5. QED
  BY <1>1, <1>2, <1>3, <1>4

(* Servers started one after the other, that enter one recording at a time, show the history of those *)
(* before them and their own, newest first and complete, but for what a death between a change and *)
(* the end of writing it, or a file that could not be opened, has lost; until two got past the lock *)
(* through one of its gaps, or a title that XML reads as markup made a server give up the history. *)
THEOREM HistoryIsTheLatest == ~StartsOverlap /\ ~EndsOverlap => (Spec => []HistoryIsLatest)
<1> SUFFICES ASSUME ~StartsOverlap, ~EndsOverlap PROVE Spec => []HistoryIsLatest
  OBVIOUS
<1> DEFINE Safe == gaps = {} /\ ~misread => HistIInv
<1>1. Init => HistIInv
  <2>1. SUFFICES ASSUME Init PROVE HistIInv
    OBVIOUS
  <2>2. \A p \in Pids : ~Loaded(p) /\ Idle(p) /\ memory[p].nrecs = 0
    BY <2>1 DEF Init, LockInit, HistInit, Loaded, NoProc, NoMemory, Idle, Thread
  <2>3. FileInv
    BY <2>1 DEF Init, HistInit, FileInv, Readable, Whole
  <2>4. QED
    BY <2>2, <2>3 DEF HistIInv, ThreadInv, Idle
<1>2. OneServer /\ gaps = {} => OneKeeps
  BY DEF OneServer, OneKeeps, Keeps
<1>3. HistTyped /\ (gaps = {} => LockSafe) /\ OneServer /\ Safe /\ [Next]_vars => Safe'
  <2>1. SUFFICES ASSUME HistTyped, gaps = {} => LockSafe, OneServer, Safe, [Next]_vars,
                        gaps' = {}, ~misread'
                 PROVE  HistIInv'
    OBVIOUS
  <2>2. /\ HistTyped /\ ServerTyped /\ OneKeeps /\ HistIInv /\ ~misread'
        /\ lock \in [{"run", "cwd"} -> Texts]
    BY <1>2, <2>1, GapsStay, MisreadStays DEF LockSafe, LockIInv, NamedInv
  <2> HIDE DEF Safe
  <2>3. CASE Locking /\ UNCHANGED histvars
    BY <2>2, <2>3, ComingAndGoing
  <2>4. ASSUME NEW p \in Pids, startupsrv(p) \/ Stop(p) PROVE HistIInv'
    BY <2>2, <2>4, ComingAndGoing DEF startupsrv, Stop
  <2>5. ASSUME NEW p \in Pids, Boot(p) \/ \E ok \in BOOLEAN : WriteStats(p, ok) PROVE HistIInv'
    <3>1. CASE Keeps(p)
      BY <2>2, <2>5, <3>1, CountingKeepsHistory
    <3>2. CASE ~Keeps(p)
      BY <2>2, <2>5, <3>2, ComingAndGoing DEF Boot, WriteStats
    <3>3. QED
      BY <3>1, <3>2
  <2>6. ASSUME NEW p \in Pids, LoadData(p) PROVE HistIInv'
    <3>1. CASE Keeps(p)
      BY <2>2, <2>6, <3>1, LoadingRemembers
    <3>2. CASE ~Keeps(p)
      BY <2>2, <2>6, <3>2, ComingAndGoing DEF LoadData
    <3>3. QED
      BY <3>1, <3>2
  <2>7. ASSUME NEW p \in Pids, Record(p) PROVE HistIInv'
    BY <2>2, <2>7, RecordKeepsHistory
  <2>8. ASSUME NEW p \in Pids,
               _cmd_refresh_profiles(p) \/ \E ok \in BOOLEAN : _cmd_resetstatistics(p, ok)
        PROVE  HistIInv'
    BY <2>2, <2>8, CountingKeepsHistory DEF _cmd_refresh_profiles, _cmd_resetstatistics
  <2>9. ASSUME NEW p \in Pids, Exit(p) \/ Kill(p) PROVE HistIInv'
    <3>1. CASE Keeps(p)
      <4>1. Forget(p) /\ server' = [server EXCEPT ![p] = NoProc]
        BY <2>9, <3>1 DEF Exit, exit, Kill, Killed, Gone, Ends
      <4>2. QED
        BY <2>2, <3>1, <4>1, ForgettingKeepsSaved
    <3>2. CASE ~Keeps(p)
      BY <2>2, <2>9, <3>2, ComingAndGoing DEF Exit, Kill, Gone
    <3>3. QED
      BY <3>1, <3>2
  <2>10. CASE UNCHANGED vars
    <3>1. UNCHANGED histvars /\ UNCHANGED server
      BY <2>10 DEF vars, lockvars
    <3>2. QED
      BY <2>2, <3>1, OthersKeepHistory DEF Loaded, Serves, Up, Keeps
  <2>11. QED
    BY <2>1, <2>3, <2>4, <2>5, <2>6, <2>7, <2>8, <2>9, <2>10 DEF Next
<1>4. HistTyped /\ Safe => HistoryIsLatest
  <2>1. SUFFICES ASSUME HistTyped, HistIInv, NEW p \in Pids, Up(p), Keeps(p), Entered(p)
                 PROVE  Filled(p) = listed
    BY DEF HistoryIsLatest
  <2>2. Remembers(p)
    BY <2>1 DEF HistIInv, Loaded, Up
  <2>3. ~Puts(p)
    BY <2>1 DEF Puts, Entered
  <2>4. QED
    BY <2>1, <2>2, <2>3, ShownAsListed
<1>5. QED
  BY <1>1, <1>3, <1>4, HistoriesTyped, LockKept, ServersAreAlone, PTL DEF Spec
=============================================================================
