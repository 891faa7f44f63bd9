------------------------------ MODULE LockFile ------------------------------
(***************************************************************************)
(* lockfile.c and the first half of main: the processes of tvpvrd that     *)
(* start, the lock file each looks for and leaves behind, and the way from *)
(* the command line to a daemon under another process number.              *)
(*                                                                         *)
(* The lock file is /var/run/tvpvrd.pid ("run"), which only root may       *)
(* write, or for others a file in the directory they start from ("cwd").   *)
(* Its text is a process number.  Process numbers are handed out again.    *)
(* The way to it has gaps, and `gaps' says which of them a server has gone *)
(* through: the file vanished before it was opened, there was no current   *)
(* directory to leave one in, or the tail of a longer number was left.     *)
(***************************************************************************)
EXTENDS Integers, FiniteSets

CONSTANTS
    Pids,               \* process numbers, positive
    StartedAs,          \* "root", "user": who starts the server
    username,           \* config:username, the user root's server becomes
    StartsOverlap,      \* may one be started while another is starting?
    StartsAfterGap,     \* bound: is one started when the lock has failed?
    MaxStarts           \* bound on the starts

ASSUME PidsPositive == Pids \subseteq Nat \ {0}

NoFile == 0
Empty == -1
NoProc == [pc |-> "none", as |-> "root", uid |-> "root", at |-> "run", old |-> NoFile]

VARIABLES
    server,             \* the tvpvrd processes: where they are in main, who
                        \* started them, who they run as, their lock file
                        \* and what they have read there
    others,             \* the numbers of other programs' processes
    lock,               \* the text of each lock file, Empty or NoFile
    gaps,               \* of "vanished", "nowhere", "tail": those met so far
    starts

lockvars == <<server, others, lock, gaps, starts>>

LockInit ==
    /\ server = [p \in Pids |-> NoProc] /\ others = {}
    /\ lock = [x \in {"run", "cwd"} |-> NoFile] /\ gaps = {} /\ starts = 0

Running == {p \in Pids : server[p].pc # "none"}
At(p, pc) == server[p].pc = pc
Goto(p, pc) == server' = [server EXCEPT ![p].pc = pc]
Reads(p, pc, text) == server' = [server EXCEPT ![p].pc = pc, ![p].old = text]
Ends(p) == server' = [server EXCEPT ![p] = NoProc]
Proc(pid) == pid \in Running \cup others             \* stat("/proc/<pid>")
Looking == {"check", "read", "look", "stale", "create"}
Starting == {p \in Running : server[p].pc \in Looking \cup {"locked", "reborn"}}
MayWrite(p) == server[p].uid = "root" \/ server[p].at = "cwd"
File(p) == lock[server[p].at]

\* Without O_TRUNC the end of a longer text stays behind the new one.
Width(n) == CHOOSE w \in 1 .. 10 : 10 ^ (w - 1) <= n /\ n < 10 ^ w
Longer(old, pid) == old \notin {NoFile, Empty} /\ Width(old) > Width(pid)
Overwritten(old, pid) ==
    IF ~Longer(old, pid) THEN pid
    ELSE LET tail == 10 ^ (Width(old) - Width(pid)) IN (pid * tail) + (old % tail)
WriteOver(p) ==
    /\ lock' = [lock EXCEPT ![server[p].at] = Overwritten(@, p)]
    /\ gaps' = IF Longer(File(p), p) THEN gaps \cup {"tail"} ELSE gaps

Start(p, who) ==
    /\ starts < MaxStarts /\ ~Proc(p)
    /\ StartsOverlap \/ Starting = {}
    /\ StartsAfterGap \/ gaps = {}
    /\ server' = [server EXCEPT
          ![p] = [pc |-> "check", as |-> who, uid |-> who, at |-> "run", old |-> NoFile]]
    /\ starts' = starts + 1
    /\ UNCHANGED <<others, lock, gaps>>

\* createlockfile looks whether there is a file ...
Check(p) ==
    /\ At(p, "check")
    /\ Goto(p, IF File(p) # NoFile THEN "read" ELSE "create")
    /\ UNCHANGED <<others, lock, gaps, starts>>

\* ... opens and reads it, in the current directory without a look at whether
\* that went well.  One in /var/run that is gone by now is no error: the
\* server goes on with no lock.
ReadLock(p) ==
    /\ At(p, "read")
    /\ \/ /\ File(p) # NoFile \/ server[p].at = "cwd"
          /\ Reads(p, "look", IF File(p) = NoFile THEN Empty ELSE File(p))
          /\ UNCHANGED gaps
       \/ /\ File(p) = NoFile /\ server[p].at = "run"
          /\ Goto(p, "locked")
          /\ gaps' = gaps \cup {"vanished"}
    /\ UNCHANGED <<others, lock, starts>>

\* It looks for the process named there; what it makes of no text is chance.
Look(p) ==
    /\ At(p, "look")
    /\ \/ (server[p].old = Empty \/ Proc(server[p].old)) /\ Ends(p)
       \/ ~Proc(server[p].old) /\ Reads(p, "stale", NoFile)
    /\ UNCHANGED <<others, lock, gaps, starts>>

\* The file of a process that is no more is taken over, if it may be: it is
\* cut and written.
TakeOver(p) ==
    /\ At(p, "stale")
    /\ \/ /\ MayWrite(p) /\ File(p) # NoFile
          /\ lock' = [lock EXCEPT ![server[p].at] = p]
          /\ Goto(p, "locked")
       \/ /\ ~MayWrite(p) \/ File(p) = NoFile
          /\ Ends(p) /\ UNCHANGED lock
    /\ UNCHANGED <<others, gaps, starts>>

\* A new file, in the current directory if /var/run may not be written; no
\* lock at all if that directory's name is too long for getcwd.
createlockfile(p) ==
    /\ At(p, "create")
    /\ \/ /\ MayWrite(p)
          /\ WriteOver(p)
          /\ Goto(p, "locked")
       \/ /\ ~MayWrite(p)
          /\ server' = [server EXCEPT ![p].pc = "check", ![p].at = "cwd"]
          /\ UNCHANGED <<lock, gaps>>
       \/ /\ ~MayWrite(p)
          /\ Goto(p, "locked")
          /\ gaps' = gaps \cup {"nowhere"} /\ UNCHANGED lock
    /\ UNCHANGED <<others, starts>>

\* Killed after it has cut or created the file and before it has written it.
KilledWriting(p) ==
    /\ MayWrite(p)
    /\ IF File(p) = NoFile THEN server[p].pc \in {"create", "reborn"} ELSE At(p, "stale")
    /\ lock' = [lock EXCEPT ![server[p].at] = Empty]
    /\ Ends(p)
    /\ UNCHANGED <<others, gaps, starts>>

\* startdaemon forks twice; the parents end by _exit, which runs no handler.
startdaemon(p, q) ==
    /\ At(p, "locked") /\ ~Proc(q)
    /\ server' = [server EXCEPT ![q] = [server[p] EXCEPT !.pc = "reborn"], ![p] = NoProc]
    /\ UNCHANGED <<others, lock, gaps, starts>>

Foreground(p) ==
    /\ At(p, "locked") /\ Goto(p, "boot")
    /\ UNCHANGED <<others, lock, gaps, starts>>

\* A mutant of updatelockfilepid: the file goes on naming the parent.
LeaveLockFile(p) ==
    /\ At(p, "reborn") /\ Goto(p, "boot")
    /\ UNCHANGED <<others, lock, gaps, starts>>

\* The daemon writes its own number; if it may not, main exits.
updatelockfilepid(p) ==
    /\ At(p, "reborn") /\ MayWrite(p) /\ Goto(p, "boot")
    /\ WriteOver(p)
    /\ UNCHANGED <<others, starts>>

\* exit() runs exithandler, which deletes the file only as root.
exit(p) ==
    /\ Ends(p)
    /\ lock' = IF server[p].uid = "root" THEN [lock EXCEPT ![server[p].at] = NoFile] ELSE lock
    /\ UNCHANGED <<others, gaps, starts>>

\* chkswitchuser
chkswitchuser(p) ==
    /\ At(p, "boot")
    /\ server' = [server EXCEPT ![p].pc = "data", ![p].uid = IF @ = "root" THEN username ELSE @]
    /\ UNCHANGED <<others, lock, gaps, starts>>

\* Killed or crashed: nothing is run.
Killed(p) ==
    /\ Ends(p)
    /\ UNCHANGED <<others, lock, gaps, starts>>

\* Another program gets the number, or gives it back.  Nobody asks for one
\* that no file names.
Named == {lock["run"], lock["cwd"]} \cup {server[p].old : p \in Pids}
Other(p) ==
    /\ \/ p \in others /\ others' = others \ {p}
       \/ p \in Named \ Running /\ others = {} /\ others' = {p}
    /\ UNCHANGED <<server, lock, gaps, starts>>

Locking == \E p \in Pids :
    \/ \E who \in StartedAs : Start(p, who)
    \/ Check(p) \/ ReadLock(p) \/ Look(p) \/ TakeOver(p) \/ createlockfile(p) \/ KilledWriting(p)
    \/ Foreground(p) \/ updatelockfilepid(p)
    \/ At(p, "locked") /\ \E q \in Pids : startdaemon(p, q)
    \/ Other(p)

Past(p) == server[p].pc \notin {"none"} \cup Looking

\* Of the servers started as root, and of those started as an ordinary user,
\* at most one gets past its lock file, whichever processes died, left a file
\* behind or got their number again (main sets up the lock "to avoid that the
\* daemon can be started twice"; a user's server, whose lock is in the current
\* directory, is not seen by root's).  This holds if one start is over before
\* the next (StartsOverlap), and only until a server has come through one of
\* the gaps: the file it saw was deleted by a server that exits before it
\* could open it, and lockfile.c:114 has no else; getcwd failed, and line 157
\* has none either; or a shorter number was written over a longer one, which
\* lines 89 and 152 do not cut.
OneServer ==
    gaps = {} => \A p, q \in Pids : Past(p) /\ Past(q) /\ p # q => server[p].as # server[q].as
=============================================================================
