---------------------------- MODULE Transcoding ----------------------------
(***************************************************************************)
(* What becomes of a recorded file (tvpvrsrv.c, transc.c, futils.c): the   *)
(* startrec thread of a recording that has ended transcodes its MP2 file   *)
(* with each of its profiles, one ffmpeg process at a time, and then       *)
(* moves, deletes or leaves the MP2 file.  A `tf' command starts a thread  *)
(* of its own for a file.  Clients may kill the processes.                 *)
(*                                                                         *)
(* The threads share the table of the processes they watch and the list of *)
(* those that wait for the load of the machine to fall, under recs_mutex,  *)
(* and the directories, under nothing.  Load, run time and the processes   *)
(* themselves are outside: their outcomes are choices here.  The files of  *)
(* all profiles go to one directory (no profile directories).              *)
(***************************************************************************)
EXTENDS Integers, Sequences

CONSTANTS
  MaxOngoing,      \* max_ongoing_transcoding: slots of the table of processes
  MaxWaiting,      \* MAX_WAITING_TRANSCODINGS: slots of the waiting list
  MaxName,         \* 998: the last suffix mv_and_rename gives a name
  Recording,       \* the recordings
  FileJob,         \* the files given to tf, one thread each
  Profiles,        \* the profiles of each of them, in order
  NameOf,          \* the base name of its file, without the suffix
  FileOf,          \* with the suffix, of the files given to tf
  NoJob,           \* a slot that is not in use
  Together,        \* bound: the sets of threads that run in one behaviour
  MayGiveUp,       \* TRUE: max_waiting_time_to_transcode is set
  MayFail          \* TRUE: fork may fail and processes may hang

Job == Recording \cup FileJob
Name == {NameOf[j] : j \in Job}
Profile == [use_transcoding : BOOLEAN, keep : BOOLEAN]

ASSUME TranscodingAssumption ==
  /\ {MaxOngoing, MaxWaiting, MaxName} \subseteq Nat \ {0}
  /\ Recording \cap FileJob = {}
  /\ NoJob \notin Job
  /\ Together \subseteq SUBSET Job
  /\ Profiles \in [Job -> Seq(Profile) \ {<<>>}]
  /\ DOMAIN NameOf = Job /\ DOMAIN FileOf = FileJob
  /\ \A f, g \in FileJob : FileOf[f] = FileOf[g] => NameOf[f] = NameOf[g]
  /\ {MayGiveUp, MayFail} \subseteq BOOLEAN

Slot == 0..(MaxOngoing - 1)
WSlot == 0..(MaxWaiting - 1)

VARIABLES
  thread,          \* the threads: where they are and what they know
  ongoing,         \* ongoing_transcodings
  wtrans,          \* the waiting list
  killer,          \* the kill command under way, which holds recs_mutex
  proc,            \* the shell that runs ffmpeg, the last one each thread has forked
  mp2,             \* where the MP2 file of each recording is
  archive,         \* the files under mp4 and mp2: their paths and where they come from
  dirs,            \* the directories of file threads under vtmp
  links            \* the threads whose link is in their directory, at most one a file

vars == <<thread, ongoing, wtrans, killer, proc, mp2, archive, dirs, links>>
tables == <<ongoing, wtrans>>
files == <<mp2, archive, dirs, links>>

(***************************************************************************)
(* A thread: its profile; its places in the two tables (-1 for none); what *)
(* it saw of its process; the variables transcoding_problem and            *)
(* keep_mp2_file of startrec; the number it chose for a file name; and     *)
(* what became of each profile so far.                                     *)
(***************************************************************************)
Pc == {"idle", "profile", "wait", "stat", "mkdir", "link", "fork", "forked", "run", "reap",
       "move", "rename", "clean", "rmdir", "movemp2", "renamemp2", "done"}
Outcome == {"off", "stored", "failed", "nofork", "noslot", "hung"}
Thread ==
  [pc : Pc, i : Nat \ {0}, rid : {-1} \cup WSlot, tidx : {-1} \cup Slot, saw : {"-", "ok", "bad", "hung"},
   problem : BOOLEAN, keep : BOOLEAN, n : 0..MaxName, outcome : Seq(Outcome)]

Process == {"none", "running", "stopped", "ok", "bad", "killed"}
NoKill == [slot |-> -1, last |-> -1, stopped |-> FALSE]

Init ==
  /\ thread = [j \in Job |-> [pc |-> "idle", i |-> 1, rid |-> -1, tidx |-> -1, saw |-> "-",
                              problem |-> FALSE, keep |-> FALSE, n |-> 0, outcome |-> <<>>]]
  /\ ongoing = [s \in Slot |-> NoJob]
  /\ wtrans = [w \in WSlot |-> NoJob]
  /\ killer = NoKill
  /\ proc = [j \in Job |-> "none"]
  /\ mp2 = [r \in Recording |-> "working"]
  /\ archive = {}
  /\ dirs = {}
  /\ links = {}

RecsMutexFree == killer = NoKill
At(j, pc) == thread[j].pc = pc
Goto(j, pc) == thread' = [thread EXCEPT ![j].pc = pc]

-----------------------------------------------------------------------------
(* The threads of recordings: startrec once the card is given up. *)

Started == {j \in Job : ~At(j, "idle")}
MayStart(j) == \E jobs \in Together : Started \cup {j} \subseteq jobs      \* bound

(* An aborted recording is left where it is. *)
EndRecording(r) ==
  /\ At(r, "idle")
  /\ MayStart(r)
  /\ \E pc \in {"profile", "done"} : Goto(r, pc)
  /\ UNCHANGED <<tables, killer, proc, files>>

(* A mutant of Problem: only the last profile counts. *)
LastProblem(problem, outcome) == outcome = "failed"

(* transcoding_problem |= ret, where ret is -1 only for some of the outcomes. *)
Problem(problem, outcome) == problem \/ outcome = "failed"

(* transcode_and_move_file returns to startrec's loop over the profiles. *)
Returned(t, outcome) ==
  [t EXCEPT !.pc = "profile", !.i = @ + 1, !.rid = -1, !.tidx = -1, !.saw = "-",
            !.problem = Problem(@, outcome), !.outcome = Append(@, outcome)]
Return(r, outcome) == thread' = [thread EXCEPT ![r] = Returned(@, outcome)]

(* For a file thread every early end is the last thing it does. *)
Leave(j, outcome) ==
  IF j \in Recording THEN Return(j, outcome)
  ELSE thread' = [thread EXCEPT ![j].pc = "done", ![j].tidx = -1]

(* A mutant of FreeWaiting: the slots in use are not skipped. *)
AnyWaiting == WSlot
FreeWaiting == {w \in WSlot : wtrans[w] = NoJob}

Least(S) == CHOOSE s \in S : \A u \in S : s <= u

(* The next profile; with transcoding, remember_waiting_transcoding in the first free slot. *)
NextProfile(r) ==
  /\ At(r, "profile")
  /\ thread[r].i <= Len(Profiles[r])
  /\ LET profile == Profiles[r][thread[r].i]
         keep == thread[r].keep \/ profile.keep \/ ~profile.use_transcoding
         rid == IF FreeWaiting = {} THEN -1 ELSE Least(FreeWaiting)
     IN  IF profile.use_transcoding
         THEN /\ RecsMutexFree
              /\ thread' = [thread EXCEPT ![r] = [@ EXCEPT !.pc = "wait", !.keep = keep, !.rid = rid]]
              /\ wtrans' = IF rid = -1 THEN wtrans ELSE [wtrans EXCEPT ![rid] = r]
         ELSE /\ thread' = [thread EXCEPT ![r] = [Returned(@, "off") EXCEPT !.keep = keep]]
              /\ UNCHANGED wtrans
  /\ UNCHANGED <<ongoing, killer, proc, files>>

(***************************************************************************)
(* wait_to_transcode has let it pass: it leaves the waiting list, makes    *)
(* the command line (no file extension, no command: failed) and forks.     *)
(***************************************************************************)
StartProcess(r) ==
  /\ r \in Recording
  /\ At(r, "wait")
  /\ RecsMutexFree
  /\ wtrans' = IF thread[r].rid = -1 THEN wtrans ELSE [wtrans EXCEPT ![thread[r].rid] = NoJob]
  /\ \/ Return(r, "failed") /\ UNCHANGED proc
     \/ MayFail /\ Return(r, "nofork") /\ UNCHANGED proc
     \/ /\ thread' = [thread EXCEPT ![r].pc = "forked", ![r].rid = -1]
        /\ proc' = [proc EXCEPT ![r] = "running"]
  /\ UNCHANGED <<ongoing, killer, files>>

(* wait_to_transcode has waited too long; the waiting list is left as it is. *)
GiveUp(j) ==
  /\ MayGiveUp
  /\ At(j, "wait")
  /\ Leave(j, "failed")
  /\ UNCHANGED <<tables, killer, proc, files>>

-----------------------------------------------------------------------------
(* Both kinds of threads: the process and the table of processes. *)

(* A mutant of FreeSlots: the slots in use are not skipped. *)
AnySlot == Slot
FreeSlots == {s \in Slot : ongoing[s] = NoJob}

(* record_ongoingtranscoding; without a free slot the process is left to itself. *)
RecordOngoing(j) ==
  /\ At(j, "forked")
  /\ RecsMutexFree
  /\ IF FreeSlots = {}
     THEN Leave(j, "noslot") /\ UNCHANGED ongoing
     ELSE /\ thread' = [thread EXCEPT ![j].pc = "run", ![j].tidx = Least(FreeSlots)]
          /\ ongoing' = [ongoing EXCEPT ![Least(FreeSlots)] = j]
  /\ UNCHANGED <<wtrans, killer, proc, files>>

(* wait4 reports an end or a stop. *)
Wait4(j) ==
  /\ At(j, "run")
  /\ proc[j] \in {"ok", "bad", "killed", "stopped"}
  /\ thread' = [thread EXCEPT ![j].pc = "reap", ![j].saw = IF proc[j] = "ok" THEN "ok" ELSE "bad"]
  /\ proc' = IF proc[j] = "stopped" THEN proc ELSE [proc EXCEPT ![j] = "none"]
  /\ UNCHANGED <<tables, killer, files>>

(* The process has run for longer than its watchdog allows. *)
Watchdog(j) ==
  /\ MayFail
  /\ At(j, "run")
  /\ thread' = [thread EXCEPT ![j].pc = "reap", ![j].saw = "hung"]
  /\ UNCHANGED <<tables, killer, proc, files>>

(* forget_ongoingtranscoding, and what the status of the process means.  A short run is a failure. *)
ForgetOngoing(j) ==
  /\ At(j, "reap")
  /\ RecsMutexFree
  /\ ongoing' = [ongoing EXCEPT ![thread[j].tidx] = NoJob]
  /\ CASE thread[j].saw = "ok" ->
            \/ thread' = [thread EXCEPT ![j].pc = "move", ![j].tidx = -1]
            \/ j \in Recording /\ Leave(j, "failed")
       [] thread[j].saw = "bad" -> Leave(j, "failed")
       [] thread[j].saw = "hung" -> Leave(j, "hung")
  /\ proc' = IF proc[j] \in {"running", "stopped"} THEN [proc EXCEPT ![j] = "killed"] ELSE proc
  /\ UNCHANGED <<wtrans, killer, files>>

(* The files of a directory that are called name, name_001, ... *)
Path(dir, j, n) == [dir |-> dir, name |-> NameOf[j], n |-> n]
FreeNames(dir, j) == {n \in 0..MaxName : \A f \in archive : f.path # Path(dir, j, n)}

(* mv_and_rename: look for a name that is not taken, ... *)
ChooseName(j, dir, next) ==
  /\ FreeNames(dir, j) # {}
  /\ thread' = [thread EXCEPT ![j].pc = next, ![j].n = Least(FreeNames(dir, j))]
  /\ UNCHANGED <<tables, killer, proc, files>>

(* ... and rename the file, in place of what has that name by now. *)
Placed(j, dir) ==
  {f \in archive : f.path # Path(dir, j, thread[j].n)}
    \cup {[path |-> Path(dir, j, thread[j].n), job |-> j, i |-> thread[j].i]}

ChooseMp4(j) == At(j, "move") /\ ChooseName(j, "mp4", "rename")

(* With or without the file moved, a file thread goes on to remove its directory. *)
Moved(j, outcome) == IF j \in Recording THEN Return(j, outcome) ELSE Goto(j, "clean")

MoveMp4(j) ==
  /\ At(j, "rename")
  /\ archive' = Placed(j, "mp4")
  /\ Moved(j, "stored")
  /\ UNCHANGED <<tables, killer, proc, mp2, dirs, links>>

MoveMp4Fails(j) ==
  /\ At(j, "move") \/ At(j, "rename")
  /\ Moved(j, "failed")
  /\ UNCHANGED <<tables, killer, proc, files>>

-----------------------------------------------------------------------------
(* After the last profile: the MP2 file. *)

AllTried(r) == At(r, "profile") /\ thread[r].i > Len(Profiles[r])

Finish(r) ==
  /\ AllTried(r)
  /\ IF thread[r].problem THEN Goto(r, "done") /\ UNCHANGED mp2
     ELSE IF thread[r].keep THEN Goto(r, "movemp2") /\ UNCHANGED mp2
     ELSE Goto(r, "done") /\ mp2' = [mp2 EXCEPT ![r] = "deleted"]
  /\ UNCHANGED <<tables, killer, proc, archive, dirs, links>>

ChooseMp2(r) == At(r, "movemp2") /\ ChooseName(r, "mp2", "renamemp2")

MoveMp2(r) ==
  /\ At(r, "renamemp2")
  /\ archive' = Placed(r, "mp2")
  /\ mp2' = [mp2 EXCEPT ![r] = "kept"]
  /\ Goto(r, "done")
  /\ UNCHANGED <<tables, killer, proc, dirs, links>>

(* The working directory is not deleted. *)
MoveMp2Fails(r) ==
  /\ At(r, "movemp2") \/ At(r, "renamemp2")
  /\ Goto(r, "done")
  /\ UNCHANGED <<tables, killer, proc, files>>

-----------------------------------------------------------------------------
(* The threads of files: _transcode_file. *)

(* The tf command. *)
TranscodeFile(f) ==
  /\ At(f, "idle")
  /\ MayStart(f)
  /\ RecsMutexFree
  /\ Goto(f, "wait")
  /\ UNCHANGED <<tables, killer, proc, files>>

FileMayStart(f) ==
  /\ f \in FileJob
  /\ At(f, "wait")
  /\ Goto(f, "stat")
  /\ UNCHANGED <<tables, killer, proc, files>>

(* "Directory already exists. We play safe an bail out" *)
CheckDir(f) ==
  /\ At(f, "stat")
  /\ Goto(f, IF NameOf[f] \in dirs THEN "done" ELSE "mkdir")
  /\ UNCHANGED <<tables, killer, proc, files>>

(* chkcreatedir is content with a directory that exists; its failure is only logged. *)
MakeDir(f) ==
  /\ At(f, "mkdir")
  /\ dirs' \in {dirs, dirs \cup {NameOf[f]}}
  /\ Goto(f, "link")
  /\ UNCHANGED <<tables, killer, proc, mp2, archive, links>>

(* A mutant of LinkFile: a link that is there already will do. *)
LinkAnyway(f) ==
  /\ At(f, "link")
  /\ links' = links \cup {f}
  /\ Goto(f, "fork")
  /\ UNCHANGED <<tables, killer, proc, mp2, archive, dirs>>

(***************************************************************************)
(* symlink and link fail if the name is there, or the directory is not.    *)
(* The directory has the name of the file without its suffix, the link the *)
(* name with it: one directory has a link for each suffix.                 *)
(***************************************************************************)
LinkFile(f) ==
  /\ At(f, "link")
  /\ IF NameOf[f] \in dirs /\ \A g \in links : FileOf[g] # FileOf[f]
     THEN links' = links \cup {f} /\ Goto(f, "fork")
     ELSE UNCHANGED links /\ Goto(f, "done")
  /\ UNCHANGED <<tables, killer, proc, mp2, archive, dirs>>

(* No command line, or no process: the thread leaves and the directory stays. *)
StartFileProcess(f) ==
  /\ At(f, "fork")
  /\ \/ Goto(f, "done") /\ UNCHANGED proc
     \/ Goto(f, "forked") /\ proc' = [proc EXCEPT ![f] = "running"]
  /\ UNCHANGED <<tables, killer, files>>

(* removedir: it removes every file it comes across, ... *)
CleanDir(f) ==
  /\ At(f, "clean")
  /\ links' = {g \in links : NameOf[g] # NameOf[f]}
  /\ \E pc \in {"clean", "rmdir"} : Goto(f, pc)
  /\ UNCHANGED <<tables, killer, proc, mp2, archive, dirs>>

(* ... and then the directory, which fails if there is a new file in it. *)
RemoveDir(f) ==
  /\ At(f, "rmdir")
  /\ dirs' = IF \E g \in links : NameOf[g] = NameOf[f] THEN dirs ELSE dirs \ {NameOf[f]}
  /\ Goto(f, "done")
  /\ UNCHANGED <<tables, killer, proc, mp2, archive, links>>

-----------------------------------------------------------------------------
(* kt: one process or all of them, first stopped and 50 ms later killed. *)

KillFrom(first, last) ==
  /\ RecsMutexFree
  /\ killer' = [slot |-> first, last |-> last, stopped |-> FALSE]
  /\ UNCHANGED <<thread, tables, proc, files>>

KillOne(s) == ongoing[s] # NoJob /\ KillFrom(s, s)
KillAll == KillFrom(0, MaxOngoing - 1)

(* A mutant of NextSlot: all goes on after the last slot. *)
NextSlotPast == IF killer.slot > killer.last THEN NoKill
                ELSE [killer EXCEPT !.slot = @ + 1, !.stopped = FALSE]
NextSlot == IF killer.slot = killer.last THEN NoKill
            ELSE [killer EXCEPT !.slot = @ + 1, !.stopped = FALSE]

(* A mutant of KillStop: the command does not come back from an empty slot. *)
KillStopOnly ==
  /\ ~RecsMutexFree
  /\ ~killer.stopped
  /\ LET j == ongoing[killer.slot]
     IN  /\ j # NoJob
         /\ killer' = [killer EXCEPT !.stopped = TRUE]
         /\ proc' = IF proc[j] = "running" THEN [proc EXCEPT ![j] = "stopped"] ELSE proc
  /\ UNCHANGED <<thread, tables, files>>

KillStop ==
  /\ ~RecsMutexFree
  /\ ~killer.stopped
  /\ LET j == ongoing[killer.slot]
     IN  IF j = NoJob THEN killer' = NextSlot /\ UNCHANGED proc
         ELSE /\ killer' = [killer EXCEPT !.stopped = TRUE]
              /\ proc' = IF proc[j] = "running" THEN [proc EXCEPT ![j] = "stopped"] ELSE proc
  /\ UNCHANGED <<thread, tables, files>>

KillKill ==
  /\ ~RecsMutexFree
  /\ killer.stopped
  /\ LET j == ongoing[killer.slot]
     IN  proc' = IF proc[j] \in {"running", "stopped"} THEN [proc EXCEPT ![j] = "killed"] ELSE proc
  /\ killer' = NextSlot
  /\ UNCHANGED <<thread, tables, files>>

(* ffmpeg comes to an end. *)
ProcessEnds(j) ==
  /\ proc[j] = "running"
  /\ \E status \in {"ok", "bad"} : proc' = [proc EXCEPT ![j] = status]
  /\ UNCHANGED <<thread, tables, killer, files>>

-----------------------------------------------------------------------------
RecordingStep(r) ==
  NextProfile(r) \/ StartProcess(r) \/ Finish(r) \/ ChooseMp2(r) \/ MoveMp2(r) \/ MoveMp2Fails(r)
FileStep(f) ==
  \/ FileMayStart(f) \/ CheckDir(f) \/ MakeDir(f) \/ LinkFile(f) \/ StartFileProcess(f)
  \/ CleanDir(f) \/ RemoveDir(f)
JobStep(j) ==
  GiveUp(j) \/ RecordOngoing(j) \/ Wait4(j) \/ Watchdog(j) \/ ForgetOngoing(j)
    \/ ChooseMp4(j) \/ MoveMp4(j) \/ MoveMp4Fails(j)
ThreadStep(j) ==
  \/ j \in Recording /\ RecordingStep(j)
  \/ j \in FileJob /\ FileStep(j)
  \/ JobStep(j)
Kill ==
  \/ \E s \in Slot : KillOne(s)
  \/ KillAll
  \/ KillStop
  \/ KillKill

Next ==
  \/ \E r \in Recording : EndRecording(r)
  \/ \E f \in FileJob : TranscodeFile(f)
  \/ \E j \in Job : ThreadStep(j) \/ ProcessEnds(j)
  \/ Kill

(***************************************************************************)
(* A command finishes, the load falls, and every thread goes on; one that  *)
(* waits for recs_mutex gets it, for clients do not send kill commands all *)
(* the time.  No process need end: the watchdog of its thread sees to that *)
(* (MayFail).                                                              *)
(***************************************************************************)
Fairness == WF_vars(KillStop \/ KillKill) /\ \A j \in Job : SF_vars(ThreadStep(j))

Spec == Init /\ [][Next]_vars
FairSpec == Spec /\ Fairness

-----------------------------------------------------------------------------
(* Every variable has its type. *)
TypeOK ==
  /\ thread \in [Job -> Thread]
  /\ ongoing \in [Slot -> Job \cup {NoJob}]
  /\ wtrans \in [WSlot -> Recording \cup {NoJob}]
  /\ killer \in [slot : {-1} \cup Slot, last : {-1} \cup Slot, stopped : BOOLEAN]
  /\ proc \in [Job -> Process]
  /\ mp2 \in [Recording -> {"working", "kept", "deleted"}]
  /\ archive \subseteq
       [path : [dir : {"mp4", "mp2"}, name : Name, n : 0..MaxName], job : Job, i : Nat]
  /\ dirs \subseteq Name
  /\ links \subseteq FileJob

(***************************************************************************)
(* The table of processes and the indices the threads remember agree: a    *)
(* slot belongs to one thread from record_ongoingtranscoding to            *)
(* forget_ongoingtranscoding, so that a kill command hits the process its  *)
(* user named and no thread forgets the process of another.                *)
(***************************************************************************)
SlotsMatch ==
  /\ \A j \in Job : thread[j].tidx # -1 => ongoing[thread[j].tidx] = j
  /\ \A s \in Slot : ongoing[s] # NoJob =>
       thread[ongoing[s]].tidx = s /\ thread[ongoing[s]].pc \in {"run", "reap"}

(***************************************************************************)
(* A thread that waits in a slot of the waiting list has it to itself      *)
(* until it goes on: none is taken off the list by another.                *)
(***************************************************************************)
WaitingListed == \A r \in Recording : thread[r].rid # -1 => wtrans[thread[r].rid] = r

(***************************************************************************)
(* Two threads do not transcode one file in the same directory, though     *)
(* they look for it and make it in two steps: the link decides (transc.c:  *)
(* "two or more transcodings can never run in the same directory").  Two   *)
(* exceptions, which the code does not keep from each other: a third       *)
(* thread that removes the directory meanwhile, and with it the link of    *)
(* one of the two, lets in the other; and files of one name and different  *)
(* suffixes have a link each in the one directory, so that both work there *)
(* if both looked for it before either had made it.                        *)
(***************************************************************************)
InDir(f) ==
  \/ thread[f].pc \in {"fork", "forked", "run", "reap", "move", "rename"}
  \/ proc[f] \in {"running", "stopped"}
Removes(f) == thread[f].saw = "ok" /\ thread[f].pc \in {"clean", "rmdir", "done"}

DirExclusive ==
  \A f, g \in FileJob : f # g /\ NameOf[f] = NameOf[g] /\ InDir(f) /\ InDir(g) =>
    \/ FileOf[f] # FileOf[g]
    \/ \E h \in FileJob \ {f, g} : NameOf[h] = NameOf[f] /\ Removes(h)

(***************************************************************************)
(* A recording is not given up because of a transcoding that was killed,   *)
(* failed, or could not be moved, whichever of its profiles it was: its    *)
(* MP2 file stays (transc.c: "a user stopped transcoding will have its     *)
(* original files removed and we don't want that").                        *)
(***************************************************************************)
FailedKeepsMp2 ==
  \A r \in Recording :
    (\E k \in DOMAIN thread[r].outcome : thread[r].outcome[k] = "failed") => mp2[r] = "working"

(* Every thread comes to its end, and with it gives back its slot. *)
EveryThreadEnds == \A j \in Job : ~At(j, "idle") ~> At(j, "done")

(***************************************************************************)
(* The MP2 file of a recording is deleted only when each of its profiles   *)
(* has given an MP4 file, which is still there: "unless there were a       *)
(* problem with the transcoding" (startrec), and mv_and_rename gives way   *)
(* "if the target file already exists".                                    *)
(***************************************************************************)
DeletedIsTranscoded ==
  \A r \in Recording : mp2[r] = "deleted" =>
    \A k \in DOMAIN Profiles[r] :
      \E f \in archive : f.job = r /\ f.i = k /\ f.path.dir = "mp4"
=============================================================================
