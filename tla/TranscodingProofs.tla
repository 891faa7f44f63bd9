------------------------- MODULE TranscodingProofs -------------------------
(***************************************************************************)
(* Theorems about transcoding, for any recordings, files, profiles and     *)
(* file names and for tables of any size.                                  *)
(***************************************************************************)
EXTENDS Transcoding, WellFoundedInduction, TLAPS

-----------------------------------------------------------------------------
(* What the steps are made of. *)

(* The constants, as the steps below need them. *)
LEMMA Constants ==
  /\ MaxOngoing \in Nat \ {0} /\ MaxWaiting \in Nat \ {0} /\ MaxName \in Nat \ {0}
  /\ Slot \subseteq Nat /\ WSlot \subseteq Nat
  /\ NoJob \notin Job /\ Recording \subseteq Job /\ FileJob \subseteq Job
  /\ Recording \cap FileJob = {}
  /\ \A r \in Job : Profiles[r] \in Seq(Profile)
  /\ \A j \in Job : NameOf[j] \in Name
BY TranscodingAssumption DEF Slot, WSlot, Job, Name

(* The first free slot, or name, is one of those that are free. *)
LEMMA LeastIsIn ==
  ASSUME NEW S \in SUBSET Nat, S # {}
  PROVE  Least(S) \in S
<1>1. S \subseteq Nat
  OBVIOUS
<1>2. \E s \in S : \A u \in S : ~(<<u, s>> \in OpToRel(<, Nat))
  BY <1>1, WFMin, NatLessThanWellFounded, Zenon
<1>3. \A u, t \in Nat : <<u, t>> \in OpToRel(<, Nat) <=> u < t
  BY Zenon DEF OpToRel
<1>4. \E s \in S : \A u \in S : ~(u < s)
  BY <1>1, <1>2, <1>3, Zenon
<1>5. \E s \in S : \A u \in S : s <= u
  BY <1>1, <1>4, SMT
<1>6. QED
  BY <1>5 DEF Least

(* A thread that is back in the loop over the profiles is one. *)
LEMMA ReturnedTyped ==
  ASSUME NEW t \in Thread, NEW outcome \in Outcome
  PROVE  Returned(t, outcome) \in Thread
<1>1. Append(t.outcome, outcome) \in Seq(Outcome)
  BY DEF Thread
<1>2. Problem(t.problem, outcome) \in BOOLEAN
  BY DEF Problem
<1>3. t.i + 1 \in Nat \ {0}
  BY DEF Thread
<1>4. QED
  BY <1>1, <1>2, <1>3 DEF Returned, Thread, Pc

(* Going on to a next place, leaving, and returning from a profile keep the type of the threads. *)
LEMMA ThreadTyped ==
  ASSUME TypeOK, NEW j \in Job
  PROVE  /\ \A pc \in Pc : Goto(j, pc) => thread' \in [Job -> Thread]
         /\ \A outcome \in Outcome : Leave(j, outcome) => thread' \in [Job -> Thread]
         /\ \A outcome \in Outcome : Moved(j, outcome) => thread' \in [Job -> Thread]
         /\ \A outcome \in Outcome : Return(j, outcome) => thread' \in [Job -> Thread]
<1>1. thread \in [Job -> Thread] /\ thread[j] \in Thread
  BY DEF TypeOK
<1>2. \A pc \in Pc : Goto(j, pc) => thread' \in [Job -> Thread]
  <2>1. \A pc \in Pc : [thread[j] EXCEPT !.pc = pc] \in Thread
    BY <1>1 DEF Thread
  <2>2. QED
    BY <1>1, <2>1 DEF Goto
<1>3. \A outcome \in Outcome : Return(j, outcome) => thread' \in [Job -> Thread]
  BY <1>1, ReturnedTyped DEF Return
<1>4. \A outcome \in Outcome : Leave(j, outcome) => thread' \in [Job -> Thread]
  <2>1. [thread[j] EXCEPT !.pc = "done", !.tidx = -1] \in Thread
    BY <1>1 DEF Thread, Pc
  <2>2. QED
    BY <1>1, <1>3, <2>1 DEF Leave
<1>5. \A outcome \in Outcome : Moved(j, outcome) => thread' \in [Job -> Thread]
  BY <1>2, <1>3 DEF Moved, Pc
<1>6. QED
  BY <1>2, <1>3, <1>4, <1>5

(* mv_and_rename gives its file a name within bounds. *)
LEMMA NamesTyped ==
  ASSUME TypeOK, NEW j \in Job, NEW dir \in {"mp4", "mp2"}
  PROVE  /\ \A pc \in Pc : ChooseName(j, dir, pc) => thread' \in [Job -> Thread]
         /\ Placed(j, dir) \subseteq
              [path : [dir : {"mp4", "mp2"}, name : Name, n : 0..MaxName], job : Job, i : Nat]
<1>1. thread \in [Job -> Thread] /\ thread[j] \in Thread
  BY DEF TypeOK
<1>2. \A pc \in Pc : ChooseName(j, dir, pc) => thread' \in [Job -> Thread]
  <2> SUFFICES ASSUME NEW pc \in Pc, ChooseName(j, dir, pc)
               PROVE  thread' \in [Job -> Thread]
    OBVIOUS
  <2>1. FreeNames(dir, j) \in SUBSET Nat /\ FreeNames(dir, j) \subseteq 0..MaxName
    BY Constants DEF FreeNames
  <2>2. Least(FreeNames(dir, j)) \in 0..MaxName
    BY <2>1, LeastIsIn DEF ChooseName
  <2>3. QED
    BY <1>1, <2>2 DEF ChooseName, Thread
<1>3. [path |-> Path(dir, j, thread[j].n), job |-> j, i |-> thread[j].i] \in
        [path : [dir : {"mp4", "mp2"}, name : Name, n : 0..MaxName], job : Job, i : Nat]
  BY <1>1, Constants DEF Path, Thread
<1>4. QED
  BY <1>2, <1>3 DEF Placed, TypeOK
-----------------------------------------------------------------------------
(* Type correctness. *)

(* The kill command goes from one slot to another, none beyond the table. *)
KillerInRange ==
  \/ killer = NoKill
  \/ killer.slot \in Slot /\ killer.last \in Slot /\ killer.slot <= killer.last

(* A thread forgets its process only after it has seen it end, stop or hang. *)
ReapedIsSeen == \A j \in Job : thread[j].pc = "reap" => thread[j].saw # "-"

(* The slots that are chosen exist. *)
LEMMA SlotsTyped ==
  /\ FreeSlots # {} => Least(FreeSlots) \in FreeSlots
  /\ FreeWaiting # {} => Least(FreeWaiting) \in FreeWaiting
<1>1. FreeSlots \in SUBSET Nat /\ FreeWaiting \in SUBSET Nat
  BY Constants DEF FreeSlots, FreeWaiting
<1>2. QED
  BY <1>1, LeastIsIn

(* The steps of the threads of recordings keep the types. *)
LEMMA RecordingTyped ==
  ASSUME TypeOK, NEW r \in Recording, RecordingStep(r)
  PROVE  TypeOK'
<1>1. thread \in [Job -> Thread] /\ r \in Job /\ thread[r] \in Thread
  BY Constants DEF TypeOK
<1>2. CASE NextProfile(r)
  <2> DEFINE profile == Profiles[r][thread[r].i]
             keep == thread[r].keep \/ profile.keep \/ ~profile.use_transcoding
             rid == IF FreeWaiting = {} THEN -1 ELSE Least(FreeWaiting)
  <2>1. profile \in Profile
    <3>1. Profiles[r] \in Seq(Profile) /\ thread[r].i \in Nat \ {0}
      BY <1>1, Constants DEF Thread
    <3>2. thread[r].i <= Len(Profiles[r])
      BY <1>2 DEF NextProfile
    <3>3. QED
      BY <3>1, <3>2
  <2>2. keep \in BOOLEAN
    BY <1>1, <2>1 DEF Thread, Profile
  <2>3. rid \in {-1} \cup WSlot /\ (rid # -1 => rid \in WSlot)
    BY SlotsTyped DEF FreeWaiting
  <2>4. CASE profile.use_transcoding
    <3>1. [thread[r] EXCEPT !.pc = "wait", !.keep = keep, !.rid = rid] \in Thread
      BY <1>1, <2>2, <2>3 DEF Thread, Pc
    <3>2. thread' \in [Job -> Thread]
      BY <1>1, <1>2, <2>4, <3>1 DEF NextProfile
    <3>3. wtrans' \in [WSlot -> Recording \cup {NoJob}]
      BY <1>2, <2>3, <2>4 DEF NextProfile, TypeOK
    <3>4. QED
      BY <1>2, <3>2, <3>3 DEF NextProfile, TypeOK, files
  <2>5. CASE ~profile.use_transcoding
    <3>1. Returned(thread[r], "off") \in Thread
      BY <1>1, ReturnedTyped DEF Outcome
    <3>2. [Returned(thread[r], "off") EXCEPT !.keep = keep] \in Thread
      BY <2>2, <3>1 DEF Thread
    <3>3. thread' \in [Job -> Thread]
      BY <1>1, <1>2, <2>5, <3>2 DEF NextProfile
    <3>4. QED
      BY <1>2, <2>5, <3>3 DEF NextProfile, TypeOK, files
  <2>6. QED
    BY <2>4, <2>5
<1>3. CASE StartProcess(r)
  <2>1. wtrans' \in [WSlot -> Recording \cup {NoJob}]
    <3>1. thread[r].rid \in {-1} \cup WSlot
      BY <1>1 DEF Thread
    <3>2. QED
      BY <1>3, <3>1 DEF StartProcess, TypeOK
  <2>2. thread' \in [Job -> Thread]
    <3>1. [thread[r] EXCEPT !.pc = "forked", !.rid = -1] \in Thread
      BY <1>1 DEF Thread, Pc
    <3>2. thread' = [thread EXCEPT ![r].pc = "forked", ![r].rid = -1] => thread' \in [Job -> Thread]
      BY <1>1, <3>1
    <3>3. QED
      BY <1>1, <1>3, <3>2, ThreadTyped DEF StartProcess, Outcome
  <2>3. proc' \in [Job -> Process]
    BY <1>1, <1>3 DEF StartProcess, TypeOK, Process
  <2>4. QED
    BY <1>3, <2>1, <2>2, <2>3 DEF StartProcess, TypeOK, files
<1>4. CASE Finish(r)
  <2>1. thread' \in [Job -> Thread]
    BY <1>1, <1>4, ThreadTyped DEF Finish, Pc
  <2>2. mp2' \in [Recording -> {"working", "kept", "deleted"}]
    BY <1>4 DEF Finish, TypeOK
  <2>3. QED
    BY <1>4, <2>1, <2>2 DEF Finish, TypeOK, tables
<1>5. CASE ChooseMp2(r)
  <2>1. thread' \in [Job -> Thread]
    BY <1>1, <1>5, NamesTyped DEF ChooseMp2, Pc
  <2>2. QED
    BY <1>5, <2>1 DEF ChooseMp2, ChooseName, TypeOK, tables, files
<1>6. CASE MoveMp2(r)
  <2>1. thread' \in [Job -> Thread]
    BY <1>1, <1>6, ThreadTyped DEF MoveMp2, Pc
  <2>2. archive' \subseteq
          [path : [dir : {"mp4", "mp2"}, name : Name, n : 0..MaxName], job : Job, i : Nat]
    BY <1>1, <1>6, NamesTyped DEF MoveMp2
  <2>3. mp2' \in [Recording -> {"working", "kept", "deleted"}]
    BY <1>6 DEF MoveMp2, TypeOK
  <2>4. QED
    BY <1>6, <2>1, <2>2, <2>3 DEF MoveMp2, TypeOK, tables
<1>7. CASE MoveMp2Fails(r)
  <2>1. thread' \in [Job -> Thread]
    BY <1>1, <1>7, ThreadTyped DEF MoveMp2Fails, Pc
  <2>2. QED
    BY <1>7, <2>1 DEF MoveMp2Fails, TypeOK, tables, files
<1>8. QED
  BY <1>2, <1>3, <1>4, <1>5, <1>6, <1>7 DEF RecordingStep

(* The steps of the threads of files keep the types. *)
LEMMA FileTyped ==
  ASSUME TypeOK, NEW f \in FileJob, FileStep(f)
  PROVE  TypeOK'
<1>1. thread \in [Job -> Thread] /\ f \in Job /\ thread[f] \in Thread
  BY Constants DEF TypeOK
<1>2. CASE FileMayStart(f)
  <2>1. thread' \in [Job -> Thread]
    BY <1>1, <1>2, ThreadTyped DEF FileMayStart, Pc
  <2>2. QED
    BY <1>2, <2>1 DEF FileMayStart, TypeOK, tables, files
<1>3. CASE CheckDir(f)
  <2>1. thread' \in [Job -> Thread]
    BY <1>1, <1>3, ThreadTyped DEF CheckDir, Pc
  <2>2. QED
    BY <1>3, <2>1 DEF CheckDir, TypeOK, tables, files
<1>4. CASE MakeDir(f)
  <2>1. thread' \in [Job -> Thread]
    BY <1>1, <1>4, ThreadTyped DEF MakeDir, Pc
  <2>2. dirs' \subseteq Name
    BY <1>1, <1>4, Constants DEF MakeDir, TypeOK
  <2>3. QED
    BY <1>4, <2>1, <2>2 DEF MakeDir, TypeOK, tables
<1>5. CASE LinkFile(f)
  <2>1. thread' \in [Job -> Thread]
    BY <1>1, <1>5, ThreadTyped DEF LinkFile, Pc
  <2>2. QED
    BY <1>5, <2>1 DEF LinkFile, TypeOK, tables
<1>6. CASE StartFileProcess(f)
  <2>1. thread' \in [Job -> Thread]
    BY <1>1, <1>6, ThreadTyped DEF StartFileProcess, Pc
  <2>2. proc' \in [Job -> Process]
    BY <1>1, <1>6 DEF StartFileProcess, TypeOK, Process
  <2>3. QED
    BY <1>6, <2>1, <2>2 DEF StartFileProcess, TypeOK, tables, files
<1>7. CASE CleanDir(f)
  <2>1. thread' \in [Job -> Thread]
    BY <1>1, <1>7, ThreadTyped DEF CleanDir, Pc
  <2>2. QED
    BY <1>7, <2>1 DEF CleanDir, TypeOK, tables
<1>8. CASE RemoveDir(f)
  <2>1. thread' \in [Job -> Thread]
    BY <1>1, <1>8, ThreadTyped DEF RemoveDir, Pc
  <2>2. QED
    BY <1>8, <2>1 DEF RemoveDir, TypeOK, tables
<1>9. QED
  BY <1>2, <1>3, <1>4, <1>5, <1>6, <1>7, <1>8 DEF FileStep

(* The steps that both kinds of threads take keep the types. *)
LEMMA JobTyped ==
  ASSUME TypeOK, ReapedIsSeen, NEW j \in Job, JobStep(j)
  PROVE  TypeOK'
<1>1. thread \in [Job -> Thread] /\ thread[j] \in Thread
  BY DEF TypeOK
<1>2. CASE GiveUp(j)
  <2>1. thread' \in [Job -> Thread]
    BY <1>2, ThreadTyped DEF GiveUp, Outcome
  <2>2. QED
    BY <1>2, <2>1 DEF GiveUp, TypeOK, tables, files
<1>3. CASE RecordOngoing(j)
  <2>1. CASE FreeSlots = {}
    <3>1. thread' \in [Job -> Thread]
      BY <1>3, <2>1, ThreadTyped DEF RecordOngoing, Outcome
    <3>2. QED
      BY <1>3, <2>1, <3>1 DEF RecordOngoing, TypeOK, files
  <2>2. CASE FreeSlots # {}
    <3>1. Least(FreeSlots) \in Slot
      BY <2>2, SlotsTyped DEF FreeSlots
    <3>2. [thread[j] EXCEPT !.pc = "run", !.tidx = Least(FreeSlots)] \in Thread
      BY <1>1, <3>1 DEF Thread, Pc
    <3>3. thread' \in [Job -> Thread]
      BY <1>1, <1>3, <2>2, <3>2 DEF RecordOngoing
    <3>4. ongoing' \in [Slot -> Job \cup {NoJob}]
      BY <1>3, <2>2, <3>1 DEF RecordOngoing, TypeOK
    <3>5. QED
      BY <1>3, <2>2, <3>3, <3>4 DEF RecordOngoing, TypeOK, files
  <2>3. QED
    BY <2>1, <2>2
<1>4. CASE Wait4(j)
  <2>1. \A saw \in {"ok", "bad"} : [thread[j] EXCEPT !.pc = "reap", !.saw = saw] \in Thread
    BY <1>1 DEF Thread, Pc
  <2>2. thread' \in [Job -> Thread]
    BY <1>1, <1>4, <2>1 DEF Wait4
  <2>3. proc' \in [Job -> Process]
    BY <1>4 DEF Wait4, TypeOK, Process
  <2>4. QED
    BY <1>4, <2>2, <2>3 DEF Wait4, TypeOK, tables, files
<1>5. CASE Watchdog(j)
  <2>1. [thread[j] EXCEPT !.pc = "reap", !.saw = "hung"] \in Thread
    BY <1>1 DEF Thread, Pc
  <2>2. thread' \in [Job -> Thread]
    BY <1>1, <1>5, <2>1 DEF Watchdog
  <2>3. QED
    BY <1>5, <2>2 DEF Watchdog, TypeOK, tables, files
<1>6. CASE ForgetOngoing(j)
  <2>1. [thread[j] EXCEPT !.pc = "move", !.tidx = -1] \in Thread
    BY <1>1 DEF Thread, Pc
  <2>2. thread' = [thread EXCEPT ![j].pc = "move", ![j].tidx = -1] => thread' \in [Job -> Thread]
    BY <1>1, <2>1
  <2>3. Leave(j, "failed") \/ Leave(j, "hung") => thread' \in [Job -> Thread]
    BY ThreadTyped DEF Outcome
  <2>4. thread' \in [Job -> Thread]
    <3>1. thread[j].saw \in {"ok", "bad", "hung"}
      BY <1>1, <1>6 DEF Thread, ReapedIsSeen, ForgetOngoing, At
    <3>2. QED
      BY <1>6, <2>2, <2>3, <3>1 DEF ForgetOngoing
  <2>5. ongoing' \in [Slot -> Job \cup {NoJob}]
    BY <1>6 DEF ForgetOngoing, TypeOK
  <2>6. proc' \in [Job -> Process]
    BY <1>6 DEF ForgetOngoing, TypeOK, Process
  <2>7. QED
    BY <1>6, <2>4, <2>5, <2>6 DEF ForgetOngoing, TypeOK, files
<1>7. CASE ChooseMp4(j)
  <2>1. thread' \in [Job -> Thread]
    BY <1>7, NamesTyped DEF ChooseMp4, Pc
  <2>2. QED
    BY <1>7, <2>1 DEF ChooseMp4, ChooseName, TypeOK, tables, files
<1>8. CASE MoveMp4(j)
  <2>1. thread' \in [Job -> Thread]
    BY <1>8, ThreadTyped DEF MoveMp4, Outcome
  <2>2. archive' \subseteq
          [path : [dir : {"mp4", "mp2"}, name : Name, n : 0..MaxName], job : Job, i : Nat]
    BY <1>8, NamesTyped DEF MoveMp4
  <2>3. QED
    BY <1>8, <2>1, <2>2 DEF MoveMp4, TypeOK, tables
<1>9. CASE MoveMp4Fails(j)
  <2>1. thread' \in [Job -> Thread]
    BY <1>9, ThreadTyped DEF MoveMp4Fails, Outcome
  <2>2. QED
    BY <1>9, <2>1 DEF MoveMp4Fails, TypeOK, tables, files
<1>10. QED
  BY <1>2, <1>3, <1>4, <1>5, <1>6, <1>7, <1>8, <1>9 DEF JobStep

(* The steps of the kill command keep the types, and it stays within the table. *)
LEMMA KillTyped ==
  ASSUME TypeOK, KillerInRange, Kill
  PROVE  TypeOK' /\ KillerInRange'
<1> DEFINE Killer == [slot : {-1} \cup Slot, last : {-1} \cup Slot, stopped : BOOLEAN]
<1>1. \A first, last \in Slot :
        KillFrom(first, last) => killer' \in Killer /\ UNCHANGED <<thread, tables, proc, files>>
  BY DEF KillFrom
<1>2. \A first, last \in Slot : first <= last /\ KillFrom(first, last) => KillerInRange'
  BY DEF KillFrom, KillerInRange
<1>3. 0 \in Slot /\ MaxOngoing - 1 \in Slot /\ 0 <= MaxOngoing - 1 /\ Slot \subseteq Int
  BY Constants DEF Slot
<1>4. CASE \E first, last \in Slot : first <= last /\ KillFrom(first, last)
  BY <1>1, <1>2, <1>4 DEF TypeOK, tables, files
<1>5. ASSUME KillStop \/ KillKill, ~RecsMutexFree
      PROVE  TypeOK' /\ KillerInRange'
  <2>1. /\ killer \in Killer /\ killer.slot \in Slot /\ killer.last \in Slot
        /\ killer.slot <= killer.last
    BY <1>5 DEF RecsMutexFree, KillerInRange, TypeOK
  <2>2. killer.slot = killer.last \/ (killer.slot + 1 \in Slot /\ killer.slot + 1 <= killer.last)
    BY <2>1, Constants DEF Slot
  <2>3. NextSlot \in Killer /\ (killer' = NextSlot => KillerInRange')
    <3>1. CASE killer.slot = killer.last
      BY <3>1 DEF NextSlot, NoKill, KillerInRange
    <3>2. CASE killer.slot # killer.last
      BY <2>1, <2>2, <3>2 DEF NextSlot, KillerInRange
    <3>3. QED
      BY <3>1, <3>2
  <2>4. killer' = NextSlot \/ killer' = [killer EXCEPT !.stopped = TRUE]
    BY <1>5 DEF KillStop, KillKill
  <2>5. killer' \in Killer /\ KillerInRange'
    BY <2>1, <2>3, <2>4 DEF KillerInRange
  <2>6. proc' \in [Job -> Process]
    BY <1>5 DEF KillStop, KillKill, TypeOK, Process
  <2>7. QED
    BY <1>5, <2>5, <2>6 DEF KillStop, KillKill, TypeOK, tables, files
<1>6. QED
  <2>1. ~RecsMutexFree \/ ~(KillStop \/ KillKill)
    BY DEF KillStop, KillKill
  <2>2. \A s \in Slot : KillOne(s) => s <= s /\ KillFrom(s, s)
    BY <1>3 DEF KillOne
  <2>3. KillAll => KillFrom(0, MaxOngoing - 1)
    BY DEF KillAll
  <2>4. QED
    BY <1>3, <1>4, <1>5, <2>1, <2>2, <2>3 DEF Kill

(* Any step is one of a thread, of a process or of the kill command. *)
LEMMA Steps ==
  ASSUME Next
  PROVE  \/ \E r \in Recording : EndRecording(r) \/ RecordingStep(r)
         \/ \E f \in FileJob : TranscodeFile(f) \/ FileStep(f)
         \/ \E j \in Job : JobStep(j) \/ ProcessEnds(j)
         \/ Kill
BY DEF Next, ThreadStep

(* Going on changes the place of one thread. *)
LEMMA GotoOwn ==
  ASSUME TypeOK, NEW j \in Job, NEW pc, Goto(j, pc)
  PROVE  /\ \A k \in Job \ {j} : thread'[k] = thread[k]
         /\ thread'[j].pc = pc
         /\ thread'[j].rid = thread[j].rid /\ thread'[j].tidx = thread[j].tidx
         /\ thread'[j].saw = thread[j].saw /\ thread'[j].problem = thread[j].problem
         /\ thread'[j].outcome = thread[j].outcome
<1>1. thread \in [Job -> Thread] /\ thread[j] \in Thread
  BY DEF TypeOK
<1>2. thread'[j] = [thread[j] EXCEPT !.pc = pc] /\ \A k \in Job \ {j} : thread'[k] = thread[k]
  BY <1>1 DEF Goto
<1>3. QED
  BY <1>1, <1>2 DEF Thread

(* Returning to the loop over the profiles gives up the places in both tables. *)
LEMMA ReturnOwn ==
  ASSUME TypeOK, NEW j \in Job, NEW outcome, Return(j, outcome)
  PROVE  /\ \A k \in Job \ {j} : thread'[k] = thread[k]
         /\ thread'[j].pc = "profile"
         /\ thread'[j].rid = -1 /\ thread'[j].tidx = -1 /\ thread'[j].saw = "-"
         /\ thread'[j].problem = Problem(thread[j].problem, outcome)
         /\ thread'[j].outcome = Append(thread[j].outcome, outcome)
<1>1. thread \in [Job -> Thread] /\ thread[j] \in Thread
  BY DEF TypeOK
<1>2. thread'[j] = Returned(thread[j], outcome) /\ \A k \in Job \ {j} : thread'[k] = thread[k]
  BY <1>1 DEF Return
<1>3. QED
  BY <1>1, <1>2 DEF Thread, Returned

(* Leaving does so, too, or it is the end of the thread of a file. *)
LEMMA LeaveOwn ==
  ASSUME TypeOK, NEW j \in Job, NEW outcome, Leave(j, outcome)
  PROVE  /\ \A k \in Job \ {j} : thread'[k] = thread[k]
         /\ thread'[j].pc \in {"profile", "done"} /\ thread'[j].tidx = -1
         /\ j \in Recording => Return(j, outcome)
         /\ j \notin Recording =>
              /\ thread'[j].pc = "done" /\ thread'[j].saw = thread[j].saw
              /\ thread'[j].rid = thread[j].rid
<1>1. thread \in [Job -> Thread] /\ thread[j] \in Thread
  BY DEF TypeOK
<1>2. CASE j \in Recording
  BY <1>2, ReturnOwn DEF Leave
<1>3. CASE j \notin Recording
  <2>1. /\ thread'[j] = [thread[j] EXCEPT !.pc = "done", !.tidx = -1]
        /\ \A k \in Job \ {j} : thread'[k] = thread[k]
    BY <1>1, <1>3 DEF Leave
  <2>2. QED
    BY <1>1, <1>3, <2>1 DEF Thread
<1>4. QED
  BY <1>2, <1>3

(* Steps that leave the tables alone: no thread outside run and reap has a slot to lose. *)
LEMMA SameTables ==
  ASSUME TypeOK, SlotsMatch, WaitingListed, UNCHANGED tables, NEW j \in Job,
         \A k \in Job \ {j} : thread'[k] = thread[k],
         thread'[j].rid \in {-1, thread[j].rid},
         \/ thread[j].pc \notin {"run", "reap"} /\ thread'[j].tidx \in {-1, thread[j].tidx}
         \/ thread'[j].pc \in {"run", "reap"} /\ thread'[j].tidx = thread[j].tidx
  PROVE  SlotsMatch' /\ WaitingListed'
<1>1. ongoing \in [Slot -> Job \cup {NoJob}] /\ ongoing' = ongoing /\ wtrans' = wtrans
  BY DEF TypeOK, tables
<1>2. SlotsMatch'
  BY <1>1 DEF SlotsMatch
<1>3. WaitingListed'
  BY <1>1, Constants DEF WaitingListed
<1>4. QED
  BY <1>2, <1>3

(* What is inductive about the two tables. *)
TableInv == ReapedIsSeen /\ SlotsMatch /\ WaitingListed

(* A thread that is not in the table of processes may go on, leave or return as it likes. *)
LEMMA OutsideTable ==
  ASSUME TypeOK, TableInv, UNCHANGED tables,
         NEW j \in Job, thread[j].pc \notin {"run", "reap"},
         \/ \E pc \in Pc \ {"reap"} : Goto(j, pc)
         \/ \E outcome \in Outcome : Leave(j, outcome)
         \/ \E outcome \in Outcome : Moved(j, outcome)
  PROVE  TableInv'
<1>1. CASE \E pc \in Pc \ {"reap"} : Goto(j, pc)
  <2>1. PICK pc \in Pc \ {"reap"} : Goto(j, pc)
    BY <1>1
  <2>2. SlotsMatch' /\ WaitingListed'
    BY <2>1, GotoOwn, SameTables DEF TableInv
  <2>3. ReapedIsSeen'
    BY <2>1, GotoOwn DEF TableInv, ReapedIsSeen
  <2>4. QED
    BY <2>2, <2>3 DEF TableInv
<1>2. CASE \E outcome \in Outcome : Leave(j, outcome)
  <2>1. PICK outcome \in Outcome : Leave(j, outcome)
    BY <1>2
  <2>2. SlotsMatch' /\ WaitingListed'
    BY <2>1, LeaveOwn, ReturnOwn, SameTables DEF TableInv
  <2>3. ReapedIsSeen'
    BY <2>1, LeaveOwn DEF TableInv, ReapedIsSeen
  <2>4. QED
    BY <2>2, <2>3 DEF TableInv
<1>3. QED
  <2>1. \A outcome \in Outcome :
          Moved(j, outcome) => Leave(j, outcome) \/ Goto(j, "clean")
    BY DEF Moved, Leave
  <2>2. QED
    BY <1>1, <1>2, <2>1 DEF Pc

(* Choosing a name changes the number and the place of the thread. *)
LEMMA NameSteps ==
  ASSUME TypeOK, TableInv, NEW j \in Job, thread[j].pc \notin {"run", "reap"},
         NEW dir, NEW pc \in Pc \ {"reap"}, ChooseName(j, dir, pc)
  PROVE  TableInv'
<1>1. thread \in [Job -> Thread] /\ thread[j] \in Thread
  BY DEF TypeOK
<1>2. UNCHANGED tables /\ thread' = [thread EXCEPT ![j].pc = pc, ![j].n = Least(FreeNames(dir, j))]
  BY DEF ChooseName
<1>3. /\ thread'[j].pc = pc /\ thread'[j].rid = thread[j].rid /\ thread'[j].tidx = thread[j].tidx
      /\ \A k \in Job \ {j} : thread'[k] = thread[k]
  BY <1>1, <1>2 DEF Thread
<1>4. SlotsMatch' /\ WaitingListed'
  BY <1>2, <1>3, SameTables DEF TableInv
<1>5. ReapedIsSeen'
  BY <1>3 DEF TableInv, ReapedIsSeen
<1>6. QED
  BY <1>4, <1>5 DEF TableInv

(* Steps that change neither thread nor table. *)
LEMMA NoThread ==
  ASSUME TableInv, UNCHANGED <<thread, tables>>
  PROVE  TableInv'
BY DEF TableInv, ReapedIsSeen, SlotsMatch, WaitingListed, tables

(* The waiting list: a slot is taken when it is free and given back by the thread that has it. *)
LEMMA WaitingSteps ==
  ASSUME TypeOK, TableInv, NEW r \in Recording, NextProfile(r) \/ StartProcess(r)
  PROVE  TableInv'
<1>1. /\ ongoing' = ongoing /\ ongoing \in [Slot -> Job \cup {NoJob}]
      /\ wtrans \in [WSlot -> Recording \cup {NoJob}]
      /\ r \in Job /\ thread \in [Job -> Thread] /\ thread[r] \in Thread
  BY Constants DEF NextProfile, StartProcess, TypeOK
<1>2. ASSUME thread[r].pc \notin {"run", "reap"}, thread'[r].pc # "reap",
             thread'[r].tidx \in {-1, thread[r].tidx},
             \A k \in Job \ {r} : thread'[k] = thread[k]
      PROVE  SlotsMatch' /\ ReapedIsSeen'
  BY <1>1, <1>2 DEF TableInv, SlotsMatch, ReapedIsSeen
<1>3. CASE NextProfile(r)
  <2> DEFINE rid == IF FreeWaiting = {} THEN -1 ELSE Least(FreeWaiting)
             profile == Profiles[r][thread[r].i]
             keep == thread[r].keep \/ profile.keep \/ ~profile.use_transcoding
  <2>1. /\ \A k \in Job \ {r} : thread'[k] = thread[k]
        /\ \/ /\ thread'[r].pc = "wait" /\ thread'[r].tidx = thread[r].tidx
              /\ thread'[r].rid = rid
              /\ wtrans' = IF rid = -1 THEN wtrans ELSE [wtrans EXCEPT ![rid] = r]
           \/ /\ thread'[r].pc = "profile" /\ thread'[r].tidx = -1
              /\ thread'[r].rid = -1
              /\ wtrans' = wtrans
    <3>1. CASE profile.use_transcoding
      <4>1. /\ thread' = [thread EXCEPT ![r] = [@ EXCEPT !.pc = "wait", !.keep = keep, !.rid = rid]]
            /\ wtrans' = IF rid = -1 THEN wtrans ELSE [wtrans EXCEPT ![rid] = r]
        BY <1>3, <3>1 DEF NextProfile
      <4>2. QED
        BY <1>1, <4>1 DEF Thread
    <3>2. CASE ~profile.use_transcoding
      <4>1. /\ thread' = [thread EXCEPT ![r] = [Returned(@, "off") EXCEPT !.keep = keep]]
            /\ wtrans' = wtrans
        BY <1>3, <3>2 DEF NextProfile
      <4>2. QED
        BY <1>1, <4>1 DEF Thread, Returned
    <3>3. QED
      BY <3>1, <3>2
  <2>2. WaitingListed'
    <3>1. CASE thread'[r].rid = -1 /\ wtrans' = wtrans
      BY <1>1, <2>1, <3>1, Constants DEF TableInv, WaitingListed
    <3>2. CASE rid \in FreeWaiting /\ thread'[r].rid = rid /\ wtrans' = [wtrans EXCEPT ![rid] = r]
      <4>1. \A k \in Recording \ {r} : thread[k].rid # rid
        BY <3>2, Constants DEF TableInv, WaitingListed, FreeWaiting
      <4>2. \A k \in Recording : k # r => thread'[k] = thread[k]
        BY <2>1, Constants
      <4>3. \A k \in Recording : thread[k].rid \in {-1} \cup WSlot
        BY <1>1, Constants DEF Thread
      <4>4. QED
        BY <1>1, <3>2, <4>1, <4>2, <4>3 DEF TableInv, WaitingListed, FreeWaiting
    <3>3. QED
      BY <2>1, <3>1, <3>2, SlotsTyped, Constants DEF FreeWaiting
  <2>3. thread[r].pc = "profile"
    BY <1>3 DEF NextProfile, At
  <2>4. SlotsMatch' /\ ReapedIsSeen'
    BY <1>2, <2>1, <2>3
  <2>5. QED
    BY <2>2, <2>4 DEF TableInv
<1>4. CASE StartProcess(r)
  <2>1. /\ thread'[r].rid = -1 /\ thread'[r].pc \in {"profile", "forked"}
        /\ thread'[r].tidx \in {-1, thread[r].tidx}
        /\ \A k \in Job \ {r} : thread'[k] = thread[k]
    <3>1. CASE \E outcome \in Outcome : Return(r, outcome)
      BY <1>1, <3>1, ReturnOwn
    <3>2. CASE thread' = [thread EXCEPT ![r].pc = "forked", ![r].rid = -1]
      BY <1>1, <3>2 DEF Thread
    <3>3. QED
      BY <1>4, <3>1, <3>2 DEF StartProcess, Outcome
  <2>2. WaitingListed'
    BY <1>1, <1>4, <2>1, Constants DEF TableInv, WaitingListed, StartProcess
  <2>3. thread[r].pc = "wait"
    BY <1>4 DEF StartProcess, At
  <2>4. SlotsMatch' /\ ReapedIsSeen'
    BY <1>2, <2>1, <2>3
  <2>5. QED
    BY <2>2, <2>4 DEF TableInv
<1>5. QED
  BY <1>3, <1>4

(* The table of processes: likewise. *)
LEMMA ProcessSteps ==
  ASSUME TypeOK, TableInv, NEW j \in Job,
         RecordOngoing(j) \/ Wait4(j) \/ Watchdog(j) \/ ForgetOngoing(j)
  PROVE  TableInv'
<1>1. /\ ongoing \in [Slot -> Job \cup {NoJob}] /\ wtrans' = wtrans
      /\ thread \in [Job -> Thread] /\ thread[j] \in Thread
  BY DEF RecordOngoing, Wait4, Watchdog, ForgetOngoing, TypeOK, tables
<1>2. CASE RecordOngoing(j)
  <2>1. thread[j].pc = "forked"
    BY <1>2 DEF RecordOngoing, At
  <2>2. CASE FreeSlots = {}
    BY <1>2, <2>1, <2>2, OutsideTable DEF RecordOngoing, tables, Outcome
  <2>3. CASE FreeSlots # {}
    <3> DEFINE s == Least(FreeSlots)
    <3>1. s \in Slot /\ ongoing[s] = NoJob /\ s # -1
      BY <2>3, SlotsTyped, Constants DEF FreeSlots
    <3>2. ongoing' = [ongoing EXCEPT ![s] = j]
      BY <1>2, <2>3 DEF RecordOngoing
    <3>3. /\ thread'[j].pc = "run" /\ thread'[j].tidx = s /\ thread'[j].rid = thread[j].rid
          /\ \A k \in Job \ {j} : thread'[k] = thread[k]
      <4>1. thread' = [thread EXCEPT ![j].pc = "run", ![j].tidx = s]
        BY <1>2, <2>3 DEF RecordOngoing
      <4>2. QED
        BY <1>1, <4>1 DEF Thread
    <3>4. SlotsMatch'
      BY <1>1, <2>1, <3>1, <3>2, <3>3, Constants DEF TableInv, SlotsMatch
    <3>5. WaitingListed'
      BY <1>1, <3>3, Constants DEF TableInv, WaitingListed
    <3>6. ReapedIsSeen'
      BY <3>3 DEF TableInv, ReapedIsSeen
    <3>7. QED
      BY <3>4, <3>5, <3>6 DEF TableInv
  <2>4. QED
    BY <2>2, <2>3
<1>3. CASE Wait4(j) \/ Watchdog(j)
  <2>1. /\ thread'[j].pc = "reap" /\ thread'[j].saw # "-"
        /\ thread'[j].tidx = thread[j].tidx /\ thread'[j].rid = thread[j].rid
        /\ \A k \in Job \ {j} : thread'[k] = thread[k]
    <3>1. PICK saw \in {"ok", "bad", "hung"} : thread' = [thread EXCEPT ![j].pc = "reap", ![j].saw = saw]
      BY <1>3 DEF Wait4, Watchdog
    <3>2. QED
      BY <1>1, <3>1 DEF Thread
  <2>2. SlotsMatch' /\ WaitingListed'
    BY <1>3, <2>1, SameTables DEF TableInv, Wait4, Watchdog
  <2>3. ReapedIsSeen'
    BY <2>1 DEF TableInv, ReapedIsSeen
  <2>4. QED
    BY <2>2, <2>3 DEF TableInv
<1>4. CASE ForgetOngoing(j)
  <2>1. ongoing' = [ongoing EXCEPT ![thread[j].tidx] = NoJob]
    BY <1>4 DEF ForgetOngoing
  <2>2. /\ thread'[j].tidx = -1 /\ thread'[j].pc # "reap" /\ thread'[j].rid \in {-1, thread[j].rid}
        /\ \A k \in Job \ {j} : thread'[k] = thread[k]
    <3>1. CASE \E outcome \in Outcome : Leave(j, outcome)
      BY <3>1, LeaveOwn, ReturnOwn
    <3>2. CASE thread' = [thread EXCEPT ![j].pc = "move", ![j].tidx = -1]
      BY <1>1, <3>2 DEF Thread
    <3>3. thread[j].saw \in {"ok", "bad", "hung"}
      BY <1>1, <1>4 DEF Thread, TableInv, ReapedIsSeen, ForgetOngoing, At
    <3>4. QED
      BY <1>4, <3>1, <3>2, <3>3 DEF ForgetOngoing, Outcome
  <2>3. SlotsMatch'
    <3>1. \A k \in Job : k # j => thread[k].tidx = -1 \/ thread[k].tidx # thread[j].tidx
      BY Constants DEF TableInv, SlotsMatch
    <3>2. \A k \in Job : thread[k].tidx \in {-1} \cup Slot
      BY <1>1 DEF Thread
    <3>3. -1 \notin Slot
      BY Constants
    <3>4. QED
      BY <1>1, <2>1, <2>2, <3>1, <3>2, <3>3, Constants DEF TableInv, SlotsMatch
  <2>4. WaitingListed'
    BY <1>1, <2>2, Constants DEF TableInv, WaitingListed
  <2>5. ReapedIsSeen'
    BY <2>2 DEF TableInv, ReapedIsSeen
  <2>6. QED
    BY <2>3, <2>4, <2>5 DEF TableInv
<1>5. QED
  BY <1>2, <1>3, <1>4

(* What holds in every state: types, the range of the kill command and the two tables. *)
BaseInv == TypeOK /\ KillerInRange /\ TableInv

(* BaseInv is inductive. *)
LEMMA BaseKept ==
  ASSUME BaseInv, [Next]_vars
  PROVE  BaseInv'
<1> USE DEF BaseInv
<1>1. ASSUME UNCHANGED killer
      PROVE  KillerInRange'
  BY <1>1 DEF KillerInRange
<1>2. ASSUME NEW r \in Recording, EndRecording(r)
      PROVE  BaseInv'
  <2>1. PICK pc \in {"profile", "done"} : Goto(r, pc)
    BY <1>2 DEF EndRecording
  <2>2. thread' \in [Job -> Thread]
    BY <2>1, Constants, ThreadTyped DEF Pc
  <2>3. TypeOK'
    BY <1>2, <2>2 DEF EndRecording, TypeOK, tables, files
  <2>4. TableInv'
    BY <1>2, <2>1, Constants, OutsideTable DEF EndRecording, At, Pc
  <2>5. QED
    BY <1>1, <1>2, <2>3, <2>4 DEF EndRecording
<1>3. ASSUME NEW f \in FileJob, TranscodeFile(f)
      PROVE  BaseInv'
  <2>1. thread' \in [Job -> Thread]
    BY <1>3, Constants, ThreadTyped DEF TranscodeFile, Pc
  <2>2. TypeOK'
    BY <1>3, <2>1 DEF TranscodeFile, TypeOK, tables, files
  <2>3. TableInv'
    BY <1>3, Constants, OutsideTable DEF TranscodeFile, At, Pc
  <2>4. QED
    BY <1>1, <1>3, <2>2, <2>3 DEF TranscodeFile
<1>4. ASSUME NEW j \in Job, ProcessEnds(j)
      PROVE  BaseInv'
  <2>1. TypeOK'
    BY <1>4 DEF ProcessEnds, TypeOK, tables, files, Process
  <2>2. QED
    BY <1>1, <1>4, <2>1, NoThread DEF ProcessEnds
<1>5. ASSUME NEW r \in Recording, RecordingStep(r)
      PROVE  BaseInv'
  <2>1. UNCHANGED killer
    BY <1>5 DEF RecordingStep, NextProfile, StartProcess, Finish, ChooseMp2, ChooseName,
      MoveMp2, MoveMp2Fails
  <2>2. CASE NextProfile(r) \/ StartProcess(r)
    BY <1>1, <1>5, <2>1, <2>2, RecordingTyped, WaitingSteps
  <2>3. CASE Finish(r) \/ MoveMp2(r) \/ MoveMp2Fails(r)
    <3>1. UNCHANGED tables /\ thread[r].pc \notin {"run", "reap"}
      BY <2>3 DEF Finish, MoveMp2, MoveMp2Fails, At, AllTried
    <3>2. \E pc \in Pc \ {"reap"} : Goto(r, pc)
      BY <2>3 DEF Finish, MoveMp2, MoveMp2Fails, Pc
    <3>3. TableInv'
      BY <3>1, <3>2, Constants, OutsideTable
    <3>4. QED
      BY <1>1, <1>5, <2>1, <3>3, RecordingTyped
  <2>4. CASE ChooseMp2(r)
    <3>1. TableInv'
      BY <2>4, Constants, NameSteps DEF ChooseMp2, At, Pc
    <3>2. QED
      BY <1>1, <1>5, <2>1, <3>1, RecordingTyped
  <2>5. QED
    BY <1>5, <2>2, <2>3, <2>4 DEF RecordingStep
<1>6. ASSUME NEW f \in FileJob, FileStep(f)
      PROVE  BaseInv'
  <2>1. UNCHANGED killer /\ UNCHANGED tables /\ thread[f].pc \notin {"run", "reap"}
    BY <1>6 DEF FileStep, FileMayStart, CheckDir, MakeDir, LinkFile, StartFileProcess,
      CleanDir, RemoveDir, At
  <2>2. \E pc \in Pc \ {"reap"} : Goto(f, pc)
    BY <1>6 DEF FileStep, FileMayStart, CheckDir, MakeDir, LinkFile, StartFileProcess,
      CleanDir, RemoveDir, Pc
  <2>3. TableInv'
    BY <2>1, <2>2, Constants, OutsideTable
  <2>4. QED
    BY <1>1, <1>6, <2>1, <2>3, FileTyped
<1>7. ASSUME NEW j \in Job, JobStep(j)
      PROVE  BaseInv'
  <2>1. UNCHANGED killer
    BY <1>7 DEF JobStep, GiveUp, RecordOngoing, Wait4, Watchdog, ForgetOngoing, ChooseMp4,
      ChooseName, MoveMp4, MoveMp4Fails
  <2>2. TypeOK'
    BY <1>7, JobTyped DEF TableInv
  <2>3. CASE RecordOngoing(j) \/ Wait4(j) \/ Watchdog(j) \/ ForgetOngoing(j)
    BY <1>1, <2>1, <2>2, <2>3, ProcessSteps
  <2>4. CASE GiveUp(j) \/ MoveMp4(j) \/ MoveMp4Fails(j)
    <3>1. UNCHANGED tables /\ thread[j].pc \notin {"run", "reap"}
      BY <2>4 DEF GiveUp, MoveMp4, MoveMp4Fails, At
    <3>2. \E outcome \in Outcome : Leave(j, outcome) \/ Moved(j, outcome)
      BY <2>4 DEF GiveUp, MoveMp4, MoveMp4Fails, Outcome
    <3>3. TableInv'
      BY <3>1, <3>2, OutsideTable
    <3>4. QED
      BY <1>1, <2>1, <2>2, <3>3
  <2>5. CASE ChooseMp4(j)
    BY <1>1, <2>1, <2>2, <2>5, NameSteps DEF ChooseMp4, At, Pc
  <2>6. QED
    BY <1>7, <2>3, <2>4, <2>5 DEF JobStep
<1>8. CASE Kill
  <2>1. UNCHANGED <<thread, tables>>
    BY <1>8 DEF Kill, KillOne, KillAll, KillFrom, KillStop, KillKill
  <2>2. QED
    BY <1>8, <2>1, KillTyped, NoThread
<1>9. CASE UNCHANGED vars
  BY <1>9, NoThread DEF vars, TypeOK, KillerInRange, tables
<1>10. QED
  BY <1>2, <1>3, <1>4, <1>5, <1>6, <1>7, <1>8, <1>9, Steps

(* In every state of every run. *)
LEMMA BaseHolds == Spec => []BaseInv
<1>1. Init => BaseInv
  <2> SUFFICES ASSUME Init
               PROVE  BaseInv
    OBVIOUS
  <2>1. TypeOK /\ KillerInRange
    BY Constants DEF Init, TypeOK, KillerInRange, Thread, Pc, Process, NoKill
  <2>2. TableInv
    BY Constants DEF Init, TableInv, ReapedIsSeen, SlotsMatch, WaitingListed
  <2>3. QED
    BY <2>1, <2>2 DEF BaseInv
<1>2. BaseInv /\ [Next]_vars => BaseInv'
  BY BaseKept
<1>3. QED
  BY <1>1, <1>2, PTL DEF Spec

(* Every variable keeps its type: no index leaves its table, no file name its bound. *)
THEOREM TypeCorrect == Spec => []TypeOK
<1>1. BaseInv => TypeOK
  BY DEF BaseInv
<1>2. QED
  BY <1>1, BaseHolds, PTL

(***************************************************************************)
(* A slot of ongoing_transcodings belongs to the thread that remembers it, *)
(* and to no other, from record_ongoingtranscoding to                      *)
(* forget_ongoingtranscoding.                                              *)
(***************************************************************************)
THEOREM SlotsAgree == Spec => []SlotsMatch
<1>1. BaseInv => SlotsMatch
  BY DEF BaseInv, TableInv
<1>2. QED
  BY <1>1, BaseHolds, PTL

(* A thread keeps the slot it waits in until it goes on. *)
THEOREM WaitingIsListed == Spec => []WaitingListed
<1>1. BaseInv => WaitingListed
  BY DEF BaseInv, TableInv
<1>2. QED
  BY <1>1, BaseHolds, PTL

-----------------------------------------------------------------------------
(* A step of a thread changes nothing of what the other threads know, nor their processes. *)

LEMMA ForgetsOwn ==
  ASSUME TypeOK, ReapedIsSeen, NEW j \in Job, ForgetOngoing(j)
  PROVE  \/ thread[j].saw = "ok" /\ thread' = [thread EXCEPT ![j].pc = "move", ![j].tidx = -1]
         \/ thread[j].saw = "ok" /\ j \in Recording /\ Leave(j, "failed")
         \/ thread[j].saw = "bad" /\ Leave(j, "failed")
         \/ thread[j].saw = "hung" /\ Leave(j, "hung")
<1>1. thread[j].saw \in {"ok", "bad", "hung"}
  BY DEF TypeOK, Thread, ReapedIsSeen, ForgetOngoing, At
<1>2. QED
  BY <1>1 DEF ForgetOngoing

(* ... whatever the step. *)
LEMMA OwnStep ==
  ASSUME TypeOK, ReapedIsSeen, NEW j \in Job,
         \/ EndRecording(j) \/ RecordingStep(j) \/ TranscodeFile(j) \/ FileStep(j) \/ JobStep(j)
  PROVE  \A k \in Job \ {j} : thread'[k] = thread[k] /\ proc'[k] = proc[k]
<1>1. /\ thread \in [Job -> Thread] /\ thread[j] \in Thread
      /\ proc \in [Job -> Process]
  BY DEF TypeOK
<1> SUFFICES ASSUME NEW k \in Job \ {j}
             PROVE  thread'[k] = thread[k] /\ proc'[k] = proc[k]
  OBVIOUS
<1>2. /\ \A pc \in Pc : Goto(j, pc) => thread'[k] = thread[k]
      /\ \A outcome \in Outcome : Return(j, outcome) => thread'[k] = thread[k]
      /\ \A outcome \in Outcome : Leave(j, outcome) => thread'[k] = thread[k]
      /\ \A outcome \in Outcome : Moved(j, outcome) => thread'[k] = thread[k]
      /\ \A dir, pc : ChooseName(j, dir, pc) => thread'[k] = thread[k]
  <2>1. \A t : thread' = [thread EXCEPT ![j] = t] => thread'[k] = thread[k]
    BY <1>1
  <2>2. QED
    BY <1>1, GotoOwn, ReturnOwn, LeaveOwn DEF Moved, Pc, ChooseName
<1>3. CASE EndRecording(j) \/ TranscodeFile(j) \/ FileStep(j)
  <2>1. \E pc \in Pc : Goto(j, pc)
    BY <1>3 DEF EndRecording, TranscodeFile, FileStep, FileMayStart, CheckDir, MakeDir, LinkFile,
      StartFileProcess, CleanDir, RemoveDir, Pc
  <2>2. proc'[k] = proc[k]
    BY <1>1, <1>3 DEF EndRecording, TranscodeFile, FileStep, FileMayStart, CheckDir, MakeDir,
      LinkFile, StartFileProcess, CleanDir, RemoveDir
  <2>3. QED
    BY <1>2, <2>1, <2>2
<1>4. CASE RecordingStep(j)
  <2>1. proc'[k] = proc[k]
    BY <1>1, <1>4 DEF RecordingStep, NextProfile, StartProcess, Finish, ChooseMp2, ChooseName,
      MoveMp2, MoveMp2Fails
  <2>2. CASE NextProfile(j) \/ StartProcess(j)
    <3>1. thread'[k] = thread[k]
      BY <1>1, <2>2 DEF NextProfile, StartProcess, Return
    <3>2. QED
      BY <2>1, <3>1
  <2>3. CASE ChooseMp2(j)
    BY <1>2, <2>1, <2>3 DEF ChooseMp2
  <2>4. CASE Finish(j) \/ MoveMp2(j) \/ MoveMp2Fails(j)
    BY <1>2, <2>1, <2>4 DEF Finish, MoveMp2, MoveMp2Fails, Pc
  <2>5. QED
    BY <1>4, <2>2, <2>3, <2>4 DEF RecordingStep
<1>5. CASE JobStep(j)
  <2>1. proc'[k] = proc[k]
    BY <1>1, <1>5 DEF JobStep, GiveUp, RecordOngoing, Wait4, Watchdog, ForgetOngoing, ChooseMp4,
      ChooseName, MoveMp4, MoveMp4Fails
  <2>2. CASE GiveUp(j) \/ MoveMp4(j) \/ MoveMp4Fails(j)
    BY <1>2, <2>1, <2>2 DEF GiveUp, MoveMp4, MoveMp4Fails, Outcome
  <2>3. CASE RecordOngoing(j) \/ Wait4(j) \/ Watchdog(j)
    BY <1>1, <1>2, <2>1, <2>3 DEF RecordOngoing, Wait4, Watchdog, Outcome
  <2>4. CASE ForgetOngoing(j)
    BY <1>1, <1>2, <2>1, <2>4, ForgetsOwn DEF Outcome
  <2>5. CASE ChooseMp4(j)
    BY <1>2, <2>1, <2>5 DEF ChooseMp4
  <2>6. QED
    BY <1>5, <2>2, <2>3, <2>4, <2>5 DEF JobStep
<1>6. QED
  BY <1>3, <1>4, <1>5

-----------------------------------------------------------------------------
(* Directories. *)

(* What a thread of a file knows of its process in each of its places. *)
SeenInv ==
  \A f \in FileJob :
    /\ thread[f].pc \in {"move", "rename", "clean", "rmdir"} => thread[f].saw = "ok"
    /\ thread[f].pc \in {"idle", "wait", "stat", "mkdir", "link", "fork", "forked", "run"} =>
         thread[f].saw # "ok"
    /\ thread[f].saw = "ok" => proc[f] = "none"

(* Whoever works in a directory has its link there, unless another has removed it. *)
LinkedInv ==
  \A f \in FileJob : InDir(f) /\ f \notin links =>
    \E h \in FileJob \ {f} : NameOf[h] = NameOf[f] /\ Removes(h)

(* There is one link of a file in its directory. *)
OneLink == \A f, g \in links : FileOf[f] = FileOf[g] => f = g

DirInv == SeenInv /\ LinkedInv /\ OneLink

(* Exclusion follows: of two with one file in a directory one has lost its link to a third. *)
LEMMA DirInvExcludes == DirInv => DirExclusive
<1> SUFFICES ASSUME DirInv, NEW f \in FileJob, NEW g \in FileJob,
                    f # g, NameOf[f] = NameOf[g], FileOf[f] = FileOf[g], InDir(f), InDir(g)
             PROVE  \E h \in FileJob \ {f, g} : NameOf[h] = NameOf[f] /\ Removes(h)
  BY DEF DirExclusive
<1>1. ~Removes(f) /\ ~Removes(g)
  BY DEF DirInv, SeenInv, InDir, Removes
<1>2. CASE f \notin links
  BY <1>1, <1>2 DEF DirInv, LinkedInv
<1>3. CASE g \notin links
  BY <1>1, <1>3 DEF DirInv, LinkedInv
<1>4. f \notin links \/ g \notin links
  BY DEF DirInv, OneLink
<1>5. QED
  BY <1>2, <1>3, <1>4

(* What a step of one thread must respect for the links to go on to account for the directories. *)
LEMMA LinkedKept ==
  ASSUME LinkedInv, NEW f \in FileJob,
         \A k \in FileJob \ {f} : thread'[k] = thread[k] /\ proc'[k] = proc[k],
         Removes(f) => Removes(f)',
         InDir(f)' => f \in links' \/ (InDir(f) /\ f \notin links),
         \A k \in links \ {f} : k \in links' \/ (NameOf[k] = NameOf[f] /\ Removes(f)')
  PROVE  LinkedInv'
<1>1. \A h \in FileJob : Removes(h) => Removes(h)'
  BY DEF Removes
<1>2. \A k \in FileJob \ {f} : InDir(k)' => InDir(k)
  BY DEF InDir
<1> SUFFICES ASSUME NEW k \in FileJob, InDir(k)', k \notin links'
             PROVE  \E h \in FileJob \ {k} : NameOf[h] = NameOf[k] /\ Removes(h)'
  BY DEF LinkedInv
<1>3. CASE k = f
  BY <1>1, <1>3 DEF LinkedInv
<1>4. CASE k # f
  BY <1>1, <1>2, <1>4 DEF LinkedInv
<1>5. QED
  BY <1>3, <1>4

(* Steps that leave the threads of files, their processes and the links alone, ... *)
LEMMA NoDir ==
  ASSUME DirInv, links' = links,
         \A f \in FileJob : thread'[f] = thread[f] /\
           (proc'[f] = proc[f] \/ (proc[f] # "none" /\ (proc'[f] \in {"running", "stopped"} => InDir(f))))
  PROVE  DirInv'
<1>1. \A f \in FileJob : (Removes(f)' <=> Removes(f)) /\ (InDir(f)' => InDir(f))
  BY DEF InDir, Removes
<1>2. LinkedInv'
  BY <1>1 DEF DirInv, LinkedInv
<1>3. SeenInv'
  BY DEF DirInv, SeenInv
<1>4. OneLink'
  BY DEF DirInv, OneLink
<1>5. QED
  BY <1>2, <1>3, <1>4 DEF DirInv

(* The steps of the thread of a file that goes its own way, ... *)
LEMMA FileKeepsDir ==
  ASSUME BaseInv, DirInv, NEW f \in FileJob, TranscodeFile(f) \/ FileStep(f)
  PROVE  DirInv'
<1>1. TypeOK /\ ReapedIsSeen /\ f \in Job /\ thread[f] \in Thread /\ proc \in [Job -> Process]
  BY Constants DEF BaseInv, TableInv, TypeOK
<1>2. \A k \in FileJob \ {f} : thread'[k] = thread[k] /\ proc'[k] = proc[k]
  BY <1>1, OwnStep, Constants
<1>3. PICK pc \in Pc : Goto(f, pc)
  BY DEF TranscodeFile, FileStep, FileMayStart, CheckDir, MakeDir, LinkFile, StartFileProcess,
    CleanDir, RemoveDir, Pc
<1>4. thread'[f].pc = pc /\ thread'[f].saw = thread[f].saw
  BY <1>1, <1>3, GotoOwn
<1>5. CASE CleanDir(f)
  <2>1. /\ thread[f].pc = "clean" /\ pc \in {"clean", "rmdir"} /\ proc' = proc
        /\ links' = {g \in links : NameOf[g] # NameOf[f]}
    BY <1>4, <1>1, <1>5, GotoOwn DEF CleanDir, At
  <2>2. Removes(f)' /\ ~InDir(f)' /\ thread[f].saw = "ok"
    BY <1>4, <2>1 DEF DirInv, SeenInv, Removes, InDir
  <2>3. LinkedInv'
    BY <1>2, <2>1, <2>2, LinkedKept DEF DirInv
  <2>4. SeenInv'
    BY <1>2, <1>4, <2>1 DEF DirInv, SeenInv
  <2>5. OneLink'
    BY <2>1 DEF DirInv, OneLink
  <2>6. QED
    BY <2>3, <2>4, <2>5 DEF DirInv
<1>6. CASE LinkFile(f)
  <2>1. thread[f].pc = "link" /\ proc' = proc
    BY <1>6 DEF LinkFile, At
  <2>2. \/ pc = "done" /\ links' = links
        \/ /\ pc = "fork" /\ links' = links \cup {f}
           /\ \A g \in links : FileOf[g] # FileOf[f]
    BY <1>1, <1>4, <1>6, GotoOwn DEF LinkFile
  <2>3. thread[f].saw # "ok"
    BY <2>1 DEF DirInv, SeenInv
  <2>4. LinkedInv'
    BY <1>2, <1>4, <2>1, <2>2, <2>3, LinkedKept DEF DirInv, Removes, InDir
  <2>5. SeenInv'
    BY <1>2, <1>4, <2>1, <2>2, <2>3 DEF DirInv, SeenInv
  <2>6. OneLink'
    BY <2>2 DEF DirInv, OneLink
  <2>7. QED
    BY <2>4, <2>5, <2>6 DEF DirInv
<1>7. CASE StartFileProcess(f)
  <2>1. thread[f].pc = "fork" /\ links' = links
    BY <1>7 DEF StartFileProcess, At, files
  <2>2. \/ pc = "done" /\ proc' = proc
        \/ pc = "forked" /\ proc' = [proc EXCEPT ![f] = "running"]
    BY <1>1, <1>4, <1>7, GotoOwn DEF StartFileProcess
  <2>3. thread[f].saw # "ok"
    BY <2>1 DEF DirInv, SeenInv
  <2>4. LinkedInv'
    BY <1>1, <1>2, <1>4, <2>1, <2>2, <2>3, LinkedKept DEF DirInv, Removes, InDir
  <2>5. SeenInv'
    BY <1>1, <1>2, <1>4, <2>1, <2>2, <2>3 DEF DirInv, SeenInv
  <2>6. OneLink'
    BY <2>1 DEF DirInv, OneLink
  <2>7. QED
    BY <2>4, <2>5, <2>6 DEF DirInv
<1>8. CASE TranscodeFile(f) \/ FileMayStart(f) \/ CheckDir(f) \/ MakeDir(f) \/ RemoveDir(f)
  <2>1. links' = links /\ proc' = proc
    BY <1>8 DEF TranscodeFile, FileMayStart, CheckDir, MakeDir, RemoveDir, files
  <2>2. \/ /\ thread[f].pc \in {"idle", "wait", "stat", "mkdir"}
           /\ pc \in {"wait", "stat", "mkdir", "link", "done"}
        \/ thread[f].pc = "rmdir" /\ pc = "done"
    BY <1>1, <1>4, <1>8, GotoOwn DEF TranscodeFile, FileMayStart, CheckDir, MakeDir, RemoveDir, At
  <2>3. LinkedInv'
    BY <1>2, <1>4, <2>1, <2>2, LinkedKept DEF DirInv, SeenInv, Removes, InDir
  <2>4. SeenInv'
    BY <1>2, <1>4, <2>1, <2>2 DEF DirInv, SeenInv
  <2>5. OneLink'
    BY <2>1 DEF DirInv, OneLink
  <2>6. QED
    BY <2>3, <2>4, <2>5 DEF DirInv
<1>9. QED
  BY <1>5, <1>6, <1>7, <1>8 DEF FileStep

(* ... or one that both kinds of threads take, ... *)
LEMMA JobKeepsDir ==
  ASSUME BaseInv, DirInv, NEW f \in FileJob, JobStep(f)
  PROVE  DirInv'
<1>1. /\ TypeOK /\ ReapedIsSeen /\ f \in Job /\ f \notin Recording
      /\ thread \in [Job -> Thread] /\ thread[f] \in Thread /\ proc \in [Job -> Process]
  BY Constants DEF BaseInv, TableInv, TypeOK
<1>2. \A k \in FileJob \ {f} : thread'[k] = thread[k] /\ proc'[k] = proc[k]
  BY <1>1, OwnStep, Constants
<1>3. links' = links
  BY DEF JobStep, GiveUp, RecordOngoing, Wait4, Watchdog, ForgetOngoing, ChooseMp4, ChooseName,
    MoveMp4, MoveMp4Fails, files
<1>4. \A outcome \in Outcome :
        Leave(f, outcome) => thread'[f].pc = "done" /\ thread'[f].saw = thread[f].saw
  BY <1>1, LeaveOwn
<1>5. OneLink'
  BY <1>3 DEF DirInv, OneLink
<1>6. ASSUME Removes(f) => Removes(f)', InDir(f)' => InDir(f)
      PROVE  LinkedInv'
  BY <1>2, <1>3, <1>6, LinkedKept DEF DirInv
<1>7. CASE GiveUp(f)
  <2>1. /\ thread[f].pc = "wait" /\ proc' = proc
        /\ thread'[f].pc = "done" /\ thread'[f].saw = thread[f].saw
    BY <1>4, <1>7 DEF GiveUp, At, Outcome
  <2>2. LinkedInv'
    BY <1>6, <2>1 DEF Removes, InDir
  <2>3. SeenInv'
    BY <1>2, <2>1 DEF DirInv, SeenInv
  <2>4. QED
    BY <1>5, <2>2, <2>3 DEF DirInv
<1>8. CASE RecordOngoing(f)
  <2>1. /\ thread[f].pc = "forked" /\ proc' = proc
        /\ thread'[f].pc \in {"run", "done"} /\ thread'[f].saw = thread[f].saw
    <3>1. CASE FreeSlots = {}
      BY <1>4, <1>8, <3>1 DEF RecordOngoing, At, Outcome
    <3>2. CASE FreeSlots # {}
      BY <1>1, <1>8, <3>2 DEF RecordOngoing, At, Thread
    <3>3. QED
      BY <3>1, <3>2
  <2>2. LinkedInv'
    BY <1>6, <2>1 DEF Removes, InDir
  <2>3. SeenInv'
    BY <1>2, <2>1 DEF DirInv, SeenInv
  <2>4. QED
    BY <1>5, <2>2, <2>3 DEF DirInv
<1>9. CASE Wait4(f) \/ Watchdog(f)
  <2>1. /\ thread[f].pc = "run" /\ thread'[f].pc = "reap"
        /\ thread'[f].saw = "ok" => proc'[f] = "none"
    BY <1>1, <1>9 DEF Wait4, Watchdog, At, Thread
  <2>2. LinkedInv'
    BY <1>6, <2>1 DEF Removes, InDir
  <2>3. SeenInv'
    BY <1>2, <2>1 DEF DirInv, SeenInv
  <2>4. QED
    BY <1>5, <2>2, <2>3 DEF DirInv
<1>10. CASE ForgetOngoing(f)
  <2>1. thread[f].pc = "reap" /\ (proc'[f] = proc[f] \/ (proc'[f] = "killed" /\ proc[f] # "none"))
    BY <1>1, <1>10 DEF ForgetOngoing, At
  <2>2. \/ /\ thread[f].saw = "ok" /\ thread'[f].saw = "ok"
           /\ thread'[f].pc = "move"
        \/ /\ thread[f].saw # "ok" /\ thread'[f].saw # "ok"
           /\ thread'[f].pc = "done"
    <3>1. CASE thread' = [thread EXCEPT ![f].pc = "move", ![f].tidx = -1] /\ thread[f].saw = "ok"
      BY <1>1, <3>1 DEF Thread
    <3>2. QED
      BY <1>1, <1>4, <1>10, <3>1, ForgetsOwn DEF Outcome
  <2>3. LinkedInv'
    BY <1>6, <2>1, <2>2 DEF Removes, InDir
  <2>4. SeenInv'
    BY <1>2, <2>1, <2>2 DEF DirInv, SeenInv
  <2>5. QED
    BY <1>5, <2>3, <2>4 DEF DirInv
<1>11. CASE ChooseMp4(f) \/ MoveMp4(f) \/ MoveMp4Fails(f)
  <2>1. /\ thread[f].pc \in {"move", "rename"} /\ proc' = proc
        /\ thread'[f].pc \in {"rename", "clean"} /\ thread'[f].saw = thread[f].saw
    <3>1. CASE ChooseMp4(f)
      BY <1>1, <3>1 DEF ChooseMp4, ChooseName, At, Thread
    <3>2. CASE MoveMp4(f) \/ MoveMp4Fails(f)
      <4>1. Goto(f, "clean") /\ thread[f].pc \in {"move", "rename"} /\ proc' = proc
        BY <1>1, <3>2 DEF MoveMp4, MoveMp4Fails, Moved, At
      <4>2. QED
        BY <1>1, <4>1, GotoOwn
    <3>3. QED
      BY <1>11, <3>1, <3>2
  <2>2. LinkedInv'
    BY <1>6, <2>1 DEF Removes, InDir
  <2>3. SeenInv'
    BY <1>2, <2>1 DEF DirInv, SeenInv
  <2>4. QED
    BY <1>5, <2>2, <2>3 DEF DirInv
<1>12. QED
  BY <1>7, <1>8, <1>9, <1>10, <1>11 DEF JobStep

(***************************************************************************)
(* Two threads that transcode one file never work in the same directory,   *)
(* for any number of threads, unless a third one is removing it: between   *)
(* the stat and the symlink of a thread anything may happen but that the   *)
(* link of another to that file stays and is overlooked.  Of files that    *)
(* differ in their suffix nothing is said: they share the directory.       *)
(***************************************************************************)
THEOREM DirectoriesExclusive == Spec => []DirExclusive
<1>1. Init => DirInv
  <2> SUFFICES ASSUME Init
               PROVE  DirInv
    OBVIOUS
  <2>1. links = {} /\ \A f \in FileJob :
          thread[f].pc = "idle" /\ thread[f].saw = "-" /\ proc[f] = "none"
    BY Constants DEF Init
  <2>2. QED
    BY <2>1 DEF DirInv, SeenInv, LinkedInv, OneLink, InDir
<1>2. BaseInv /\ DirInv /\ [Next]_vars => DirInv'
  <2> SUFFICES ASSUME BaseInv, DirInv, [Next]_vars
               PROVE  DirInv'
    OBVIOUS
  <2>1. TypeOK /\ ReapedIsSeen /\ proc \in [Job -> Process]
    BY DEF BaseInv, TableInv, TypeOK
  <2>2. ASSUME NEW r \in Recording, EndRecording(r) \/ RecordingStep(r) \/ JobStep(r)
        PROVE  DirInv'
    <3>1. r \in Job /\ \A f \in FileJob : f \in Job \ {r}
      BY Constants
    <3>2. \A f \in FileJob : thread'[f] = thread[f] /\ proc'[f] = proc[f]
      BY <2>1, <2>2, <3>1, OwnStep
    <3>3. links' = links
      BY <2>2 DEF EndRecording, RecordingStep, NextProfile, StartProcess, Finish, ChooseMp2,
        ChooseName, MoveMp2, MoveMp2Fails, JobStep, GiveUp, RecordOngoing, Wait4, Watchdog,
        ForgetOngoing, ChooseMp4, MoveMp4, MoveMp4Fails, files
    <3>4. QED
      BY <3>2, <3>3, NoDir
  <2>3. ASSUME NEW j \in Job, ProcessEnds(j)
        PROVE  DirInv'
    BY <2>1, <2>3, Constants, NoDir DEF ProcessEnds, files
  <2>4. CASE Kill
    <3>1. thread' = thread /\ links' = links
      BY <2>4 DEF Kill, KillOne, KillAll, KillFrom, KillStop, KillKill, files
    <3>2. \A j \in Job : proc'[j] = proc[j] \/
            (proc[j] \in {"running", "stopped"} /\ proc'[j] \in {"stopped", "killed"})
      BY <2>1, <2>4 DEF Kill, KillOne, KillAll, KillFrom, KillStop, KillKill
    <3>3. QED
      BY <3>1, <3>2, Constants, NoDir DEF InDir
  <2>5. CASE UNCHANGED vars
    BY <2>5, NoDir DEF vars
  <2>6. QED
    BY <2>2, <2>3, <2>4, <2>5, Steps, FileKeepsDir, JobKeepsDir DEF Job
<1>3. QED
  BY <1>1, <1>2, BaseHolds, DirInvExcludes, PTL DEF Spec

-----------------------------------------------------------------------------
(* The MP2 files of recordings. *)

(***************************************************************************)
(* The variable transcoding_problem remembers every failure, and the file  *)
(* is moved or deleted only without one and by a thread that then ends.    *)
(***************************************************************************)
Mp2Inv ==
  \A r \in Recording :
    /\ (\E k \in DOMAIN thread[r].outcome : thread[r].outcome[k] = "failed") => thread[r].problem
    /\ thread[r].pc \in {"movemp2", "renamemp2"} => ~thread[r].problem
    /\ mp2[r] # "working" => thread[r].pc = "done" /\ ~thread[r].problem

(* Steps of a recording that leave its MP2 file where it is. *)
LEMMA Mp2Left ==
  ASSUME TypeOK, Mp2Inv, NEW r \in Recording, mp2' = mp2, thread[r].pc # "done",
         \A k \in Job \ {r} : thread'[k] = thread[k],
         \/ /\ thread'[r].problem = thread[r].problem /\ thread'[r].outcome = thread[r].outcome
            /\ thread'[r].pc \in {"movemp2", "renamemp2"} =>
                 thread[r].pc \in {"movemp2", "renamemp2"} \/ ~thread[r].problem
         \/ \E outcome \in Outcome :
              /\ thread'[r].pc = "profile"
              /\ thread'[r].problem = Problem(thread[r].problem, outcome)
              /\ thread'[r].outcome = Append(thread[r].outcome, outcome)
  PROVE  Mp2Inv'
<1>1. mp2[r] = "working" /\ thread[r].outcome \in Seq(Outcome)
  BY Constants DEF Mp2Inv, TypeOK, Thread
<1>2. \A k \in Recording \ {r} : thread'[k] = thread[k]
  BY Constants
<1>3. CASE /\ thread'[r].problem = thread[r].problem /\ thread'[r].outcome = thread[r].outcome
           /\ thread'[r].pc \in {"movemp2", "renamemp2"} =>
                thread[r].pc \in {"movemp2", "renamemp2"} \/ ~thread[r].problem
  BY <1>1, <1>2, <1>3 DEF Mp2Inv
<1>4. ASSUME NEW outcome \in Outcome, thread'[r].pc = "profile",
             thread'[r].problem = Problem(thread[r].problem, outcome),
             thread'[r].outcome = Append(thread[r].outcome, outcome)
      PROVE  Mp2Inv'
  <2>1. (\E k \in DOMAIN thread'[r].outcome : thread'[r].outcome[k] = "failed") =>
          \/ \E k \in DOMAIN thread[r].outcome : thread[r].outcome[k] = "failed"
          \/ outcome = "failed"
    BY <1>1, <1>4
  <2>2. QED
    BY <1>1, <1>2, <1>4, <2>1 DEF Mp2Inv, Problem
<1>5. QED
  BY <1>3, <1>4

(* The steps of the thread of a recording. *)
LEMMA RecordingKeepsMp2 ==
  ASSUME BaseInv, Mp2Inv, NEW r \in Recording, EndRecording(r) \/ RecordingStep(r) \/ JobStep(r)
  PROVE  Mp2Inv'
<1>1. /\ TypeOK /\ ReapedIsSeen /\ r \in Job /\ mp2 \in [Recording -> {"working", "kept", "deleted"}]
      /\ thread \in [Job -> Thread] /\ thread[r] \in Thread
  BY Constants DEF BaseInv, TableInv, TypeOK
<1>2. \A k \in Job \ {r} : thread'[k] = thread[k]
  BY <1>1, OwnStep
<1>3. ASSUME mp2' = mp2, thread[r].pc # "done",
             \/ \E outcome \in Outcome : Return(r, outcome)
             \/ \E pc \in Pc \ {"movemp2", "renamemp2"} : Goto(r, pc)
      PROVE  Mp2Inv'
  BY <1>1, <1>2, <1>3, GotoOwn, ReturnOwn, Mp2Left
<1>4. CASE EndRecording(r)
  BY <1>3, <1>4 DEF EndRecording, At, Pc, files
<1>5. CASE NextProfile(r)
  <2> DEFINE profile == Profiles[r][thread[r].i]
             keep == thread[r].keep \/ profile.keep \/ ~profile.use_transcoding
             rid == IF FreeWaiting = {} THEN -1 ELSE Least(FreeWaiting)
  <2>1. mp2' = mp2 /\ thread[r].pc = "profile"
    BY <1>5 DEF NextProfile, At, files
  <2>2. CASE profile.use_transcoding
    <3>1. thread' = [thread EXCEPT ![r] = [@ EXCEPT !.pc = "wait", !.keep = keep, !.rid = rid]]
      BY <1>5, <2>2 DEF NextProfile
    <3>2. /\ thread'[r].pc = "wait" /\ thread'[r].problem = thread[r].problem
          /\ thread'[r].outcome = thread[r].outcome
      BY <1>1, <3>1 DEF Thread
    <3>3. QED
      BY <1>1, <1>2, <2>1, <3>2, Mp2Left
  <2>3. CASE ~profile.use_transcoding
    <3>1. thread' = [thread EXCEPT ![r] = [Returned(@, "off") EXCEPT !.keep = keep]]
      BY <1>5, <2>3 DEF NextProfile
    <3>2. /\ thread'[r].pc = "profile" /\ thread'[r].problem = Problem(thread[r].problem, "off")
          /\ thread'[r].outcome = Append(thread[r].outcome, "off")
      BY <1>1, <3>1 DEF Thread, Returned
    <3>3. QED
      BY <1>1, <1>2, <2>1, <3>2, Mp2Left DEF Outcome
  <2>4. QED
    BY <2>2, <2>3
<1>6. CASE StartProcess(r)
  <2>1. mp2' = mp2 /\ thread[r].pc = "wait"
    BY <1>6 DEF StartProcess, At, files
  <2>2. CASE thread' = [thread EXCEPT ![r].pc = "forked", ![r].rid = -1]
    <3>1. /\ thread'[r].pc = "forked" /\ thread'[r].problem = thread[r].problem
          /\ thread'[r].outcome = thread[r].outcome
      BY <1>1, <2>2 DEF Thread
    <3>2. QED
      BY <1>1, <1>2, <2>1, <3>1, Mp2Left
  <2>3. QED
    BY <1>3, <1>6, <2>1, <2>2 DEF StartProcess, Outcome
<1>7. CASE Finish(r)
  <2>1. thread[r].pc = "profile"
    BY <1>7 DEF Finish, AllTried, At
  <2>2. CASE Goto(r, "movemp2") /\ mp2' = mp2 /\ ~thread[r].problem
    BY <1>1, <1>2, <2>1, <2>2, GotoOwn, Mp2Left
  <2>3. CASE Goto(r, "done") /\ mp2' = mp2
    BY <1>3, <2>1, <2>3 DEF Pc
  <2>4. CASE Goto(r, "done") /\ mp2' = [mp2 EXCEPT ![r] = "deleted"] /\ ~thread[r].problem
    BY <1>1, <1>2, <2>4, GotoOwn, Constants DEF Mp2Inv
  <2>5. QED
    BY <1>7, <2>2, <2>3, <2>4 DEF Finish
<1>8. CASE ChooseMp2(r)
  <2>1. /\ mp2' = mp2 /\ thread[r].pc = "movemp2"
        /\ thread' = [thread EXCEPT ![r].pc = "renamemp2", ![r].n = Least(FreeNames("mp2", r))]
    BY <1>8 DEF ChooseMp2, ChooseName, At, files
  <2>2. /\ thread'[r].pc = "renamemp2" /\ thread'[r].problem = thread[r].problem
        /\ thread'[r].outcome = thread[r].outcome
    BY <1>1, <2>1 DEF Thread
  <2>3. QED
    BY <1>1, <1>2, <2>1, <2>2, Mp2Left
<1>9. CASE MoveMp2(r)
  <2>1. /\ mp2' = [mp2 EXCEPT ![r] = "kept"] /\ thread[r].pc = "renamemp2"
        /\ thread'[r].pc = "done" /\ thread'[r].problem = thread[r].problem
        /\ thread'[r].outcome = thread[r].outcome
    BY <1>1, <1>9, GotoOwn DEF MoveMp2, At
  <2>2. QED
    BY <1>1, <1>2, <2>1, Constants DEF Mp2Inv
<1>10. CASE MoveMp2Fails(r)
  BY <1>3, <1>10 DEF MoveMp2Fails, At, Pc, files
<1>11. CASE GiveUp(r) \/ MoveMp4(r) \/ MoveMp4Fails(r)
  BY <1>3, <1>11 DEF GiveUp, MoveMp4, MoveMp4Fails, Leave, Moved, At, files, Outcome
<1>12. CASE RecordOngoing(r) \/ Wait4(r) \/ Watchdog(r) \/ ForgetOngoing(r) \/ ChooseMp4(r)
  <2>1. mp2' = mp2 /\ thread[r].pc \in {"forked", "run", "reap", "move"}
    BY <1>12 DEF RecordOngoing, Wait4, Watchdog, ForgetOngoing, ChooseMp4, ChooseName, At, files
  <2>2. CASE \E outcome \in Outcome : Leave(r, outcome)
    BY <1>3, <2>1, <2>2 DEF Leave
  <2>3. ASSUME thread'[r].pc \in {"run", "reap", "move", "rename"},
               thread'[r].problem = thread[r].problem, thread'[r].outcome = thread[r].outcome
        PROVE  Mp2Inv'
    BY <1>1, <1>2, <2>1, <2>3, Mp2Left
  <2>4. CASE RecordOngoing(r)
    <3>1. CASE FreeSlots # {}
      BY <1>1, <2>3, <2>4, <3>1 DEF RecordOngoing, Thread
    <3>2. QED
      BY <2>2, <2>4, <3>1 DEF RecordOngoing, Outcome
  <2>5. CASE Wait4(r) \/ Watchdog(r)
    BY <1>1, <2>3, <2>5 DEF Wait4, Watchdog, Thread
  <2>6. CASE ForgetOngoing(r)
    <3>1. CASE thread' = [thread EXCEPT ![r].pc = "move", ![r].tidx = -1]
      BY <1>1, <2>3, <3>1 DEF Thread
    <3>2. QED
      BY <1>1, <2>2, <2>6, <3>1, ForgetsOwn DEF Outcome
  <2>7. CASE ChooseMp4(r)
    BY <1>1, <2>3, <2>7 DEF ChooseMp4, ChooseName, Thread
  <2>8. QED
    BY <1>12, <2>4, <2>5, <2>6, <2>7
<1>13. QED
  BY <1>4, <1>5, <1>6, <1>7, <1>8, <1>9, <1>10, <1>11, <1>12 DEF RecordingStep, JobStep

(***************************************************************************)
(* The MP2 file of a recording of which any transcoding failed, was killed *)
(* or could not be moved is neither deleted nor moved, whatever comes of   *)
(* its other profiles and however many there are.                          *)
(***************************************************************************)
THEOREM FailedIsKept == Spec => []FailedKeepsMp2
<1>1. Init => Mp2Inv
  <2> SUFFICES ASSUME Init
               PROVE  Mp2Inv
    OBVIOUS
  <2>1. \A r \in Recording : /\ thread[r].pc = "idle" /\ thread[r].outcome = <<>>
                             /\ mp2[r] = "working"
    BY Constants DEF Init
  <2>2. QED
    BY <2>1 DEF Mp2Inv
<1>2. BaseInv /\ Mp2Inv /\ [Next]_vars => Mp2Inv'
  <2> SUFFICES ASSUME BaseInv, Mp2Inv, [Next]_vars
               PROVE  Mp2Inv'
    OBVIOUS
  <2>1. ASSUME \A r \in Recording : thread'[r] = thread[r], mp2' = mp2
        PROVE  Mp2Inv'
    BY <2>1 DEF Mp2Inv
  <2>2. ASSUME NEW f \in FileJob, TranscodeFile(f) \/ FileStep(f) \/ JobStep(f)
        PROVE  Mp2Inv'
    <3>1. mp2' = mp2
      BY <2>2 DEF TranscodeFile, FileStep, FileMayStart, CheckDir, MakeDir, LinkFile,
        StartFileProcess, CleanDir, RemoveDir, JobStep, GiveUp, RecordOngoing, Wait4, Watchdog,
        ForgetOngoing, ChooseMp4, ChooseName, MoveMp4, MoveMp4Fails, files
    <3>2. \A r \in Recording : thread'[r] = thread[r]
      BY <2>2, OwnStep, Constants DEF BaseInv, TableInv
    <3>3. QED
      BY <2>1, <3>1, <3>2
  <2>3. ASSUME NEW j \in Job, ProcessEnds(j)
        PROVE  Mp2Inv'
    BY <2>1, <2>3 DEF ProcessEnds, files
  <2>4. CASE Kill
    BY <2>1, <2>4 DEF Kill, KillOne, KillAll, KillFrom, KillStop, KillKill, files
  <2>5. CASE UNCHANGED vars
    BY <2>1, <2>5 DEF vars
  <2>6. QED
    BY <2>2, <2>3, <2>4, <2>5, Steps, RecordingKeepsMp2 DEF Job
<1>3. Mp2Inv => FailedKeepsMp2
  BY DEF Mp2Inv, FailedKeepsMp2
<1>4. QED
  BY <1>1, <1>2, <1>3, BaseHolds, PTL DEF Spec
=============================================================================
