------------------------- MODULE RecSchedulerProofs -------------------------
(***************************************************************************)
(* Theorems about the recording scheduler, for every number of cards,      *)
(* every queue length, every set of requests and every timing: a card      *)
(* never has two recordings; none is lost or doubled; none stops for an    *)
(* abort of another; the DB file lists those that still wait; and all of   *)
(* it is what an abstract schedule allows.                                 *)
(***************************************************************************)
EXTENDS RecScheduler, FiniteSetTheorems, TLAPS

-----------------------------------------------------------------------------
(* The queue operations. *)

(* What sortrecs returns is a queue of its own arguments' entries, no slot used twice. *)
LEMMA SortedQueue ==
  ASSUME NEW queue \in Seq(Entry), NEW slots \in SUBSET DOMAIN queue,
         NEW r \in sortrecs(queue, slots)
  PROVE  /\ r \in Seq(Entry)
         /\ \E p \in [DOMAIN r -> slots] :
              /\ \A i \in DOMAIN r : r[i] = queue[p[i]]
              /\ \A i, j \in DOMAIN r : p[i] = p[j] => i = j
<1> DEFINE n == Cardinality(slots)
<1>1. n \in Nat
  <2>1. IsFiniteSet(DOMAIN queue)
    <3>1. DOMAIN queue = 1..Len(queue) /\ Len(queue) \in Nat
      OBVIOUS
    <3>2. QED
      BY <3>1, FS_Interval
  <2>2. IsFiniteSet(slots)
    BY <2>1, FS_Subset
  <2>3. QED
    BY <2>2, FS_CardinalityType
<1>2. PICK p \in Bijection(1..n, slots) : r = [i \in 1..n |-> queue[p[i]]]
  BY DEF sortrecs
<1>3. p \in [1..n -> slots] /\ \A i, j \in 1..n : p[i] = p[j] => i = j
  BY <1>2 DEF Bijection, Injection, IsInjective
<1>4. \A i \in 1..n : queue[p[i]] \in Entry
  BY <1>3
<1> HIDE DEF n
<1>5. r \in Seq(Entry) /\ DOMAIN r = 1..n
  BY <1>1, <1>2, <1>4
<1>6. \A i \in DOMAIN r : r[i] = queue[p[i]]
  BY <1>2
<1>7. p \in [DOMAIN r -> slots]
  BY <1>3, <1>5
<1>8. QED
  BY <1>3, <1>5, <1>6, <1>7

(* The three tests of isentryoverlapping find every common second. *)
LEMMA CollidesIsNotDisjoint ==
  ASSUME NEW s \in Int, NEW e \in Int, NEW r \in Entry,
         s <= e, r.ts_start <= r.ts_end, ~Collides(s, e, r)
  PROVE  e < r.ts_start \/ r.ts_end < s
BY DEF Collides, Entry

(***************************************************************************)
(* And nothing else: of recordings that do not end before they start, two  *)
(* are refused together exactly if there is a second at which the card     *)
(* would be needed by both (the chain of tests in isentryoverlapping).     *)
(***************************************************************************)
THEOREM CollisionIsACommonSecond ==
  ASSUME NEW s \in Int, NEW e \in Int, NEW r \in Entry, s <= e, r.ts_start <= r.ts_end
  PROVE  Collides(s, e, r) <=> \E second \in s..e : second \in r.ts_start..r.ts_end
<1>1. r.ts_start \in Int /\ r.ts_end \in Int
  BY DEF Entry
<1>2. ASSUME Collides(s, e, r)
      PROVE  \E second \in s..e : second \in r.ts_start..r.ts_end
  <2>1. CASE s >= r.ts_start
    <3>1. s \in s..e /\ s \in r.ts_start..r.ts_end
      BY <1>1, <1>2, <2>1 DEF Collides
    <3>2. QED
      BY <3>1
  <2>2. CASE s < r.ts_start
    <3>1. r.ts_start \in s..e /\ r.ts_start \in r.ts_start..r.ts_end
      BY <1>1, <1>2, <2>2 DEF Collides
    <3>2. QED
      BY <3>1
  <2>3. QED
    BY <1>1, <2>1, <2>2
<1>3. ASSUME NEW second \in s..e, second \in r.ts_start..r.ts_end
      PROVE  Collides(s, e, r)
  <2>1. ~(e < r.ts_start \/ r.ts_end < s)
    BY <1>1, <1>3
  <2>2. QED
    BY <2>1, CollidesIsNotDisjoint
<1>4. QED
  BY <1>2, <1>3

(* What a request expands to are entries. *)
LEMMA ExpandedEntries ==
  ASSUME NEW req \in Requests, NEW seqnbr \in Nat \ {0}, NEW id \in Nat \ {0},
         NEW time \in 0..MaxTime
  PROVE  Expand(req, seqnbr, id, time) \in Seq(Entry)
<1>1. req \in Request
  BY SchedulerAssumption
<1>2. CASE req.type = 0
  BY <1>1, <1>2 DEF Expand, SingleEntry, Request, Entry
<1>3. CASE req.type # 0
  <2>1. \A i \in 1..req.num : SeriesEntry(req, i - 1, seqnbr, id, time) \in Entry
    <3> SUFFICES ASSUME NEW i \in 1..req.num
                 PROVE  SeriesEntry(req, i - 1, seqnbr, id, time) \in Entry
      OBVIOUS
    <3>1. LET r == SeriesEntry(req, i - 1, 1, 1, time) IN r.ts_start \in Int /\ r.ts_end \in Int
      BY DatesAssumption
    <3>2. seqnbr + (i - 1) \in Nat \ {0}
      BY <1>1 DEF Request
    <3>3. QED
      BY <3>1, <3>2 DEF SeriesEntry, Entry
  <2>2. req.num \in Nat
    BY <1>1 DEF Request
  <2>3. QED
    BY <1>3, <2>1, <2>2 DEF Expand
<1>4. QED
  BY <1>2, <1>3

-----------------------------------------------------------------------------
(* Type correctness. *)

(* The types of the constants and of the null record, as the steps below need them. *)
LEMMA Constants ==
  /\ NumVideo \in Nat \ {0} /\ TimeRes \in Nat /\ MissLimit \in Nat /\ MaxTime \in Nat
  /\ MaxSeq \in Nat /\ WatchDog \in Nat /\ MaxEntries \in Nat \ {0}
  /\ Video \subseteq 0..NumVideo
  /\ \A req \in Requests : req \in Request
  /\ \A r \in Entry : r.seqnbr \in Nat \ {0} /\ r # NoRec
BY SchedulerAssumption, MaxEntriesAssumption DEF Video, Entry, NoRec

(* Removing a recording from a queue leaves a queue of entries. *)
LEMMA TopRemoved ==
  ASSUME TypeOK, NEW v \in Video, recs[v] # <<>>
  PROVE  /\ Top(v) \in Entry
         /\ \A queue \in WithoutTop(recs[v]) : queue \in Seq(Entry)
<1>1. recs[v] \in Seq(Entry)
  BY DEF TypeOK
<1>2. DOMAIN recs[v] \ {1} \in SUBSET DOMAIN recs[v]
  OBVIOUS
<1>3. Top(v) \in Entry
  BY <1>1 DEF Top
<1>4. QED
  BY <1>1, <1>2, <1>3, SortedQueue DEF WithoutTop

(* writeXMLFile keeps the type of the file it writes. *)
LEMMA WriteTyped ==
  ASSUME TypeOK, recs' \in [Video -> Seq(Entry)], writeXMLFile
  PROVE  xmldb' \in [Video -> Seq(Entry)]
<1>1. Empty \in [Video -> Seq(Entry)]
  BY DEF Empty
<1>2. xmldb' \in {recs', xmldb, Empty}
  BY DEF writeXMLFile
<1>3. QED
  BY <1>1, <1>2 DEF TypeOK

(* Every variable keeps its type. *)
THEOREM TypeCorrect == Spec => []TypeOK
<1>1. Init => TypeOK
  BY Constants, EarlierDbsAssumption DEF Init, TypeOK, Empty
<1>2. TypeOK /\ [Next]_vars => TypeOK'
  <2> SUFFICES ASSUME TypeOK, [Next]_vars
               PROVE  TypeOK'
    OBVIOUS
  <2>1. CASE Tick
    BY <2>1, Constants DEF TypeOK, Tick, queueVars, cardVars, history
  <2>2. ASSUME NEW v \in Video, NEW req \in Requests, AddRec(v, req)
        PROVE  TypeOK'
    <3>1. recs' \in [Video -> Seq(Entry)]
      <4> DEFINE new == Expand(req, global_seqnbr, recurrence_id, now)
                 all == recs[v] \o new
      <4>1. new \in Seq(Entry)
        BY ExpandedEntries DEF TypeOK
      <4>2. all \in Seq(Entry)
        BY <4>1 DEF TypeOK
      <4>3. \A queue \in Inserted(recs[v], new) : queue \in Seq(Entry)
        BY <4>2, SortedQueue DEF Inserted
      <4>4. QED
        BY <2>2, <4>3 DEF AddRec, TypeOK
    <3>2. xmldb' \in [Video -> Seq(Entry)]
      BY <2>2, <3>1, WriteTyped DEF AddRec
    <3>3. global_seqnbr' \in Nat \ {0} /\ recurrence_id' \in Nat \ {0}
      <4>1. req.num \in Nat
        BY Constants DEF Request
      <4>2. global_seqnbr \in Nat \ {0} /\ recurrence_id \in Nat \ {0}
        BY DEF TypeOK
      <4>3. /\ global_seqnbr' = global_seqnbr + req.num
            /\ recurrence_id' = recurrence_id \/ recurrence_id' = recurrence_id + 1
        BY <2>2 DEF AddRec
      <4>4. QED
        BY <4>1, <4>2, <4>3
    <3>4. QED
      BY <2>2, <3>1, <3>2, <3>3 DEF AddRec, TypeOK, cardVars, history
  <2>3. ASSUME NEW v \in Video, NEW req \in Requests, AddRecToFull(v, req)
        PROVE  TypeOK'
    <3>1. xmldb' \in [Video -> Seq(Entry)]
      BY <2>3, WriteTyped DEF AddRecToFull, TypeOK
    <3>2. ended' \subseteq [seqnbr : Nat, how : Fate]
      BY <2>3 DEF AddRecToFull, TypeOK, Gone, SingleEntry, Fate
    <3>3. QED
      BY <2>3, <3>1, <3>2 DEF AddRecToFull, TypeOK, cardVars
  <2>4. ASSUME NEW v \in Video, NEW i \in DOMAIN recs[v], NEW all \in BOOLEAN,
               DeleteRec(v, i, all)
        PROVE  TypeOK'
    <3> DEFINE kept == Kept(recs[v], i, all)
    <3>1. recs[v] \in Seq(Entry)
      BY DEF TypeOK
    <3>2. \A queue \in sortrecs(recs[v], kept) : queue \in Seq(Entry)
      <4>1. kept \in SUBSET DOMAIN recs[v]
        BY DEF Kept
      <4>2. QED
        BY <3>1, <4>1, SortedQueue
    <3>3. recs' \in [Video -> Seq(Entry)]
      BY <2>4, <3>2 DEF DeleteRec, TypeOK
    <3>4. ended' \subseteq [seqnbr : Nat, how : Fate]
      <4>1. \A j \in DOMAIN recs[v] : recs[v][j] \in Entry
        BY <3>1
      <4>2. \A j \in DOMAIN recs[v] :
              Gone(recs[v][j], "deleted") \in [seqnbr : Nat, how : Fate]
        BY <4>1 DEF Gone, Fate, Entry
      <4>3. ended' = ended \cup {Gone(recs[v][j], "deleted") : j \in DOMAIN recs[v] \ kept}
        BY <2>4 DEF DeleteRec
      <4>4. QED
        BY <4>2, <4>3 DEF TypeOK
    <3>5. xmldb' \in [Video -> Seq(Entry)]
      BY <2>4, <3>3, WriteTyped DEF DeleteRec
    <3>6. QED
      BY <2>4, <3>3, <3>4, <3>5 DEF DeleteRec, TypeOK, cardVars
  <2>5. ASSUME NEW v \in Video, AbortRec(v)
        PROVE  TypeOK'
    <3>1. ongoing_recs[v].seqnbr \in Nat
      BY DEF TypeOK, NoRec, Entry
    <3>2. abort_video' \in [Video -> 0..1]
      <4>1. abort_video \in [Video -> 0..1] /\ 1 \in 0..1
        BY DEF TypeOK
      <4>2. QED
        BY <2>5, <4>1 DEF AbortRec
    <3>3. cancelled' \subseteq Nat
      BY <2>5, <3>1 DEF AbortRec, TypeOK
    <3>4. QED
      BY <2>5, <3>2, <3>3 DEF AbortRec, TypeOK, queueVars
  <2>6. CASE ReadTime
    <3>1. now \in Nat
      BY SchedulerAssumption DEF TypeOK
    <3>2. QED
      BY <2>6, <3>1 DEF TypeOK, ReadTime, queueVars, cardVars, history
  <2>7. CASE BeginPass
    <3>1. 0 \in 0..NumVideo
      BY SchedulerAssumption
    <3>2. QED
      BY <2>7, <3>1 DEF TypeOK, BeginPass, queueVars, cardVars, history
  <2>8. CASE EndPass
    <3>1. Min2(now + TimeRes, MaxTime) \in Nat
      BY Constants DEF TypeOK, Min2
    <3>2. QED
      BY <2>8, <3>1 DEF TypeOK, EndPass, queueVars, cardVars, history
  <2>9. ASSUME NEW v \in Video, NextVideo, chkrec.video = v
        PROVE  chkrec' \in [pc : {"sleep", "lock", "scan"}, video : 0..NumVideo,
                            now : Nat, wake : Nat]
    <3>1. v + 1 \in 0..NumVideo
      BY SchedulerAssumption DEF Video
    <3>2. QED
      BY <2>9, <3>1 DEF TypeOK, NextVideo
  <2>10. ASSUME NEW v \in Video, SkipVideo(v)
         PROVE  TypeOK'
    BY <2>9, <2>10 DEF TypeOK, SkipVideo, Scanning, queueVars, cardVars, history
  <2>11. ASSUME NEW v \in Video, MissRec(v)
         PROVE  TypeOK'
    <3>1. Top(v) \in Entry /\ \A queue \in WithoutTop(recs[v]) : queue \in Seq(Entry)
      BY <2>11, TopRemoved DEF MissRec, Missed
    <3>2. recs' \in [Video -> Seq(Entry)]
      BY <2>11, <3>1 DEF MissRec, TypeOK
    <3>3. xmldb' \in [Video -> Seq(Entry)]
      BY <2>11, <3>2, WriteTyped DEF MissRec
    <3>4. ended' \subseteq [seqnbr : Nat, how : Fate]
      BY <2>11, <3>1 DEF MissRec, TypeOK, Gone, Fate, Entry
    <3>5. QED
      BY <2>9, <2>11, <3>2, <3>3, <3>4 DEF MissRec, Scanning, TypeOK, cardVars
  <2>12. ASSUME NEW v \in Video, StartRec(v)
         PROVE  TypeOK'
    <3>1. Top(v) \in Entry /\ \A queue \in WithoutTop(recs[v]) : queue \in Seq(Entry)
      BY <2>12, TopRemoved DEF StartRec, Due
    <3>2. recs' \in [Video -> Seq(Entry)] /\ ongoing_recs' \in [Video -> Entry \cup {NoRec}]
      BY <2>12, <3>1 DEF StartRec, TypeOK
    <3>3. xmldb' \in [Video -> Seq(Entry)]
      BY <2>12, <3>2, WriteTyped DEF StartRec
    <3>4. threads' \subseteq Thread
      BY <2>12, <3>1 DEF StartRec, TypeOK, Thread, ThreadPc
    <3>5. QED
      BY <2>9, <2>12, <3>2, <3>3, <3>4 DEF StartRec, Scanning, TypeOK, history
  <2>13. ASSUME NEW t \in threads, StartRecThread(t)
         PROVE  TypeOK'
    <3>1. t \in Thread
      BY DEF TypeOK
    <3>2. threads' \subseteq Thread
      <4>1. ASSUME NEW pc \in ThreadPc, NEW d \in {"no", "cancel", "error"}
            PROVE  /\ [t EXCEPT !.pc = pc] \in Thread
                   /\ [t EXCEPT !.pc = pc, !.doabort = d] \in Thread
        BY <3>1 DEF Thread
      <4>2. threads \subseteq Thread /\ \A new \in Thread : Becomes(t, new) => threads' \subseteq Thread
        BY DEF TypeOK, Becomes
      <4>3. {"ready", "failed", "capture", "check", "stopped"} \subseteq ThreadPc
        BY DEF ThreadPc
      <4>4. CASE FailRec(t) \/ StopRec(t)
        BY <4>2, <4>4 DEF FailRec, StopRec
      <4>5. CASE SetupVideo(t) \/ MakeFile(t)
        <5>1. \E pc \in {"ready", "failed", "capture"} : Becomes(t, [t EXCEPT !.pc = pc])
          BY <4>5 DEF SetupVideo, MakeFile
        <5>2. PICK pc \in ThreadPc : Becomes(t, [t EXCEPT !.pc = pc])
          BY <4>3, <5>1
        <5>3. [t EXCEPT !.pc = pc] \in Thread
          BY <4>1
        <5>4. QED
          BY <4>2, <5>2, <5>3, Zenon
      <4>6. CASE Capture(t)
        <5>1. PICK d \in {"no", "cancel", "error"} : Becomes(t, [t EXCEPT !.pc = "check", !.doabort = d])
          BY <4>6 DEF Capture
        <5>2. [t EXCEPT !.pc = "check", !.doabort = d] \in Thread
          BY <4>1, <4>3
        <5>3. QED
          BY <4>2, <5>1, <5>2, Zenon
      <4>7. CASE CheckEnd(t)
        <5>1. PICK pc \in {"capture", "stopped"} : Becomes(t, [t EXCEPT !.pc = pc])
          BY <4>7 DEF CheckEnd
        <5>2. [t EXCEPT !.pc = pc] \in Thread
          BY <4>1, <4>3, <5>1
        <5>3. QED
          BY <4>2, <5>1, <5>2, Zenon
      <4>8. QED
        BY <2>13, <4>4, <4>5, <4>6, <4>7 DEF StartRecThread
    <3>3. abort_video' \in [Video -> 0..1] /\ ongoing_recs' \in [Video -> Entry \cup {NoRec}]
      <4>1. \/ abort_video' = abort_video
            \/ abort_video' = [abort_video EXCEPT ![t.video] = 0]
        BY <2>13 DEF StartRecThread, SetupVideo, MakeFile, FailRec, Capture, CheckEnd, StopRec,
             cardVars
      <4>2. \/ ongoing_recs' = ongoing_recs
            \/ ongoing_recs' = [ongoing_recs EXCEPT ![t.video] = NoRec]
        BY <2>13 DEF StartRecThread, SetupVideo, MakeFile, FailRec, Capture, CheckEnd, StopRec,
             cardVars
      <4>3. /\ abort_video \in [Video -> 0..1] /\ 0 \in 0..1
            /\ ongoing_recs \in [Video -> Entry \cup {NoRec}]
        BY DEF TypeOK
      <4>4. abort_video' \in [Video -> 0..1]
        BY <4>1, <4>3
      <4>5. ongoing_recs' \in [Video -> Entry \cup {NoRec}]
        BY <4>2, <4>3
      <4>6. QED
        BY <4>4, <4>5
    <3>4. ended' \subseteq [seqnbr : Nat, how : Fate]
      BY <2>13, <3>1 DEF StartRecThread, SetupVideo, MakeFile, FailRec, Capture, CheckEnd,
           StopRec, TypeOK, history, Gone, Fate, Thread, Entry
    <3>5. UNCHANGED <<now, queueVars, chkrec, main, cancelled>>
      BY <2>13 DEF StartRecThread, SetupVideo, MakeFile, FailRec, Capture, CheckEnd, StopRec,
           history
    <3>6. QED
      BY <3>2, <3>3, <3>4, <3>5 DEF TypeOK, queueVars
  <2>14. CASE AbortAll
    <3>1. \A v \in Video : ongoing_recs[v].seqnbr \in Nat
      BY DEF TypeOK, NoRec, Entry
    <3>2. abort_video' \in [Video -> 0..1]
      BY <2>14 DEF AbortAll
    <3>3. cancelled' \subseteq Nat
      BY <2>14, <3>1 DEF AbortAll, TypeOK
    <3>4. main' \in [pc : {"serving", "stopping", "waiting", "exited"}, ongoing : BOOLEAN,
                     watchdog : Nat]
      BY <2>14 DEF AbortAll, TypeOK
    <3>5. QED
      BY <2>14, <3>2, <3>3, <3>4 DEF AbortAll, TypeOK, queueVars
  <2>15. CASE FirstLook \/ Wait \/ Exit
    <3>1. AnyAbort \in BOOLEAN
      BY DEF AnyAbort
    <3>2. main' \in [pc : {"serving", "stopping", "waiting", "exited"}, ongoing : BOOLEAN,
                     watchdog : Nat]
      <4> DEFINE MainType == [pc : {"serving", "stopping", "waiting", "exited"},
                              ongoing : BOOLEAN, watchdog : Nat]
      <4>1. main \in MainType
        BY DEF TypeOK
      <4>2. CASE FirstLook
        <5>1. \A b \in BOOLEAN : [main EXCEPT !.pc = "waiting", !.ongoing = b] \in MainType
          BY <4>1
        <5>2. QED
          BY <3>1, <4>2, <5>1 DEF FirstLook
      <4>3. CASE Wait
        <5>1. main.watchdog - 1 \in Nat
          BY <4>1, <4>3 DEF Wait
        <5>2. \A b \in BOOLEAN, n \in Nat :
                [main EXCEPT !.ongoing = b, !.watchdog = n] \in MainType
          BY <4>1
        <5>3. main' = [main EXCEPT !.ongoing = AnyAbort, !.watchdog = main.watchdog - 1]
          BY <4>3 DEF Wait
        <5>4. QED
          BY <3>1, <5>1, <5>2, <5>3
      <4>4. CASE Exit
        BY <4>1, <4>4 DEF Exit
      <4>5. QED
        BY <2>15, <4>2, <4>3, <4>4
    <3>3. QED
      BY <2>15, <3>2 DEF TypeOK, FirstLook, Wait, Exit, queueVars, cardVars, history
  <2>16. CASE SaveDb
    <3>1. xmldb' \in [Video -> Seq(Entry)]
      BY <2>16, WriteTyped DEF SaveDb, TypeOK
    <3>2. QED
      BY <2>16, <3>1 DEF SaveDb, TypeOK, cardVars, history
  <2>17. CASE UNCHANGED vars
    BY <2>17 DEF TypeOK, vars
  <2>18. QED
    BY <2>1, <2>2, <2>3, <2>4, <2>5, <2>6, <2>7, <2>8, <2>10, <2>11, <2>12, <2>13, <2>14,
       <2>15, <2>16, <2>17 DEF Next, Commands, ChkRec, ScanVideo, Main
<1>3. QED
  BY <1>1, <1>2, PTL DEF Spec

-----------------------------------------------------------------------------
(* One thread to a card. *)

(* The steps of a thread leave its recording and its card alone, or end it. *)
LEMMA ThreadSteps ==
  ASSUME TypeOK, NEW t \in threads, StartRecThread(t)
  PROVE  \/ /\ ongoing_recs' = ongoing_recs
            /\ \E u \in Thread : /\ u.rec = t.rec /\ u.video = t.video
                                 /\ threads' = (threads \ {t}) \cup {u}
         \/ /\ ongoing_recs' = [ongoing_recs EXCEPT ![t.video] = NoRec]
            /\ threads' = threads \ {t}
<1>1. t \in Thread
  BY DEF TypeOK
<1>2. ASSUME NEW pc \in ThreadPc, NEW d \in {"no", "cancel", "error"}
      PROVE  LET u == [t EXCEPT !.pc = pc, !.doabort = d]
                 w == [t EXCEPT !.pc = pc]
             IN  /\ u \in Thread /\ u.rec = t.rec /\ u.video = t.video
                 /\ w \in Thread /\ w.rec = t.rec /\ w.video = t.video
  BY <1>1 DEF Thread
<1>3. CASE SetupVideo(t) \/ MakeFile(t) \/ CheckEnd(t)
  BY <1>2, <1>3 DEF SetupVideo, MakeFile, CheckEnd, Becomes, ThreadPc, cardVars
<1>4. CASE Capture(t)
  BY <1>2, <1>4 DEF Capture, Becomes, ThreadPc, cardVars
<1>5. CASE FailRec(t) \/ StopRec(t)
  BY <1>5 DEF FailRec, StopRec
<1>6. QED
  BY <1>3, <1>4, <1>5 DEF StartRecThread

(* A card is opened by one startrec thread at a time, the one ongoing_recs names. *)
THEOREM CardIsExclusive == Spec => []CardExclusive
<1>1. Init => CardExclusive
  BY DEF Init, CardExclusive
<1>2. TypeOK /\ CardExclusive /\ [Next]_vars => CardExclusive'
  <2> SUFFICES ASSUME TypeOK, CardExclusive, [Next]_vars
               PROVE  CardExclusive'
    OBVIOUS
  <2>1. CASE UNCHANGED <<threads, ongoing_recs>>
    BY <2>1 DEF CardExclusive
  <2>2. ASSUME NEW v \in Video, StartRec(v)
        PROVE  CardExclusive'
    <3> DEFINE new == [rec |-> Top(v), video |-> v, pc |-> "setup", doabort |-> "no"]
    <3>1. \A t \in threads : t.video # v
      <4>1. \A t \in threads : t.rec # NoRec
        BY Constants DEF TypeOK, Thread
      <4>2. ongoing_recs[v] = NoRec
        BY <2>2 DEF StartRec, CardFree
      <4>3. QED
        BY <4>1, <4>2 DEF CardExclusive
    <3>2. ongoing_recs \in [Video -> Entry \cup {NoRec}] /\ \A t \in threads : t.video \in Video
      BY DEF TypeOK, Thread
    <3>3. threads' \subseteq threads \cup {new}
      BY <2>2 DEF StartRec
    <3>4. ongoing_recs' = [ongoing_recs EXCEPT ![v] = Top(v)]
      BY <2>2 DEF StartRec
    <3>5. \A t \in threads : ongoing_recs'[t.video] = t.rec
      BY <3>1, <3>2, <3>4 DEF CardExclusive
    <3>6. ongoing_recs'[new.video] = new.rec
      BY <3>2, <3>4
    <3>7. QED
      BY <3>1, <3>3, <3>5, <3>6 DEF CardExclusive
  <2>3. ASSUME NEW t \in threads, StartRecThread(t)
        PROVE  CardExclusive'
    <3>1. t.video \in Video /\ ongoing_recs \in [Video -> Entry \cup {NoRec}]
      BY DEF TypeOK, Thread
    <3>2. ASSUME ongoing_recs' = ongoing_recs,
                 NEW u \in Thread, u.rec = t.rec, u.video = t.video,
                 threads' = (threads \ {t}) \cup {u}
          PROVE  CardExclusive'
      BY <3>2 DEF CardExclusive
    <3>3. ASSUME ongoing_recs' = [ongoing_recs EXCEPT ![t.video] = NoRec],
                 threads' = threads \ {t}
          PROVE  CardExclusive'
      BY <3>1, <3>3 DEF CardExclusive
    <3>4. QED
      BY <2>3, <3>2, <3>3, ThreadSteps
  <2>4. QED
    <3>1. CASE Tick \/ Commands \/ Main \/ UNCHANGED vars
      BY <2>1, <3>1 DEF Tick, Commands, AddRec, AddRecToFull, DeleteRec, AbortRec, SaveDb,
         Main, AbortAll, FirstLook, Wait, Exit, vars, cardVars
    <3>2. CASE ChkRec
      BY <2>1, <2>2, <3>2 DEF ChkRec, ReadTime, BeginPass, EndPass, ScanVideo, SkipVideo, MissRec,
         cardVars
    <3>3. QED
      BY <2>3, <3>1, <3>2 DEF Next
<1>3. QED
  BY <1>1, <1>2, TypeCorrect, PTL DEF Spec

-----------------------------------------------------------------------------
(* Nothing overlaps. *)

Forward(r) == r.ts_start <= r.ts_end
ForwardQueue(queue) == \A i \in DOMAIN queue : Forward(queue[i])
ApartQueue(queue) == \A i, j \in DOMAIN queue : i # j => Disjoint(queue[i], queue[j])
ApartFrom(queue, active) == \A i \in DOMAIN queue : \A r \in active : Disjoint(queue[i], r)

(***************************************************************************)
(* NoOverlap is not inductive: the tests of isentryoverlapping find a      *)
(* common second only of recordings that do not end before they start.     *)
(***************************************************************************)
OverlapInv ==
  \A v \in Video :
    /\ ForwardQueue(recs[v]) /\ ApartQueue(recs[v]) /\ ApartFrom(recs[v], Active(v))
    /\ \A r \in Active(v) : Forward(r)

(* Whatever slots a sort is given, it keeps recordings apart that are apart. *)
LEMMA SortKeepsApart ==
  ASSUME NEW queue \in Seq(Entry), NEW slots \in SUBSET DOMAIN queue,
         NEW r \in sortrecs(queue, slots), NEW active,
         ForwardQueue(queue), ApartQueue(queue), ApartFrom(queue, active)
  PROVE  ForwardQueue(r) /\ ApartQueue(r) /\ ApartFrom(r, active)
<1>1. PICK p \in [DOMAIN r -> slots] :
        /\ \A i \in DOMAIN r : r[i] = queue[p[i]]
        /\ \A i, j \in DOMAIN r : p[i] = p[j] => i = j
  BY SortedQueue
<1>2. \A i \in DOMAIN r : p[i] \in DOMAIN queue
  BY <1>1
<1>3. ForwardQueue(r)
  BY <1>1, <1>2 DEF ForwardQueue
<1>4. ApartQueue(r)
  BY <1>1, <1>2 DEF ApartQueue
<1>5. ApartFrom(r, active)
  BY <1>1, <1>2 DEF ApartFrom
<1>6. QED
  BY <1>3, <1>4, <1>5

(* What a request expands to is apart from each other, on the dates that were checked. *)
LEMMA ExpandedApart ==
  ASSUME SeriesAsAsked, NEW req \in Requests, NEW seqnbr \in Nat \ {0}, NEW id \in Nat \ {0},
         NEW time \in 0..MaxTime, time <= req.start, req.start <= req.end
  PROVE  LET new == Expand(req, seqnbr, id, time)
         IN  /\ ForwardQueue(new)
             /\ ApartQueue(new)
             /\ \A i \in DOMAIN new : \E k \in 0..(req.num - 1) :
                  /\ new[i].ts_start = OccStart(req.type, req.start, req.end, k)
                  /\ new[i].ts_end = OccEnd(req.type, req.start, req.end, k)
<1> DEFINE new == Expand(req, seqnbr, id, time)
           s(k) == OccStart(req.type, req.start, req.end, k)
           e(k) == OccEnd(req.type, req.start, req.end, k)
<1>1. req \in Request /\ req.num \in Nat \ {0}
  BY Constants DEF Request
<1>2. CASE req.type = 0
  <2>1. new = <<SingleEntry(req, seqnbr)>>
    BY <1>2 DEF Expand
  <2>2. DOMAIN new = {1} /\ new[1].ts_start = req.start /\ new[1].ts_end = req.end
    BY <2>1 DEF SingleEntry
  <2>3. 0 \in 0..(req.num - 1) /\ s(0) = req.start /\ e(0) = req.end
    BY <1>1, <1>2 DEF SeriesAsAsked
  <2>4. ForwardQueue(new) /\ ApartQueue(new)
    BY <2>2 DEF ForwardQueue, ApartQueue, Forward
  <2>5. QED
    BY <2>2, <2>3, <2>4
<1>3. CASE req.type # 0
  <2>1. /\ AdjStart(req.type, req.start, req.end, time) = req.start
        /\ AdjEnd(req.type, req.start, req.end, time) = req.end
    BY <1>3 DEF SeriesAsAsked
  <2>2. new = [i \in 1..req.num |-> SeriesEntry(req, i - 1, seqnbr, id, time)]
    BY <1>3 DEF Expand
  <2>3. \A i \in 1..req.num : new[i].ts_start = s(i - 1) /\ new[i].ts_end = e(i - 1)
    BY <2>1, <2>2 DEF SeriesEntry
  <2>4. \A k \in 0..(req.num - 1) :
          s(k) <= e(k) /\ \A l \in 0..(req.num - 1) : k < l => e(k) < s(l)
    BY <1>3 DEF SeriesAsAsked
  <2>5. DOMAIN new = 1..req.num /\ \A i \in 1..req.num : i - 1 \in 0..(req.num - 1)
    BY <1>1, <2>2
  <2>6. ForwardQueue(new)
    BY <2>3, <2>4, <2>5 DEF ForwardQueue, Forward
  <2>7. ApartQueue(new)
    <3> SUFFICES ASSUME NEW i \in 1..req.num, NEW j \in 1..req.num, i # j
                 PROVE  Disjoint(new[i], new[j])
      BY <2>5 DEF ApartQueue
    <3>1. i - 1 < j - 1 \/ j - 1 < i - 1
      BY <1>1
    <3>2. e(i - 1) < s(j - 1) \/ e(j - 1) < s(i - 1)
      BY <2>4, <2>5, <3>1
    <3>3. QED
      BY <2>3, <3>2 DEF Disjoint
  <2>8. QED
    BY <2>3, <2>5, <2>6, <2>7
<1>4. QED
  BY <1>2, <1>3

(* A queue with a request that was not refused still has nothing overlapping. *)
LEMMA InsertKeepsApart ==
  ASSUME SeriesAsAsked, TypeOK, OverlapInv,
         NEW v \in Video, NEW req \in Requests, Accepts(req), ~RefusedBy(v, req),
         NEW queue \in Inserted(recs[v], Expand(req, global_seqnbr, recurrence_id, now))
  PROVE  ForwardQueue(queue) /\ ApartQueue(queue) /\ ApartFrom(queue, Active(v))
<1> DEFINE new == Expand(req, global_seqnbr, recurrence_id, now)
           old == recs[v]
           all == old \o new
<1>1. old \in Seq(Entry) /\ new \in Seq(Entry)
  BY ExpandedEntries DEF TypeOK
<1>2. Active(v) \subseteq Entry
  BY DEF TypeOK, Active
<1>3. /\ ForwardQueue(old) /\ ApartQueue(old) /\ ApartFrom(old, Active(v))
      /\ \A r \in Active(v) : Forward(r)
  BY DEF OverlapInv
<1>4. /\ ForwardQueue(new) /\ ApartQueue(new)
      /\ \A i \in DOMAIN new : \E k \in 0..(req.num - 1) :
           /\ new[i].ts_start = OccStart(req.type, req.start, req.end, k)
           /\ new[i].ts_end = OccEnd(req.type, req.start, req.end, k)
  <2>1. now <= req.start /\ req.start <= req.end
    <3>1. req.start \in Int /\ req.end \in Int /\ now \in Int
      BY Constants DEF Request, TypeOK
    <3>2. QED
      BY <3>1 DEF Accepts
  <2>2. global_seqnbr \in Nat \ {0} /\ recurrence_id \in Nat \ {0} /\ now \in 0..MaxTime
    BY DEF TypeOK
  <2>3. QED
    BY <2>1, <2>2, ExpandedApart
<1>5. \A i \in DOMAIN new : \A r \in Range(old) \cup Active(v) : Disjoint(new[i], r)
  <2> SUFFICES ASSUME NEW i \in DOMAIN new, NEW r \in Range(old) \cup Active(v)
               PROVE  Disjoint(new[i], r)
    OBVIOUS
  <2>1. ~Collides(new[i].ts_start, new[i].ts_end, r)
    BY <1>4 DEF RefusedBy, Refused, isentryoverlapping
  <2>2. r \in Entry /\ r.ts_start <= r.ts_end
    BY <1>1, <1>2, <1>3 DEF Range, ForwardQueue, Forward
  <2>3. /\ new[i].ts_start \in Int /\ new[i].ts_end \in Int
        /\ new[i].ts_start <= new[i].ts_end
    <3>1. new[i] \in Entry
      BY <1>1
    <3>2. QED
      BY <1>4, <3>1 DEF ForwardQueue, Forward, Entry
  <2>4. QED
    BY <2>1, <2>2, <2>3, CollidesIsNotDisjoint DEF Disjoint
<1>6. /\ all \in Seq(Entry)
      /\ \A i \in DOMAIN all : \/ i \in DOMAIN old /\ all[i] = old[i]
                               \/ i - Len(old) \in DOMAIN new /\ all[i] = new[i - Len(old)]
  BY <1>1
<1>7. \A i \in DOMAIN old : old[i] \in Range(old)
  BY DEF Range
<1>8. \A a, b : Disjoint(a, b) => Disjoint(b, a)
  BY DEF Disjoint
<1>9. ForwardQueue(all)
  BY <1>3, <1>4, <1>6 DEF ForwardQueue
<1>10. ApartQueue(all)
  <2> SUFFICES ASSUME NEW i \in DOMAIN all, NEW j \in DOMAIN all, i # j
               PROVE  Disjoint(all[i], all[j])
    BY DEF ApartQueue
  <2>1. CASE i \in DOMAIN old /\ j \in DOMAIN old /\ all[i] = old[i] /\ all[j] = old[j]
    BY <1>3, <2>1 DEF ApartQueue
  <2>2. CASE i - Len(old) \in DOMAIN new /\ all[i] = new[i - Len(old)] /\ all[j] \in Range(old)
    BY <1>5, <2>2
  <2>3. CASE j - Len(old) \in DOMAIN new /\ all[j] = new[j - Len(old)] /\ all[i] \in Range(old)
    BY <1>5, <1>8, <2>3
  <2>4. CASE /\ i - Len(old) \in DOMAIN new /\ all[i] = new[i - Len(old)]
             /\ j - Len(old) \in DOMAIN new /\ all[j] = new[j - Len(old)]
    <3>1. i - Len(old) # j - Len(old)
      BY <1>1, <1>6
    <3>2. QED
      BY <1>4, <2>4, <3>1 DEF ApartQueue
  <2>5. QED
    BY <1>6, <1>7, <2>1, <2>2, <2>3, <2>4
<1>11. ApartFrom(all, Active(v))
  BY <1>3, <1>5, <1>6 DEF ApartFrom
<1>12. DOMAIN all \in SUBSET DOMAIN all /\ queue \in sortrecs(all, DOMAIN all)
  BY DEF Inserted
<1>13. QED
  BY <1>6, <1>9, <1>10, <1>11, <1>12, SortKeepsApart

(* Starting from the queue of a card, a sort of some slots changes what is on it. *)
LEMMA RequeueKeepsInv ==
  ASSUME TypeOK, OverlapInv, NEW v \in Video, NEW queue \in Seq(Entry),
         ForwardQueue(queue), ApartQueue(queue), ApartFrom(queue, Active(v)),
         recs' = [recs EXCEPT ![v] = queue], UNCHANGED ongoing_recs
  PROVE  OverlapInv'
<1>1. /\ recs'[v] = queue
      /\ \A w \in Video : w # v => recs'[w] = recs[w]
  BY DEF TypeOK
<1>2. \A w \in Video : Active(w)' = Active(w)
  BY DEF Active
<1>3. \A w \in Video : /\ ForwardQueue(recs'[w]) /\ ApartQueue(recs'[w])
                       /\ ApartFrom(recs'[w], Active(w))
                       /\ \A r \in Active(w) : Forward(r)
  BY <1>1 DEF OverlapInv
<1>4. QED
  BY <1>2, <1>3 DEF OverlapInv

(* A thread that gives up its card leaves nothing on it to overlap with. *)
LEMMA ReleaseKeepsInv ==
  ASSUME TypeOK, OverlapInv, NEW v \in Video, UNCHANGED recs,
         ongoing_recs' = [ongoing_recs EXCEPT ![v] = NoRec]
  PROVE  OverlapInv'
<1>1. \A w \in Video : Active(w)' \subseteq Active(w)
  BY DEF TypeOK, Active
<1>2. \A w \in Video : /\ ForwardQueue(recs[w]) /\ ApartQueue(recs[w])
                       /\ ApartFrom(recs[w], Active(w)')
                       /\ \A r \in Active(w)' : Forward(r)
  BY <1>1 DEF OverlapInv, ApartFrom
<1>3. QED
  BY <1>2 DEF OverlapInv

(* Every step keeps recordings apart that are apart and forward those that are forward. *)
LEMMA OverlapKept == SeriesAsAsked => (Spec => []OverlapInv)
<1> SUFFICES ASSUME SeriesAsAsked
             PROVE  Spec => []OverlapInv
  OBVIOUS
<1>1. Init => OverlapInv
  BY DEF Init, Empty, OverlapInv, Active, ForwardQueue, ApartQueue, ApartFrom
<1>2. TypeOK /\ TypeOK' /\ OverlapInv /\ [Next]_vars => OverlapInv'
  <2> SUFFICES ASSUME TypeOK, TypeOK', OverlapInv, [Next]_vars
               PROVE  OverlapInv'
    OBVIOUS
  <2>1. CASE UNCHANGED <<recs, ongoing_recs>>
    BY <2>1 DEF OverlapInv, Active
  <2>2. ASSUME NEW v \in Video
        PROVE  /\ recs[v] \in Seq(Entry)
               /\ ForwardQueue(recs[v]) /\ ApartQueue(recs[v]) /\ ApartFrom(recs[v], Active(v))
    BY DEF TypeOK, OverlapInv
  <2>3. ASSUME NEW v \in Video, NEW slots \in SUBSET DOMAIN recs[v],
               NEW queue \in sortrecs(recs[v], slots),
               recs' = [recs EXCEPT ![v] = queue], UNCHANGED ongoing_recs
        PROVE  OverlapInv'
    <3>1. queue \in Seq(Entry)
      BY <2>2, SortedQueue
    <3>2. ForwardQueue(queue) /\ ApartQueue(queue) /\ ApartFrom(queue, Active(v))
      BY <2>2, SortKeepsApart
    <3>3. QED
      BY <2>3, <3>1, <3>2, RequeueKeepsInv
  <2>4. ASSUME NEW v \in Video, NEW req \in Requests, AddRec(v, req)
        PROVE  OverlapInv'
    <3>1. Accepts(req) /\ ~RefusedBy(v, req) /\ UNCHANGED ongoing_recs
      BY <2>4 DEF AddRec, Takes, cardVars
    <3>2. PICK queue \in Inserted(recs[v], Expand(req, global_seqnbr, recurrence_id, now)) :
            recs' = [recs EXCEPT ![v] = queue]
      BY <2>4 DEF AddRec
    <3>3. queue \in Seq(Entry)
      <4>1. recs'[v] = queue /\ recs'[v] \in Seq(Entry)
        BY <3>2 DEF TypeOK
      <4>2. QED
        BY <4>1
    <3>4. ForwardQueue(queue) /\ ApartQueue(queue) /\ ApartFrom(queue, Active(v))
      BY <3>1, InsertKeepsApart
    <3>5. QED
      BY <3>1, <3>2, <3>3, <3>4, RequeueKeepsInv
  <2>5. ASSUME NEW v \in Video, NEW i \in DOMAIN recs[v], NEW all \in BOOLEAN,
               DeleteRec(v, i, all)
        PROVE  OverlapInv'
    <3>1. Kept(recs[v], i, all) \in SUBSET DOMAIN recs[v]
      BY DEF Kept
    <3>2. QED
      BY <2>3, <2>5, <3>1 DEF DeleteRec, cardVars
  <2>6. ASSUME NEW v \in Video, MissRec(v)
        PROVE  OverlapInv'
    BY <2>3, <2>6 DEF MissRec, WithoutTop, cardVars
  <2>7. ASSUME NEW v \in Video, StartRec(v)
        PROVE  OverlapInv'
    <3>1. PICK queue \in WithoutTop(recs[v]) : recs' = [recs EXCEPT ![v] = queue]
      BY <2>7 DEF StartRec
    <3>2. ongoing_recs' = [ongoing_recs EXCEPT ![v] = Top(v)]
      BY <2>7 DEF StartRec
    <3>3. 1 \in DOMAIN recs[v] /\ Top(v) = recs[v][1] /\ Top(v) # NoRec
      <4>1. recs[v] # <<>>
        BY <2>7 DEF StartRec, Due
      <4>2. 1 \in DOMAIN recs[v] /\ recs[v][1] \in Entry
        BY <2>2, <4>1
      <4>3. QED
        BY <4>2, Constants DEF Top
    <3>4. /\ ForwardQueue(queue) /\ ApartQueue(queue)
          /\ \A i \in DOMAIN queue : Disjoint(queue[i], Top(v))
      <4> DEFINE rest == DOMAIN recs[v] \ {1}
      <4>1. rest \in SUBSET DOMAIN recs[v] /\ queue \in sortrecs(recs[v], rest)
        BY <3>1 DEF WithoutTop
      <4>2. ForwardQueue(queue) /\ ApartQueue(queue)
        BY <2>2, <4>1, SortKeepsApart
      <4>3. PICK p \in [DOMAIN queue -> rest] : \A i \in DOMAIN queue : queue[i] = recs[v][p[i]]
        BY <2>2, <4>1, SortedQueue
      <4>4. \A j \in rest : Disjoint(recs[v][j], Top(v))
        BY <2>2, <3>3 DEF ApartQueue
      <4>5. QED
        BY <4>2, <4>3, <4>4
    <3>5. /\ recs'[v] = queue /\ \A w \in Video : w # v => recs'[w] = recs[w]
          /\ Active(v)' = {Top(v)} /\ \A w \in Video : w # v => Active(w)' = Active(w)
      BY <3>1, <3>2, <3>3 DEF TypeOK, Active
    <3>6. Forward(Top(v))
      BY <2>2, <3>3 DEF ForwardQueue
    <3>7. ASSUME NEW w \in Video
          PROVE  /\ ForwardQueue(recs'[w]) /\ ApartQueue(recs'[w])
                 /\ ApartFrom(recs'[w], Active(w)') /\ \A r \in Active(w)' : Forward(r)
      <4>1. CASE w = v
        BY <3>4, <3>5, <3>6, <4>1 DEF ApartFrom
      <4>2. CASE w # v
        BY <3>5, <4>2 DEF OverlapInv
      <4>3. QED
        BY <4>1, <4>2
    <3>8. QED
      BY <3>7 DEF OverlapInv
  <2>8. ASSUME NEW t \in threads, StartRecThread(t)
        PROVE  OverlapInv'
    <3>1. UNCHANGED recs
      BY <2>8 DEF StartRecThread, SetupVideo, MakeFile, FailRec, Capture, CheckEnd, StopRec,
         queueVars
    <3>2. t.video \in Video
      BY DEF TypeOK, Thread
    <3>3. \/ UNCHANGED ongoing_recs
          \/ ongoing_recs' = [ongoing_recs EXCEPT ![t.video] = NoRec]
      BY <2>8, ThreadSteps
    <3>4. QED
      BY <2>1, <3>1, <3>2, <3>3, ReleaseKeepsInv
  <2>9. QED
    <3>1. CASE \/ Tick \/ Main \/ SaveDb \/ ReadTime \/ BeginPass \/ EndPass \/ UNCHANGED vars
               \/ \E v \in Video : AbortRec(v) \/ SkipVideo(v)
               \/ \E v \in Video, req \in Requests : AddRecToFull(v, req)
      BY <2>1, <3>1 DEF Tick, Main, AbortAll, FirstLook, Wait, Exit, SaveDb, ReadTime, BeginPass,
         EndPass, AbortRec, SkipVideo, AddRecToFull, vars, cardVars, queueVars
    <3>2. QED
      BY <2>4, <2>5, <2>6, <2>7, <2>8, <3>1 DEF Next, Commands, ChkRec, ScanVideo
<1>3. QED
  BY <1>1, <1>2, TypeCorrect, PTL DEF Spec

(***************************************************************************)
(* If the series asked for keep to their dates, no two recordings of a     *)
(* card ever share a second, for any queue length, any number of cards,    *)
(* any requests and any interleaving of the threads.                       *)
(***************************************************************************)
THEOREM NeverOverlap == SeriesAsAsked => (Spec => []NoOverlap)
<1>1. OverlapInv => NoOverlap
  BY DEF OverlapInv, NoOverlap, ApartQueue, ApartFrom
<1>2. QED
  BY <1>1, OverlapKept, PTL

-----------------------------------------------------------------------------
(* The file. *)

(***************************************************************************)
(* DbCurrent speaks of the time between two passes of chkrec; what every   *)
(* step keeps is that the file is never behind, once it has been written:  *)
(* every operation that changes a queue writes it before the mutex is      *)
(* given up, and the first of them hands out a number.                     *)
(***************************************************************************)
FileInv ==
  xmldb # recs =>
    /\ global_seqnbr = 1
    /\ xmldb \in EarlierDbs

(* A step leaves queues and file alone, or ends with a writeXMLFile. *)
LEMMA ChangesAreWritten ==
  ASSUME [Next]_vars
  PROVE  UNCHANGED <<recs, xmldb, global_seqnbr>> \/ writeXMLFile
<1>1. ASSUME NEW t \in threads, StartRecThread(t)
      PROVE  UNCHANGED <<recs, xmldb, global_seqnbr>>
  BY <1>1 DEF StartRecThread, SetupVideo, MakeFile, FailRec, Capture, CheckEnd, StopRec, queueVars
<1>2. CASE Commands
  BY <1>2 DEF Commands, AddRec, AddRecToFull, DeleteRec, AbortRec, SaveDb, queueVars
<1>3. CASE ChkRec
  BY <1>3 DEF ChkRec, ReadTime, BeginPass, EndPass, ScanVideo, SkipVideo, MissRec, StartRec,
     queueVars
<1>4. CASE Tick \/ Main \/ UNCHANGED vars
  BY <1>4 DEF Tick, Main, AbortAll, FirstLook, Wait, Exit, queueVars, vars
<1>5. QED
  BY <1>1, <1>2, <1>3, <1>4 DEF Next

(***************************************************************************)
(* Whatever an earlier server left in the DB file: as long as writes do    *)
(* not fail, the file lists exactly the pending recordings whenever        *)
(* recs_mutex is free, whichever threads have come between, from the       *)
(* first recording handed out on; before that it may still be the earlier  *)
(* server's.                                                               *)
(***************************************************************************)
THEOREM FileIsCurrent == ~XmlMayFail => (Spec => []DbCurrent)
<1> SUFFICES ASSUME ~XmlMayFail
             PROVE  Spec => []DbCurrent
  OBVIOUS
<1>1. Init => FileInv
  BY DEF Init, FileInv
<1>2. FileInv /\ [Next]_vars => FileInv'
  BY ChangesAreWritten DEF FileInv, writeXMLFile
<1>3. FileInv => DbCurrent
  BY DEF FileInv, DbCurrent
<1>4. QED
  BY <1>1, <1>2, <1>3, PTL DEF Spec

-----------------------------------------------------------------------------
(* The abort flags. *)

(***************************************************************************)
(* NoInheritedCancel is not inductive: a thread reads the flag of its card *)
(* long after it was set.  From setup_video on, which resets the flag, a   *)
(* flag that is set was set for the thread's own recording.                *)
(***************************************************************************)
FlagIsMeant(t) == t.pc # "setup" /\ abort_video[t.video] = 1 => t.rec.seqnbr \in cancelled
CancelInv == NoInheritedCancel /\ \A t \in threads : FlagIsMeant(t)

(* An abort is meant for the recording the thread of that card makes. *)
LEMMA AbortIsMeant ==
  ASSUME TypeOK, CardExclusive, CancelInv, UNCHANGED threads, cancelled \subseteq cancelled',
         \A v \in Video : \/ abort_video'[v] # 1
                          \/ abort_video'[v] = abort_video[v]
                          \/ ongoing_recs[v].seqnbr \in cancelled'
  PROVE  CancelInv'
<1>1. \A t \in threads : t.video \in Video /\ ongoing_recs[t.video] = t.rec
  BY DEF TypeOK, Thread, CardExclusive
<1>2. ASSUME NEW t \in threads
      PROVE  /\ t.doabort = "cancel" => t.rec.seqnbr \in cancelled'
             /\ t.pc # "setup" /\ abort_video'[t.video] = 1 => t.rec.seqnbr \in cancelled'
  BY <1>1 DEF CancelInv, NoInheritedCancel, FlagIsMeant
<1>3. QED
  BY <1>2 DEF CancelInv, NoInheritedCancel, FlagIsMeant

(* A thread's own steps: the flag is reset before it is read, and read before it is acted on. *)
LEMMA ThreadIsMeant ==
  ASSUME TypeOK, CardExclusive, CancelInv, NEW t \in threads, StartRecThread(t)
  PROVE  CancelInv'
<1>1. \A u \in threads : u \in Thread /\ u.video \in Video
  BY DEF TypeOK, Thread
<1>2. /\ UNCHANGED cancelled
      /\ \/ UNCHANGED abort_video
         \/ abort_video' = [abort_video EXCEPT ![t.video] = 0]
  BY DEF StartRecThread, SetupVideo, MakeFile, FailRec, Capture, CheckEnd, StopRec, cardVars,
     history
<1>3. \A v \in Video : abort_video'[v] = 1 => abort_video[v] = 1
  BY <1>2 DEF TypeOK
<1>4. ASSUME NEW u, threads' \subseteq (threads \ {t}) \cup {u},
             u.doabort = "cancel" => u.rec.seqnbr \in cancelled, FlagIsMeant(u)'
      PROVE  CancelInv'
  BY <1>1, <1>2, <1>3, <1>4 DEF CancelInv, NoInheritedCancel, FlagIsMeant
<1>5. t.doabort = "cancel" => t.rec.seqnbr \in cancelled
  BY DEF CancelInv, NoInheritedCancel
<1>6. CASE SetupVideo(t)
  <2>1. PICK pc \in {"ready", "failed"} : Becomes(t, [t EXCEPT !.pc = pc])
    BY <1>6 DEF SetupVideo
  <2> DEFINE u == [t EXCEPT !.pc = pc]
  <2>2. u.doabort = t.doabort /\ u.rec = t.rec /\ u.video = t.video
    BY <1>1 DEF Thread
  <2>3. abort_video'[t.video] = 0
    BY <1>1, <1>6 DEF SetupVideo, TypeOK
  <2>4. FlagIsMeant(u)'
    BY <2>2, <2>3 DEF FlagIsMeant
  <2>5. threads' \subseteq (threads \ {t}) \cup {u}
    BY <2>1 DEF Becomes
  <2>6. QED
    BY <1>4, <1>5, <2>2, <2>4, <2>5
<1>7. ASSUME NEW u, t.pc # "setup", threads' \subseteq (threads \ {t}) \cup {u},
             UNCHANGED abort_video, u.rec = t.rec, u.video = t.video,
             u.doabort = "cancel" => t.doabort = "cancel" \/ abort_video[t.video] = 1
      PROVE  CancelInv'
  <2>1. FlagIsMeant(t)
    BY DEF CancelInv
  <2>2. u.doabort = "cancel" => u.rec.seqnbr \in cancelled
    BY <1>5, <1>7, <2>1 DEF FlagIsMeant
  <2>3. FlagIsMeant(u)'
    BY <1>2, <1>7, <2>1 DEF FlagIsMeant
  <2>4. QED
    BY <1>4, <1>7, <2>2, <2>3
<1>8. CASE MakeFile(t)
  <2>1. PICK pc \in {"capture", "failed"} : Becomes(t, [t EXCEPT !.pc = pc])
    BY <1>8 DEF MakeFile
  <2> DEFINE u == [t EXCEPT !.pc = pc]
  <2>2. u.doabort = t.doabort /\ u.rec = t.rec /\ u.video = t.video
    BY <1>1 DEF Thread
  <2>3. t.pc # "setup" /\ UNCHANGED abort_video /\ threads' \subseteq (threads \ {t}) \cup {u}
    BY <1>8, <2>1 DEF MakeFile, Becomes, cardVars
  <2>4. QED
    BY <1>7, <2>2, <2>3
<1>9. CASE CheckEnd(t)
  <2>1. PICK pc \in ThreadPc : Becomes(t, [t EXCEPT !.pc = pc])
    BY <1>9 DEF CheckEnd, ThreadPc
  <2> DEFINE u == [t EXCEPT !.pc = pc]
  <2>2. u.doabort = t.doabort /\ u.rec = t.rec /\ u.video = t.video
    BY <1>1 DEF Thread
  <2>3. t.pc # "setup" /\ UNCHANGED abort_video /\ threads' \subseteq (threads \ {t}) \cup {u}
    BY <1>9, <2>1 DEF CheckEnd, Becomes, cardVars
  <2>4. QED
    BY <1>7, <2>2, <2>3
<1>10. CASE Capture(t)
  <2>1. PICK d \in {IF abort_video[t.video] = 1 THEN "cancel" ELSE "no", "error", "no"} :
          Becomes(t, [t EXCEPT !.pc = "check", !.doabort = d])
    BY <1>10 DEF Capture
  <2> DEFINE u == [t EXCEPT !.pc = "check", !.doabort = d]
  <2>2. u.doabort = d /\ u.rec = t.rec /\ u.video = t.video
    BY <1>1 DEF Thread
  <2>3. d = "cancel" => abort_video[t.video] = 1
    BY <2>1
  <2>4. t.pc # "setup" /\ UNCHANGED abort_video /\ threads' \subseteq (threads \ {t}) \cup {u}
    BY <1>10, <2>1 DEF Capture, Becomes, cardVars
  <2>5. QED
    BY <1>7, <2>2, <2>3, <2>4
<1>11. CASE FailRec(t) \/ StopRec(t)
  <2>1. threads' \subseteq threads
    BY <1>11 DEF FailRec, StopRec
  <2>2. QED
    BY <1>1, <1>2, <1>3, <2>1 DEF CancelInv, NoInheritedCancel, FlagIsMeant
<1>12. QED
  BY <1>6, <1>8, <1>9, <1>10, <1>11 DEF StartRecThread

(***************************************************************************)
(* No recording is cancelled by the abort flag another one left behind on  *)
(* its card, whatever came between: failed set-ups, aborts, threads that   *)
(* could not be created and the shutdown of main.                          *)
(***************************************************************************)
THEOREM CancelledAsMeant == Spec => []NoInheritedCancel
<1>1. Init => CancelInv
  BY DEF Init, CancelInv, NoInheritedCancel
<1>2. TypeOK /\ CardExclusive /\ CancelInv /\ [Next]_vars => CancelInv'
  <2> SUFFICES ASSUME TypeOK, CardExclusive, CancelInv, [Next]_vars
               PROVE  CancelInv'
    OBVIOUS
  <2>1. CASE UNCHANGED <<threads, abort_video, cancelled>>
    BY <2>1 DEF CancelInv, NoInheritedCancel, FlagIsMeant
  <2>2. ASSUME NEW v \in Video, AbortRec(v)
        PROVE  CancelInv'
    BY <2>2, AbortIsMeant DEF AbortRec, TypeOK
  <2>3. CASE AbortAll
    <3> DEFINE abort == {v \in Video : ongoing_recs[v] # NoRec /\ abort_video[v] = 0}
    <3>1. /\ abort_video' = [v \in Video |-> IF v \in abort THEN 1 ELSE 0]
          /\ cancelled' = cancelled \cup {ongoing_recs[v].seqnbr : v \in abort}
          /\ UNCHANGED threads
      BY <2>3 DEF AbortAll
    <3>2. \A v \in Video : abort_video'[v] # 1 \/ ongoing_recs[v].seqnbr \in cancelled'
      BY <3>1
    <3>3. QED
      BY <3>1, <3>2, AbortIsMeant
  <2>4. ASSUME NEW v \in Video, StartRec(v)
        PROVE  CancelInv'
    <3> DEFINE new == [rec |-> Top(v), video |-> v, pc |-> "setup", doabort |-> "no"]
    <3>1. threads' \subseteq threads \cup {new} /\ UNCHANGED <<abort_video, cancelled>>
      BY <2>4 DEF StartRec, history
    <3>2. new.pc = "setup" /\ new.doabort = "no"
      OBVIOUS
    <3>3. QED
      BY <3>1, <3>2 DEF CancelInv, NoInheritedCancel, FlagIsMeant
  <2>5. ASSUME NEW t \in threads, StartRecThread(t)
        PROVE  CancelInv'
    BY <2>5, ThreadIsMeant
  <2>6. QED
    <3>1. CASE Tick \/ Commands
      BY <2>1, <2>2, <3>1 DEF Tick, Commands, AddRec, AddRecToFull, DeleteRec, SaveDb, cardVars,
         history
    <3>2. CASE ChkRec
      BY <2>1, <2>4, <3>2 DEF ChkRec, ReadTime, BeginPass, EndPass, ScanVideo, SkipVideo, MissRec,
         cardVars, history
    <3>3. CASE Main \/ UNCHANGED vars
      BY <2>1, <2>3, <3>3 DEF Main, FirstLook, Wait, Exit, vars, cardVars, history
    <3>4. QED
      BY <2>5, <3>1, <3>2, <3>3 DEF Next
<1>3. CancelInv => NoInheritedCancel
  BY DEF CancelInv
<1>4. QED
  BY <1>1, <1>2, <1>3, TypeCorrect, CardIsExclusive, PTL DEF Spec

-----------------------------------------------------------------------------
(* No recording is lost or doubled. *)

Numbers(queue) == {queue[i].seqnbr : i \in DOMAIN queue}
Distinct(queue) == \A i, j \in DOMAIN queue : queue[i].seqnbr = queue[j].seqnbr => i = j

OnCard(v) == {r.seqnbr : r \in Active(v)}
HeldBy(v) == Numbers(recs[v]) \cup OnCard(v)
EndNumbers == {e.seqnbr : e \in ended}

(***************************************************************************)
(* Accounted counts slots, cards and ends; the invariant says that they    *)
(* divide the numbers handed out among them, each with no number twice,    *)
(* and that a queue's slots are those of its array.                        *)
(***************************************************************************)
QueueInv(v) == Distinct(recs[v]) /\ Len(recs[v]) <= MaxEntries
NumberInv ==
  /\ \A v \in Video : /\ QueueInv(v)
                      /\ Numbers(recs[v]) \cap OnCard(v) = {}
                      /\ HeldBy(v) \cap EndNumbers = {}
  /\ \A v, w \in Video : v # w => HeldBy(v) \cap HeldBy(w) = {}
  /\ \A e, f \in ended : e.seqnbr = f.seqnbr => e = f
  /\ \A n \in 1..(global_seqnbr - 1) : n \in EndNumbers \/ \E v \in Video : n \in HeldBy(v)
  /\ \A n \in EndNumbers : n \in 1..(global_seqnbr - 1)
  /\ \A v \in Video : \A n \in HeldBy(v) : n \in 1..(global_seqnbr - 1)

(* sortrecs returns a queue in the order of its starts, no longer than before. *)
LEMMA SortedLength ==
  ASSUME NEW queue \in Seq(Entry), NEW slots \in SUBSET DOMAIN queue,
         NEW r \in sortrecs(queue, slots)
  PROVE  /\ r \in Seq(Entry) /\ Sorted(r)
         /\ Len(r) = Cardinality(slots) /\ Len(r) <= Len(queue)
<1> DEFINE n == Cardinality(slots)
<1>1. n \in Nat /\ n <= Len(queue)
  <2>1. DOMAIN queue = 1..Len(queue) /\ Len(queue) \in Nat
    OBVIOUS
  <2>2. /\ IsFiniteSet(1..Len(queue))
        /\ Cardinality(1..Len(queue)) = IF 1 > Len(queue) THEN 0 ELSE Len(queue) - 1 + 1
    BY <2>1, FS_Interval
  <2>3. IsFiniteSet(slots) /\ Cardinality(slots) <= Cardinality(DOMAIN queue)
    BY <2>1, <2>2, FS_Subset
  <2>4. n \in Nat
    BY <2>3, FS_CardinalityType
  <2>5. QED
    BY <2>1, <2>2, <2>3, <2>4
<1>2. r \in Seq(Entry)
  BY SortedQueue
<1>3. PICK p \in Bijection(1..n, slots) : r = [i \in 1..n |-> queue[p[i]]] /\ Sorted(r)
  BY DEF sortrecs
<1>4. QED
  BY <1>1, <1>2, <1>3

(* sortrecs returns every entry in the slots it is given, and no other, once. *)
LEMMA SortedSlots ==
  ASSUME NEW queue \in Seq(Entry), NEW slots \in SUBSET DOMAIN queue,
         NEW r \in sortrecs(queue, slots)
  PROVE  \E p \in [DOMAIN r -> slots] :
           /\ \A i \in DOMAIN r : r[i] = queue[p[i]]
           /\ \A i, j \in DOMAIN r : p[i] = p[j] => i = j
           /\ \A j \in slots : \E i \in DOMAIN r : p[i] = j
<1> DEFINE n == Cardinality(slots)
<1>1. PICK p \in Bijection(1..n, slots) : r = [i \in 1..n |-> queue[p[i]]]
  BY DEF sortrecs
<1>2. /\ p \in [1..n -> slots]
      /\ \A i, j \in 1..n : p[i] = p[j] => i = j
      /\ \A j \in slots : \E i \in 1..n : p[i] = j
  BY <1>1 DEF Bijection, Injection, Surjection, IsInjective
<1>3. DOMAIN r = 1..n /\ \A i \in 1..n : r[i] = queue[p[i]]
  BY <1>1
<1>4. /\ p \in [DOMAIN r -> slots]
      /\ \A i \in DOMAIN r : r[i] = queue[p[i]]
      /\ \A i, j \in DOMAIN r : p[i] = p[j] => i = j
      /\ \A j \in slots : \E i \in DOMAIN r : p[i] = j
  <2> HIDE DEF n
  <2>1. QED
    BY <1>2, <1>3
<1>5. QED
  BY <1>4

(* Sorting neither loses nor doubles a number. *)
LEMMA SortKeepsNumbers ==
  ASSUME NEW queue \in Seq(Entry), Distinct(queue), NEW slots \in SUBSET DOMAIN queue,
         NEW r \in sortrecs(queue, slots)
  PROVE  /\ Distinct(r)
         /\ Numbers(r) = {queue[j].seqnbr : j \in slots}
         /\ Range(r) = {queue[j] : j \in slots}
<1>1. PICK p \in [DOMAIN r -> slots] :
        /\ \A i \in DOMAIN r : r[i] = queue[p[i]]
        /\ \A i, j \in DOMAIN r : p[i] = p[j] => i = j
        /\ \A j \in slots : \E i \in DOMAIN r : p[i] = j
  BY SortedSlots
<1>2. \A i \in DOMAIN r : p[i] \in slots /\ p[i] \in DOMAIN queue
  BY <1>1
<1>3. Distinct(r)
  BY <1>1, <1>2 DEF Distinct
<1>4. Numbers(r) = {queue[j].seqnbr : j \in slots}
  BY <1>1, <1>2 DEF Numbers
<1>5. Range(r) = {queue[j] : j \in slots}
  BY <1>1, <1>2 DEF Range
<1>6. QED
  BY <1>3, <1>4, <1>5

(* What a request expands to has the numbers handed out for it, each once. *)
LEMMA ExpandedNumbers ==
  ASSUME NEW req \in Requests, NEW seqnbr \in Nat \ {0}, NEW id \in Nat \ {0},
         NEW time \in 0..MaxTime
  PROVE  LET new == Expand(req, seqnbr, id, time)
         IN  /\ Len(new) = req.num
             /\ \A i \in 1..req.num : new[i].seqnbr = seqnbr + (i - 1)
<1>1. req \in Request /\ req.num \in Nat \ {0} /\ (req.type = 0 => req.num = 1)
  BY SchedulerAssumption DEF Request
<1>2. CASE req.type = 0
  BY <1>1, <1>2 DEF Expand, SingleEntry
<1>3. CASE req.type # 0
  <2> DEFINE new == Expand(req, seqnbr, id, time)
  <2>1. new = [i \in 1..req.num |-> SeriesEntry(req, i - 1, seqnbr, id, time)]
    BY <1>3 DEF Expand
  <2>2. \A i \in 1..req.num : new[i].seqnbr = seqnbr + (i - 1)
    BY <2>1 DEF SeriesEntry
  <2>3. Len(new) = req.num
    BY <1>1, <2>1
  <2>4. QED
    BY <2>2, <2>3
<1>4. QED
  BY <1>2, <1>3

(* The new numbers are the next ones. *)
LEMMA NewNumbers ==
  ASSUME NEW req \in Requests, NEW seqnbr \in Nat \ {0}, NEW id \in Nat \ {0},
         NEW time \in 0..MaxTime
  PROVE  LET new == Expand(req, seqnbr, id, time)
         IN  Distinct(new) /\ Numbers(new) = seqnbr..(seqnbr + req.num - 1)
<1> DEFINE new == Expand(req, seqnbr, id, time)
<1>1. req.num \in Nat \ {0}
  BY Constants DEF Request
<1>2. Len(new) = req.num /\ \A i \in 1..req.num : new[i].seqnbr = seqnbr + (i - 1)
  BY ExpandedNumbers
<1>3. DOMAIN new = 1..req.num
  BY <1>2, ExpandedEntries
<1> HIDE DEF new
<1>4. \A i, j \in 1..req.num : seqnbr + (i - 1) = seqnbr + (j - 1) => i = j
  BY <1>1
<1>5. \A n \in seqnbr..(seqnbr + req.num - 1) :
        n - seqnbr + 1 \in 1..req.num /\ seqnbr + ((n - seqnbr + 1) - 1) = n
  BY <1>1
<1>6. \A j \in 1..req.num : seqnbr + (j - 1) \in seqnbr..(seqnbr + req.num - 1)
  BY <1>1
<1>7. Numbers(new) = {new[j].seqnbr : j \in 1..req.num}
  BY <1>3 DEF Numbers
<1>8. \A n \in seqnbr..(seqnbr + req.num - 1) : \E j \in 1..req.num : new[j].seqnbr = n
  <2> SUFFICES ASSUME NEW n \in seqnbr..(seqnbr + req.num - 1)
               PROVE  \E j \in 1..req.num : new[j].seqnbr = n
    OBVIOUS
  <2>1. new[n - seqnbr + 1].seqnbr = n
    BY <1>2, <1>5
  <2>2. QED
    BY <1>5, <2>1
<1>9. Numbers(new) \subseteq seqnbr..(seqnbr + req.num - 1)
  BY <1>2, <1>6, <1>7
<1>10. Numbers(new) = seqnbr..(seqnbr + req.num - 1)
  BY <1>7, <1>8, <1>9
<1>11. Distinct(new)
  BY <1>2, <1>3, <1>4 DEF Distinct
<1>12. QED
  BY <1>10, <1>11 DEF new

(* The numbers handed out, and those a step hands out. *)
LEMMA FreshNumbers ==
  ASSUME NEW a \in Nat \ {0}, NEW b \in Nat \ {0}, a <= b
  PROVE  /\ \A n \in a..(b - 1) : n \notin 1..(a - 1) /\ n \in 1..(b - 1)
         /\ \A n \in 1..(a - 1) : n \in 1..(b - 1)
         /\ \A n \in 1..(b - 1) : n \in 1..(a - 1) \/ n \in a..(b - 1)
OBVIOUS

(* NumberInv needs looking at on one card and at the ends: the rest follows. *)
LEMMA NumbersMove ==
  ASSUME TypeOK, TypeOK', NumberInv, NEW v \in Video,
         \A w \in Video : w # v => UNCHANGED <<recs[w], ongoing_recs[w]>>,
         QueueInv(v)', (Numbers(recs[v]) \cap OnCard(v))' = {},
         (HeldBy(v) \cap EndNumbers)' = {},
         \A e, f \in ended' : e.seqnbr = f.seqnbr => e = f,
         global_seqnbr <= global_seqnbr',
         (HeldBy(v) \cup EndNumbers)'
           = HeldBy(v) \cup EndNumbers \cup global_seqnbr..(global_seqnbr' - 1),
         EndNumbers \subseteq EndNumbers'
  PROVE  NumberInv'
<1> DEFINE g == global_seqnbr
           fresh == g..(g' - 1)
<1>1. g \in Nat \ {0} /\ g' \in Nat \ {0} /\ g <= g'
  BY DEF TypeOK
<1>2. \A w \in Video : w # v => /\ QueueInv(w)' = QueueInv(w)
                                /\ (Numbers(recs[w]) \cap OnCard(w))'
                                     = Numbers(recs[w]) \cap OnCard(w)
                                /\ HeldBy(w)' = HeldBy(w)
  BY DEF QueueInv, OnCard, HeldBy, Active
<1>3. /\ \A w \in Video : QueueInv(w) /\ Numbers(recs[w]) \cap OnCard(w) = {}
      /\ \A w \in Video : \A n \in HeldBy(w) : n \notin EndNumbers /\ n \in 1..(g - 1)
      /\ \A w, x \in Video : w # x => \A n \in HeldBy(w) : n \notin HeldBy(x)
      /\ \A n \in EndNumbers : n \in 1..(g - 1)
      /\ \A n \in 1..(g - 1) : n \in EndNumbers \/ \E w \in Video : n \in HeldBy(w)
  BY DEF NumberInv
<1>4. \A n : n \in HeldBy(v)' \/ n \in EndNumbers' <=>
              n \in HeldBy(v) \/ n \in EndNumbers \/ n \in fresh
  OBVIOUS
<1>5. \A n \in fresh : n \notin 1..(g - 1) /\ n \in 1..(g' - 1)
  BY <1>1, FreshNumbers
<1>6. /\ \A n \in 1..(g - 1) : n \in 1..(g' - 1)
      /\ \A n \in 1..(g' - 1) : n \in 1..(g - 1) \/ n \in fresh
  BY <1>1, FreshNumbers
<1>7. \A w \in Video : /\ QueueInv(w)' /\ (Numbers(recs[w]) \cap OnCard(w))' = {}
  BY <1>2, <1>3
<1>8. \A w \in Video : (HeldBy(w) \cap EndNumbers)' = {}
  <2> SUFFICES ASSUME NEW w \in Video, w # v, NEW n \in HeldBy(w)', n \in EndNumbers'
               PROVE  FALSE
    OBVIOUS
  <2>1. n \in HeldBy(w)
    BY <1>2
  <2>2. n \notin EndNumbers /\ n \notin HeldBy(v) /\ n \in 1..(g - 1)
    BY <1>3, <2>1
  <2>3. n \in fresh
    BY <1>4, <2>2
  <2>4. QED
    BY <1>5, <2>2, <2>3
<1>9. \A w \in Video : w # v => \A n \in HeldBy(w)' : n \notin HeldBy(v)'
  <2> SUFFICES ASSUME NEW w \in Video, w # v, NEW n \in HeldBy(w)', n \in HeldBy(v)'
               PROVE  FALSE
    OBVIOUS
  <2>1. n \in HeldBy(w)
    BY <1>2
  <2>2. n \notin EndNumbers /\ n \notin HeldBy(v) /\ n \in 1..(g - 1)
    BY <1>3, <2>1
  <2>3. n \in fresh
    BY <1>4, <2>2
  <2>4. QED
    BY <1>5, <2>2, <2>3
<1>10. \A w, x \in Video : w # x => HeldBy(w)' \cap HeldBy(x)' = {}
  <2> SUFFICES ASSUME NEW w \in Video, NEW x \in Video, w # x, NEW n \in HeldBy(w)',
                      n \in HeldBy(x)'
               PROVE  FALSE
    OBVIOUS
  <2>1. CASE w = v \/ x = v
    BY <1>9, <2>1
  <2>2. CASE w # v /\ x # v
    BY <1>2, <1>3, <2>2
  <2>3. QED
    BY <2>1, <2>2
<1>11. \A n \in 1..(g' - 1) : n \in EndNumbers' \/ \E w \in Video : n \in HeldBy(w)'
  <2> SUFFICES ASSUME NEW n \in 1..(g' - 1), n \notin EndNumbers', n \notin HeldBy(v)'
               PROVE  \E w \in Video : n \in HeldBy(w)'
    OBVIOUS
  <2>1. n \notin fresh /\ n \notin EndNumbers /\ n \notin HeldBy(v)
    BY <1>4
  <2>2. n \in 1..(g - 1)
    BY <1>6, <2>1
  <2>3. PICK w \in Video : n \in HeldBy(w)
    BY <1>3, <2>1, <2>2
  <2>4. QED
    BY <1>2, <2>1, <2>3
<1>12. \A n \in EndNumbers' : n \in 1..(g' - 1)
  BY <1>3, <1>4, <1>5, <1>6
<1>13. \A w \in Video : \A n \in HeldBy(w)' : n \in 1..(g' - 1)
  BY <1>2, <1>3, <1>4, <1>5, <1>6
<1> HIDE DEF fresh
<1>14. QED
  BY <1>7, <1>8, <1>10, <1>11, <1>12, <1>13 DEF NumberInv

(* Taking slots out of a queue leaves the numbers in the other slots, each once. *)
LEMMA RemovedNumbers ==
  ASSUME TypeOK, NumberInv, NEW v \in Video, NEW slots \in SUBSET DOMAIN recs[v],
         NEW queue \in sortrecs(recs[v], slots), recs' = [recs EXCEPT ![v] = queue]
  PROVE  /\ recs'[v] = queue /\ \A w \in Video : w # v => UNCHANGED recs[w]
         /\ QueueInv(v)'
         /\ Numbers(recs[v])' = {recs[v][j].seqnbr : j \in slots}
         /\ \A j \in DOMAIN recs[v] : j \notin slots => recs[v][j].seqnbr \notin Numbers(recs[v])'
<1>1. recs[v] \in Seq(Entry) /\ Distinct(recs[v]) /\ Len(recs[v]) <= MaxEntries
  BY DEF TypeOK, NumberInv, QueueInv
<1>2. recs'[v] = queue /\ \A w \in Video : w # v => UNCHANGED recs[w]
  BY DEF TypeOK
<1>3. Distinct(queue) /\ Numbers(queue) = {recs[v][j].seqnbr : j \in slots}
  BY <1>1, SortKeepsNumbers
<1>4. queue \in Seq(Entry) /\ Len(queue) <= Len(recs[v])
  BY <1>1, SortedLength
<1>5. Len(queue) <= MaxEntries
  BY <1>1, <1>4, MaxEntriesAssumption
<1>6. \A j \in DOMAIN recs[v] : j \notin slots => recs[v][j].seqnbr \notin Numbers(queue)
  BY <1>1, <1>3 DEF Distinct
<1>7. QED
  BY <1>2, <1>3, <1>5, <1>6 DEF QueueInv

(* Recordings given up unrecorded: their numbers end, once each. *)
LEMMA EndedNumbers ==
  ASSUME TypeOK, TypeOK', NumberInv, NEW v \in Video, NEW slots \in SUBSET DOMAIN recs[v],
         NEW queue \in sortrecs(recs[v], slots), recs' = [recs EXCEPT ![v] = queue],
         NEW how,
         ended' = ended \cup {Gone(recs[v][j], how) : j \in DOMAIN recs[v] \ slots},
         UNCHANGED <<ongoing_recs, global_seqnbr>>
  PROVE  NumberInv'
<1> DEFINE out == {recs[v][j].seqnbr : j \in DOMAIN recs[v] \ slots}
<1>1. /\ recs'[v] = queue /\ \A w \in Video : w # v => UNCHANGED recs[w]
      /\ QueueInv(v)'
      /\ Numbers(recs[v])' = {recs[v][j].seqnbr : j \in slots}
      /\ \A j \in DOMAIN recs[v] : j \notin slots => recs[v][j].seqnbr \notin Numbers(recs[v])'
  BY RemovedNumbers
<1>2. \A j \in DOMAIN recs[v] : Gone(recs[v][j], how).seqnbr = recs[v][j].seqnbr
  BY DEF Gone
<1>3. EndNumbers' = EndNumbers \cup out
  BY <1>2 DEF EndNumbers
<1>4. Numbers(recs[v]) = Numbers(recs[v])' \cup out /\ Numbers(recs[v])' \cap out = {}
  <2>1. Numbers(recs[v]) = {recs[v][j].seqnbr : j \in DOMAIN recs[v]}
    BY DEF Numbers
  <2>2. QED
    BY <1>1, <2>1
<1>5. OnCard(v)' = OnCard(v)
  BY DEF OnCard, Active
<1>6. HeldBy(v) \cap EndNumbers = {} /\ Numbers(recs[v]) \cap OnCard(v) = {}
  BY DEF NumberInv
<1>7. /\ (Numbers(recs[v]) \cap OnCard(v))' = {}
      /\ (HeldBy(v) \cap EndNumbers)' = {}
      /\ (HeldBy(v) \cup EndNumbers)' = HeldBy(v) \cup EndNumbers
  BY <1>3, <1>4, <1>5, <1>6 DEF HeldBy
<1>8. \A e, f \in ended' : e.seqnbr = f.seqnbr => e = f
  <2> DEFINE new == {Gone(recs[v][j], how) : j \in DOMAIN recs[v] \ slots}
  <2>1. \A e \in new : e.seqnbr \in HeldBy(v) /\ e.seqnbr \notin EndNumbers
    BY <1>2, <1>6 DEF HeldBy, Numbers
  <2>2. \A e, f \in new : e.seqnbr = f.seqnbr => e = f
    BY <1>2 DEF Gone
  <2>3. \A e \in ended : e.seqnbr \in EndNumbers
    BY DEF EndNumbers
  <2>4. \A e, f \in ended : e.seqnbr = f.seqnbr => e = f
    BY DEF NumberInv
  <2>5. \A e \in ended' : e \in ended \/ e \in new
    OBVIOUS
  <2>6. QED
    BY <2>1, <2>2, <2>3, <2>4, <2>5
<1>9. global_seqnbr \in Nat \ {0} /\ global_seqnbr' = global_seqnbr
  BY DEF TypeOK
<1>10. global_seqnbr..(global_seqnbr' - 1) = {}
  BY <1>9
<1>11. /\ global_seqnbr <= global_seqnbr'
       /\ \A w \in Video : w # v => UNCHANGED <<recs[w], ongoing_recs[w]>>
       /\ EndNumbers \subseteq EndNumbers'
  BY <1>1, <1>3, <1>9
<1>12. (HeldBy(v) \cup EndNumbers)'
         = HeldBy(v) \cup EndNumbers \cup global_seqnbr..(global_seqnbr' - 1)
  BY <1>7, <1>10
<1>13. QED
  BY <1>1, <1>7, <1>8, <1>11, <1>12, NumbersMove

(* A recording that is started moves from its queue to its card. *)
LEMMA StartedNumbers ==
  ASSUME TypeOK, TypeOK', NumberInv, NEW v \in Video, StartRec(v)
  PROVE  NumberInv'
<1>1. recs[v] # <<>> /\ ongoing_recs[v] = NoRec /\ recs[v] \in Seq(Entry)
  BY DEF StartRec, Due, CardFree, TypeOK
<1>2. PICK queue \in sortrecs(recs[v], DOMAIN recs[v] \ {1}) : recs' = [recs EXCEPT ![v] = queue]
  BY DEF StartRec, WithoutTop
<1>3. 1 \in DOMAIN recs[v] /\ Top(v) = recs[v][1] /\ Top(v) \in Entry /\ Top(v) # NoRec
  BY <1>1, Constants DEF Top
<1>4. DOMAIN recs[v] \ {1} \in SUBSET DOMAIN recs[v]
  OBVIOUS
<1>5. /\ recs'[v] = queue /\ \A w \in Video : w # v => UNCHANGED recs[w]
      /\ QueueInv(v)'
      /\ Numbers(recs[v])' = {recs[v][j].seqnbr : j \in DOMAIN recs[v] \ {1}}
      /\ Top(v).seqnbr \notin Numbers(recs[v])'
  <2> DEFINE slots == DOMAIN recs[v] \ {1}
  <2>1. slots \in SUBSET DOMAIN recs[v] /\ queue \in sortrecs(recs[v], slots) /\ 1 \notin slots
    BY <1>2
  <2> HIDE DEF slots
  <2>2. /\ recs'[v] = queue /\ \A w \in Video : w # v => UNCHANGED recs[w]
        /\ QueueInv(v)'
        /\ Numbers(recs[v])' = {recs[v][j].seqnbr : j \in slots}
        /\ \A j \in DOMAIN recs[v] : j \notin slots => recs[v][j].seqnbr \notin Numbers(recs[v])'
    BY <1>2, <2>1, RemovedNumbers
  <2>3. QED
    BY <1>3, <2>1, <2>2 DEF slots
<1>6. Numbers(recs[v]) = Numbers(recs[v])' \cup {Top(v).seqnbr}
  <2>1. Numbers(recs[v]) = {recs[v][j].seqnbr : j \in DOMAIN recs[v]}
    BY DEF Numbers
  <2>2. QED
    BY <1>3, <1>5, <2>1
<1>7. /\ ongoing_recs'[v] = Top(v)
      /\ \A w \in Video : w # v => UNCHANGED ongoing_recs[w]
      /\ UNCHANGED <<ended, global_seqnbr>>
  BY DEF StartRec, TypeOK, history
<1>8. OnCard(v) = {} /\ OnCard(v)' = {Top(v).seqnbr}
  BY <1>1, <1>3, <1>7 DEF OnCard, Active
<1>9. EndNumbers' = EndNumbers
  BY <1>7 DEF EndNumbers
<1>10. HeldBy(v) \cap EndNumbers = {} /\ \A e, f \in ended : e.seqnbr = f.seqnbr => e = f
  BY DEF NumberInv
<1>11. HeldBy(v)' = HeldBy(v) /\ (Numbers(recs[v]) \cap OnCard(v))' = {}
  BY <1>5, <1>6, <1>8 DEF HeldBy
<1>12. global_seqnbr \in Nat \ {0}
  BY DEF TypeOK
<1>13. global_seqnbr..(global_seqnbr' - 1) = {} /\ global_seqnbr <= global_seqnbr'
  BY <1>7, <1>12
<1>14. /\ (HeldBy(v) \cap EndNumbers)' = {}
       /\ (HeldBy(v) \cup EndNumbers)'
            = HeldBy(v) \cup EndNumbers \cup global_seqnbr..(global_seqnbr' - 1)
       /\ EndNumbers \subseteq EndNumbers'
       /\ \A e, f \in ended' : e.seqnbr = f.seqnbr => e = f
  BY <1>7, <1>9, <1>10, <1>11, <1>13
<1>15. \A w \in Video : w # v => UNCHANGED <<recs[w], ongoing_recs[w]>>
  BY <1>5, <1>7
<1>16. QED
  BY <1>5, <1>11, <1>13, <1>14, <1>15, NumbersMove

(* A thread that gives up its card ends the recording the card was busy with. *)
LEMMA ReleasedNumbers ==
  ASSUME TypeOK, TypeOK', CardExclusive, NumberInv, NEW t \in threads, NEW how,
         ongoing_recs' = [ongoing_recs EXCEPT ![t.video] = NoRec],
         ended' = ended \cup {Gone(t.rec, how)}, UNCHANGED <<recs, global_seqnbr>>
  PROVE  NumberInv'
<1> DEFINE v == t.video
           n == t.rec.seqnbr
<1>1. v \in Video /\ ongoing_recs[v] = t.rec /\ t.rec # NoRec
  BY Constants DEF TypeOK, Thread, CardExclusive
<1> HIDE DEF v
<1>2. /\ ongoing_recs'[v] = NoRec
      /\ \A w \in Video : w # v => UNCHANGED ongoing_recs[w]
  BY <1>1 DEF TypeOK, v
<1>3. OnCard(v) = {n} /\ OnCard(v)' = {}
  BY <1>1, <1>2 DEF OnCard, Active
<1>4. EndNumbers' = EndNumbers \cup {n}
  <2>1. Gone(t.rec, how).seqnbr = n
    BY DEF Gone
  <2>2. QED
    BY <2>1 DEF EndNumbers
<1>5. /\ Numbers(recs[v]) \cap OnCard(v) = {} /\ HeldBy(v) \cap EndNumbers = {} /\ QueueInv(v)
      /\ \A e, f \in ended : e.seqnbr = f.seqnbr => e = f
  BY <1>1 DEF NumberInv
<1>6. n \notin Numbers(recs[v]) /\ n \notin EndNumbers
  BY <1>3, <1>5 DEF HeldBy
<1>7. HeldBy(v) = HeldBy(v)' \cup {n} /\ HeldBy(v)' = Numbers(recs[v])
  BY <1>3 DEF HeldBy
<1>8. global_seqnbr \in Nat \ {0}
  BY DEF TypeOK
<1>9. global_seqnbr..(global_seqnbr' - 1) = {} /\ global_seqnbr <= global_seqnbr'
  BY <1>8
<1>10. /\ (HeldBy(v) \cap EndNumbers)' = {}
       /\ (HeldBy(v) \cup EndNumbers)'
            = HeldBy(v) \cup EndNumbers \cup global_seqnbr..(global_seqnbr' - 1)
       /\ EndNumbers \subseteq EndNumbers'
       /\ (Numbers(recs[v]) \cap OnCard(v))' = {}
  BY <1>3, <1>4, <1>5, <1>6, <1>7, <1>9 DEF HeldBy
<1>11. \A e, f \in ended' : e.seqnbr = f.seqnbr => e = f
  <2>1. \A e \in ended : e.seqnbr # Gone(t.rec, how).seqnbr
    BY <1>6 DEF EndNumbers, Gone
  <2>2. QED
    BY <1>5, <2>1
<1>12. /\ \A w \in Video : w # v => UNCHANGED <<recs[w], ongoing_recs[w]>>
       /\ QueueInv(v)'
  BY <1>2, <1>5 DEF QueueInv
<1>13. QED
  BY <1>1, <1>9, <1>10, <1>11, <1>12, NumbersMove

(* The queue a request is put in: the old recordings and the new ones, which fit. *)
LEMMA InsertedNumbers ==
  ASSUME TypeOK, NumberInv, NEW v \in Video, NEW req \in Requests,
         ~RefusedBy(v, req), ~Full(recs[v]),
         NEW queue \in Inserted(recs[v], Expand(req, global_seqnbr, recurrence_id, now))
  PROVE  LET new == Expand(req, global_seqnbr, recurrence_id, now)
         IN  /\ queue \in Seq(Entry) /\ Distinct(queue) /\ Len(queue) <= MaxEntries /\ Sorted(queue)
             /\ Numbers(queue)
                  = Numbers(recs[v]) \cup global_seqnbr..(global_seqnbr + req.num - 1)
             /\ Range(queue) = Range(recs[v]) \cup Range(new)
<1> DEFINE new == Expand(req, global_seqnbr, recurrence_id, now)
           old == recs[v]
           all == old \o new
           g == global_seqnbr
<1>1. /\ g \in Nat \ {0} /\ recurrence_id \in Nat \ {0} /\ now \in 0..MaxTime
      /\ old \in Seq(Entry) /\ Distinct(old) /\ Len(old) <= MaxEntries
      /\ \A n \in Numbers(old) : n \in 1..(g - 1)
  BY DEF TypeOK, NumberInv, QueueInv, HeldBy
<1>2. /\ new \in Seq(Entry) /\ Len(new) = req.num
      /\ \A i \in 1..req.num : new[i].seqnbr = g + (i - 1)
  BY <1>1, ExpandedEntries, ExpandedNumbers
<1>3. req.num \in Nat \ {0} /\ (req.type = 0 => req.num = 1)
  BY SchedulerAssumption DEF Request
<1> HIDE DEF new, g
<1>4. /\ all \in Seq(Entry) /\ Len(all) = Len(old) + req.num
      /\ \A i \in DOMAIN old : i \in DOMAIN all /\ all[i] = old[i]
      /\ \A i \in DOMAIN new : Len(old) + i \in DOMAIN all /\ all[Len(old) + i] = new[i]
      /\ \A i \in DOMAIN all : \/ i \in DOMAIN old
                               \/ \E j \in DOMAIN new : i = Len(old) + j
  <2>1. all \in Seq(Entry) /\ Len(all) = Len(old) + req.num
    <3>1. old \in Seq(Entry) /\ new \in Seq(Entry)
      BY <1>1, <1>2
    <3>2. all \in Seq(Entry)
      BY <3>1
    <3>3. Len(all) = Len(old) + Len(new)
      BY <3>1
    <3>4. QED
      BY <1>2, <3>2, <3>3
  <2>2. \A i \in DOMAIN old : i \in DOMAIN all /\ all[i] = old[i]
    BY <1>1, <1>2
  <2>3. \A i \in DOMAIN new : Len(old) + i \in DOMAIN all /\ all[Len(old) + i] = new[i]
    BY <1>1, <1>2
  <2>4. ASSUME NEW i \in DOMAIN all, i \notin DOMAIN old
        PROVE  \E j \in DOMAIN new : i = Len(old) + j
    <3>1. i - Len(old) \in DOMAIN new /\ i = Len(old) + (i - Len(old))
      BY <1>1, <1>2, <2>4
    <3>2. QED
      BY <3>1
  <2>5. QED
    BY <2>1, <2>2, <2>3, <2>4
<1>5. /\ \A j \in DOMAIN new : new[j].seqnbr \notin 1..(g - 1)
      /\ \A i, j \in DOMAIN new : new[i].seqnbr = new[j].seqnbr => i = j
      /\ Numbers(new) = g..(g + req.num - 1)
  <2>1. Distinct(new) /\ Numbers(new) = g..(g + req.num - 1)
    BY <1>1, NewNumbers DEF new, g
  <2>2. DOMAIN new = 1..req.num
    BY <1>2
  <2>3. \A j \in 1..req.num : g + (j - 1) \notin 1..(g - 1)
    BY <1>1, <1>3
  <2>4. QED
    BY <1>2, <2>1, <2>2, <2>3 DEF Distinct
<1>6. Distinct(all)
  <2> SUFFICES ASSUME NEW i \in DOMAIN all, NEW j \in DOMAIN all, all[i].seqnbr = all[j].seqnbr
               PROVE  i = j
    BY DEF Distinct
  <2>1. \A k \in DOMAIN old : old[k].seqnbr \in 1..(g - 1)
    BY <1>1 DEF Numbers
  <2>2. CASE i \in DOMAIN old /\ j \in DOMAIN old
    BY <1>1, <1>4, <2>2 DEF Distinct
  <2>3. CASE i \in DOMAIN old /\ j \notin DOMAIN old
    BY <1>4, <1>5, <2>1, <2>3
  <2>4. CASE i \notin DOMAIN old /\ j \in DOMAIN old
    BY <1>4, <1>5, <2>1, <2>4
  <2>5. CASE i \notin DOMAIN old /\ j \notin DOMAIN old
    BY <1>4, <1>5, <2>5
  <2>6. QED
    BY <2>2, <2>3, <2>4, <2>5
<1>7. queue \in sortrecs(all, DOMAIN all) /\ DOMAIN all \in SUBSET DOMAIN all
  BY DEF Inserted, new, g
<1>8. /\ Distinct(queue) /\ Numbers(queue) = {all[i].seqnbr : i \in DOMAIN all}
      /\ Range(queue) = {all[i] : i \in DOMAIN all}
      /\ queue \in Seq(Entry) /\ Len(queue) <= Len(all) /\ Sorted(queue)
  BY <1>4, <1>6, <1>7, SortKeepsNumbers, SortedLength
<1>9. Len(queue) <= MaxEntries
  <2>1. Len(old) + req.num <= MaxEntries
    <3>1. CASE req.type = 0
      BY <1>1, <1>3, <3>1, MaxEntriesAssumption DEF Full
    <3>2. CASE req.type # 0
      BY <1>1, <1>3, <3>2, MaxEntriesAssumption DEF RefusedBy, Refused
    <3>3. QED
      BY <3>1, <3>2
  <2>2. QED
    BY <1>1, <1>3, <1>4, <1>8, <2>1, MaxEntriesAssumption
<1>10. Numbers(queue) = Numbers(old) \cup g..(g + req.num - 1)
  <2>1. Numbers(old) = {old[i].seqnbr : i \in DOMAIN old}
    BY DEF Numbers
  <2>2. g..(g + req.num - 1) = {new[i].seqnbr : i \in DOMAIN new}
    BY <1>5 DEF Numbers
  <2>3. Numbers(queue) \subseteq Numbers(old) \cup g..(g + req.num - 1)
    BY <1>4, <1>8, <2>1, <2>2
  <2>4. Numbers(old) \cup g..(g + req.num - 1) \subseteq Numbers(queue)
    BY <1>4, <1>8, <2>1, <2>2
  <2>5. QED
    BY <2>3, <2>4
<1>11. Range(queue) = Range(old) \cup Range(new)
  <2>1. Range(old) = {old[i] : i \in DOMAIN old} /\ Range(new) = {new[i] : i \in DOMAIN new}
    BY DEF Range
  <2>2. Range(queue) \subseteq Range(old) \cup Range(new)
    BY <1>4, <1>8, <2>1
  <2>3. Range(old) \cup Range(new) \subseteq Range(queue)
    BY <1>4, <1>8, <2>1
  <2>4. QED
    BY <2>2, <2>3
<1>12. QED
  BY <1>8, <1>9, <1>10, <1>11 DEF new, g

(* A request that is taken gets the next numbers, in the queue of its card. *)
LEMMA AddedNumbers ==
  ASSUME TypeOK, TypeOK', NumberInv, NEW v \in Video, NEW req \in Requests, AddRec(v, req)
  PROVE  NumberInv'
<1>1. PICK queue \in Inserted(recs[v], Expand(req, global_seqnbr, recurrence_id, now)) :
        recs' = [recs EXCEPT ![v] = queue]
  BY DEF AddRec
<1>2. ~RefusedBy(v, req) /\ ~Full(recs[v]) /\ global_seqnbr' = global_seqnbr + req.num
      /\ UNCHANGED <<ongoing_recs, ended>>
  BY DEF AddRec, Takes, cardVars, history
<1>3. /\ Distinct(queue) /\ Len(queue) <= MaxEntries
      /\ Numbers(queue) = Numbers(recs[v]) \cup global_seqnbr..(global_seqnbr + req.num - 1)
  BY <1>2, InsertedNumbers
<1>4. /\ recs'[v] = queue
      /\ \A w \in Video : w # v => UNCHANGED <<recs[w], ongoing_recs[w]>>
  BY <1>1, <1>2 DEF TypeOK
<1>5. global_seqnbr \in Nat \ {0} /\ req.num \in Nat \ {0}
  BY Constants DEF Request, TypeOK
<1>6. /\ HeldBy(v) \cap EndNumbers = {} /\ Numbers(recs[v]) \cap OnCard(v) = {}
      /\ \A n \in HeldBy(v) : n \in 1..(global_seqnbr - 1)
      /\ \A n \in EndNumbers : n \in 1..(global_seqnbr - 1)
      /\ \A e, f \in ended : e.seqnbr = f.seqnbr => e = f
  BY DEF NumberInv
<1>7. OnCard(v)' = OnCard(v) /\ EndNumbers' = EndNumbers
  BY <1>2 DEF OnCard, Active, EndNumbers
<1>8. Numbers(recs[v])' = Numbers(recs[v]) \cup global_seqnbr..(global_seqnbr' - 1)
  <2>1. Numbers(recs[v])' = Numbers(queue)
    BY <1>4 DEF Numbers
  <2>2. global_seqnbr' - 1 = global_seqnbr + req.num - 1
    BY <1>2, <1>5
  <2>3. QED
    BY <1>3, <2>1, <2>2
<1>9. \A n \in global_seqnbr..(global_seqnbr' - 1) : n \notin HeldBy(v) /\ n \notin EndNumbers
  BY <1>2, <1>5, <1>6
<1>10. HeldBy(v)' = HeldBy(v) \cup global_seqnbr..(global_seqnbr' - 1)
  BY <1>7, <1>8 DEF HeldBy
<1>11. /\ (Numbers(recs[v]) \cap OnCard(v))' = {}
       /\ (HeldBy(v) \cap EndNumbers)' = {}
       /\ (HeldBy(v) \cup EndNumbers)'
            = HeldBy(v) \cup EndNumbers \cup global_seqnbr..(global_seqnbr' - 1)
       /\ EndNumbers \subseteq EndNumbers'
  BY <1>6, <1>7, <1>8, <1>9, <1>10 DEF HeldBy
<1>12. QueueInv(v)'
  BY <1>3, <1>4 DEF QueueInv
<1>13. global_seqnbr <= global_seqnbr' /\ \A e, f \in ended' : e.seqnbr = f.seqnbr => e = f
  BY <1>2, <1>5, <1>6
<1>14. QED
  BY <1>4, <1>11, <1>12, <1>13, NumbersMove

(* A recording that was dropped has used its number up. *)
LEMMA DroppedNumber ==
  ASSUME TypeOK, TypeOK', NumberInv, NEW v \in Video, NEW req \in Requests, AddRecToFull(v, req)
  PROVE  NumberInv'
<1> DEFINE g == global_seqnbr
           gone == Gone(SingleEntry(req, g), "dropped")
<1>1. g' = g + 1 /\ ended' = ended \cup {gone} /\ UNCHANGED <<recs, ongoing_recs>>
  BY DEF AddRecToFull, cardVars
<1>2. gone.seqnbr = g /\ g \in Nat \ {0}
  BY DEF Gone, SingleEntry, TypeOK
<1> HIDE DEF gone, g
<1>3. /\ HeldBy(v) \cap EndNumbers = {} /\ Numbers(recs[v]) \cap OnCard(v) = {} /\ QueueInv(v)
      /\ \A n \in HeldBy(v) : n \in 1..(g - 1)
      /\ \A n \in EndNumbers : n \in 1..(g - 1)
      /\ \A e, f \in ended : e.seqnbr = f.seqnbr => e = f
  BY DEF NumberInv, g
<1>4. /\ HeldBy(v)' = HeldBy(v) /\ Numbers(recs[v])' = Numbers(recs[v])
      /\ OnCard(v)' = OnCard(v) /\ QueueInv(v)' = QueueInv(v)
  BY <1>1 DEF HeldBy, Numbers, OnCard, Active, QueueInv
<1>5. EndNumbers' = EndNumbers \cup {g}
  BY <1>1, <1>2 DEF EndNumbers
<1>6. g \notin HeldBy(v) /\ g \notin EndNumbers /\ g..(g' - 1) = {g} /\ g <= g'
  BY <1>1, <1>2, <1>3
<1>7. \A e, f \in ended' : e.seqnbr = f.seqnbr => e = f
  BY <1>1, <1>2, <1>3, <1>6 DEF EndNumbers
<1>8. /\ (Numbers(recs[v]) \cap OnCard(v))' = {}
      /\ (HeldBy(v) \cap EndNumbers)' = {}
      /\ (HeldBy(v) \cup EndNumbers)' = HeldBy(v) \cup EndNumbers \cup g..(g' - 1)
      /\ EndNumbers \subseteq EndNumbers'
      /\ QueueInv(v)'
      /\ \A w \in Video : w # v => UNCHANGED <<recs[w], ongoing_recs[w]>>
  BY <1>1, <1>3, <1>4, <1>5, <1>6
<1>9. QED
  BY <1>6, <1>7, <1>8, NumbersMove DEF g

(* The three places of a number, counted, are one. *)
LEMMA NumbersCounted ==
  ASSUME TypeOK, NumberInv
  PROVE  Accounted
<1> SUFFICES ASSUME NEW n \in 1..(global_seqnbr - 1)
             PROVE  Cardinality(Slots(n)) + Cardinality(CardsOf(n)) + Cardinality(EndsOf(n)) = 1
  BY DEF Accounted
<1>1. n \in Nat \ {0}
  BY DEF TypeOK
<1>2. \A v \in Video : /\ recs[v] \in Seq(Entry) /\ QueueInv(v)
                       /\ DOMAIN recs[v] \subseteq 1..MaxEntries
  <2> SUFFICES ASSUME NEW v \in Video
               PROVE  /\ recs[v] \in Seq(Entry) /\ QueueInv(v)
                      /\ DOMAIN recs[v] \subseteq 1..MaxEntries
    OBVIOUS
  <2>1. recs[v] \in Seq(Entry) /\ QueueInv(v)
    BY DEF TypeOK, NumberInv
  <2>2. Len(recs[v]) <= MaxEntries
    BY <2>1 DEF QueueInv
  <2>3. QED
    BY <2>1, <2>2, MaxEntriesAssumption
<1>3. \A slot \in Slots(n) : n \in Numbers(recs[slot[1]]) /\ slot[1] \in Video
  BY DEF Slots, Numbers
<1>4. \A v \in CardsOf(n) : v \in Video /\ n \in OnCard(v)
  BY <1>1 DEF CardsOf, OnCard, Active, NoRec
<1>5. \A e \in EndsOf(n) : n \in EndNumbers
  BY DEF EndsOf, EndNumbers
<1>6. \A v, w \in Video : n \in HeldBy(v) /\ n \in HeldBy(w) => v = w
  BY DEF NumberInv
<1>7. \A a, b \in Slots(n) : a = b
  <2> SUFFICES ASSUME NEW a \in Slots(n), NEW b \in Slots(n)
               PROVE  a = b
    OBVIOUS
  <2>1. /\ a = <<a[1], a[2]>> /\ b = <<b[1], b[2]>>
        /\ a[2] \in DOMAIN recs[a[1]] /\ recs[a[1]][a[2]].seqnbr = n
        /\ b[2] \in DOMAIN recs[b[1]] /\ recs[b[1]][b[2]].seqnbr = n
    BY DEF Slots
  <2>2. a[1] = b[1]
    BY <1>3, <1>6 DEF HeldBy
  <2>3. a[2] = b[2]
    BY <1>2, <1>3, <2>1, <2>2 DEF QueueInv, Distinct
  <2>4. QED
    BY <2>1, <2>2, <2>3
<1>8. \A v, w \in CardsOf(n) : v = w
  BY <1>4, <1>6 DEF HeldBy
<1>9. \A e, f \in EndsOf(n) : e = f
  BY DEF EndsOf, NumberInv
<1>10. /\ Slots(n) = {} \/ CardsOf(n) = {}
       /\ Slots(n) = {} \/ EndsOf(n) = {}
       /\ CardsOf(n) = {} \/ EndsOf(n) = {}
  <2>1. \A v \in Video : /\ ~(n \in Numbers(recs[v]) /\ n \in OnCard(v))
                         /\ ~(n \in HeldBy(v) /\ n \in EndNumbers)
    BY DEF NumberInv
  <2>2. \A slot \in Slots(n), v \in CardsOf(n) : FALSE
    BY <1>3, <1>4, <1>6, <2>1 DEF HeldBy
  <2>3. \A slot \in Slots(n), e \in EndsOf(n) : FALSE
    BY <1>3, <1>5, <2>1 DEF HeldBy
  <2>4. \A v \in CardsOf(n), e \in EndsOf(n) : FALSE
    BY <1>4, <1>5, <2>1 DEF HeldBy
  <2>5. QED
    BY <2>2, <2>3, <2>4
<1>11. Slots(n) # {} \/ CardsOf(n) # {} \/ EndsOf(n) # {}
  <2>1. CASE n \in EndNumbers
    BY <2>1 DEF EndNumbers, EndsOf
  <2>2. ASSUME NEW v \in Video, n \in Numbers(recs[v])
        PROVE  Slots(n) # {}
    <3>1. PICK i \in DOMAIN recs[v] : recs[v][i].seqnbr = n
      BY <2>2 DEF Numbers
    <3>2. <<v, i>> \in Slots(n)
      BY <1>2, <3>1 DEF Slots
    <3>3. QED
      BY <3>2
  <2>3. ASSUME NEW v \in Video, n \in OnCard(v)
        PROVE  CardsOf(n) # {}
    BY <2>3 DEF OnCard, Active, CardsOf
  <2>4. n \in EndNumbers \/ \E v \in Video : n \in HeldBy(v)
    BY DEF NumberInv
  <2>5. QED
    BY <2>1, <2>2, <2>3, <2>4 DEF HeldBy
<1>12. ASSUME NEW S, \A a, b \in S : a = b
       PROVE  (S = {} /\ Cardinality(S) = 0) \/ (S # {} /\ Cardinality(S) = 1)
  <2>1. CASE S = {}
    BY <2>1, FS_EmptySet
  <2>2. CASE S # {}
    <3>1. PICK a \in S : TRUE
      BY <2>2
    <3>2. S = {a}
      BY <1>12, <3>1
    <3>3. QED
      BY <3>2, FS_Singleton
  <2>3. QED
    BY <2>1, <2>2
<1>13. /\ \/ Slots(n) = {} /\ Cardinality(Slots(n)) = 0
          \/ Slots(n) # {} /\ Cardinality(Slots(n)) = 1
       /\ \/ CardsOf(n) = {} /\ Cardinality(CardsOf(n)) = 0
          \/ CardsOf(n) # {} /\ Cardinality(CardsOf(n)) = 1
       /\ \/ EndsOf(n) = {} /\ Cardinality(EndsOf(n)) = 0
          \/ EndsOf(n) # {} /\ Cardinality(EndsOf(n)) = 1
  BY <1>7, <1>8, <1>9, <1>12
<1>14. QED
  BY <1>10, <1>11, <1>13

(* Every step keeps the numbers divided. *)
LEMMA NumbersKept == Spec => []NumberInv
<1>1. Init => NumberInv
  <2> SUFFICES ASSUME Init
               PROVE  NumberInv
    OBVIOUS
  <2>1. \A v \in Video : recs[v] = <<>> /\ ongoing_recs[v] = NoRec
    BY DEF Init, Empty
  <2>2. ended = {} /\ global_seqnbr = 1
    BY DEF Init
  <2>3. \A v \in Video : HeldBy(v) = {} /\ Numbers(recs[v]) = {} /\ OnCard(v) = {}
    BY <2>1 DEF HeldBy, Numbers, OnCard, Active
  <2>4. EndNumbers = {}
    BY <2>2 DEF EndNumbers
  <2>5. \A v \in Video : QueueInv(v)
    BY <2>1, MaxEntriesAssumption DEF QueueInv, Distinct
  <2>6. QED
    BY <2>2, <2>3, <2>4, <2>5 DEF NumberInv
<1>2. TypeOK /\ TypeOK' /\ CardExclusive /\ NumberInv /\ [Next]_vars => NumberInv'
  <2> SUFFICES ASSUME TypeOK, TypeOK', CardExclusive, NumberInv, [Next]_vars
               PROVE  NumberInv'
    OBVIOUS
  <2>1. CASE UNCHANGED <<recs, ongoing_recs, ended, global_seqnbr>>
    <3>1. /\ EndNumbers' = EndNumbers
          /\ \A v \in Video : /\ QueueInv(v)' = QueueInv(v) /\ HeldBy(v)' = HeldBy(v)
                              /\ Numbers(recs[v])' = Numbers(recs[v]) /\ OnCard(v)' = OnCard(v)
      BY <2>1 DEF QueueInv, Numbers, HeldBy, OnCard, Active, EndNumbers
    <3>2. QED
      BY <2>1, <3>1 DEF NumberInv
  <2>2. ASSUME NEW v \in Video, NEW req \in Requests, AddRec(v, req) \/ AddRecToFull(v, req)
        PROVE  NumberInv'
    BY <2>2, AddedNumbers, DroppedNumber
  <2>3. ASSUME NEW v \in Video, NEW i \in DOMAIN recs[v], NEW all \in BOOLEAN,
               DeleteRec(v, i, all)
        PROVE  NumberInv'
    <3>1. Kept(recs[v], i, all) \in SUBSET DOMAIN recs[v]
      BY DEF Kept
    <3>2. PICK queue \in sortrecs(recs[v], Kept(recs[v], i, all)) :
            recs' = [recs EXCEPT ![v] = queue]
      BY <2>3 DEF DeleteRec
    <3>3. ended' = ended \cup
            {Gone(recs[v][j], "deleted") : j \in DOMAIN recs[v] \ Kept(recs[v], i, all)}
      BY <2>3 DEF DeleteRec
    <3>4. UNCHANGED <<ongoing_recs, global_seqnbr>>
      BY <2>3 DEF DeleteRec, cardVars
    <3>5. QED
      BY <3>1, <3>2, <3>3, <3>4, EndedNumbers
  <2>4. ASSUME NEW v \in Video, MissRec(v)
        PROVE  NumberInv'
    <3> DEFINE rest == DOMAIN recs[v] \ {1}
    <3>1. PICK queue \in sortrecs(recs[v], rest) : recs' = [recs EXCEPT ![v] = queue]
      BY <2>4 DEF MissRec, WithoutTop
    <3>2. 1 \in DOMAIN recs[v]
      BY <2>4 DEF MissRec, Missed, TypeOK
    <3>3. ended' = ended \cup {Gone(recs[v][j], "missed") : j \in DOMAIN recs[v] \ rest}
      <4>1. DOMAIN recs[v] \ rest = {1}
        BY <3>2
      <4>2. QED
        BY <2>4, <4>1 DEF MissRec, Top
    <3>4. UNCHANGED <<ongoing_recs, global_seqnbr>> /\ rest \in SUBSET DOMAIN recs[v]
      BY <2>4 DEF MissRec, cardVars
    <3>5. QED
      BY <3>1, <3>3, <3>4, EndedNumbers
  <2>5. ASSUME NEW v \in Video, StartRec(v)
        PROVE  NumberInv'
    BY <2>5, StartedNumbers
  <2>6. ASSUME NEW t \in threads, StartRecThread(t)
        PROVE  NumberInv'
    <3>1. CASE SetupVideo(t) \/ MakeFile(t) \/ Capture(t) \/ CheckEnd(t)
      BY <2>1, <3>1 DEF SetupVideo, MakeFile, Capture, CheckEnd, queueVars, cardVars, history
    <3>2. CASE FailRec(t)
      BY <3>2, ReleasedNumbers DEF FailRec, queueVars
    <3>3. CASE StopRec(t)
      BY <3>3, ReleasedNumbers DEF StopRec, queueVars
    <3>4. QED
      BY <2>6, <3>1, <3>2, <3>3 DEF StartRecThread
  <2>7. QED
    <3>1. CASE Tick \/ Commands
      BY <2>1, <2>2, <2>3, <3>1 DEF Tick, Commands, AbortRec, SaveDb, queueVars, cardVars, history
    <3>2. CASE ChkRec
      BY <2>1, <2>4, <2>5, <3>2 DEF ChkRec, ReadTime, BeginPass, EndPass, ScanVideo, SkipVideo,
         queueVars, cardVars, history
    <3>3. CASE Main \/ UNCHANGED vars
      BY <2>1, <3>3 DEF Main, AbortAll, FirstLook, Wait, Exit, vars, queueVars, cardVars, history
    <3>4. QED
      BY <2>6, <3>1, <3>2, <3>3 DEF Next
<1>3. QED
  BY <1>1, <1>2, TypeCorrect, CardIsExclusive, PTL DEF Spec

(***************************************************************************)
(* Every sequence number handed out is in exactly one place - a slot of a  *)
(* queue, a card, or the one end of its life - through every interleaving  *)
(* of commands, passes, threads and shutdown: nothing is lost or doubled   *)
(* on the way from queue to card to end.                                   *)
(***************************************************************************)
THEOREM NothingLost == Spec => []Accounted
<1>1. TypeOK /\ NumberInv => Accounted
  BY NumbersCounted
<1>2. QED
  BY <1>1, NumbersKept, TypeCorrect, PTL

-----------------------------------------------------------------------------
(***************************************************************************)
(* The scheduler implements the schedule: each of its steps is a booking,  *)
(* a cancellation, a start, a miss or an end, or changes nothing of the    *)
(* schedule.  First the order in which chkrec takes the recordings.        *)
(***************************************************************************)

(* chkrec looks at slot 0 only, with a time it read before it took the mutex. *)
OrderInv == (\A v \in Video : Sorted(recs[v])) /\ chkrec.now <= now

(* Whatever operation changed a queue, it is sorted again; and no clock runs backwards. *)
LEMMA OrderKept == Spec => []OrderInv
<1>1. Init => OrderInv
  BY DEF Init, OrderInv, Empty, Sorted
<1>2. TypeOK /\ TypeOK' /\ OrderInv /\ [Next]_vars => OrderInv'
  <2> SUFFICES ASSUME TypeOK, TypeOK', OrderInv, [Next]_vars
               PROVE  OrderInv'
    OBVIOUS
  <2>1. now \in Nat /\ now' \in Nat /\ chkrec.now \in Nat
    BY Constants DEF TypeOK
  <2>2. ASSUME NEW v \in Video, NEW queue, Sorted(queue), recs' = [recs EXCEPT ![v] = queue],
               UNCHANGED now, chkrec'.now = chkrec.now
        PROVE  OrderInv'
    <3>1. recs'[v] = queue /\ \A w \in Video : w # v => recs'[w] = recs[w]
      BY <2>2 DEF TypeOK
    <3>2. \A w \in Video : Sorted(recs'[w])
      BY <2>2, <3>1 DEF OrderInv
    <3>3. QED
      BY <2>2, <3>2 DEF OrderInv
  <2>3. ASSUME NEW v \in Video, NextVideo
        PROVE  chkrec'.now = chkrec.now
    BY <2>3 DEF NextVideo, TypeOK
  <2>4. ASSUME NEW queue, NEW slots, NEW r \in sortrecs(queue, slots)
        PROVE  Sorted(r)
    BY DEF sortrecs
  <2>5. CASE UNCHANGED <<recs, now, chkrec>>
    BY <2>5 DEF OrderInv
  <2>6. CASE Tick
    BY <2>1, <2>6 DEF Tick, OrderInv, queueVars
  <2>7. CASE ReadTime \/ BeginPass \/ EndPass
    <3>1. UNCHANGED <<recs, now>>
      BY <2>7 DEF ReadTime, BeginPass, EndPass, queueVars
    <3>2. chkrec'.now = chkrec.now \/ chkrec'.now = now
      BY <2>7 DEF ReadTime, BeginPass, EndPass, TypeOK
    <3>3. QED
      BY <2>1, <3>1, <3>2 DEF OrderInv
  <2>8. ASSUME NEW v \in Video, SkipVideo(v)
        PROVE  OrderInv'
    BY <2>3, <2>8 DEF SkipVideo, OrderInv, queueVars
  <2>9. ASSUME NEW v \in Video, MissRec(v) \/ StartRec(v)
        PROVE  OrderInv'
    <3>1. PICK queue \in WithoutTop(recs[v]) : recs' = [recs EXCEPT ![v] = queue]
      BY <2>9 DEF MissRec, StartRec
    <3>2. Sorted(queue)
      BY <2>4 DEF WithoutTop
    <3>3. UNCHANGED now /\ chkrec'.now = chkrec.now
      BY <2>3, <2>9 DEF MissRec, StartRec
    <3>4. QED
      BY <2>2, <3>1, <3>2, <3>3
  <2>10. ASSUME NEW v \in Video, NEW req \in Requests, AddRec(v, req)
         PROVE  OrderInv'
    <3>1. PICK queue \in Inserted(recs[v], Expand(req, global_seqnbr, recurrence_id, now)) :
            recs' = [recs EXCEPT ![v] = queue]
      BY <2>10 DEF AddRec
    <3>2. Sorted(queue)
      BY <2>4 DEF Inserted
    <3>3. UNCHANGED <<now, chkrec>>
      BY <2>10 DEF AddRec
    <3>4. QED
      BY <2>2, <3>1, <3>2, <3>3
  <2>11. ASSUME NEW v \in Video, NEW i \in DOMAIN recs[v], NEW all \in BOOLEAN,
                DeleteRec(v, i, all)
         PROVE  OrderInv'
    <3>1. PICK queue \in sortrecs(recs[v], Kept(recs[v], i, all)) :
            recs' = [recs EXCEPT ![v] = queue]
      BY <2>11 DEF DeleteRec
    <3>2. Sorted(queue)
      BY <2>4
    <3>3. UNCHANGED <<now, chkrec>>
      BY <2>11 DEF DeleteRec
    <3>4. QED
      BY <2>2, <3>1, <3>2, <3>3
  <2>12. ASSUME NEW t \in threads, StartRecThread(t)
         PROVE  OrderInv'
    BY <2>5, <2>12 DEF StartRecThread, SetupVideo, MakeFile, FailRec, Capture, CheckEnd, StopRec,
       queueVars
  <2>13. QED
    <3>1. CASE Commands
      BY <2>5, <2>10, <2>11, <3>1 DEF Commands, AddRecToFull, AbortRec, SaveDb, queueVars
    <3>2. CASE ChkRec
      BY <2>7, <2>8, <2>9, <3>2 DEF ChkRec, ScanVideo
    <3>3. CASE Main \/ UNCHANGED vars
      BY <2>5, <3>3 DEF Main, AbortAll, FirstLook, Wait, Exit, vars, queueVars
    <3>4. QED
      BY <2>6, <2>12, <3>1, <3>2, <3>3 DEF Next
<1>3. QED
  BY <1>1, <1>2, TypeCorrect, PTL DEF Spec

-----------------------------------------------------------------------------
(* The schedule a state stands for. *)

Pending == [v \in Video |-> Range(recs[v])]
Running == [v \in Video |-> Active(v)]
Used == {n \in 1..(global_seqnbr - 1) : [seqnbr |-> n, how |-> "dropped"] \notin ended}

(* One queue changed is one card's bookings changed. *)
LEMMA PendingChanged ==
  ASSUME TypeOK, NEW v \in Video, NEW queue, recs' = [recs EXCEPT ![v] = queue]
  PROVE  Pending' = [Pending EXCEPT ![v] = Range(queue)]
<1>1. recs'[v] = queue /\ \A w \in Video : w # v => recs'[w] = recs[w]
  BY DEF TypeOK
<1>2. \A w \in Video : Pending'[w] = [Pending EXCEPT ![v] = Range(queue)][w]
  BY <1>1 DEF Pending
<1>3. QED
  BY <1>2 DEF Pending

(* One card of ongoing_recs changed is one booking started or ended. *)
LEMMA RunningChanged ==
  ASSUME TypeOK, NEW v \in Video, NEW r, ongoing_recs' = [ongoing_recs EXCEPT ![v] = r]
  PROVE  Running' = [Running EXCEPT ![v] = {r} \ {NoRec}]
<1>1. ongoing_recs'[v] = r /\ \A w \in Video : w # v => ongoing_recs'[w] = ongoing_recs[w]
  BY DEF TypeOK
<1>2. \A w \in Video : Running'[w] = [Running EXCEPT ![v] = {r} \ {NoRec}][w]
  BY <1>1 DEF Running, Active
<1>3. QED
  BY <1>2 DEF Running

(* A number stays used unless its recording is dropped. *)
LEMMA UsedKept ==
  ASSUME UNCHANGED global_seqnbr, ended \subseteq ended',
         \A e \in ended' : e \in ended \/ e.how # "dropped"
  PROVE  Used' = Used
<1>1. \A n : LET e == [seqnbr |-> n, how |-> "dropped"] IN e \in ended' <=> e \in ended
  <2> SUFFICES ASSUME NEW n
               PROVE  LET e == [seqnbr |-> n, how |-> "dropped"] IN e \in ended' <=> e \in ended
    OBVIOUS
  <2>1. [seqnbr |-> n, how |-> "dropped"].how = "dropped"
    OBVIOUS
  <2>2. QED
    BY <2>1
<1>2. QED
  BY <1>1 DEF Used

(* The top recording of a card is its earliest booking, and taking it leaves the others. *)
LEMMA TopIsEarliest ==
  ASSUME TypeOK, NumberInv, OrderInv, NEW v \in Video, recs[v] # <<>>,
         NEW queue \in WithoutTop(recs[v]), recs' = [recs EXCEPT ![v] = queue]
  PROVE  /\ Top(v) \in Entry /\ Top(v) \in Range(recs[v])
         /\ \A d \in Range(recs[v]) : Top(v).ts_start <= d.ts_start
         /\ Pending' = [Pending EXCEPT ![v] = Range(recs[v]) \ {Top(v)}]
<1>1. recs[v] \in Seq(Entry) /\ Distinct(recs[v]) /\ Sorted(recs[v])
  BY DEF TypeOK, NumberInv, QueueInv, OrderInv
<1>2. 1 \in DOMAIN recs[v] /\ \A i \in DOMAIN recs[v] : i = 1 \/ 1 < i
  BY <1>1
<1>3. Top(v) \in Entry /\ Top(v) \in Range(recs[v])
  BY <1>1, <1>2 DEF Top, Range
<1>4. \A d \in Range(recs[v]) : Top(v).ts_start <= d.ts_start
  <2>1. \A i \in DOMAIN recs[v] : recs[v][1].ts_start <= recs[v][i].ts_start
    <3>1. recs[v][1].ts_start \in Int
      BY <1>3 DEF Entry, Top
    <3>2. QED
      BY <1>1, <1>2, <3>1 DEF Sorted
  <2>2. QED
    BY <2>1 DEF Range, Top
<1>5. Range(queue) = Range(recs[v]) \ {Top(v)}
  <2>1. Range(queue) = {recs[v][j] : j \in DOMAIN recs[v] \ {1}}
    <3>1. DOMAIN recs[v] \ {1} \in SUBSET DOMAIN recs[v]
      OBVIOUS
    <3>2. QED
      BY <1>1, <3>1, SortKeepsNumbers DEF WithoutTop
  <2>2. \A j \in DOMAIN recs[v] : recs[v][j] = recs[v][1] => j = 1
    BY <1>1, <1>2 DEF Distinct
  <2>3. Range(recs[v]) = {recs[v][j] : j \in DOMAIN recs[v]}
    BY DEF Range
  <2>4. QED
    BY <1>2, <2>1, <2>2, <2>3 DEF Top
<1>6. QED
  BY <1>3, <1>4, <1>5, PendingChanged

(* A request that is taken is a booking, apart from all the card has. *)
LEMMA AddRecBooks ==
  ASSUME SeriesAsAsked, TypeOK, NumberInv, OverlapInv,
         NEW v \in Video, NEW req \in Requests, AddRec(v, req)
  PROVE  Schedule!Book(v)
<1> DEFINE new == Expand(req, global_seqnbr, recurrence_id, now)
<1>1. PICK queue \in Inserted(recs[v], new) : recs' = [recs EXCEPT ![v] = queue]
  BY DEF AddRec
<1>2. /\ Accepts(req) /\ ~RefusedBy(v, req) /\ ~Full(recs[v])
      /\ global_seqnbr' = global_seqnbr + req.num
      /\ UNCHANGED <<now, ongoing_recs, ended>>
  BY DEF AddRec, Takes, cardVars, history
<1>3. /\ global_seqnbr \in Nat \ {0} /\ recurrence_id \in Nat \ {0} /\ now \in 0..MaxTime
      /\ recs[v] \in Seq(Entry)
  BY DEF TypeOK
<1>4. req.num \in Nat \ {0}
  BY Constants DEF Request
<1>5. /\ queue \in Seq(Entry) /\ Range(queue) = Range(recs[v]) \cup Range(new)
  BY <1>2, InsertedNumbers
<1>6. ApartQueue(queue) /\ ApartFrom(queue, Active(v))
  BY <1>2, InsertKeepsApart
<1>7. /\ Distinct(new) /\ Numbers(new) = global_seqnbr..(global_seqnbr + req.num - 1)
      /\ Len(new) = req.num /\ new \in Seq(Entry)
  BY <1>3, NewNumbers, ExpandedNumbers, ExpandedEntries
<1> HIDE DEF new
<1>8. Range(new) # {} /\ Range(new) \subseteq Range(queue)
  <2>1. 1 \in DOMAIN new
    BY <1>4, <1>7
  <2>2. QED
    BY <1>5, <2>1 DEF Range
<1>9. /\ {b.seqnbr : b \in Range(new)} = Numbers(new)
      /\ \A b, d \in Range(new) : b.seqnbr = d.seqnbr => b = d
  BY <1>7 DEF Numbers, Range, Distinct
<1>10. \A b \in Range(new) : b.seqnbr \in Numbers(new) /\ b.seqnbr \notin 1..(global_seqnbr - 1)
  BY <1>3, <1>4, <1>7, <1>9
<1>11. \A d \in Range(recs[v]) : d.seqnbr \in 1..(global_seqnbr - 1)
  BY DEF NumberInv, HeldBy, Numbers, Range
<1>12. \A b \in Range(new) :
         \A d \in Range(recs[v]) \cup Active(v) \cup (Range(new) \ {b}) : Schedule!Apart(b, d)
  <2> SUFFICES ASSUME NEW b \in Range(new),
                      NEW d \in Range(recs[v]) \cup Active(v) \cup (Range(new) \ {b})
               PROVE  Disjoint(b, d)
    BY DEF Disjoint, Schedule!Apart
  <2>1. PICK i \in DOMAIN queue : b = queue[i]
    BY <1>8 DEF Range
  <2>2. CASE d \in Active(v)
    BY <1>6, <2>1, <2>2 DEF ApartFrom
  <2>3. CASE d \in Range(queue) /\ d # b
    <3>1. PICK j \in DOMAIN queue : d = queue[j]
      BY <2>3 DEF Range
    <3>2. QED
      BY <1>6, <2>1, <2>3, <3>1 DEF ApartQueue
  <2>4. d \in Range(recs[v]) => d # b
    BY <1>10, <1>11
  <2>5. QED
    BY <1>5, <2>2, <2>3, <2>4
<1>13. Pending' = [Pending EXCEPT ![v] = Range(recs[v]) \cup Range(new)]
  BY <1>1, <1>5, PendingChanged
<1>14. Used' = Used \cup Numbers(new)
  <2>1. \A n \in global_seqnbr..(global_seqnbr' - 1) :
          [seqnbr |-> n, how |-> "dropped"] \notin ended
    <3> SUFFICES ASSUME NEW n \in global_seqnbr..(global_seqnbr' - 1),
                        [seqnbr |-> n, how |-> "dropped"] \in ended
                 PROVE  FALSE
      OBVIOUS
    <3>1. n \in 1..(global_seqnbr - 1)
      BY DEF NumberInv, EndNumbers
    <3>2. QED
      BY <1>3, <3>1
  <2>2. global_seqnbr' - 1 = global_seqnbr + req.num - 1
    BY <1>2, <1>3, <1>4
  <2>3. Numbers(new) = global_seqnbr..(global_seqnbr' - 1)
    BY <1>7, <2>2
  <2>4. \A n : n \in 1..(global_seqnbr' - 1) <=>
               n \in 1..(global_seqnbr - 1) \/ n \in global_seqnbr..(global_seqnbr' - 1)
    <3>1. global_seqnbr' \in Nat \ {0} /\ global_seqnbr <= global_seqnbr'
      BY <1>2, <1>3, <1>4
    <3>2. QED
      BY <1>3, <3>1, FreshNumbers
  <2>5. UNCHANGED ended
    BY <1>2
  <2>6. \A n : n \in Used' <=> n \in Used \/ n \in Numbers(new)
    BY <2>1, <2>3, <2>4, <2>5 DEF Used
  <2>7. QED
    BY <2>6
<1>15. Running' = Running
  BY <1>2 DEF Running, Active
<1>16. Pending[v] = Range(recs[v]) /\ Running[v] = Active(v)
  BY DEF Pending, Running
<1>17. Pending'[v] = Range(recs[v]) \cup Range(new)
  BY <1>13 DEF Pending
<1>18. \A b \in Range(new) : b.seqnbr \notin Used
  BY <1>10 DEF Used
<1>19. Range(new) \in SUBSET Pending'[v]
  BY <1>17
<1>20. QED
  BY <1>2, <1>8, <1>9, <1>12, <1>13, <1>14, <1>15, <1>16, <1>18, <1>19
     DEF Schedule!Book, Pending, Running, Used

(* chkrec starts the earliest booking of a free card, and not too early. *)
LEMMA StartRecStarts ==
  ASSUME TypeOK, NumberInv, OrderInv, NEW v \in Video, StartRec(v)
  PROVE  Schedule!Start(v)
<1>1. PICK queue \in WithoutTop(recs[v]) : recs' = [recs EXCEPT ![v] = queue]
  BY DEF StartRec
<1>2. /\ recs[v] # <<>> /\ ongoing_recs[v] = NoRec
      /\ ongoing_recs' = [ongoing_recs EXCEPT ![v] = Top(v)]
      /\ UNCHANGED <<now, global_seqnbr, ended>>
      /\ chkrec.now - Top(v).ts_start >= -TimeRes
  BY DEF StartRec, Due, Lateness, CardFree, history
<1>3. /\ Top(v) \in Entry /\ Top(v) \in Range(recs[v])
      /\ \A d \in Range(recs[v]) : Top(v).ts_start <= d.ts_start
      /\ Pending' = [Pending EXCEPT ![v] = Range(recs[v]) \ {Top(v)}]
  BY <1>1, <1>2, TopIsEarliest
<1>4. Running' = [Running EXCEPT ![v] = {Top(v)}]
  <2>1. {Top(v)} \ {NoRec} = {Top(v)}
    BY <1>3, Constants
  <2>2. QED
    BY <1>2, <2>1, RunningChanged
<1>5. Used' = Used
  BY <1>2, UsedKept
<1>6. now >= Top(v).ts_start - TimeRes
  <2>1. now \in Int /\ chkrec.now \in Int /\ chkrec.now <= now /\ Top(v).ts_start \in Int
    BY <1>3, Constants DEF TypeOK, OrderInv, Entry
  <2>2. QED
    BY <1>2, <2>1, Constants
<1>7. Pending[v] = Range(recs[v]) /\ Running[v] = {}
  BY <1>2 DEF Pending, Running, Active
<1>8. QED
  BY <1>2, <1>3, <1>4, <1>5, <1>6, <1>7
     DEF Schedule!Start, Schedule!Earliest, Pending, Running, Used

(* delete_toprec gives up the earliest booking of a card, and not before it is too late. *)
LEMMA MissRecMisses ==
  ASSUME TypeOK, NumberInv, OrderInv, NEW v \in Video, MissRec(v)
  PROVE  Schedule!Miss(v)
<1>1. PICK queue \in WithoutTop(recs[v]) : recs' = [recs EXCEPT ![v] = queue]
  BY DEF MissRec
<1>2. /\ recs[v] # <<>>
      /\ UNCHANGED <<now, global_seqnbr, ongoing_recs>>
      /\ ended' = ended \cup {Gone(Top(v), "missed")}
      /\ chkrec.now - Top(v).ts_start > MissLimit
  BY DEF MissRec, Missed, Lateness, cardVars
<1>3. /\ Top(v) \in Entry /\ Top(v) \in Range(recs[v])
      /\ \A d \in Range(recs[v]) : Top(v).ts_start <= d.ts_start
      /\ Pending' = [Pending EXCEPT ![v] = Range(recs[v]) \ {Top(v)}]
  BY <1>1, <1>2, TopIsEarliest
<1>4. Running' = Running
  BY <1>2 DEF Running, Active
<1>5. Used' = Used
  BY <1>2, UsedKept DEF Gone
<1>6. now > Top(v).ts_start + MissLimit
  <2>1. now \in Int /\ chkrec.now \in Int /\ chkrec.now <= now /\ Top(v).ts_start \in Int
    BY <1>3, Constants DEF TypeOK, OrderInv, Entry
  <2>2. QED
    BY <1>2, <2>1, Constants
<1>7. Pending[v] = Range(recs[v])
  BY DEF Pending
<1>8. QED
  BY <1>2, <1>3, <1>4, <1>5, <1>6, <1>7
     DEF Schedule!Miss, Schedule!Earliest, Pending, Running, Used

(* delete_recid cancels bookings of one card and touches no other. *)
LEMMA DeleteRecCancels ==
  ASSUME TypeOK, NumberInv, NEW v \in Video, NEW i \in DOMAIN recs[v], NEW all \in BOOLEAN,
         DeleteRec(v, i, all)
  PROVE  Schedule!Cancel(v)
<1> DEFINE kept == Kept(recs[v], i, all)
<1>1. PICK queue \in sortrecs(recs[v], kept) : recs' = [recs EXCEPT ![v] = queue]
  BY DEF DeleteRec
<1>2. /\ ended' = ended \cup {Gone(recs[v][j], "deleted") : j \in DOMAIN recs[v] \ kept}
      /\ UNCHANGED <<now, global_seqnbr, ongoing_recs>>
  BY DEF DeleteRec, cardVars
<1>3. kept \in SUBSET DOMAIN recs[v] /\ recs[v] \in Seq(Entry) /\ Distinct(recs[v])
  BY DEF Kept, TypeOK, NumberInv, QueueInv
<1> HIDE DEF kept
<1>4. Range(queue) \subseteq Range(recs[v])
  <2>1. Range(queue) = {recs[v][j] : j \in kept}
    BY <1>1, <1>3, SortKeepsNumbers
  <2>2. QED
    BY <1>3, <2>1 DEF Range
<1>5. Pending' = [Pending EXCEPT ![v] = Range(queue)]
  BY <1>1, PendingChanged
<1>6. Running' = Running
  BY <1>2 DEF Running, Active
<1>7. Used' = Used
  BY <1>2, UsedKept DEF Gone
<1>8. Pending[v] = Range(recs[v])
  BY DEF Pending
<1>9. Range(recs[v]) \ (Range(recs[v]) \ Range(queue)) = Range(queue)
  BY <1>4
<1>10. \E gone \in SUBSET Pending[v] : Pending' = [Pending EXCEPT ![v] = Pending[v] \ gone]
  BY <1>5, <1>8, <1>9
<1>11. QED
  BY <1>2, <1>6, <1>7, <1>10 DEF Schedule!Cancel, Pending, Running, Used

(* A number that is handed out to a recording that is dropped is not used. *)
LEMMA DroppedIsNoBooking ==
  ASSUME TypeOK, NEW v \in Video, NEW req \in Requests, AddRecToFull(v, req)
  PROVE  UNCHANGED Schedule!vars
<1> DEFINE dropped(n) == [seqnbr |-> n, how |-> "dropped"]
<1>1. /\ UNCHANGED <<now, recs, ongoing_recs>> /\ global_seqnbr' = global_seqnbr + 1
      /\ ended' = ended \cup {dropped(global_seqnbr)}
  BY DEF AddRecToFull, cardVars, Gone, SingleEntry
<1>2. global_seqnbr \in Nat \ {0}
  BY DEF TypeOK
<1>3. \A n \in 1..(global_seqnbr - 1) : dropped(n) \in ended' <=> dropped(n) \in ended
  <2> SUFFICES ASSUME NEW n \in 1..(global_seqnbr - 1)
               PROVE  dropped(n) # dropped(global_seqnbr)
    BY <1>1
  <2>1. dropped(n).seqnbr # dropped(global_seqnbr).seqnbr
    BY <1>2
  <2>2. QED
    BY <2>1
<1>4. \A n : n \in 1..(global_seqnbr' - 1) <=> n \in 1..(global_seqnbr - 1) \/ n = global_seqnbr
  BY <1>1, <1>2
<1>5. dropped(global_seqnbr) \in ended'
  BY <1>1
<1> HIDE DEF dropped
<1>6. \A n : n \in 1..(global_seqnbr' - 1) /\ dropped(n) \notin ended' <=>
            n \in 1..(global_seqnbr - 1) /\ dropped(n) \notin ended
  BY <1>3, <1>4, <1>5
<1>7. Used' = Used
  BY <1>6 DEF Used, dropped
<1>8. Pending' = Pending /\ Running' = Running
  BY <1>1 DEF Pending, Running, Active
<1>9. QED
  BY <1>1, <1>7, <1>8 DEF Schedule!vars, Pending, Running, Used

(* A thread's steps are an end of what the card records, or nothing. *)
LEMMA ThreadFinishes ==
  ASSUME TypeOK, NEW t \in threads, StartRecThread(t)
  PROVE  Schedule!Finish(t.video) \/ UNCHANGED Schedule!vars
<1>1. t.video \in Video
  BY DEF TypeOK, Thread
<1>2. CASE SetupVideo(t) \/ MakeFile(t) \/ Capture(t) \/ CheckEnd(t)
  <2>1. UNCHANGED <<now, recs, ongoing_recs, global_seqnbr, ended>>
    BY <1>2 DEF SetupVideo, MakeFile, Capture, CheckEnd, queueVars, cardVars, history
  <2>2. Pending' = Pending /\ Running' = Running /\ Used' = Used
    BY <2>1 DEF Pending, Running, Active, Used
  <2>3. QED
    BY <2>1, <2>2 DEF Schedule!vars, Pending, Running, Used
<1>3. CASE FailRec(t) \/ StopRec(t)
  <2>1. /\ UNCHANGED <<now, recs, global_seqnbr>>
        /\ ongoing_recs' = [ongoing_recs EXCEPT ![t.video] = NoRec]
        /\ \E how \in {"failed", "recorded", "aborted"} : ended' = ended \cup {Gone(t.rec, how)}
    BY <1>3 DEF FailRec, StopRec, queueVars
  <2>2. Used' = Used
    BY <2>1, UsedKept DEF Gone
  <2>3. Running' = [Running EXCEPT ![t.video] = {}]
    <3>1. {NoRec} \ {NoRec} = {}
      OBVIOUS
    <3>2. QED
      BY <1>1, <2>1, <3>1, RunningChanged
  <2>4. Pending' = Pending
    BY <2>1 DEF Pending
  <2>5. QED
    BY <2>1, <2>2, <2>3, <2>4 DEF Schedule!Finish, Pending, Running, Used
<1>4. QED
  BY <1>2, <1>3 DEF StartRecThread

(***************************************************************************)
(* The threads, commands, flags and queues of the scheduler implement the  *)
(* schedule, for any number of cards, any queue length, any requests that  *)
(* keep to their dates, any thread or write failure and any shutdown:      *)
(* bookings of a card do not overlap, are recorded one at a time, the      *)
(* earliest first, not before their time, and are given up unrecorded only *)
(* when they are too late or their client says so.                         *)
(***************************************************************************)
THEOREM SchedulerImplementsSchedule == SeriesAsAsked => (Spec => ImplementsSchedule)
<1> SUFFICES ASSUME SeriesAsAsked
             PROVE  Spec => ImplementsSchedule
  OBVIOUS
<1>1. Init => Schedule!Init
  <2> SUFFICES ASSUME Init
               PROVE  Schedule!Init
    OBVIOUS
  <2>1. \A v \in Video : Range(recs[v]) = {} /\ Active(v) = {}
    BY DEF Init, Empty, Range, Active
  <2>2. 1..(global_seqnbr - 1) = {} /\ now = 0
    BY DEF Init
  <2>3. QED
    BY <2>1, <2>2 DEF Schedule!Init
<1>2. TypeOK /\ NumberInv /\ OverlapInv /\ OrderInv /\ [Next]_vars
        => [Schedule!Next]_(Schedule!vars)
  <2> SUFFICES ASSUME TypeOK, NumberInv, OverlapInv, OrderInv, [Next]_vars
               PROVE  Schedule!Next \/ UNCHANGED Schedule!vars
    OBVIOUS
  <2>1. CASE UNCHANGED <<now, recs, ongoing_recs, global_seqnbr, ended>>
    <3>1. Pending' = Pending /\ Running' = Running /\ Used' = Used
      BY <2>1 DEF Pending, Running, Active, Used
    <3>2. QED
      BY <2>1, <3>1 DEF Schedule!vars, Pending, Running, Used
  <2>2. CASE Tick
    <3>1. Pending' = Pending /\ Running' = Running /\ Used' = Used /\ now' = now + 1
      BY <2>2 DEF Tick, Pending, Running, Active, Used, queueVars, cardVars, history
    <3>2. Schedule!Tick
      BY <3>1 DEF Schedule!Tick, Pending, Running, Used
    <3>3. QED
      BY <3>2 DEF Schedule!Next
  <2>3. ASSUME NEW v \in Video, NEW req \in Requests, AddRec(v, req)
        PROVE  Schedule!Next
    BY <2>3, AddRecBooks DEF Schedule!Next
  <2>4. ASSUME NEW v \in Video, NEW req \in Requests, AddRecToFull(v, req)
        PROVE  UNCHANGED Schedule!vars
    BY <2>4, DroppedIsNoBooking
  <2>5. ASSUME NEW v \in Video, NEW i \in DOMAIN recs[v], NEW all \in BOOLEAN,
               DeleteRec(v, i, all)
        PROVE  Schedule!Next
    BY <2>5, DeleteRecCancels DEF Schedule!Next
  <2>6. ASSUME NEW v \in Video, MissRec(v) \/ StartRec(v)
        PROVE  Schedule!Next
    BY <2>6, MissRecMisses, StartRecStarts DEF Schedule!Next
  <2>7. ASSUME NEW t \in threads, StartRecThread(t)
        PROVE  Schedule!Next \/ UNCHANGED Schedule!vars
    <3>1. t.video \in Video
      BY DEF TypeOK, Thread
    <3>2. QED
      BY <2>7, <3>1, ThreadFinishes DEF Schedule!Next
  <2>8. QED
    <3>1. CASE Commands
      BY <2>1, <2>3, <2>4, <2>5, <3>1 DEF Commands, AbortRec, SaveDb, queueVars, cardVars, history
    <3>2. CASE ChkRec
      BY <2>1, <2>6, <3>2 DEF ChkRec, ReadTime, BeginPass, EndPass, ScanVideo, SkipVideo,
         queueVars, cardVars, history
    <3>3. CASE Main \/ UNCHANGED vars
      BY <2>1, <3>3 DEF Main, AbortAll, FirstLook, Wait, Exit, vars, queueVars, cardVars, history
    <3>4. QED
      BY <2>2, <2>7, <3>1, <3>2, <3>3 DEF Next
<1>3. QED
  BY <1>1, <1>2, TypeCorrect, NumbersKept, OverlapKept, OrderKept, PTL
     DEF Spec, ImplementsSchedule, Schedule!Spec
-----------------------------------------------------------------------------
(***************************************************************************)
(* What becomes of a recording.  Accounted looks at one state; a recording *)
(* could still go back to a queue, change its dates on the way or end as   *)
(* what it was not.  This is about the steps.                              *)
(***************************************************************************)

Fresh(r) == r.seqnbr \in global_seqnbr..(global_seqnbr' - 1)

(* What a client or the log is told of a recording's end is what happened to it. *)
EndsAsItSays(e) ==
  \/ e.how = "dropped" /\ e.seqnbr = global_seqnbr
  \/ \E v \in Video : \E r \in Range(recs[v]) :
       /\ r.seqnbr = e.seqnbr
       /\ e.how = "deleted" \/ (e.how = "missed" /\ now > r.ts_start + MissLimit)
  \/ \E v \in Video : \E r \in Active(v) :
       /\ r.seqnbr = e.seqnbr
       /\ e.how \in {"aborted", "failed"} \/ (e.how = "recorded" /\ now >= r.ts_end)

(* A recording enters a queue when its number is handed out, a card from that queue only. *)
MovesForward ==
  /\ global_seqnbr <= global_seqnbr'
  /\ ended \subseteq ended'
  /\ \A e \in ended' : e \in ended \/ EndsAsItSays(e)
  /\ \A v \in Video :
       /\ \A r \in Range(recs[v])' : r \in Range(recs[v]) \/ Fresh(r)
       /\ \A r \in Active(v)' :
            r \in Active(v) \/ (r \in Range(recs[v]) /\ now >= r.ts_start - TimeRes)

(* A thread that stopped without a reason was at the end of its recording. *)
StopInv == \A t \in threads : t.pc = "stopped" /\ t.doabort = "no" => now >= t.rec.ts_end

(* The loop of startrec is left at the end or with doabort set, and the clock runs on. *)
LEMMA StoppedAtTheEnd == Spec => []StopInv
<1>1. Init => StopInv
  BY DEF Init, StopInv
<1>2. TypeOK /\ StopInv /\ [Next]_vars => StopInv'
  <2> SUFFICES ASSUME TypeOK, StopInv, [Next]_vars
               PROVE  StopInv'
    OBVIOUS
  <2>1. now \in Int /\ \A t \in threads : t \in Thread /\ t.rec.ts_end \in Int
    BY Constants DEF TypeOK, Thread, Entry
  <2>2. CASE UNCHANGED threads /\ (now' = now \/ now' = now + 1)
    BY <2>1, <2>2 DEF StopInv
  <2>3. ASSUME UNCHANGED now, NEW t \in threads, NEW u, u.pc # "stopped",
               threads' \subseteq threads \cup {u}
        PROVE  StopInv'
    BY <2>3 DEF StopInv
  <2>4. ASSUME NEW v \in Video, StartRec(v)
        PROVE  StopInv'
    <3> DEFINE new == [rec |-> Top(v), video |-> v, pc |-> "setup", doabort |-> "no"]
    <3>1. threads' \subseteq threads \cup {new} /\ UNCHANGED now
      BY <2>4 DEF StartRec
    <3>2. new.pc # "stopped"
      OBVIOUS
    <3>3. QED
      BY <3>1, <3>2 DEF StopInv
  <2>5. ASSUME NEW t \in threads, StartRecThread(t)
        PROVE  StopInv'
    <3>1. CASE SetupVideo(t) \/ MakeFile(t)
      <4>1. PICK pc \in {"ready", "failed", "capture"} : Becomes(t, [t EXCEPT !.pc = pc])
        BY <3>1 DEF SetupVideo, MakeFile
      <4>2. [t EXCEPT !.pc = pc].pc # "stopped"
        BY <2>1 DEF Thread
      <4>3. threads' \subseteq threads \cup {[t EXCEPT !.pc = pc]} /\ UNCHANGED now
        BY <3>1, <4>1 DEF Becomes, SetupVideo, MakeFile
      <4>4. QED
        BY <2>3, <4>2, <4>3
    <3>2. CASE Capture(t)
      <4>1. PICK d : Becomes(t, [t EXCEPT !.pc = "check", !.doabort = d])
        BY <3>2 DEF Capture
      <4>2. [t EXCEPT !.pc = "check", !.doabort = d].pc # "stopped"
        BY <2>1 DEF Thread
      <4>3. /\ threads' \subseteq threads \cup {[t EXCEPT !.pc = "check", !.doabort = d]}
            /\ UNCHANGED now
        BY <3>2, <4>1 DEF Becomes, Capture
      <4>4. QED
        BY <2>3, <4>2, <4>3
    <3>3. CASE CheckEnd(t)
      <4> DEFINE goOn == t.rec.ts_end > now /\ t.doabort = "no"
                 u == [t EXCEPT !.pc = IF goOn THEN "capture" ELSE "stopped"]
      <4>1. threads' = (threads \ {t}) \cup {u} /\ UNCHANGED now
        BY <3>3 DEF CheckEnd, Becomes
      <4>2. u.rec = t.rec /\ u.doabort = t.doabort /\ u.pc = IF goOn THEN "capture" ELSE "stopped"
        BY <2>1 DEF Thread
      <4>3. u.pc = "stopped" /\ u.doabort = "no" => now >= u.rec.ts_end
        BY <2>1, <4>2
      <4>4. QED
        BY <4>1, <4>3 DEF StopInv
    <3>4. CASE FailRec(t) \/ StopRec(t)
      BY <3>4 DEF FailRec, StopRec, StopInv
    <3>5. QED
      BY <2>5, <3>1, <3>2, <3>3, <3>4 DEF StartRecThread
  <2>6. QED
    <3>1. CASE Tick \/ Commands
      BY <2>2, <3>1 DEF Tick, Commands, AddRec, AddRecToFull, DeleteRec, AbortRec, SaveDb
    <3>2. CASE ChkRec
      BY <2>2, <2>4, <3>2 DEF ChkRec, ReadTime, BeginPass, EndPass, ScanVideo, SkipVideo, MissRec
    <3>3. CASE Main \/ UNCHANGED vars
      BY <2>2, <3>3 DEF Main, AbortAll, FirstLook, Wait, Exit, vars
    <3>4. QED
      BY <2>5, <3>1, <3>2, <3>3 DEF Next
<1>3. QED
  BY <1>1, <1>2, TypeCorrect, PTL DEF Spec

(* A queue loses entries but gains none when slots of it are taken out. *)
LEMMA QueueShrinks ==
  ASSUME TypeOK, NEW v \in Video, NEW slots \in SUBSET DOMAIN recs[v],
         NEW queue \in sortrecs(recs[v], slots), recs' = [recs EXCEPT ![v] = queue]
  PROVE  \A w \in Video : \A r \in Range(recs[w])' : r \in Range(recs[w])
<1>1. recs'[v] = queue /\ \A w \in Video : w # v => recs'[w] = recs[w]
  BY DEF TypeOK
<1>2. \A r \in Range(queue) : r \in Range(recs[v])
  <2>1. recs[v] \in Seq(Entry)
    BY DEF TypeOK
  <2>2. PICK p \in [DOMAIN queue -> slots] : \A i \in DOMAIN queue : queue[i] = recs[v][p[i]]
    BY <2>1, SortedQueue
  <2>3. QED
    BY <2>2 DEF Range
<1>3. QED
  BY <1>1, <1>2

(* The top of a queue that is not empty is one of its entries. *)
LEMMA TopIsInQueue ==
  ASSUME TypeOK, NEW v \in Video, recs[v] # <<>>
  PROVE  Top(v) \in Entry /\ Top(v) \in Range(recs[v])
BY DEF TypeOK, Top, Range

(* A request that is taken brings new numbers into the queue, and no other. *)
LEMMA AddedAreFresh ==
  ASSUME TypeOK, NumberInv, NEW v \in Video, NEW req \in Requests, AddRec(v, req)
  PROVE  MovesForward
<1> DEFINE new == Expand(req, global_seqnbr, recurrence_id, now)
<1>1. PICK queue \in Inserted(recs[v], new) : recs' = [recs EXCEPT ![v] = queue]
  BY DEF AddRec
<1>2. ~RefusedBy(v, req) /\ ~Full(recs[v]) /\ global_seqnbr' = global_seqnbr + req.num
      /\ UNCHANGED <<ongoing_recs, ended>>
  BY DEF AddRec, Takes, cardVars, history
<1>3. Range(queue) = Range(recs[v]) \cup Range(new)
  BY <1>2, InsertedNumbers
<1>4. Numbers(new) = global_seqnbr..(global_seqnbr + req.num - 1)
  BY NewNumbers DEF TypeOK
<1> HIDE DEF new
<1>5. global_seqnbr \in Nat \ {0} /\ req.num \in Nat \ {0}
  BY Constants DEF Request, TypeOK
<1>6. \A r \in Range(new) : Fresh(r)
  <2>1. \A r \in Range(new) : r.seqnbr \in Numbers(new)
    BY DEF Range, Numbers
  <2>2. global_seqnbr' - 1 = global_seqnbr + req.num - 1
    BY <1>2, <1>5
  <2>3. QED
    BY <1>4, <2>1, <2>2 DEF Fresh
<1>7. recs'[v] = queue /\ \A w \in Video : w # v => recs'[w] = recs[w]
  BY <1>1 DEF TypeOK
<1>8. \A w \in Video : \A r \in Range(recs[w])' : r \in Range(recs[w]) \/ Fresh(r)
  BY <1>3, <1>6, <1>7
<1>9. \A w \in Video : Active(w)' = Active(w)
  BY <1>2 DEF Active
<1>10. global_seqnbr <= global_seqnbr'
  BY <1>2, <1>5
<1>11. QED
  BY <1>2, <1>8, <1>9, <1>10 DEF MovesForward

(***************************************************************************)
(* A recording only moves forward: it enters a queue when its number is    *)
(* handed out, with the dates it keeps, a card only from the queue of that *)
(* card and at its time, and ends once, as what is said of it - recorded   *)
(* if the card had it to its end, missed if its time was over.  Nothing    *)
(* the commands, chkrec, a thread or the shutdown does takes it back.      *)
(***************************************************************************)
THEOREM RecordingsMoveForward == Spec => [][MovesForward]_vars
<1>1. /\ TypeOK /\ NumberInv /\ CardExclusive /\ OrderInv /\ StopInv /\ Next
      => MovesForward
  <2> SUFFICES ASSUME TypeOK, NumberInv, CardExclusive, OrderInv, StopInv, Next
               PROVE  MovesForward
    OBVIOUS
  <2>1. /\ now \in Int /\ chkrec.now \in Int /\ chkrec.now <= now /\ global_seqnbr \in Int
        /\ TimeRes \in Int /\ MissLimit \in Int
    BY Constants DEF TypeOK, OrderInv
  <2>2. CASE UNCHANGED <<recs, ongoing_recs, global_seqnbr, ended>>
    BY <2>1, <2>2 DEF MovesForward, Active
  <2>3. ASSUME NEW v \in Video, NEW req \in Requests, AddRec(v, req)
        PROVE  MovesForward
    BY <2>3, AddedAreFresh
  <2>4. ASSUME NEW v \in Video, NEW req \in Requests, AddRecToFull(v, req)
        PROVE  MovesForward
    <3> DEFINE gone == Gone(SingleEntry(req, global_seqnbr), "dropped")
    <3>1. /\ UNCHANGED <<recs, ongoing_recs>> /\ global_seqnbr' = global_seqnbr + 1
          /\ ended' = ended \cup {gone}
      BY <2>4 DEF AddRecToFull, cardVars
    <3>2. EndsAsItSays(gone)
      BY DEF EndsAsItSays, Gone, SingleEntry
    <3> HIDE DEF gone
    <3>3. QED
      BY <2>1, <3>1, <3>2 DEF MovesForward, Active
  <2>5. ASSUME NEW v \in Video, NEW i \in DOMAIN recs[v], NEW all \in BOOLEAN,
               DeleteRec(v, i, all)
        PROVE  MovesForward
    <3> DEFINE kept == Kept(recs[v], i, all)
    <3>1. PICK queue \in sortrecs(recs[v], kept) : recs' = [recs EXCEPT ![v] = queue]
      BY <2>5 DEF DeleteRec
    <3>2. /\ ended' = ended \cup {Gone(recs[v][j], "deleted") : j \in DOMAIN recs[v] \ kept}
          /\ UNCHANGED <<global_seqnbr, ongoing_recs>>
      BY <2>5 DEF DeleteRec, cardVars
    <3>3. kept \in SUBSET DOMAIN recs[v]
      BY DEF Kept
    <3> HIDE DEF kept
    <3>4. \A w \in Video : \A r \in Range(recs[w])' : r \in Range(recs[w])
      BY <3>1, <3>3, QueueShrinks
    <3>5. \A j \in DOMAIN recs[v] : EndsAsItSays(Gone(recs[v][j], "deleted"))
      BY DEF EndsAsItSays, Gone, Range
    <3>6. QED
      BY <2>1, <3>2, <3>4, <3>5 DEF MovesForward, Active
  <2>6. ASSUME NEW v \in Video, MissRec(v)
        PROVE  MovesForward
    <3>1. PICK queue \in sortrecs(recs[v], DOMAIN recs[v] \ {1}) :
            recs' = [recs EXCEPT ![v] = queue]
      BY <2>6 DEF MissRec, WithoutTop
    <3>2. /\ recs[v] # <<>> /\ chkrec.now - Top(v).ts_start > MissLimit
          /\ ended' = ended \cup {Gone(Top(v), "missed")}
          /\ UNCHANGED <<global_seqnbr, ongoing_recs>>
      BY <2>6 DEF MissRec, Missed, Lateness, cardVars
    <3>3. \A w \in Video : \A r \in Range(recs[w])' : r \in Range(recs[w])
      BY <3>1, QueueShrinks
    <3>4. Top(v) \in Range(recs[v]) /\ Top(v).ts_start \in Int
      BY <3>2, TopIsInQueue DEF Entry
    <3>5. now > Top(v).ts_start + MissLimit
      BY <2>1, <3>2, <3>4
    <3>6. EndsAsItSays(Gone(Top(v), "missed"))
      BY <3>4, <3>5 DEF EndsAsItSays, Gone
    <3>7. QED
      BY <2>1, <3>2, <3>3, <3>6 DEF MovesForward, Active
  <2>7. ASSUME NEW v \in Video, StartRec(v)
        PROVE  MovesForward
    <3>1. PICK queue \in sortrecs(recs[v], DOMAIN recs[v] \ {1}) :
            recs' = [recs EXCEPT ![v] = queue]
      BY <2>7 DEF StartRec, WithoutTop
    <3>2. /\ recs[v] # <<>> /\ chkrec.now - Top(v).ts_start >= -TimeRes
          /\ ongoing_recs' = [ongoing_recs EXCEPT ![v] = Top(v)]
          /\ UNCHANGED <<global_seqnbr, ended>>
      BY <2>7 DEF StartRec, Due, Lateness, history
    <3>3. \A w \in Video : \A r \in Range(recs[w])' : r \in Range(recs[w])
      BY <3>1, QueueShrinks
    <3>4. Top(v) \in Range(recs[v]) /\ Top(v).ts_start \in Int
      BY <3>2, TopIsInQueue DEF Entry
    <3>5. now >= Top(v).ts_start - TimeRes
      BY <2>1, <3>2, <3>4
    <3>6. ongoing_recs'[v] = Top(v) /\ \A w \in Video : w # v => ongoing_recs'[w] = ongoing_recs[w]
      BY <3>2 DEF TypeOK
    <3>7. \A w \in Video : \A r \in Active(w)' :
            r \in Active(w) \/ (r \in Range(recs[w]) /\ now >= r.ts_start - TimeRes)
      BY <3>4, <3>5, <3>6 DEF Active
    <3>8. QED
      BY <2>1, <3>2, <3>3, <3>7 DEF MovesForward
  <2>8. ASSUME NEW t \in threads, FailRec(t) \/ StopRec(t)
        PROVE  MovesForward
    <3>1. t.video \in Video /\ ongoing_recs[t.video] = t.rec /\ t.rec # NoRec
      BY Constants DEF TypeOK, Thread, CardExclusive
    <3>2. t.rec \in Active(t.video)
      BY <3>1 DEF Active
    <3>3. PICK how \in {"failed", "recorded", "aborted"} :
            /\ ended' = ended \cup {Gone(t.rec, how)}
            /\ how = "recorded" => t.pc = "stopped" /\ t.doabort = "no"
      BY <2>8 DEF FailRec, StopRec
    <3>4. /\ ongoing_recs' = [ongoing_recs EXCEPT ![t.video] = NoRec]
          /\ UNCHANGED <<recs, global_seqnbr>>
      BY <2>8 DEF FailRec, StopRec, queueVars
    <3>5. how = "recorded" => now >= t.rec.ts_end
      BY <3>3 DEF StopInv
    <3>6. EndsAsItSays(Gone(t.rec, how))
      BY <3>1, <3>2, <3>5 DEF EndsAsItSays, Gone
    <3>7. \A w \in Video : Active(w)' \subseteq Active(w)
      BY <3>1, <3>4 DEF Active, TypeOK
    <3>8. QED
      BY <2>1, <3>3, <3>4, <3>6, <3>7 DEF MovesForward
  <2>9. QED
    <3>1. CASE Tick \/ Commands
      BY <2>2, <2>3, <2>4, <2>5, <3>1 DEF Tick, Commands, AbortRec, SaveDb, queueVars, cardVars,
         history
    <3>2. CASE ChkRec
      BY <2>2, <2>6, <2>7, <3>2 DEF ChkRec, ReadTime, BeginPass, EndPass, ScanVideo, SkipVideo,
         queueVars, cardVars, history
    <3>3. CASE Main
      BY <2>2, <3>3 DEF Main, AbortAll, FirstLook, Wait, Exit, queueVars, cardVars, history
    <3>4. ASSUME NEW t \in threads, StartRecThread(t)
          PROVE  MovesForward
      BY <2>2, <2>8, <3>4 DEF StartRecThread, SetupVideo, MakeFile, Capture, CheckEnd,
         queueVars, cardVars, history
    <3>5. QED
      BY <3>1, <3>2, <3>3, <3>4 DEF Next
<1>2. QED
  BY <1>1, TypeCorrect, NumbersKept, CardIsExclusive, OrderKept, StoppedAtTheEnd, PTL DEF Spec

-----------------------------------------------------------------------------
(***************************************************************************)
(* A card that is busy has a thread that will free it: the one way to lose *)
(* a card for good is a thread that cannot be created (StartRec).          *)
(***************************************************************************)
BusyHasThread ==
  \A v \in Video : ongoing_recs[v] # NoRec =>
    \E t \in threads : t.video = v /\ t.rec = ongoing_recs[v]

(* As long as pthread_create does not fail, no card is busy with a recording no thread makes. *)
THEOREM NoCardIsLost == ~ThreadMayFail => (Spec => []BusyHasThread)
<1> SUFFICES ASSUME ~ThreadMayFail
             PROVE  Spec => []BusyHasThread
  OBVIOUS
<1>1. Init => BusyHasThread
  BY DEF Init, BusyHasThread
<1>2. TypeOK /\ BusyHasThread /\ [Next]_vars => BusyHasThread'
  <2> SUFFICES ASSUME TypeOK, BusyHasThread, [Next]_vars
               PROVE  BusyHasThread'
    OBVIOUS
  <2>1. CASE UNCHANGED <<ongoing_recs, threads>>
    BY <2>1 DEF BusyHasThread
  <2>2. ASSUME NEW v \in Video, StartRec(v)
        PROVE  BusyHasThread'
    <3> DEFINE new == [rec |-> Top(v), video |-> v, pc |-> "setup", doabort |-> "no"]
    <3>1. threads' = threads \cup {new} /\ ongoing_recs' = [ongoing_recs EXCEPT ![v] = Top(v)]
      BY <2>2 DEF StartRec
    <3>2. new.video = v /\ new.rec = Top(v)
      OBVIOUS
    <3>3. ongoing_recs'[v] = Top(v) /\ \A w \in Video : w # v => ongoing_recs'[w] = ongoing_recs[w]
      BY <3>1 DEF TypeOK
    <3> HIDE DEF new
    <3>4. QED
      BY <3>1, <3>2, <3>3 DEF BusyHasThread
  <2>3. ASSUME NEW t \in threads, StartRecThread(t)
        PROVE  BusyHasThread'
    <3>1. t.video \in Video
      BY DEF TypeOK, Thread
    <3>2. CASE /\ ongoing_recs' = ongoing_recs
               /\ \E u \in Thread : /\ u.rec = t.rec /\ u.video = t.video
                                    /\ threads' = (threads \ {t}) \cup {u}
      BY <3>2 DEF BusyHasThread
    <3>3. CASE /\ ongoing_recs' = [ongoing_recs EXCEPT ![t.video] = NoRec]
               /\ threads' = threads \ {t}
      <4>1. /\ ongoing_recs'[t.video] = NoRec
            /\ \A w \in Video : w # t.video => ongoing_recs'[w] = ongoing_recs[w]
        BY <3>1, <3>3 DEF TypeOK
      <4>2. QED
        BY <3>3, <4>1 DEF BusyHasThread
    <3>4. QED
      BY <2>3, <3>2, <3>3, ThreadSteps
  <2>4. QED
    <3>1. CASE Tick \/ Commands
      BY <2>1, <3>1 DEF Tick, Commands, AddRec, AddRecToFull, DeleteRec, AbortRec, SaveDb, cardVars
    <3>2. CASE ChkRec
      BY <2>1, <2>2, <3>2 DEF ChkRec, ReadTime, BeginPass, EndPass, ScanVideo, SkipVideo, MissRec,
         cardVars
    <3>3. CASE Main \/ UNCHANGED vars
      BY <2>1, <3>3 DEF Main, AbortAll, FirstLook, Wait, Exit, vars, cardVars
    <3>4. QED
      BY <2>3, <3>1, <3>2, <3>3 DEF Next
<1>3. QED
  BY <1>1, <1>2, TypeCorrect, PTL DEF Spec
=============================================================================
