---------------------------- MODULE RecScheduler ----------------------------
(***************************************************************************)
(* The recording scheduler of tvpvrd: the chkrec thread that watches the   *)
(* queues, one startrec thread per recording, the client commands that     *)
(* change the queues, and the main thread's shutdown (tvpvrsrv.c, tvcmd.c, *)
(* recs.c).                                                                *)
(*                                                                         *)
(* The threads share recs, ongoing_recs and abort_video.  recs_mutex is    *)
(* held by a command from its first line to its last, by chkrec for a      *)
(* whole pass over the cards, and by the other threads for the few lines   *)
(* in which they change ongoing_recs: only chkrec's pass spans more than   *)
(* one step here.  Everything startrec does with abort_video before its    *)
(* end it does without the mutex.                                          *)
(***************************************************************************)
EXTENDS Recs

CONSTANTS
  NumVideo,        \* max_video: number of cards
  TimeRes,         \* time_resolution: seconds between two passes of chkrec
  MissLimit,       \* 60 * 10: a recording later than this is cancelled
  MaxLength,       \* 4 * 60 * 60: longest recording _cmd_add accepts
  WatchDog,        \* 15: seconds main waits for the recordings to stop
  Requests,        \* the entries clients ask for
  ThreadMayFail,   \* TRUE: pthread_create may fail
  XmlMayFail,      \* TRUE: writeXMLFile may fail
  MayShutdown,     \* TRUE: SIGTERM or SIGHUP may arrive
  EarlierDbs,      \* what the DB file may list when the server starts
  MaxTime,         \* bound: last value of the clock
  MaxSeq           \* bound: last sequence number handed out

ASSUME SchedulerAssumption ==
  /\ NumVideo \in Nat \ {0}
  /\ TimeRes \in 1..10
  /\ {MissLimit, MaxLength, WatchDog, MaxTime, MaxSeq} \subseteq Nat
  /\ Requests \subseteq Request
  /\ \A req \in Requests : req.type = 0 => req.num = 1
  /\ {ThreadMayFail, XmlMayFail, MayShutdown} \subseteq BOOLEAN

(* The occurrences of a series have dates. *)
ASSUME DatesAssumption ==
  \A req \in Requests, time \in 0..MaxTime : \A i \in 1..req.num :
    LET r == SeriesEntry(req, i - 1, 1, 1, time) IN {r.ts_start, r.ts_end} \subseteq Int

Video == 0..(NumVideo - 1)

ASSUME EarlierDbsAssumption == EarlierDbs \subseteq [Video -> Seq(Entry)]

VARIABLES
  now,             \* time(NULL)
  recs,            \* the pending recordings of each card, recs[0..num_entries-1]
  ongoing_recs,    \* the recording of each card, NoRec for NULL
  abort_video,     \* the abort flag of each card
  global_seqnbr, recurrence_id,
  threads,         \* the running startrec threads
  chkrec,          \* the chkrec thread: where it is, its card, its now, its wake-up time
  main,            \* the main thread: where it is, its ongoing flag and watchdog
  xmldb,           \* what the XML DB file lists
  ended,           \* history: what became of each recording that is gone
  cancelled        \* history: the recordings an abort was set for

vars == <<now, recs, ongoing_recs, abort_video, global_seqnbr, recurrence_id,
          threads, chkrec, main, xmldb, ended, cancelled>>

queueVars == <<recs, global_seqnbr, recurrence_id, xmldb>>
cardVars == <<ongoing_recs, abort_video>>
history == <<ended, cancelled>>

(***************************************************************************)
(* A startrec thread: setup (in setup_video), ready (making directory and  *)
(* file), capture (in the read/write loop), check (at the loop condition), *)
(* stopped (file and card closed, about to clear ongoing_recs), failed     *)
(* (about to free the record).  Past that the card is no longer its own    *)
(* and it goes on to transcode the file.                                   *)
(***************************************************************************)
ThreadPc == {"setup", "ready", "capture", "check", "stopped", "failed"}
Thread == [rec : Entry, video : Video, pc : ThreadPc, doabort : {"no", "cancel", "error"}]

Fate == {"recorded", "aborted", "failed", "missed", "deleted", "dropped"}
Gone(r, how) == [seqnbr |-> r.seqnbr, how |-> how]

Min2(a, b) == IF a < b THEN a ELSE b
Alive == main.pc # "exited"
RecsMutexFree == chkrec.pc # "scan"
Active(v) == {ongoing_recs[v]} \ {NoRec}

Empty == [v \in Video |-> <<>>]

(***************************************************************************)
(* writeXMLFile(xmldbfile): the file lists the pending recordings.  If it  *)
(* cannot be opened it keeps what it had; if its first line cannot be      *)
(* written it is empty, for opening it has cut it to nothing.              *)
(***************************************************************************)
writeXMLFile ==
  \/ xmldb' = recs'
  \/ XmlMayFail /\ xmldb' \in {xmldb, Empty}

(* init_tvxmldb leaves a file of an earlier server as it is, and nothing reads it. *)
Init ==
  /\ now = 0
  /\ recs = Empty
  /\ ongoing_recs = [v \in Video |-> NoRec]
  /\ abort_video = [v \in Video |-> 0]
  /\ global_seqnbr = 1
  /\ recurrence_id = 1
  /\ threads = {}
  /\ chkrec = [pc |-> "sleep", video |-> 0, now |-> 0, wake |-> 0]
  /\ main = [pc |-> "serving", ongoing |-> FALSE, watchdog |-> WatchDog]
  /\ xmldb \in EarlierDbs
  /\ ended = {}
  /\ cancelled = {}

Tick ==
  /\ Alive
  /\ now < MaxTime                     \* bound
  /\ now' = now + 1
  /\ UNCHANGED <<queueVars, cardVars, threads, chkrec, main, history>>

-----------------------------------------------------------------------------
(* Client commands, run by cmdinterp with recs_mutex held. *)

Command == Alive /\ RecsMutexFree

(* The tests of _cmd_add: not over 4 h, end not before start, not in the past. *)
Accepts(req) ==
  /\ req.end - req.start <= MaxLength
  /\ req.end >= req.start
  /\ req.start >= now

(* The cards _cmd_add tries: the given one, or all of them in order. *)
Cards(req) == IF req.card >= 0 THEN {req.card} \cap Video ELSE Video

(* A mutant of RefusedBy: the recording under way on another card is looked at. *)
RefusedByFirst(v, req) == Refused(recs[v], Active(0), req)

RefusedBy(v, req) == Refused(recs[v], Active(v), req)

(* Card v is the first that does not refuse the request. *)
Takes(v, req) ==
  /\ v \in Cards(req)
  /\ ~RefusedBy(v, req)
  /\ \A w \in Cards(req) : w < v => RefusedBy(w, req)

(* insertrec of an entry the array of card v has room for. *)
AddRec(v, req) ==
  /\ Command
  /\ Accepts(req)
  /\ Takes(v, req)
  /\ ~Full(recs[v])
  /\ global_seqnbr + req.num - 1 <= MaxSeq      \* bound
  /\ \E queue \in Inserted(recs[v], Expand(req, global_seqnbr, recurrence_id, now)) :
       recs' = [recs EXCEPT ![v] = queue]
  /\ global_seqnbr' = global_seqnbr + req.num
  /\ recurrence_id' = IF req.type = 0 THEN recurrence_id ELSE recurrence_id + 1
  /\ writeXMLFile
  /\ UNCHANGED <<now, cardVars, threads, chkrec, main, history>>

(***************************************************************************)
(* A single recording on a card whose array is full: _insertrec logs an    *)
(* error and returns 0, which insertrec does not look at, so the command   *)
(* reports the new sequence number of a recording that is nowhere.         *)
(***************************************************************************)
AddRecToFull(v, req) ==
  /\ Command
  /\ Accepts(req)
  /\ Takes(v, req)
  /\ Full(recs[v])
  /\ global_seqnbr <= MaxSeq                    \* bound
  /\ global_seqnbr' = global_seqnbr + 1
  /\ ended' = ended \cup {Gone(SingleEntry(req, global_seqnbr), "dropped")}
  /\ UNCHANGED recs
  /\ writeXMLFile
  /\ UNCHANGED <<now, cardVars, recurrence_id, threads, chkrec, main, cancelled>>

(* delete_recid of the recording in slot i, alone or with its whole series. *)
DeleteRec(v, i, allrecurrences) ==
  /\ Command
  /\ LET kept == Kept(recs[v], i, allrecurrences)
     IN  /\ \E queue \in sortrecs(recs[v], kept) : recs' = [recs EXCEPT ![v] = queue]
         /\ ended' = ended \cup {Gone(recs[v][j], "deleted") : j \in DOMAIN recs[v] \ kept}
  /\ writeXMLFile
  /\ UNCHANGED <<now, cardVars, global_seqnbr, recurrence_id, threads, chkrec, main, cancelled>>

(* _cmd_abort of a card that is recording. *)
AbortRec(v) ==
  /\ Command
  /\ ongoing_recs[v] # NoRec
  /\ abort_video' = [abort_video EXCEPT ![v] = 1]
  /\ cancelled' = cancelled \cup {ongoing_recs[v].seqnbr}
  /\ UNCHANGED <<now, queueVars, ongoing_recs, threads, chkrec, main, ended>>

(* _cmd_updatexmlfile, and _cmd_delete of a number not pending: the file is written again. *)
SaveDb ==
  /\ Command
  /\ UNCHANGED recs
  /\ writeXMLFile
  /\ UNCHANGED <<now, global_seqnbr, recurrence_id>>
  /\ UNCHANGED <<cardVars, threads, chkrec, main, history>>

-----------------------------------------------------------------------------
(* The chkrec thread. *)

ReadTime ==
  /\ Alive
  /\ chkrec.pc = "sleep"
  /\ now >= chkrec.wake
  /\ chkrec' = [chkrec EXCEPT !.pc = "lock", !.now = now]
  /\ UNCHANGED <<now, queueVars, cardVars, threads, main, history>>

BeginPass ==
  /\ Alive
  /\ chkrec.pc = "lock"
  /\ chkrec' = [chkrec EXCEPT !.pc = "scan", !.video = 0]
  /\ UNCHANGED <<now, queueVars, cardVars, threads, main, history>>

Scanning(v) == Alive /\ chkrec.pc = "scan" /\ chkrec.video = v

(* A mutant of NextVideo: the counter is moved on twice. *)
NextVideoTwice == chkrec' = [chkrec EXCEPT !.video = @ + 2]
NextVideo == chkrec' = [chkrec EXCEPT !.video = @ + 1]

Top(v) == recs[v][1]
Lateness(v) == chkrec.now - Top(v).ts_start
Missed(v) == recs[v] # <<>> /\ Lateness(v) > MissLimit

(* A mutant of Due: a recording is started twice as early. *)
DueTwiceAsEarly(v) ==
  recs[v] # <<>> /\ Lateness(v) <= MissLimit /\ Lateness(v) >= -(2 * TimeRes)
Due(v) == recs[v] # <<>> /\ Lateness(v) <= MissLimit /\ Lateness(v) >= -TimeRes

(* A mutant of CardFree: the recording under way is not looked for. *)
CardUnchecked(v) == v \in Video
CardFree(v) == ongoing_recs[v] = NoRec

(* Nothing is due on the card, or what is due must wait for the card: try again next pass. *)
SkipVideo(v) ==
  /\ Scanning(v)
  /\ ~Missed(v)
  /\ Due(v) => ~CardFree(v)
  /\ NextVideo
  /\ UNCHANGED <<now, queueVars, cardVars, threads, main, history>>

(* A mutant of MissRec: the file is not written again. *)
MissRecUnsaved(v) ==
  /\ Scanning(v)
  /\ Missed(v)
  /\ \E queue \in WithoutTop(recs[v]) : recs' = [recs EXCEPT ![v] = queue]
  /\ ended' = ended \cup {Gone(Top(v), "missed")}
  /\ NextVideo
  /\ UNCHANGED <<now, cardVars, global_seqnbr, recurrence_id, xmldb, threads, main, cancelled>>

(* delete_toprec of a recording whose time is too far in the past. *)
MissRec(v) ==
  /\ Scanning(v)
  /\ Missed(v)
  /\ \E queue \in WithoutTop(recs[v]) : recs' = [recs EXCEPT ![v] = queue]
  /\ ended' = ended \cup {Gone(Top(v), "missed")}
  /\ writeXMLFile
  /\ NextVideo
  /\ UNCHANGED <<now, cardVars, global_seqnbr, recurrence_id, threads, main, cancelled>>

(* The top recording moves to ongoing_recs and gets its thread, if one can be created. *)
StartRec(v) ==
  /\ Scanning(v)
  /\ Due(v)
  /\ CardFree(v)
  /\ ongoing_recs' = [ongoing_recs EXCEPT ![v] = Top(v)]
  /\ \E queue \in WithoutTop(recs[v]) : recs' = [recs EXCEPT ![v] = queue]
  /\ \/ threads' = threads \cup {[rec |-> Top(v), video |-> v, pc |-> "setup", doabort |-> "no"]}
     \/ ThreadMayFail /\ UNCHANGED threads
  /\ writeXMLFile
  /\ NextVideo
  /\ UNCHANGED <<now, abort_video, global_seqnbr, recurrence_id, main, history>>

EndPass ==
  /\ Alive
  /\ chkrec.pc = "scan"
  /\ chkrec.video = NumVideo
  /\ chkrec' = [chkrec EXCEPT !.pc = "sleep", !.wake = Min2(now + TimeRes, MaxTime)]   \* bound
  /\ UNCHANGED <<now, queueVars, cardVars, threads, main, history>>

-----------------------------------------------------------------------------
(* The startrec threads. *)

Becomes(t, new) == threads' = (threads \ {t}) \cup {new}

(* A mutant of SetupVideo: the abort flag is left as the last recording left it. *)
SetupVideoOnly(t) ==
  /\ Alive
  /\ t.pc = "setup"
  /\ \E pc \in {"ready", "failed"} : Becomes(t, [t EXCEPT !.pc = pc])
  /\ UNCHANGED <<now, queueVars, cardVars, chkrec, main, history>>

(* setup_video has opened and tuned the card; whatever it returns, the abort flag is reset. *)
SetupVideo(t) ==
  /\ Alive
  /\ t.pc = "setup"
  /\ \E pc \in {"ready", "failed"} : Becomes(t, [t EXCEPT !.pc = pc])
  /\ abort_video' = [abort_video EXCEPT ![t.video] = 0]
  /\ UNCHANGED <<now, queueVars, ongoing_recs, chkrec, main, history>>

(* The working directory and the file are made, or one of them cannot be. *)
MakeFile(t) ==
  /\ Alive
  /\ t.pc = "ready"
  /\ \E pc \in {"capture", "failed"} : Becomes(t, [t EXCEPT !.pc = pc])
  /\ UNCHANGED <<now, queueVars, cardVars, chkrec, main, history>>

(* A mutant of FailRec: ongoing_recs is not cleared. *)
FailRecOnly(t) ==
  /\ Alive
  /\ RecsMutexFree
  /\ t.pc = "failed"
  /\ threads' = threads \ {t}
  /\ ended' = ended \cup {Gone(t.rec, "failed")}
  /\ UNCHANGED <<now, queueVars, cardVars, chkrec, main, cancelled>>

(* Every failure before the loop: free the record and clear ongoing_recs. *)
FailRec(t) ==
  /\ Alive
  /\ RecsMutexFree
  /\ t.pc = "failed"
  /\ threads' = threads \ {t}
  /\ ongoing_recs' = [ongoing_recs EXCEPT ![t.video] = NoRec]
  /\ ended' = ended \cup {Gone(t.rec, "failed")}
  /\ UNCHANGED <<now, queueVars, abort_video, chkrec, main, cancelled>>

(***************************************************************************)
(* One turn of the read/write loop: a chunk is stored and the abort flag   *)
(* read, or the card times out, or reading or writing fails, or (EINTR,    *)
(* EAGAIN) there is nothing to store and the flag is not looked at.        *)
(***************************************************************************)
Capture(t) ==
  /\ Alive
  /\ t.pc = "capture"
  /\ \E doabort \in {IF abort_video[t.video] = 1 THEN "cancel" ELSE "no", "error", "no"} :
       Becomes(t, [t EXCEPT !.pc = "check", !.doabort = doabort])
  /\ UNCHANGED <<now, queueVars, cardVars, chkrec, main, history>>

(* Two mutants of CheckEnd: the end time is not looked at; ongoing_recs is cleared too early. *)
CheckAbort(t) ==
  /\ Alive
  /\ t.pc = "check"
  /\ Becomes(t, [t EXCEPT !.pc = IF t.doabort = "no" THEN "capture" ELSE "stopped"])
  /\ UNCHANGED <<now, queueVars, cardVars, chkrec, main, history>>

CheckEndAndRelease(t) ==
  /\ Alive
  /\ t.pc = "check"
  /\ LET goOn == t.rec.ts_end > now /\ t.doabort = "no"
     IN  /\ Becomes(t, [t EXCEPT !.pc = IF goOn THEN "capture" ELSE "stopped"])
         /\ ongoing_recs' = IF goOn THEN ongoing_recs ELSE [ongoing_recs EXCEPT ![t.video] = NoRec]
  /\ UNCHANGED <<now, queueVars, abort_video, chkrec, main, history>>

(* while (recording->ts_end > time(NULL) && !doabort) *)
CheckEnd(t) ==
  /\ Alive
  /\ t.pc = "check"
  /\ Becomes(t, [t EXCEPT !.pc = IF t.rec.ts_end > now /\ t.doabort = "no"
                                 THEN "capture" ELSE "stopped"])
  /\ UNCHANGED <<now, queueVars, cardVars, chkrec, main, history>>

(* File and card are closed: the card and its abort flag are given up. *)
StopRec(t) ==
  /\ Alive
  /\ RecsMutexFree
  /\ t.pc = "stopped"
  /\ threads' = threads \ {t}
  /\ abort_video' = [abort_video EXCEPT ![t.video] = 0]
  /\ ongoing_recs' = [ongoing_recs EXCEPT ![t.video] = NoRec]
  /\ ended' = ended \cup {Gone(t.rec, IF t.doabort = "no" THEN "recorded" ELSE "aborted")}
  /\ UNCHANGED <<now, queueVars, chkrec, main, cancelled>>

-----------------------------------------------------------------------------
(* The main thread, once startupsrv has returned because of a signal. *)

(* A card whose abort flag is set already has it cleared. *)
AbortAll ==
  /\ MayShutdown
  /\ RecsMutexFree
  /\ main.pc = "serving"
  /\ LET abort == {v \in Video : ongoing_recs[v] # NoRec /\ abort_video[v] = 0}
     IN  /\ abort_video' = [v \in Video |-> IF v \in abort THEN 1 ELSE 0]
         /\ cancelled' = cancelled \cup {ongoing_recs[v].seqnbr : v \in abort}
  /\ main' = [main EXCEPT !.pc = "stopping"]
  /\ UNCHANGED <<now, queueVars, ongoing_recs, threads, chkrec, ended>>

AnyAbort == \E v \in Video : abort_video[v] = 1

(* The abort flags are read once before the loop and then once a second in it. *)
FirstLook ==
  /\ main.pc = "stopping"
  /\ main' = [main EXCEPT !.pc = "waiting", !.ongoing = AnyAbort]
  /\ UNCHANGED <<now, queueVars, cardVars, threads, chkrec, history>>

Wait ==
  /\ main.pc = "waiting"
  /\ main.ongoing
  /\ main.watchdog > 0
  /\ main' = [main EXCEPT !.ongoing = AnyAbort, !.watchdog = @ - 1]
  /\ UNCHANGED <<now, queueVars, cardVars, threads, chkrec, history>>

Exit ==
  /\ main.pc = "waiting"
  /\ ~(main.ongoing /\ main.watchdog > 0)
  /\ main' = [main EXCEPT !.pc = "exited"]
  /\ UNCHANGED <<now, queueVars, cardVars, threads, chkrec, history>>

-----------------------------------------------------------------------------
Commands ==
  \/ \E v \in Video, req \in Requests : AddRec(v, req) \/ AddRecToFull(v, req)
  \/ \E v \in Video : \E i \in DOMAIN recs[v], all \in BOOLEAN : DeleteRec(v, i, all)
  \/ \E v \in Video : AbortRec(v)
  \/ SaveDb

ScanVideo(v) == SkipVideo(v) \/ MissRec(v) \/ StartRec(v)
ChkRec == ReadTime \/ BeginPass \/ EndPass \/ \E v \in Video : ScanVideo(v)
StartRecThread(t) ==
  SetupVideo(t) \/ MakeFile(t) \/ FailRec(t) \/ Capture(t) \/ CheckEnd(t) \/ StopRec(t)
Main == AbortAll \/ FirstLook \/ Wait \/ Exit

Next ==
  \/ Tick
  \/ Commands
  \/ ChkRec
  \/ \E t \in threads : StartRecThread(t)
  \/ Main

(***************************************************************************)
(* The clock runs, and every thread that can go on goes on.  startrec must *)
(* compete for recs_mutex with chkrec, which frees it for at least a       *)
(* second between two passes: SF for the two steps that take the mutex.    *)
(***************************************************************************)
Own(n) == {t \in threads : t.rec.seqnbr = n}
Fairness ==
  /\ WF_vars(Tick)
  /\ WF_vars(ChkRec)
  /\ \A n \in 1..MaxSeq :
       /\ WF_vars(\E t \in Own(n) : SetupVideo(t) \/ MakeFile(t) \/ Capture(t) \/ CheckEnd(t))
       /\ SF_vars(\E t \in Own(n) : FailRec(t) \/ StopRec(t))

Spec == Init /\ [][Next]_vars
FairSpec == Spec /\ Fairness

-----------------------------------------------------------------------------
(* Every variable has its type. *)
TypeOK ==
  /\ now \in 0..MaxTime
  /\ recs \in [Video -> Seq(Entry)]
  /\ ongoing_recs \in [Video -> Entry \cup {NoRec}]
  /\ abort_video \in [Video -> 0..1]
  /\ global_seqnbr \in Nat \ {0}
  /\ recurrence_id \in Nat \ {0}
  /\ threads \subseteq Thread
  /\ chkrec \in [pc : {"sleep", "lock", "scan"}, video : 0..NumVideo, now : Nat, wake : Nat]
  /\ main \in [pc : {"serving", "stopping", "waiting", "exited"}, ongoing : BOOLEAN,
               watchdog : Nat]
  /\ xmldb \in [Video -> Seq(Entry)]
  /\ ended \subseteq [seqnbr : Nat, how : Fate]
  /\ cancelled \subseteq Nat

(* Two recordings do not share a second. *)
Disjoint(r1, r2) == r1.ts_end < r2.ts_start \/ r2.ts_end < r1.ts_start

(***************************************************************************)
(* What NoOverlap needs of the series asked for: they start on the date    *)
(* they were asked for, and no occurrence reaches into the next.  The      *)
(* second half fails for no recurrence type of _cmd_add but the monthly    *)
(* one (Series.tla); the first half fails for every series that is asked   *)
(* for on a day its type leaves out, and then NoOverlap fails too.         *)
(***************************************************************************)
SeriesAsAsked ==
  \A req \in Requests :
    /\ \A time \in 0..MaxTime :
         req.type # 0 /\ time <= req.start =>
           /\ AdjStart(req.type, req.start, req.end, time) = req.start
           /\ AdjEnd(req.type, req.start, req.end, time) = req.end
    /\ req.type = 0 =>
         /\ OccStart(0, req.start, req.end, 0) = req.start
         /\ OccEnd(0, req.start, req.end, 0) = req.end
    /\ req.type # 0 => \A k \in 0..(req.num - 1) :
         LET s(n) == OccStart(req.type, req.start, req.end, n)
             e(n) == OccEnd(req.type, req.start, req.end, n)
         IN  /\ s(k) <= e(k)
             /\ \A l \in 0..(req.num - 1) : k < l => e(k) < s(l)

(***************************************************************************)
(* The recordings of a card never need the card at the same time: no two   *)
(* of its pending recordings, and none of them and the one being recorded, *)
(* share a second.  insertrec refuses what would break this (recs.c:       *)
(* "after checking that it doesn't collide with an existing recording").   *)
(***************************************************************************)
NoOverlap ==
  \A v \in Video : \A i \in DOMAIN recs[v] :
    /\ \A j \in DOMAIN recs[v] : i # j => Disjoint(recs[v][i], recs[v][j])
    /\ \A r \in Active(v) : Disjoint(recs[v][i], r)

(***************************************************************************)
(* At most one startrec thread has a card open, and ongoing_recs names its *)
(* recording: a recording never starts on a card another thread still      *)
(* reads, however late that thread stops.                                  *)
(***************************************************************************)
CardExclusive ==
  \A t \in threads :
    /\ ongoing_recs[t.video] = t.rec
    /\ \A u \in threads : u.video = t.video => u = t

(***************************************************************************)
(* No recording gets lost or doubled: each sequence number handed out is   *)
(* in exactly one of these places - one slot of one queue, one card, or    *)
(* the end of its life, of which there is one.                             *)
(***************************************************************************)
Slots(n) == {slot \in Video \X (1..MaxEntries) :
               slot[2] \in DOMAIN recs[slot[1]] /\ recs[slot[1]][slot[2]].seqnbr = n}
CardsOf(n) == {v \in Video : ongoing_recs[v].seqnbr = n}
EndsOf(n) == {e \in ended : e.seqnbr = n}

Accounted ==
  \A n \in 1..(global_seqnbr - 1) :
    Cardinality(Slots(n)) + Cardinality(CardsOf(n)) + Cardinality(EndsOf(n)) = 1

(***************************************************************************)
(* A recording is cancelled only by a cancellation meant for it: the abort *)
(* flag is per card, survives a recording whose set-up failed, and must    *)
(* not stop the next recording of the card.                                *)
(***************************************************************************)
NoInheritedCancel ==
  \A t \in threads : t.doabort = "cancel" => t.rec.seqnbr \in cancelled

(***************************************************************************)
(* From the first recording handed out on, whenever recs_mutex is free the *)
(* DB file lists exactly the pending recordings, none that was started,    *)
(* missed or deleted (writes do not fail).  The exception: until a command *)
(* has written it, it may list what an earlier server left, none of which  *)
(* is in a queue ("Read the initial recording DB", tvpvrsrv.c:1991, where  *)
(* init_tvxmldb only looks for the file); the first write wipes it out.    *)
(***************************************************************************)
DbCurrent ==
  RecsMutexFree /\ xmldb # recs =>
    /\ global_seqnbr = 1
    /\ xmldb \in EarlierDbs

(* A recording whose slot or card a client can still see is settled in the end. *)
Settled(n) == EndsOf(n) # {} \/ ~Alive
EverySettled == \A n \in 1..MaxSeq : n < global_seqnbr ~> Settled(n)

(* Does not hold (README): a recording a client was told is being cancelled has its abort flag *)
(* set until it sees it (`!', startrec).                                                       *)
CancelStands ==
  \A t \in threads :
    (t.rec.seqnbr \in cancelled /\ t.pc \in {"setup", "ready", "capture"})
      => abort_video[t.video] = 1

(* Does not hold: main leaves before the watchdog has run out only if no card is recording. *)
ExitWhenStopped ==
  [][Exit => (main.watchdog = 0 \/ \A v \in Video : ongoing_recs[v] = NoRec)]_vars

(* Does not hold: a recording the client was told is stored is stored (_insertrec). *)
NoneDropped == \A e \in ended : e.how # "dropped"

-----------------------------------------------------------------------------
(***************************************************************************)
(* The scheduler implements the schedule: a queue stands for the set of    *)
(* its entries, and a number that was handed out is used unless its        *)
(* recording was dropped.                                                  *)
(***************************************************************************)
Schedule == INSTANCE RecSchedule WITH
  Card <- Video,
  Early <- TimeRes,
  Late <- MissLimit,
  pending <- [v \in Video |-> Range(recs[v])],
  running <- [v \in Video |-> Active(v)],
  used <- {n \in 1..(global_seqnbr - 1) : [seqnbr |-> n, how |-> "dropped"] \notin ended}

(* Every behaviour of the threads, commands and clock keeps the promises of RecSchedule. *)
ImplementsSchedule == Schedule!Spec
=============================================================================
