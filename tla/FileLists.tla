----------------------------- MODULE FileLists -----------------------------
(***************************************************************************)
(* transc.c: lists of files to transcode.  The command `tl' reads a list,  *)
(* creates a thread for it and frees, at once, what it has given to the    *)
(* thread; the thread goes through the list, one file every four minutes,  *)
(* and frees the same memory again.  `lq' shows how far a list has come.   *)
(*                                                                         *)
(* Memory that has been freed keeps what was in it, or holds junk, until   *)
(* it is handed out again.  Following junk ends the server, and so may     *)
(* freeing twice.  Commands hold recs_mutex: there is one at a time.       *)
(***************************************************************************)
EXTENDS Integers, Sequences, FiniteSets, FiniteSetsExt

CONSTANTS
    Lists,              \* the lists asked for
    Files,              \* the files of each, a sequence
    Missing,            \* the lists that name a file that does not exist
    Addrs,              \* addresses, for parameters and for arrays
    Nobody,             \* no list, no address
    Junk,               \* what freed memory may hold
    MAX_FILELISTS,      \* slots of the queue (5)
    MaxFaults           \* threads that cannot be created

FilesOf(l) == {Files[l][n] : n \in DOMAIN Files[l]}

ASSUME ListsNonEmpty == \A l \in Lists : Files[l] \in Seq(FilesOf(l)) /\ Files[l] # <<>>
ASSUME FileListsAssumption ==
    /\ Missing \subseteq Lists
    /\ Junk \notin Lists \cup Addrs /\ Nobody \notin Lists \cup Addrs
    /\ {MAX_FILELISTS, MaxFaults} \subseteq Nat

VARIABLES
    up,                 \* the server has not crashed
    asked,              \* the lists `tl' has read
    cmd,                \* the command under way: its place (pc), its list,
                        \* array and parameter, or the slot it shows
    thread,             \* _transcode_filelist for each list
    param, freeParams,  \* struct transc_filelistparam: the array it points to
    array, freeArrays,  \* filenamelist: the list that is in it
    queue,              \* ongoing_filelist_transcodings
    num_filelists,
    submitted,          \* the files each thread has handed to transcode_file
    faults

vars == <<up, asked, cmd, thread, param, freeParams, array, freeArrays, queue, num_filelists, submitted, faults>>
heap == <<param, freeParams, array, freeArrays>>

Slots == 0 .. MAX_FILELISTS - 1
NoEntry == [ptr |-> Nobody, idx |-> 0, nentries |-> 0]
Idle == [pc |-> "idle", list |-> Nobody, array |-> Nobody, param |-> Nobody, slot |-> 0]

NoThread == [pc |-> "none", ptr |-> Nobody, arr |-> Nobody, idx |-> 1, file |-> Nobody]

Init ==
    /\ up = TRUE /\ asked = {} /\ cmd = Idle
    /\ thread = [l \in Lists |-> NoThread]
    /\ param = [a \in Addrs |-> Junk] /\ freeParams = Addrs
    /\ array = [a \in Addrs |-> Junk] /\ freeArrays = Addrs
    /\ queue = [i \in Slots |-> NoEntry] /\ num_filelists = 0
    /\ submitted = [l \in Lists |-> <<>>] /\ faults = 0

\* The server is gone with all its memory.
Crash ==
    /\ up' = FALSE
    /\ asked' = {} /\ cmd' = Idle /\ thread' = [l \in Lists |-> NoThread]
    /\ param' = [a \in Addrs |-> Junk] /\ freeParams' = Addrs
    /\ array' = [a \in Addrs |-> Junk] /\ freeArrays' = Addrs
    /\ queue' = [i \in Slots |-> NoEntry] /\ num_filelists' = 0
    /\ submitted' = [l \in Lists |-> <<>>] /\ faults' = 0

\* A mutant of read_filenamelist: a missing file is left out.
read_filenamelist_anyway(l) == l

\* read_filenamelist: a list with a missing file comes to nothing.
read_filenamelist(l) == IF l \in Missing THEN Nobody ELSE l

\* The list is read into an array; one with a missing file may be tried again.
read_transcode_filelist(l) ==
    /\ up /\ cmd = Idle /\ l \notin asked
    /\ asked' = asked \cup ({l} \ Missing)
    /\ \E a \in freeArrays :
          IF read_filenamelist(l) = Nobody
          THEN /\ array' = [array EXCEPT ![a] = Junk]
               /\ UNCHANGED <<freeArrays, cmd>>
          ELSE /\ array' = [array EXCEPT ![a] = l]
               /\ freeArrays' = freeArrays \ {a}
               /\ cmd' = [Idle EXCEPT !.pc = "create", !.list = l, !.array = a]
    /\ UNCHANGED <<up, thread, param, freeParams, queue, num_filelists, submitted, faults>>

\* transcode_filelist: the thread is given the parameters ...
transcode_filelist ==
    /\ up /\ cmd.pc = "create"
    /\ \E p \in freeParams :
          /\ param' = [param EXCEPT ![p] = cmd.array]
          /\ \/ /\ thread' = [thread EXCEPT ![cmd.list].pc = "start", ![cmd.list].ptr = p, ![cmd.list].arr = cmd.array]
                /\ freeParams' = freeParams \ {p}
                /\ cmd' = [cmd EXCEPT !.pc = "freeparam", !.param = p]
                /\ UNCHANGED faults
             \/ /\ faults < MaxFaults /\ faults' = faults + 1
                /\ cmd' = [cmd EXCEPT !.pc = "freearray"]
                /\ UNCHANGED <<thread, freeParams>>
    /\ UNCHANGED <<up, asked, array, freeArrays, queue, num_filelists, submitted>>

\* ... and they are freed,
FreeParam ==
    /\ up /\ cmd.pc = "freeparam"
    /\ freeParams' = freeParams \cup {cmd.param}
    /\ param' \in {param, [param EXCEPT ![cmd.param] = Junk]}
    /\ cmd' = [cmd EXCEPT !.pc = "freearray"]
    /\ UNCHANGED <<up, asked, thread, array, freeArrays, queue, num_filelists, submitted, faults>>

\* by read_transcode_filelist the array too.
FreeArray ==
    /\ up /\ cmd.pc = "freearray"
    /\ freeArrays' = freeArrays \cup {cmd.array}
    /\ array' \in {array, [array EXCEPT ![cmd.array] = Junk]}
    /\ cmd' = Idle
    /\ UNCHANGED <<up, asked, thread, param, freeParams, queue, num_filelists, submitted, faults>>

\* The list a thread finds through its pointer.
Found(l) == LET a == param[thread[l].ptr] IN IF a = Junk THEN Junk ELSE array[a]

Goto(l, pc) == thread' = [thread EXCEPT ![l].pc = pc]
At(l, pc) == up /\ thread[l].pc = pc

\* enqueue_filelist: the first free slot; that there is none is not noticed.
enqueue_filelist(l) ==
    /\ At(l, "start")
    /\ IF Found(l) = Junk THEN Crash
       ELSE /\ IF \E i \in Slots : queue[i] = NoEntry
               THEN LET i == Min({j \in Slots : queue[j] = NoEntry})
                    IN  /\ queue' = [queue EXCEPT ![i] = [ptr |-> thread[l].ptr, idx |-> 0,
                                                          nentries |-> Len(Files[Found(l)])]]
                        /\ num_filelists' = num_filelists + 1
               ELSE UNCHANGED <<queue, num_filelists>>
            /\ Goto(l, "next")
            /\ UNCHANGED <<up, asked, cmd, heap, submitted, faults>>

\* A mutant of NextFile: the first file is passed over.
NextFileLater(l) ==
    /\ At(l, "next")
    /\ IF Found(l) = Junk THEN Crash
       ELSE /\ thread' = IF thread[l].idx + 1 <= Len(Files[Found(l)])
                         THEN [thread EXCEPT ![l].pc = "submit", ![l].idx = @ + 1,
                                             ![l].file = Files[Found(l)][thread[l].idx + 1]]
                         ELSE [thread EXCEPT ![l].pc = "dequeue"]
            /\ UNCHANGED <<up, asked, cmd, heap, queue, num_filelists, submitted, faults>>

\* The next file of the list, or its end.
NextFile(l) ==
    /\ At(l, "next")
    /\ IF Found(l) = Junk THEN Crash
       ELSE /\ thread' = IF thread[l].idx <= Len(Files[Found(l)])
                         THEN [thread EXCEPT ![l].pc = "submit", ![l].idx = @ + 1,
                                             ![l].file = Files[Found(l)][thread[l].idx]]
                         ELSE [thread EXCEPT ![l].pc = "dequeue"]
            /\ UNCHANGED <<up, asked, cmd, heap, queue, num_filelists, submitted, faults>>

\* incidx_fillist: the slot with the thread's pointer.
SlotsOf(l) == {i \in Slots : queue[i].ptr = thread[l].ptr}
incidx_fillist(l) ==
    queue' = IF SlotsOf(l) = {} THEN queue ELSE [queue EXCEPT ![Min(SlotsOf(l))].idx = @ + 1]

\* wait_to_transcode, whose answer is ignored, transcode_file, four minutes.
SubmitFile(l) ==
    /\ At(l, "submit")
    /\ submitted' = [submitted EXCEPT ![l] = Append(@, thread[l].file)]
    /\ incidx_fillist(l)
    /\ Goto(l, "next")
    /\ UNCHANGED <<up, asked, cmd, heap, num_filelists, faults>>

\* A mutant of SubmitFails: the thread just ends.
SubmitFailsAtOnce(l) ==
    /\ At(l, "submit")
    /\ faults < MaxFaults /\ faults' = faults + 1
    /\ Goto(l, "ended")
    /\ UNCHANGED <<up, asked, cmd, heap, queue, num_filelists, submitted>>

\* transcode_file cannot create its thread: the list is given up.
SubmitFails(l) ==
    /\ At(l, "submit")
    /\ faults < MaxFaults /\ faults' = faults + 1
    /\ Goto(l, "dequeue")
    /\ UNCHANGED <<up, asked, cmd, heap, queue, num_filelists, submitted>>

\* A mutant of dequeue_filelist: a list that found no slot waits for one.
DequeueOnlyQueued(l) ==
    /\ At(l, "dequeue") /\ SlotsOf(l) # {}
    /\ queue' = [queue EXCEPT ![Min(SlotsOf(l))] = NoEntry]
    /\ num_filelists' = num_filelists - 1
    /\ Goto(l, "free")
    /\ UNCHANGED <<up, asked, cmd, heap, submitted, faults>>

dequeue_filelist(l) ==
    /\ At(l, "dequeue")
    /\ IF SlotsOf(l) = {} THEN UNCHANGED <<queue, num_filelists>>
       ELSE /\ queue' = [queue EXCEPT ![Min(SlotsOf(l))] = NoEntry]
            /\ num_filelists' = num_filelists - 1
    /\ Goto(l, "free")
    /\ UNCHANGED <<up, asked, cmd, heap, submitted, faults>>

\* The thread frees the array and the parameters, mostly for the second time.
FreeAgain(l) ==
    /\ At(l, "free")
    /\ LET p == thread[l].ptr
           a == param[p]
       IN  \/ (a = Junk \/ a \in freeArrays \/ p \in freeParams) /\ Crash
           \/ /\ a # Junk
              /\ freeParams' = freeParams \cup {p} /\ param' \in {param, [param EXCEPT ![p] = Junk]}
              /\ freeArrays' = freeArrays \cup {a} /\ array' \in {array, [array EXCEPT ![a] = Junk]}
              /\ Goto(l, "ended")
              /\ UNCHANGED <<up, asked, cmd, queue, num_filelists, submitted, faults>>

\* `lq n': the slot of the n-th list is found, without filelist_mutex ...
LocateList(n) ==
    /\ up /\ cmd = Idle /\ asked # {}
    /\ \E i \in Slots : /\ queue[i] # NoEntry
                        /\ Cardinality({j \in 0 .. i : queue[j] # NoEntry}) = n
                        /\ cmd' = [Idle EXCEPT !.pc = "show", !.slot = i]
    /\ UNCHANGED <<up, asked, thread, heap, queue, num_filelists, submitted, faults>>

\* ... and its names are written, if they are still there.
ShowList ==
    /\ up /\ cmd.pc = "show"
    /\ LET e == queue[cmd.slot]
           gone == e = NoEntry \/ param[e.ptr] = Junk \/ array[param[e.ptr]] = Junk
       IN  IF gone THEN Crash
           ELSE /\ cmd' = Idle
                /\ UNCHANGED <<up, asked, thread, heap, queue, num_filelists, submitted, faults>>

\* The commands `tl', with a profile that exists, and `lq'.
_cmd_transcodefilelist == \E l \in Lists : read_transcode_filelist(l)
_cmd_list_queued_transcodings == \E n \in 1 .. MAX_FILELISTS : LocateList(n)

_transcode_filelist(l) ==
    \/ enqueue_filelist(l) \/ NextFile(l) \/ SubmitFile(l) \/ SubmitFails(l)
    \/ dequeue_filelist(l) \/ FreeAgain(l)

Next ==
    \/ _cmd_transcodefilelist \/ transcode_filelist \/ FreeParam \/ FreeArray
    \/ _cmd_list_queued_transcodings \/ ShowList
    \/ \E l \in Lists : _transcode_filelist(l)

\* The scheduler of the system lets each thread go on.
Fairness == \A l \in Lists : WF_vars(_transcode_filelist(l))

Spec == Init /\ [][Next]_vars /\ Fairness

(***************************************************************************)
(* Properties.                                                             *)
(***************************************************************************)
\* `lq' never shows a list nobody works on: each slot of the queue has the
\* parameters of a thread that has not come to its end, also when lists
\* found the queue full, threads failed, and the memory of one list was
\* handed out to the next (enqueue_filelist, dequeue_filelist).
QueueNamesRunning ==
    /\ \A i \in Slots : queue[i] # NoEntry =>
          \E l \in Lists : thread[l].ptr = queue[i].ptr /\ thread[l].pc \in {"next", "submit", "dequeue"}
    /\ num_filelists = Cardinality({i \in Slots : queue[i] # NoEntry})

\* As long as the array it was given, though freed, has not been handed out
\* again, a thread submits the files of its list one after the other, each
\* once (_transcode_filelist).
GoesThroughItsList ==
    \A l \in Lists : thread[l].arr # Nobody /\ thread[l].pc # "ended" =>
        (param[thread[l].ptr] = thread[l].arr /\ array[thread[l].arr] = l =>
            submitted[l] = SubSeq(Files[l], 1, Len(submitted[l])))

\* A list with a missing file is not transcoded in part: no thread submits
\* a file of it, whatever memory it follows (read_filenamelist).
AllOrNothing ==
    \A l \in Lists, m \in Missing : \A i \in 1 .. Len(submitted[l]) : submitted[l][i] \notin FilesOf(m)

\* Every list comes to its end, unless the server does.
EveryListEnds ==
    \A l \in Lists : thread[l].pc = "start" ~> (thread[l].pc = "ended" \/ ~up)
=============================================================================
