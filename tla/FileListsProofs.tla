--------------------------- MODULE FileListsProofs ---------------------------
(***************************************************************************)
(* Theorems about the lists of files, for any lists, any number of slots   *)
(* and addresses, any failures, and whatever freed memory holds.           *)
(***************************************************************************)
EXTENDS FileLists, FiniteSetTheorems, SequenceTheorems, WellFoundedInduction, TLAPS

-----------------------------------------------------------------------------
(* The states. *)

Whole == Lists \ Missing
Names == UNION {FilesOf(l) : l \in Lists}
Command == [pc : {"idle", "create", "freeparam", "freearray", "show"}, list : Lists \cup {Nobody},
            array : Addrs \cup {Nobody}, param : Addrs \cup {Nobody}, slot : Nat]
WorkerPc == {"none", "start", "next", "submit", "dequeue", "free", "ended"}
Worker == [pc : WorkerPc,
           ptr : Addrs \cup {Nobody}, arr : Addrs \cup {Nobody}, idx : Nat \ {0},
           file : Names \cup {Nobody}]
Entry == [ptr : Addrs \cup {Nobody}, idx : Nat, nentries : Nat]

HeapTyped ==
  /\ param \in [Addrs -> Addrs \cup {Junk}] /\ freeParams \subseteq Addrs
  /\ array \in [Addrs -> Whole \cup {Junk}] /\ freeArrays \subseteq Addrs

CmdTyped ==
  /\ cmd \in Command
  /\ cmd.pc = "create" => cmd.list \in Whole /\ cmd.array \in Addrs
  /\ cmd.pc = "freeparam" => cmd.param \in Addrs /\ cmd.array \in Addrs
  /\ cmd.pc = "freearray" => cmd.array \in Addrs

ThreadTyped ==
  /\ thread \in [Lists -> Worker]
  /\ \A l \in Lists : thread[l].pc # "none" => thread[l].ptr \in Addrs /\ thread[l].arr \in Addrs
  /\ \A l \in Lists : thread[l].pc = "none" => thread[l] = NoThread
  /\ \A l \in Lists : thread[l].pc = "submit" => thread[l].file \in Names

TypeOK ==
  /\ asked \subseteq Lists /\ up \in BOOLEAN /\ faults \in Nat
  /\ HeapTyped /\ CmdTyped /\ ThreadTyped
  /\ queue \in [Slots -> Entry] /\ num_filelists \in Int
  /\ submitted \in [Lists -> Seq(Names)]

(* The lists and what they hold. *)
LEMMA Constants ==
  /\ Missing \subseteq Lists /\ Junk \notin Lists /\ Junk \notin Addrs
  /\ Nobody \notin Lists /\ Nobody \notin Addrs /\ MAX_FILELISTS \in Nat /\ Slots \subseteq Nat
  /\ \A l \in Lists : /\ Files[l] \in Seq(Names) /\ Len(Files[l]) \in Nat
                      /\ \A n \in 1 .. Len(Files[l]) : Files[l][n] \in FilesOf(l) /\ Files[l][n] \in Names
<1>1. /\ Missing \subseteq Lists /\ Junk \notin Lists /\ Junk \notin Addrs
      /\ Nobody \notin Lists /\ Nobody \notin Addrs /\ MAX_FILELISTS \in Nat
  BY FileListsAssumption
<1>2. Slots \subseteq Nat
  BY <1>1 DEF Slots
<1>3. ASSUME NEW l \in Lists
      PROVE  /\ Files[l] \in Seq(Names) /\ Len(Files[l]) \in Nat
             /\ \A n \in 1 .. Len(Files[l]) : Files[l][n] \in FilesOf(l) /\ Files[l][n] \in Names
  <2>1. Files[l] \in Seq(FilesOf(l)) /\ FilesOf(l) \subseteq Names
    BY ListsNonEmpty DEF Names
  <2> HIDE DEF Names
  <2>2. QED
    BY <2>1
<1>4. QED
  BY <1>1, <1>2, <1>3

(* The least of some numbers. *)
LEMMA MinIs ==
  ASSUME NEW S \in SUBSET Nat, S # {}
  PROVE  Min(S) \in S /\ \A t \in S : Min(S) <= t
<1>1. \E s \in S : \A u \in S : ~(<<u, s>> \in OpToRel(<, Nat))
  BY WFMin, NatLessThanWellFounded, Zenon
<1>2. \A u, t \in Nat : <<u, t>> \in OpToRel(<, Nat) <=> u < t
  BY Zenon DEF OpToRel
<1>3. \E s \in S : \A u \in S : ~(u < s)
  BY <1>1, <1>2, Zenon
<1>4. \E s \in S : \A u \in S : s <= u
  BY <1>3, SMT
<1>5. QED
  BY <1>4 DEF Min

\* The slot a list that starts is given.
FreeSlot == Min({j \in Slots : queue[j] = NoEntry})

(* Slots that are looked for are found. *)
LEMMA SlotsFound ==
  /\ (\E i \in Slots : queue[i] = NoEntry) => FreeSlot \in Slots /\ queue[FreeSlot] = NoEntry
  /\ \A l \in Lists : SlotsOf(l) # {} => Min(SlotsOf(l)) \in SlotsOf(l)
<1>1. {j \in Slots : queue[j] = NoEntry} \in SUBSET Nat
  BY Constants
<1>2. \A l \in Lists : SlotsOf(l) \in SUBSET Nat
  BY Constants DEF SlotsOf
<1>3. (\E i \in Slots : queue[i] = NoEntry) => FreeSlot \in {j \in Slots : queue[j] = NoEntry}
  BY <1>1, MinIs DEF FreeSlot
<1>4. QED
  BY <1>2, <1>3, MinIs

\* What a thread may do to itself: its pointers stay.
Keeps(l) ==
  /\ thread'[l].ptr = thread[l].ptr /\ thread'[l].arr = thread[l].arr
  /\ \A k \in Lists \ {l} : thread'[k] = thread[k]

(* What each step of a thread makes of it. *)
LEMMA ThreadMoves ==
  ASSUME TypeOK, NEW l \in Lists
  PROVE  /\ \A pc \in WorkerPc : Goto(l, pc) => /\ Keeps(l) /\ thread' \in [Lists -> Worker] /\ thread'[l].pc = pc
                                   /\ thread'[l].idx = thread[l].idx /\ thread'[l].file = thread[l].file
         /\ NextFile(l) /\ ~Crash =>
              /\ Keeps(l) /\ thread' \in [Lists -> Worker] /\ Found(l) \in Whole
              /\ \/ /\ thread[l].idx <= Len(Files[Found(l)])
                    /\ thread'[l].pc = "submit" /\ thread'[l].idx = thread[l].idx + 1
                    /\ thread'[l].file = Files[Found(l)][thread[l].idx] /\ thread'[l].file \in Names
                 \/ thread'[l].pc = "dequeue" /\ thread'[l].idx = thread[l].idx
<1> USE DEF TypeOK, ThreadTyped
<1>1. ASSUME NEW pc \in WorkerPc, Goto(l, pc)
      PROVE  /\ Keeps(l) /\ thread' \in [Lists -> Worker] /\ thread'[l].pc = pc
             /\ thread'[l].idx = thread[l].idx /\ thread'[l].file = thread[l].file
  BY <1>1 DEF Goto, Keeps, Worker, WorkerPc
<1>2. ASSUME NextFile(l), ~Crash
      PROVE  /\ Keeps(l) /\ thread' \in [Lists -> Worker] /\ Found(l) \in Whole
             /\ \/ /\ thread[l].idx <= Len(Files[Found(l)])
                   /\ thread'[l].pc = "submit" /\ thread'[l].idx = thread[l].idx + 1
                   /\ thread'[l].file = Files[Found(l)][thread[l].idx] /\ thread'[l].file \in Names
                \/ thread'[l].pc = "dequeue" /\ thread'[l].idx = thread[l].idx
  <2>1. /\ Found(l) # Junk
        /\ thread' = IF thread[l].idx <= Len(Files[Found(l)])
                     THEN [thread EXCEPT ![l].pc = "submit", ![l].idx = @ + 1,
                                         ![l].file = Files[Found(l)][thread[l].idx]]
                     ELSE [thread EXCEPT ![l].pc = "dequeue"]
    BY <1>2 DEF NextFile
  <2>2. thread[l].ptr \in Addrs
    BY <1>2 DEF NextFile, At
  <2>3. Found(l) \in Whole
    BY <2>1, <2>2 DEF Found, HeapTyped
  <2>4. CASE thread[l].idx <= Len(Files[Found(l)])
    <3>1. Files[Found(l)][thread[l].idx] \in Names
      BY <2>3, <2>4, Constants DEF Whole, Worker
    <3>2. thread' = [thread EXCEPT ![l].pc = "submit", ![l].idx = @ + 1,
                                   ![l].file = Files[Found(l)][thread[l].idx]]
      BY <2>1, <2>4
    <3> DEFINE f == Files[Found(l)][thread[l].idx]
    <3> HIDE DEF f
    <3>3. thread' = [thread EXCEPT ![l].pc = "submit", ![l].idx = @ + 1, ![l].file = f] /\ f \in Names
      BY <3>1, <3>2 DEF f
    <3> DEFINE new == [thread[l] EXCEPT !.pc = "submit", !.idx = @ + 1, !.file = f]
    <3>4. /\ thread' = [thread EXCEPT ![l] = new]
          /\ new.pc = "submit" /\ new.idx = thread[l].idx + 1 /\ new.file = f
          /\ new.ptr = thread[l].ptr /\ new.arr = thread[l].arr
      BY <3>3 DEF Worker
    <3>5. new \in Worker
      <4>1. /\ thread[l] \in Worker /\ thread[l].idx + 1 \in Nat \ {0}
            /\ f \in Names \cup {Nobody} /\ "submit" \in WorkerPc
        BY <3>3 DEF Worker, WorkerPc
      <4>2. \A w \in Worker : \A i \in Nat \ {0} : \A n \in Names \cup {Nobody} :
               [w EXCEPT !.pc = "submit", !.idx = i, !.file = n] \in Worker
        BY <4>1 DEF Worker
      <4>3. new = [thread[l] EXCEPT !.pc = "submit", !.idx = thread[l].idx + 1, !.file = f]
        OBVIOUS
      <4>4. QED
        BY <4>1, <4>2, <4>3, Zenon
    <3> HIDE DEF new
    <3>6. thread'[l] = new /\ \A k \in Lists \ {l} : thread'[k] = thread[k]
      BY <3>4
    <3>7. Keeps(l) /\ thread' \in [Lists -> Worker] /\ thread'[l].pc = "submit"
          /\ thread'[l].idx = thread[l].idx + 1 /\ thread'[l].file = f
      BY <3>4, <3>5, <3>6 DEF Keeps
    <3>8. QED
      BY <2>3, <2>4, <3>3, <3>7 DEF f
  <2>5. CASE ~(thread[l].idx <= Len(Files[Found(l)]))
    <3>1. thread' = [thread EXCEPT ![l].pc = "dequeue"]
      BY <2>1, <2>5
    <3>2. Keeps(l) /\ thread' \in [Lists -> Worker] /\ thread'[l].pc = "dequeue"
          /\ thread'[l].idx = thread[l].idx
      BY <3>1 DEF Keeps, Worker, WorkerPc
    <3>3. QED
      BY <2>3, <3>2
  <2>6. QED
    BY <2>4, <2>5
<1>3. QED
  BY <1>1, <1>2

(* A thread that goes on is typed. *)
LEMMA ThreadStays ==
  ASSUME ThreadTyped, NEW l \in Lists, Keeps(l), thread' \in [Lists -> Worker],
         thread[l].pc # "none", thread'[l].pc # "none",
         thread'[l].pc = "submit" => thread'[l].file \in Names
  PROVE  ThreadTyped'
BY DEF ThreadTyped, Keeps

\* The state of a server without a command or a list.
Reset ==
  /\ asked = {} /\ cmd = Idle
  /\ thread = [l \in Lists |-> NoThread]
  /\ param = [a \in Addrs |-> Junk] /\ freeParams = Addrs
  /\ array = [a \in Addrs |-> Junk] /\ freeArrays = Addrs
  /\ queue = [i \in Slots |-> NoEntry] /\ num_filelists = 0
  /\ submitted = [l \in Lists |-> <<>>] /\ faults = 0

(* Both a server that starts and one that is gone hold nothing. *)
LEMMA Nothing == (Init => Reset /\ up = TRUE) /\ (Crash => Reset' /\ up' = FALSE)
<1>1. Init => Reset /\ up = TRUE
  BY DEF Init, Reset
<1>2. Crash => Reset' /\ up' = FALSE
  BY DEF Crash, Reset
<1>3. QED
  BY <1>1, <1>2

(* Such a server is typed. *)
LEMMA ResetTyped == Reset /\ up \in BOOLEAN => TypeOK
<1> SUFFICES ASSUME Reset, up \in BOOLEAN PROVE TypeOK
  OBVIOUS
<1> USE DEF Reset
<1>1. HeapTyped
  BY DEF HeapTyped
<1>2. CmdTyped
  BY DEF CmdTyped, Idle, Command
<1>3. ThreadTyped
  BY DEF ThreadTyped, Worker, WorkerPc, NoThread
<1>4. queue \in [Slots -> Entry]
  BY DEF NoEntry, Entry
<1>5. submitted \in [Lists -> Seq(Names)]
  OBVIOUS
<1>6. QED
  BY <1>1, <1>2, <1>3, <1>4, <1>5 DEF TypeOK

(* A thread that is created starts with its pointers. *)
LEMMA Started ==
  ASSUME ThreadTyped, NEW l \in Lists, NEW p \in Addrs, NEW a \in Addrs,
         thread' = [thread EXCEPT ![l] = [thread[l] EXCEPT !.pc = "start", !.ptr = p, !.arr = a]]
  PROVE  /\ thread' \in [Lists -> Worker] /\ thread'[l].pc = "start"
         /\ thread'[l].ptr = p /\ thread'[l].arr = a /\ thread'[l].idx = thread[l].idx
         /\ \A k \in Lists \ {l} : thread'[k] = thread[k]
<1> DEFINE new == [thread[l] EXCEPT !.pc = "start", !.ptr = p, !.arr = a]
<1>1. thread \in [Lists -> Worker] /\ thread[l] \in Worker
  BY DEF ThreadTyped
<1>2. /\ thread' = [thread EXCEPT ![l] = new]
      /\ new.pc = "start" /\ new.ptr = p /\ new.arr = a /\ new.idx = thread[l].idx
  BY <1>1 DEF Worker
<1>3. new \in Worker
  <2>1. \A w \in Worker : [w EXCEPT !.pc = "start", !.ptr = p, !.arr = a] \in Worker
    BY DEF Worker, WorkerPc
  <2>2. QED
    BY <1>1, <2>1, Zenon
<1> HIDE DEF new
<1>4. QED
  BY <1>1, <1>2, <1>3

(* The same of the state after a crash. *)
LEMMA ResetTypedNext == Reset' /\ up' \in BOOLEAN => TypeOK'
<1>1. (Reset /\ up \in BOOLEAN => TypeOK)'
  BY ResetTyped, PTL
<1>2. QED
  BY <1>1

(* The commands keep everything typed. *)
LEMMA CommandsTyped ==
  ASSUME TypeOK,
         _cmd_transcodefilelist \/ transcode_filelist \/ FreeParam \/ FreeArray
           \/ _cmd_list_queued_transcodings \/ (ShowList /\ ~Crash)
  PROVE  TypeOK'
<1> USE DEF TypeOK
<1>1. ASSUME NEW l \in Lists, read_transcode_filelist(l) PROVE TypeOK'
  <2>1. PICK a \in freeArrays :
          IF read_filenamelist(l) = Nobody
          THEN /\ array' = [array EXCEPT ![a] = Junk]
               /\ UNCHANGED <<freeArrays, cmd>>
          ELSE /\ array' = [array EXCEPT ![a] = l]
               /\ freeArrays' = freeArrays \ {a}
               /\ cmd' = [Idle EXCEPT !.pc = "create", !.list = l, !.array = a]
    BY <1>1 DEF read_transcode_filelist
  <2>2. a \in Addrs /\ asked' \subseteq Lists
        /\ UNCHANGED <<up, thread, param, freeParams, queue, num_filelists, submitted, faults>>
    BY <1>1, <2>1 DEF read_transcode_filelist, HeapTyped
  <2>3. CASE l \in Missing
    <3>1. array' = [array EXCEPT ![a] = Junk] /\ UNCHANGED <<freeArrays, cmd>>
      BY <2>1, <2>3 DEF read_filenamelist
    <3>2. HeapTyped' /\ CmdTyped' /\ ThreadTyped'
      BY <2>2, <3>1 DEF HeapTyped, CmdTyped, ThreadTyped
    <3>3. QED
      BY <2>2, <3>2
  <2>4. CASE l \notin Missing
    <3>1. /\ array' = [array EXCEPT ![a] = l] /\ freeArrays' = freeArrays \ {a}
          /\ cmd' = [Idle EXCEPT !.pc = "create", !.list = l, !.array = a] /\ l \in Whole
      BY <2>1, <2>4, Constants DEF read_filenamelist, Whole
    <3>2. HeapTyped'
      BY <2>2, <3>1 DEF HeapTyped
    <3>3. CmdTyped'
      BY <2>2, <3>1 DEF CmdTyped, Command, Idle
    <3>4. ThreadTyped'
      BY <2>2 DEF ThreadTyped
    <3>5. QED
      BY <2>2, <3>2, <3>3, <3>4
  <2>5. QED
    BY <2>3, <2>4
<1>2. ASSUME transcode_filelist PROVE TypeOK'
  <2>1. PICK p \in freeParams :
          /\ param' = [param EXCEPT ![p] = cmd.array]
          /\ \/ /\ thread' = [thread EXCEPT ![cmd.list].pc = "start", ![cmd.list].ptr = p, ![cmd.list].arr = cmd.array]
                /\ freeParams' = freeParams \ {p}
                /\ cmd' = [cmd EXCEPT !.pc = "freeparam", !.param = p]
                /\ UNCHANGED faults
             \/ /\ faults < MaxFaults /\ faults' = faults + 1
                /\ cmd' = [cmd EXCEPT !.pc = "freearray"]
                /\ UNCHANGED <<thread, freeParams>>
    BY <1>2 DEF transcode_filelist
  <2>2. /\ p \in Addrs /\ cmd.list \in Lists /\ cmd.array \in Addrs
        /\ UNCHANGED <<up, asked, array, freeArrays, queue, num_filelists, submitted>>
    BY <1>2, <2>1 DEF transcode_filelist, HeapTyped, CmdTyped, Whole
  <2>3. param' \in [Addrs -> Addrs \cup {Junk}]
    BY <2>1, <2>2 DEF HeapTyped
  <2>4. CASE /\ thread' = [thread EXCEPT ![cmd.list].pc = "start", ![cmd.list].ptr = p, ![cmd.list].arr = cmd.array]
             /\ freeParams' = freeParams \ {p}
             /\ cmd' = [cmd EXCEPT !.pc = "freeparam", !.param = p]
             /\ UNCHANGED faults
    <3>1. HeapTyped'
      BY <2>2, <2>3, <2>4 DEF HeapTyped
    <3>2. CmdTyped'
      BY <2>2, <2>4 DEF CmdTyped, Command
    <3>3. ThreadTyped'
      <4>1. /\ thread' \in [Lists -> Worker] /\ thread'[cmd.list].pc = "start"
            /\ thread'[cmd.list].ptr = p /\ thread'[cmd.list].arr = cmd.array
            /\ \A k \in Lists \ {cmd.list} : thread'[k] = thread[k]
        <5>1. PICK k \in Lists, a \in Addrs : k = cmd.list /\ a = cmd.array
          BY <2>2
        <5>2. thread' = [thread EXCEPT ![k] = [thread[k] EXCEPT !.pc = "start", !.ptr = p, !.arr = a]]
          BY <2>4, <5>1 DEF ThreadTyped, Worker
        <5>3. /\ thread' \in [Lists -> Worker] /\ thread'[k].pc = "start"
              /\ thread'[k].ptr = p /\ thread'[k].arr = a
              /\ \A j \in Lists \ {k} : thread'[j] = thread[j]
          <6>1. ThreadTyped /\ p \in Addrs /\ k \in Lists /\ a \in Addrs
            BY <2>2
          <6>2. QED
            BY <5>2, <6>1, Started, ZenonT(30)
        <5> QED
          BY <5>1, <5>3
      <4>2. QED
        BY <2>2, <4>1 DEF ThreadTyped
    <3>4. QED
      BY <2>2, <2>4, <3>1, <3>2, <3>3
  <2>5. CASE /\ faults' = faults + 1
             /\ cmd' = [cmd EXCEPT !.pc = "freearray"]
             /\ UNCHANGED <<thread, freeParams>>
    <3>1. HeapTyped' /\ ThreadTyped'
      BY <2>2, <2>3, <2>5 DEF HeapTyped, ThreadTyped
    <3>2. CmdTyped'
      BY <2>2, <2>5 DEF CmdTyped, Command
    <3>3. QED
      BY <2>2, <2>5, <3>1, <3>2
  <2>6. QED
    BY <2>1, <2>4, <2>5
<1>3. ASSUME FreeParam PROVE TypeOK'
  <2>1. cmd.param \in Addrs /\ cmd.array \in Addrs
    BY <1>3 DEF FreeParam, CmdTyped
  <2>2. HeapTyped'
    BY <1>3, <2>1 DEF FreeParam, HeapTyped
  <2>3. CmdTyped'
    BY <1>3, <2>1 DEF FreeParam, CmdTyped, Command
  <2>4. QED
    BY <1>3, <2>2, <2>3 DEF FreeParam, ThreadTyped
<1>4. ASSUME FreeArray PROVE TypeOK'
  <2>1. cmd.array \in Addrs
    BY <1>4 DEF FreeArray, CmdTyped
  <2>2. HeapTyped'
    BY <1>4, <2>1 DEF FreeArray, HeapTyped
  <2>3. CmdTyped'
    BY <1>4 DEF FreeArray, CmdTyped, Command, Idle
  <2>4. QED
    BY <1>4, <2>2, <2>3 DEF FreeArray, ThreadTyped
<1>5. ASSUME NEW n \in Nat, LocateList(n) PROVE TypeOK'
  <2>1. CmdTyped'
    BY <1>5, Constants DEF LocateList, CmdTyped, Command, Idle
  <2>2. QED
    BY <1>5, <2>1 DEF LocateList, ThreadTyped, heap, HeapTyped
<1>6. ASSUME ShowList, ~Crash PROVE TypeOK'
  <2>1. cmd' = Idle /\ UNCHANGED <<up, asked, thread, heap, queue, num_filelists, submitted, faults>>
    BY <1>6 DEF ShowList
  <2>2. CmdTyped'
    BY <2>1 DEF CmdTyped, Command, Idle
  <2>3. QED
    BY <2>1, <2>2 DEF ThreadTyped, heap, HeapTyped
<1>7. QED
  BY <1>1, <1>2, <1>3, <1>4, <1>5, <1>6 DEF _cmd_transcodefilelist, _cmd_list_queued_transcodings

(* Counting a file leaves the slots with their owners. *)
LEMMA IndexCounted ==
  ASSUME TypeOK, NEW l \in Lists, incidx_fillist(l)
  PROVE  /\ queue' \in [Slots -> Entry] /\ \A i \in Slots : queue'[i].ptr = queue[i].ptr
         /\ \A i \in Slots \ SlotsOf(l) : queue'[i] = queue[i]
<1>1. CASE SlotsOf(l) = {}
  BY <1>1 DEF incidx_fillist, TypeOK
<1>2. CASE SlotsOf(l) # {}
  <2> DEFINE m == Min(SlotsOf(l))
  <2>1. m \in Slots /\ m \in SlotsOf(l)
    BY <1>2, SlotsFound DEF SlotsOf
  <2>2. queue' = [queue EXCEPT ![m].idx = @ + 1]
    BY <1>2 DEF incidx_fillist
  <2> HIDE DEF m
  <2>3. queue \in [Slots -> Entry] /\ queue[m] \in Entry
    BY <2>1 DEF TypeOK
  <2>4. [queue[m] EXCEPT !.idx = @ + 1] \in Entry /\ [queue[m] EXCEPT !.idx = @ + 1].ptr = queue[m].ptr
    BY <2>3 DEF Entry
  <2>5. queue' = [queue EXCEPT ![m] = [queue[m] EXCEPT !.idx = @ + 1]]
    BY <2>2, <2>3
  <2>6. QED
    BY <2>1, <2>3, <2>4, <2>5
<1>3. QED
  BY <1>1, <1>2

(* The step of a thread moves it, and what else it may change is typed. *)
LEMMA ThreadsTyped ==
  ASSUME TypeOK, NEW l \in Lists, _transcode_filelist(l), ~Crash
  PROVE  TypeOK'
<1> USE DEF TypeOK
<1>1. ASSUME NEW pc \in WorkerPc, pc \notin {"none", "submit"}, Goto(l, pc), thread[l].pc # "none" PROVE ThreadTyped'
  BY <1>1, ThreadMoves, ThreadStays
<1> DEFINE Rest == UNCHANGED <<up, asked, cmd, submitted, faults>> /\ HeapTyped'
<1>2. ASSUME enqueue_filelist(l) PROVE TypeOK'
  <2>1. /\ Goto(l, "next") /\ UNCHANGED <<up, asked, cmd, heap, submitted, faults>> /\ Found(l) # Junk
        /\ \/ UNCHANGED <<queue, num_filelists>>
           \/ /\ \E i \in Slots : queue[i] = NoEntry
              /\ queue' = [queue EXCEPT ![FreeSlot] = [ptr |-> thread[l].ptr, idx |-> 0,
                                                       nentries |-> Len(Files[Found(l)])]]
              /\ num_filelists' = num_filelists + 1
    BY <1>2 DEF enqueue_filelist, FreeSlot
  <2>2. thread[l].pc = "start" /\ thread[l].ptr \in Addrs
    BY <1>2 DEF enqueue_filelist, At, ThreadTyped
  <2>3. Found(l) \in Whole
    BY <2>1, <2>2 DEF Found, HeapTyped
  <2>4. Len(Files[Found(l)]) \in Nat
    BY <2>3, Constants DEF Whole
  <2>5. queue' \in [Slots -> Entry] /\ num_filelists' \in Int
    <3>1. PICK e \in Entry : e = [ptr |-> thread[l].ptr, idx |-> 0, nentries |-> Len(Files[Found(l)])]
      BY <2>2, <2>4 DEF Entry
    <3>2. queue \in [Slots -> Entry] /\ num_filelists \in Int
      OBVIOUS
    <3>3. CASE UNCHANGED <<queue, num_filelists>>
      BY <3>2, <3>3
    <3>4. CASE queue' = [queue EXCEPT ![FreeSlot] = e] /\ num_filelists' = num_filelists + 1
      <4>1. [queue EXCEPT ![FreeSlot] = e] \in [Slots -> Entry]
        BY <3>2
      <4>2. num_filelists + 1 \in Int
        BY <3>2
      <4>3. QED
        BY <3>4, <4>1, <4>2, Zenon
    <3>5. QED
      BY <2>1, <3>1, <3>3, <3>4
  <2>6. ThreadTyped'
    BY <1>1, <2>1, <2>2 DEF WorkerPc
  <2>7. QED
    BY <2>1, <2>5, <2>6 DEF heap, HeapTyped, CmdTyped
<1>3. ASSUME NextFile(l) PROVE TypeOK'
  <2>1. ThreadTyped'
    BY <1>3, ThreadMoves, ThreadStays DEF NextFile, At
  <2>2. QED
    BY <1>3, <2>1 DEF NextFile, heap, HeapTyped, CmdTyped
<1>4. ASSUME SubmitFile(l) PROVE TypeOK'
  <2>1. ThreadTyped'
    BY <1>1, <1>4 DEF SubmitFile, At, WorkerPc
  <2>2. submitted' \in [Lists -> Seq(Names)]
    BY <1>4 DEF SubmitFile, At, ThreadTyped
  <2>3. queue' \in [Slots -> Entry]
    BY <1>4, IndexCounted DEF SubmitFile
  <2>4. QED
    BY <1>4, <2>1, <2>2, <2>3 DEF SubmitFile, heap, HeapTyped, CmdTyped
<1>5. ASSUME SubmitFails(l) PROVE TypeOK'
  <2>1. ThreadTyped'
    BY <1>1, <1>5 DEF SubmitFails, At, WorkerPc
  <2>2. QED
    BY <1>5, <2>1 DEF SubmitFails, heap, HeapTyped, CmdTyped
<1>6. ASSUME dequeue_filelist(l) PROVE TypeOK'
  <2>1. ThreadTyped'
    BY <1>1, <1>6 DEF dequeue_filelist, At, WorkerPc
  <2>2. queue' \in [Slots -> Entry] /\ num_filelists' \in Int
    BY <1>6 DEF dequeue_filelist, Entry, NoEntry
  <2>3. QED
    BY <1>6, <2>1, <2>2 DEF dequeue_filelist, heap, HeapTyped, CmdTyped
<1>7. ASSUME FreeAgain(l) PROVE TypeOK'
  <2> DEFINE p == thread[l].ptr
             a == param[p]
  <2>1. /\ a # Junk
        /\ freeParams' = freeParams \cup {p} /\ param' \in {param, [param EXCEPT ![p] = Junk]}
        /\ freeArrays' = freeArrays \cup {a} /\ array' \in {array, [array EXCEPT ![a] = Junk]}
        /\ Goto(l, "ended")
        /\ UNCHANGED <<up, asked, cmd, queue, num_filelists, submitted, faults>>
    BY <1>7 DEF FreeAgain
  <2>2. thread[l].pc = "free" /\ p \in Addrs
    BY <1>7 DEF FreeAgain, At, ThreadTyped
  <2>3. a \in Addrs
    BY <2>1, <2>2 DEF HeapTyped
  <2> HIDE DEF a, p
  <2>4. HeapTyped'
    BY <2>1, <2>2, <2>3 DEF HeapTyped
  <2>5. ThreadTyped'
    BY <1>1, <2>1, <2>2 DEF WorkerPc
  <2>6. QED
    BY <2>1, <2>4, <2>5 DEF CmdTyped
<1>8. QED
  BY <1>2, <1>3, <1>4, <1>5, <1>6, <1>7 DEF _transcode_filelist

(* Every step keeps everything typed. *)
LEMMA StepTyped == TypeOK /\ [Next]_vars => TypeOK'
<1> SUFFICES ASSUME TypeOK, [Next]_vars PROVE TypeOK'
  OBVIOUS
<1>1. CASE Crash
  BY <1>1, Nothing, ResetTypedNext
<1>2. CASE ~Crash
  <2>1. CASE Next
    BY <1>2, <2>1, CommandsTyped, ThreadsTyped DEF Next
  <2>2. CASE UNCHANGED vars
    BY <2>2 DEF vars, TypeOK, HeapTyped, CmdTyped, ThreadTyped
  <2>3. QED
    BY <2>1, <2>2
<1>3. QED
  BY <1>1, <1>2

(* Whatever memory the threads and the commands follow, what they keep has *)
(* the type the code takes it for.                                         *)
THEOREM Typed == Spec => []TypeOK
<1>1. Init => TypeOK
  BY Nothing, ResetTyped
<1>2. QED
  BY <1>1, StepTyped, PTL DEF Spec

-----------------------------------------------------------------------------
(* A list has one thread, and only when it was asked for. *)

AskedInv ==
  /\ \A l \in Lists : thread[l].pc # "none" => l \in asked
  /\ cmd.pc = "create" => thread[cmd.list].pc = "none" /\ cmd.list \in asked

(* A thread's step moves that thread only, and no command. *)
LEMMA ThreadAlone ==
  ASSUME TypeOK, NEW l \in Lists, _transcode_filelist(l), ~Crash
  PROVE  Keeps(l) /\ thread[l].pc # "none" /\ thread'[l].pc # "none" /\ UNCHANGED <<asked, cmd>>
<1>1. \A pc \in {"next", "dequeue", "free", "ended"} : Goto(l, pc) => Keeps(l) /\ thread'[l].pc = pc
  BY ThreadMoves DEF WorkerPc
<1>2. CASE NextFile(l)
  BY <1>2, ThreadMoves DEF NextFile, At
<1>3. CASE enqueue_filelist(l)
  BY <1>1, <1>3 DEF enqueue_filelist, At
<1>4. CASE SubmitFile(l) \/ SubmitFails(l)
  BY <1>1, <1>4 DEF SubmitFile, SubmitFails, At
<1>5. CASE dequeue_filelist(l) \/ FreeAgain(l)
  BY <1>1, <1>5 DEF dequeue_filelist, FreeAgain, At
<1>6. QED
  BY <1>2, <1>3, <1>4, <1>5 DEF _transcode_filelist

(* What the creation of a thread does to it. *)
LEMMA Created ==
  ASSUME TypeOK, transcode_filelist
  PROVE  \/ UNCHANGED thread
         \/ \E p \in Addrs :
               /\ thread' \in [Lists -> Worker] /\ cmd.list \in Lists /\ thread'[cmd.list].pc = "start"
               /\ thread'[cmd.list].ptr = p /\ thread'[cmd.list].arr = cmd.array
               /\ thread'[cmd.list].idx = thread[cmd.list].idx
               /\ param' = [param EXCEPT ![p] = cmd.array]
               /\ \A k \in Lists \ {cmd.list} : thread'[k] = thread[k]
<1>1. PICK l \in Lists, a \in Addrs : l = cmd.list /\ a = cmd.array
  BY DEF transcode_filelist, TypeOK, CmdTyped, Whole
<1>2. CASE UNCHANGED thread
  BY <1>2
<1>3. CASE ~UNCHANGED thread
  <2>1. PICK p \in Addrs :
          /\ thread' = [thread EXCEPT ![l].pc = "start", ![l].ptr = p, ![l].arr = a]
          /\ param' = [param EXCEPT ![p] = cmd.array]
    BY <1>1, <1>3 DEF transcode_filelist, TypeOK, HeapTyped
  <2>2. ThreadTyped
    BY DEF TypeOK
  <2>3. thread' = [thread EXCEPT ![l] = [thread[l] EXCEPT !.pc = "start", !.ptr = p, !.arr = a]]
    BY <2>1, <2>2 DEF ThreadTyped, Worker
  <2>4. /\ thread' \in [Lists -> Worker] /\ thread'[l].pc = "start"
        /\ thread'[l].ptr = p /\ thread'[l].arr = a /\ thread'[l].idx = thread[l].idx
        /\ \A k \in Lists \ {l} : thread'[k] = thread[k]
    BY <2>2, <2>3, Started, ZenonT(30)
  <2>5. QED
    BY <1>1, <2>1, <2>4
<1>4. QED
  BY <1>2, <1>3

(* Every step keeps that. *)
LEMMA StepAsked == TypeOK /\ AskedInv /\ [Next]_vars => AskedInv'
<1> SUFFICES ASSUME TypeOK, AskedInv, [Next]_vars PROVE AskedInv'
  OBVIOUS
<1> USE DEF AskedInv
<1>1. CASE Crash
  BY <1>1, Nothing DEF Reset, Idle, NoThread
<1>2. ASSUME NEW l \in Lists, _transcode_filelist(l), ~Crash PROVE AskedInv'
  <2>1. /\ thread[l].pc # "none" /\ thread'[l].pc # "none" /\ UNCHANGED <<asked, cmd>>
        /\ \A k \in Lists \ {l} : thread'[k] = thread[k]
    BY <1>2, ThreadAlone DEF Keeps
  <2>2. cmd.pc = "create" => cmd.list \in Lists
    BY DEF TypeOK, CmdTyped, Whole
  <2>3. QED
    BY <2>1, <2>2
<1>3. ASSUME NEW l \in Lists, read_transcode_filelist(l) PROVE AskedInv'
  <2>1. /\ l \notin asked /\ UNCHANGED thread /\ asked' = asked \cup ({l} \ Missing)
        /\ \/ UNCHANGED cmd /\ cmd.pc = "idle"
           \/ l \notin Missing /\ cmd'.list = l
    BY <1>3, Constants DEF read_transcode_filelist, read_filenamelist, Idle
  <2>2. QED
    BY <2>1
<1>4. CASE transcode_filelist
  <2>1. cmd.pc = "create" /\ cmd' # cmd /\ cmd'.pc # "create" /\ UNCHANGED asked
    BY <1>4 DEF transcode_filelist, TypeOK, CmdTyped, Command
  <2>2. QED
    BY <1>4, <2>1, Created
<1>5. CASE ~Crash /\ (FreeParam \/ FreeArray \/ _cmd_list_queued_transcodings \/ ShowList)
  <2>1. UNCHANGED <<thread, asked>>
    BY <1>5 DEF FreeParam, FreeArray, _cmd_list_queued_transcodings, LocateList, ShowList
  <2>2. cmd'.pc # "create"
    <3>1. CASE FreeParam
      BY <3>1 DEF FreeParam, TypeOK, CmdTyped, Command
    <3>2. CASE FreeArray
      BY <3>2 DEF FreeArray, Idle
    <3>3. CASE _cmd_list_queued_transcodings
      <4>1. PICK i \in Slots : cmd' = [Idle EXCEPT !.pc = "show", !.slot = i]
        BY <3>3 DEF _cmd_list_queued_transcodings, LocateList
      <4>2. QED
        BY <4>1 DEF Idle
    <3>4. CASE ~Crash /\ ShowList
      <4>1. cmd' = Idle
        BY <3>4 DEF ShowList
      <4>2. QED
        BY <4>1 DEF Idle
    <3>5. QED
      BY <1>5, <3>1, <3>2, <3>3, <3>4
  <2>3. QED
    BY <2>1, <2>2
<1>6. CASE UNCHANGED vars
  BY <1>6 DEF vars
<1>7. QED
  BY <1>1, <1>2, <1>3, <1>4, <1>5, <1>6 DEF Next, _cmd_transcodefilelist

-----------------------------------------------------------------------------
(* Each slot has a thread of its own: threads may share a pointer, so that a *)
(* thread takes the slot of another; then the other has its slot instead.    *)

Busy == {"next", "submit", "dequeue"}
Taken == {i \in Slots : queue[i] # NoEntry}

\* f gives each slot that is taken a thread that goes on, with its pointer.
Owns(f) ==
  /\ f \in [Taken -> Lists]
  /\ \A i, j \in Taken : f[i] = f[j] => i = j
  /\ \A i \in Taken : thread[f[i]].ptr = queue[i].ptr /\ thread[f[i]].pc \in Busy

QueueInv ==
  /\ \E f : Owns(f)
  /\ num_filelists = Cardinality(Taken)

(* An empty queue needs no threads. *)
LEMMA ResetQueue == Reset => QueueInv
<1> SUFFICES ASSUME Reset PROVE QueueInv
  OBVIOUS
<1>1. Taken = {}
  BY DEF Reset, Taken
<1>2. Owns([i \in Taken |-> 0])
  BY <1>1 DEF Owns
<1>3. num_filelists = Cardinality(Taken)
  BY <1>1, FS_EmptySet DEF Reset
<1>4. QED
  BY <1>2, <1>3 DEF QueueInv

(* There are finitely many slots. *)
LEMMA FiniteTaken == IsFiniteSet(Taken) /\ Cardinality(Taken) \in Nat
<1>1. IsFiniteSet(Slots)
  BY Constants, FS_Interval DEF Slots
<1>2. Taken \subseteq Slots
  BY DEF Taken
<1>3. QED
  BY <1>1, <1>2, FS_Subset, FS_CardinalityType

(* A step that leaves the slots taken, their pointers and the owners. *)
LEMMA QueueStays ==
  ASSUME QueueInv, Taken' = Taken, num_filelists' = num_filelists,
         \A i \in Taken : queue'[i].ptr = queue[i].ptr,
         \A l \in Lists : thread[l].pc \in Busy =>
            thread'[l].ptr = thread[l].ptr /\ thread'[l].pc \in Busy
  PROVE  QueueInv'
<1>1. PICK f : Owns(f)
  BY DEF QueueInv
<1>2. Owns(f)'
  BY <1>1 DEF Owns
<1>3. QED
  BY <1>2 DEF QueueInv

(* A thread that starts owns the slot it takes. *)
LEMMA QueueGrows ==
  ASSUME QueueInv, NEW l \in Lists, NEW i \in Slots, i \notin Taken,
         thread[l].pc \notin Busy, thread'[l].pc \in Busy,
         \A k \in Lists \ {l} : thread'[k] = thread[k],
         Taken' = Taken \cup {i}, queue'[i].ptr = thread'[l].ptr,
         \A j \in Taken : queue'[j] = queue[j],
         num_filelists' = num_filelists + 1
  PROVE  QueueInv'
<1>1. PICK f : Owns(f)
  BY DEF QueueInv
<1>2. \A j \in Taken : f[j] \in Lists /\ f[j] # l /\ j # i
  BY <1>1 DEF Owns
<1>g. PICK g : g = [j \in Taken' |-> IF j = i THEN l ELSE f[j]]
  OBVIOUS
<1>3. g \in [Taken' -> Lists] /\ g[i] = l /\ \A j \in Taken : g[j] = f[j]
  BY <1>g, <1>2
<1>4. \A j, k \in Taken' : g[j] = g[k] => j = k
  BY <1>1, <1>2, <1>3 DEF Owns
<1>5. \A j \in Taken' : thread'[g[j]].ptr = queue'[j].ptr /\ thread'[g[j]].pc \in Busy
  <2>1. ASSUME NEW j \in Taken PROVE thread'[g[j]].ptr = queue'[j].ptr /\ thread'[g[j]].pc \in Busy
    BY <1>1, <1>2, <1>3 DEF Owns
  <2>2. QED
    BY <1>3, <2>1
<1>6. Owns(g)'
  BY <1>3, <1>4, <1>5 DEF Owns
<1>7. num_filelists' = Cardinality(Taken')
  BY FiniteTaken, FS_AddElement DEF QueueInv
<1>8. QED
  BY <1>6, <1>7 DEF QueueInv

(* A thread that ends empties a slot with its pointer; when it was that of  *)
(* another thread, that one has its slot instead.                           *)
LEMMA QueueShrinks ==
  ASSUME QueueInv, NEW l \in Lists, NEW m \in Taken,
         queue[m].ptr = thread[l].ptr,
         \A k \in Lists \ {l} : thread'[k] = thread[k],
         Taken' = Taken \ {m},
         \A j \in Taken \ {m} : queue'[j] = queue[j],
         num_filelists' = num_filelists - 1
  PROVE  QueueInv'
<1>1. PICK f : Owns(f)
  BY DEF QueueInv
<1>g. PICK g : g = [j \in Taken' |-> IF f[j] = l THEN f[m] ELSE f[j]]
  OBVIOUS
<1>2. \A j \in Taken \ {m} : g[j] = IF f[j] = l THEN f[m] ELSE f[j]
  BY <1>g
<1>3. g \in [Taken' -> Lists]
  BY <1>1, <1>g DEF Owns
<1>4. \A j \in Taken \ {m} : g[j] # l
  BY <1>1, <1>2 DEF Owns
<1>5. \A j, k \in Taken \ {m} : g[j] = g[k] => j = k
  BY <1>1, <1>2 DEF Owns
<1>6. ASSUME NEW j \in Taken \ {m}
      PROVE  thread'[g[j]].ptr = queue'[j].ptr /\ thread'[g[j]].pc \in Busy
  <2>1. g[j] \in Lists \ {l} /\ queue'[j] = queue[j]
    BY <1>3, <1>4
  <2>2. thread'[g[j]] = thread[g[j]]
    BY <2>1
  <2>3. thread[g[j]].ptr = queue[j].ptr /\ thread[g[j]].pc \in Busy
    BY <1>1, <1>2 DEF Owns
  <2>4. QED
    BY <2>1, <2>2, <2>3
<1>7. Owns(g)'
  BY <1>3, <1>5, <1>6 DEF Owns
<1>8. num_filelists' = Cardinality(Taken')
  BY FiniteTaken, FS_RemoveElement DEF QueueInv
<1>9. QED
  BY <1>7, <1>8 DEF QueueInv

(* A slot is taken when it has a pointer. *)
LEMMA TakenHasPointer ==
  ASSUME TypeOK, QueueInv
  PROVE  Taken = {i \in Slots : queue[i].ptr \in Addrs}
<1>1. PICK f : Owns(f)
  BY DEF QueueInv
<1>2. \A i \in Taken : i \in Slots /\ queue[i].ptr \in Addrs
  BY <1>1 DEF Owns, Taken, TypeOK, ThreadTyped, Busy
<1>3. \A i \in Slots \ Taken : queue[i].ptr = Nobody
  BY DEF Taken, NoEntry
<1>4. QED
  BY <1>2, <1>3, Constants

(* Every step of a thread keeps the slots with their owners. *)
LEMMA ThreadQueue ==
  ASSUME TypeOK, QueueInv, NEW l \in Lists, _transcode_filelist(l), ~Crash
  PROVE  QueueInv'
<1>1. ASSUME UNCHANGED <<queue, num_filelists>>, Keeps(l), thread[l].pc \in Busy => thread'[l].pc \in Busy
      PROVE  QueueInv'
  BY <1>1, QueueStays DEF Taken, Keeps
<1>2. ASSUME NEW pc \in WorkerPc, Goto(l, pc) PROVE Keeps(l) /\ thread'[l].pc = pc
  BY <1>2, ThreadMoves
<1>3. {"next", "submit", "dequeue", "free", "ended"} \subseteq WorkerPc
  BY DEF WorkerPc
<1>4. ASSUME enqueue_filelist(l) PROVE QueueInv'
  <2>1. /\ Goto(l, "next") /\ thread[l].pc = "start"
        /\ \/ UNCHANGED <<queue, num_filelists>>
           \/ /\ \E i \in Slots : queue[i] = NoEntry
              /\ queue' = [queue EXCEPT ![FreeSlot] = [ptr |-> thread[l].ptr, idx |-> 0,
                                                       nentries |-> Len(Files[Found(l)])]]
              /\ num_filelists' = num_filelists + 1
    BY <1>4 DEF enqueue_filelist, At, FreeSlot
  <2>2. /\ Keeps(l) /\ thread'[l].pc \in Busy /\ thread[l].pc \notin Busy
        /\ thread[l].ptr \in Addrs /\ thread'[l].ptr = thread[l].ptr
        /\ \A k \in Lists \ {l} : thread'[k] = thread[k]
    BY <1>2, <1>3, <2>1 DEF Busy, TypeOK, ThreadTyped, Keeps
  <2>3. CASE UNCHANGED <<queue, num_filelists>>
    BY <1>1, <2>2, <2>3
  <2>4. CASE /\ \E i \in Slots : queue[i] = NoEntry
             /\ queue' = [queue EXCEPT ![FreeSlot] = [ptr |-> thread[l].ptr, idx |-> 0,
                                                      nentries |-> Len(Files[Found(l)])]]
             /\ num_filelists' = num_filelists + 1
    <3>1. PICK i \in Slots : i = FreeSlot /\ queue[i] = NoEntry
      BY <2>4, SlotsFound
    <3>2. queue \in [Slots -> Entry] /\ i \notin Taken
      BY <3>1 DEF Taken, TypeOK
    <3>3. PICK e : e = [ptr |-> thread[l].ptr, idx |-> 0, nentries |-> Len(Files[Found(l)])]
      OBVIOUS
    <3>4. queue' = [queue EXCEPT ![i] = e]
      BY <2>4, <3>1, <3>3
    <3>5. e.ptr = thread[l].ptr /\ e # NoEntry
      BY <2>2, <3>3, Constants DEF NoEntry
    <3>6. queue'[i] = e /\ \A j \in Slots \ {i} : queue'[j] = queue[j]
      BY <3>2, <3>4
    <3>7. Taken' = Taken \cup {i}
      BY <3>5, <3>6 DEF Taken
    <3>8. queue'[i].ptr = thread'[l].ptr /\ \A j \in Taken : queue'[j] = queue[j]
      BY <2>2, <3>2, <3>5, <3>6 DEF Taken
    <3>9. QED
      BY <2>2, <2>4, <3>2, <3>7, <3>8, QueueGrows
  <2>5. QED
    BY <2>1, <2>3, <2>4
<1>5. ASSUME NextFile(l) PROVE QueueInv'
  <2>1. Keeps(l) /\ thread'[l].pc \in Busy
    BY <1>5, ThreadMoves DEF Busy
  <2>2. UNCHANGED <<queue, num_filelists>>
    BY <1>5 DEF NextFile
  <2>3. QED
    BY <1>1, <2>1, <2>2
<1>6. ASSUME SubmitFile(l) PROVE QueueInv'
  <2>1. Goto(l, "next") /\ incidx_fillist(l) /\ thread[l].pc = "submit" /\ UNCHANGED num_filelists
    BY <1>6 DEF SubmitFile, At
  <2>2. Keeps(l) /\ thread'[l].pc \in Busy
    BY <1>2, <1>3, <2>1 DEF Busy
  <2>3. thread[l].ptr \in Addrs
    BY <2>1 DEF TypeOK, ThreadTyped
  <2>4. /\ \A i \in Slots : queue'[i].ptr = queue[i].ptr
        /\ \A i \in Slots \ SlotsOf(l) : queue'[i] = queue[i]
    BY <2>1, IndexCounted
  <2>5. \A i \in Slots : queue[i] = NoEntry => i \notin SlotsOf(l)
    BY <2>3, Constants DEF SlotsOf, NoEntry
  <2>6. \A i \in Slots : queue'[i] = NoEntry => i \notin Taken
    BY <2>4, TakenHasPointer, Constants DEF NoEntry
  <2>7. Taken' = Taken
    BY <2>4, <2>5, <2>6 DEF Taken
  <2>8. \A i \in Taken : queue'[i].ptr = queue[i].ptr
    BY <2>4 DEF Taken
  <2>9. \A k \in Lists : thread[k].pc \in Busy => thread'[k].ptr = thread[k].ptr /\ thread'[k].pc \in Busy
    BY <2>2 DEF Keeps
  <2>10. QED
    BY <2>1, <2>7, <2>8, <2>9, QueueStays
<1>7. ASSUME SubmitFails(l) PROVE QueueInv'
  BY <1>1, <1>2, <1>3, <1>7 DEF SubmitFails, Busy
<1>8. ASSUME dequeue_filelist(l) PROVE QueueInv'
  <2>1. /\ Goto(l, "free") /\ thread[l].pc = "dequeue"
        /\ IF SlotsOf(l) = {} THEN UNCHANGED <<queue, num_filelists>>
           ELSE /\ queue' = [queue EXCEPT ![Min(SlotsOf(l))] = NoEntry]
                /\ num_filelists' = num_filelists - 1
    BY <1>8 DEF dequeue_filelist, At
  <2>2. Keeps(l) /\ thread'[l].pc = "free" /\ thread[l].ptr \in Addrs
    BY <1>2, <1>3, <2>1 DEF TypeOK, ThreadTyped
  <2>3. CASE SlotsOf(l) = {}
    <3>1. PICK f : Owns(f)
      BY DEF QueueInv
    <3>2. \A i \in Taken : f[i] # l
      BY <2>3, <3>1 DEF Owns, SlotsOf, Taken
    <3>3. UNCHANGED <<queue, num_filelists>> /\ Taken' = Taken
      BY <2>1, <2>3 DEF Taken
    <3>4. Owns(f)'
      BY <2>2, <3>1, <3>2, <3>3 DEF Owns, Keeps
    <3>5. QED
      BY <3>3, <3>4 DEF QueueInv
  <2>4. CASE SlotsOf(l) # {}
    <3>1. PICK m \in Slots : m = Min(SlotsOf(l)) /\ queue[m].ptr = thread[l].ptr
      BY <2>4, SlotsFound DEF SlotsOf
    <3>2. m \in Taken
      BY <2>2, <3>1, TakenHasPointer
    <3>3. queue' = [queue EXCEPT ![m] = NoEntry] /\ num_filelists' = num_filelists - 1
      BY <2>1, <2>4, <3>1
    <3>4. queue'[m] = NoEntry /\ \A j \in Slots \ {m} : queue'[j] = queue[j]
      BY <3>3 DEF TypeOK
    <3>5. Taken' = Taken \ {m} /\ \A j \in Taken \ {m} : queue'[j] = queue[j]
      BY <3>4 DEF Taken
    <3>6. QED
      BY <2>2, <3>1, <3>2, <3>3, <3>5, QueueShrinks DEF Keeps
  <2>5. QED
    BY <2>3, <2>4
<1>9. ASSUME FreeAgain(l) PROVE QueueInv'
  <2>1. Goto(l, "ended") /\ UNCHANGED <<queue, num_filelists>> /\ thread[l].pc = "free"
    BY <1>9 DEF FreeAgain, At
  <2>2. QED
    BY <1>1, <1>2, <1>3, <2>1 DEF Busy
<1>10. QED
  BY <1>4, <1>5, <1>6, <1>7, <1>8, <1>9 DEF _transcode_filelist

(* And so does every other step. *)
LEMMA StepQueue == TypeOK /\ AskedInv /\ QueueInv /\ [Next]_vars => QueueInv'
<1> SUFFICES ASSUME TypeOK, AskedInv, QueueInv, [Next]_vars PROVE QueueInv'
  OBVIOUS
<1>1. CASE Crash
  <2>1. (Reset => QueueInv)'
    BY ResetQueue, PTL
  <2>2. QED
    BY <1>1, <2>1, Nothing
<1>2. CASE ~Crash /\ \E l \in Lists : _transcode_filelist(l)
  BY <1>2, ThreadQueue
<1>3. ASSUME UNCHANGED <<thread, queue, num_filelists>> PROVE QueueInv'
  BY <1>3, QueueStays DEF Taken
<1>4. CASE transcode_filelist
  <2>1. UNCHANGED <<queue, num_filelists>> /\ Taken' = Taken /\ thread[cmd.list].pc = "none"
    BY <1>4 DEF transcode_filelist, Taken, AskedInv
  <2>2. \A k \in Lists : thread[k].pc \in Busy => thread'[k] = thread[k]
    BY <1>4, <2>1, Created DEF Busy
  <2>3. QED
    BY <2>1, <2>2, QueueStays
<1>5. CASE ~Crash /\ (_cmd_transcodefilelist \/ FreeParam \/ FreeArray \/ _cmd_list_queued_transcodings \/ ShowList)
  BY <1>3, <1>5 DEF _cmd_transcodefilelist, read_transcode_filelist, FreeParam, FreeArray,
                    _cmd_list_queued_transcodings, LocateList, ShowList
<1>6. CASE UNCHANGED vars
  BY <1>3, <1>6 DEF vars
<1>7. QED
  BY <1>1, <1>2, <1>4, <1>5, <1>6 DEF Next

(* `lq' never shows a list nobody works on: each slot of the queue has the *)
(* parameters of a thread that has not come to its end, also when lists    *)
(* found the queue full, threads failed, and the memory of one list was    *)
(* handed out to the next (enqueue_filelist, dequeue_filelist).            *)
THEOREM SlotsNameRunning == Spec => []QueueNamesRunning
<1>1. Init => AskedInv /\ QueueInv
  BY Nothing, ResetQueue DEF Reset, AskedInv, Idle, NoThread
<1>2. QueueInv => QueueNamesRunning
  <2>1. ASSUME NEW f, Owns(f), NEW i \in Slots, queue[i] # NoEntry
        PROVE  \E l \in Lists : thread[l].ptr = queue[i].ptr /\ thread[l].pc \in {"next", "submit", "dequeue"}
    <3>1. i \in Taken /\ f[i] \in Lists
      BY <2>1 DEF Owns, Taken
    <3>2. QED
      BY <2>1, <3>1 DEF Owns, Busy
  <2>2. QED
    BY <2>1 DEF QueueInv, QueueNamesRunning, Taken
<1>3. QED
  BY <1>1, <1>2, Typed, StepAsked, StepQueue, PTL DEF Spec

-----------------------------------------------------------------------------
(* What the threads submit. *)

\* The files of the lists that have all their files.
Supplied == UNION {FilesOf(l) : l \in Whole}

SuppliedInv ==
  \A l \in Lists : /\ submitted[l] \in Seq(Supplied)
                   /\ thread[l].pc = "submit" => thread[l].file \in Supplied

(* A thread hands on only what it read, and reads only whole lists. *)
LEMMA ThreadSupplied ==
  ASSUME TypeOK, SuppliedInv, NEW l \in Lists, _transcode_filelist(l), ~Crash
  PROVE  SuppliedInv'
<1> USE DEF SuppliedInv
<1>1. \A pc \in {"next", "dequeue", "free", "ended"} : Goto(l, pc) => Keeps(l) /\ thread'[l].pc = pc
  BY ThreadMoves DEF WorkerPc
<1>2. CASE NextFile(l)
  <2>1. Keeps(l) /\ UNCHANGED submitted /\ thread'[l].pc \in {"submit", "dequeue"}
    BY <1>2, ThreadMoves DEF NextFile
  <2>2. ASSUME thread'[l].pc = "submit" PROVE thread'[l].file \in Supplied
    <3>1. /\ Found(l) \in Whole /\ thread[l].idx \in 1 .. Len(Files[Found(l)])
          /\ thread'[l].file = Files[Found(l)][thread[l].idx]
      BY <1>2, <2>2, ThreadMoves, Constants DEF TypeOK, ThreadTyped, Worker, Whole
    <3>2. thread'[l].file \in FilesOf(Found(l))
      BY <3>1, Constants DEF Whole
    <3>3. QED
      BY <3>1, <3>2 DEF Supplied
  <2>3. QED
    BY <2>1, <2>2 DEF Keeps
<1>3. CASE SubmitFile(l)
  <2>1. /\ Keeps(l) /\ thread'[l].pc = "next" /\ thread[l].pc = "submit"
        /\ submitted' = [submitted EXCEPT ![l] = Append(@, thread[l].file)]
    BY <1>1, <1>3 DEF SubmitFile, At
  <2>2. submitted'[l] \in Seq(Supplied) /\ \A k \in Lists \ {l} : submitted'[k] = submitted[k]
    BY <2>1 DEF TypeOK
  <2>3. QED
    BY <2>1, <2>2 DEF Keeps
<1>4. CASE enqueue_filelist(l) \/ SubmitFails(l) \/ dequeue_filelist(l) \/ FreeAgain(l)
  <2>1. UNCHANGED submitted /\ Keeps(l) /\ thread'[l].pc # "submit"
    BY <1>1, <1>4 DEF enqueue_filelist, SubmitFails, dequeue_filelist, FreeAgain
  <2>2. QED
    BY <2>1 DEF Keeps
<1>5. QED
  BY <1>2, <1>3, <1>4 DEF _transcode_filelist

(* Commands submit nothing. *)
LEMMA CommandQuiet ==
  ASSUME Next, ~Crash, ~\E l \in Lists : _transcode_filelist(l)
  PROVE  UNCHANGED submitted /\ (UNCHANGED thread \/ transcode_filelist)
BY DEF Next, _cmd_transcodefilelist, read_transcode_filelist, transcode_filelist, FreeParam, FreeArray,
       _cmd_list_queued_transcodings, LocateList, ShowList

(* So every step keeps what is submitted to those files. *)
LEMMA StepSupplied == TypeOK /\ SuppliedInv /\ [Next]_vars => SuppliedInv'
<1> SUFFICES ASSUME TypeOK, SuppliedInv, [Next]_vars PROVE SuppliedInv'
  OBVIOUS
<1>1. CASE Crash
  <2>1. \A l \in Lists : submitted'[l] = <<>> /\ thread'[l].pc = "none"
    BY <1>1, Nothing DEF Reset, NoThread
  <2>2. <<>> \in Seq(Supplied) /\ "none" # "submit"
    OBVIOUS
  <2>3. QED
    BY <2>1, <2>2, Zenon DEF SuppliedInv
<1>2. CASE ~Crash /\ \E l \in Lists : _transcode_filelist(l)
  BY <1>2, ThreadSupplied
<1>3. CASE UNCHANGED <<thread, submitted>>
  BY <1>3 DEF SuppliedInv
<1>4. CASE transcode_filelist /\ UNCHANGED submitted
  <2>1. \A l \in Lists : thread'[l].pc = "submit" => thread'[l] = thread[l]
    BY <1>4, Created
  <2>2. QED
    BY <1>4, <2>1 DEF SuppliedInv
<1>5. QED
  BY <1>1, <1>2, <1>3, <1>4, CommandQuiet DEF vars

(* A list with a missing file has none of its files transcoded, whatever    *)
(* memory the threads follow, unless another list names that file too.      *)
FilesApart == \A l \in Whole, m \in Missing : FilesOf(l) \cap FilesOf(m) = {}

THEOREM NoneInPart == ASSUME FilesApart PROVE Spec => []AllOrNothing
<1> SUFFICES ASSUME FilesApart PROVE Spec => []AllOrNothing
  OBVIOUS
<1>1. Init => SuppliedInv
  <2>1. Init => \A l \in Lists : submitted[l] = <<>> /\ thread[l].pc = "none"
    BY Nothing DEF Reset, NoThread
  <2>2. <<>> \in Seq(Supplied) /\ "none" # "submit"
    OBVIOUS
  <2>3. QED
    BY <2>1, <2>2, Zenon DEF SuppliedInv
<1>2. SuppliedInv => AllOrNothing
  <2>1. \A m \in Missing : \A f \in Supplied : f \notin FilesOf(m)
    BY DEF FilesApart, Supplied
  <2>2. ASSUME SuppliedInv, NEW l \in Lists, NEW i \in 1 .. Len(submitted[l])
        PROVE  submitted[l][i] \in Supplied
    BY <2>2 DEF SuppliedInv
  <2>3. QED
    BY <2>1, <2>2 DEF AllOrNothing
<1>3. QED
  BY <1>1, <1>2, Typed, StepSupplied, PTL DEF Spec

-----------------------------------------------------------------------------
(* How far a thread has come in its list. *)

\* The memory a thread was given, though freed, still holds its list.
Given(l) ==
  /\ thread[l].pc \notin {"none", "ended"}
  /\ param[thread[l].ptr] = thread[l].arr /\ array[thread[l].arr] = l

\* The place a thread has reached is the number of files it has submitted.
Place(l) ==
  /\ submitted[l] = SubSeq(Files[l], 1, Len(submitted[l]))
  /\ thread[l].pc \in {"start", "next"} => thread[l].idx = Len(submitted[l]) + 1
  /\ thread[l].pc = "submit" => /\ thread[l].idx = Len(submitted[l]) + 2
                                /\ thread[l].idx - 1 <= Len(Files[l])
                                /\ thread[l].file = Files[l][thread[l].idx - 1]

PlaceInv ==
  /\ cmd.pc = "create" => array[cmd.array] \in {cmd.list, Junk}
  /\ \A l \in Lists : thread[l].pc = "none" => submitted[l] = <<>>
  /\ \A l \in Lists : Given(l) => Place(l)

(* The next file after the first n makes the first n + 1. *)
LEMMA OneMore ==
  ASSUME NEW l \in Lists, NEW s, s = SubSeq(Files[l], 1, Len(s)), Len(s) \in Nat, Len(s) + 1 <= Len(Files[l])
  PROVE  /\ Append(s, Files[l][Len(s) + 1]) = SubSeq(Files[l], 1, Len(s) + 1)
         /\ Len(Append(s, Files[l][Len(s) + 1])) = Len(s) + 1
<1>1. Files[l] \in Seq(Names)
  BY Constants
<1> DEFINE F == Files[l]
           n == Len(s)
<1> HIDE DEF F, n
<1>2. F \in Seq(Names) /\ n \in Nat /\ n + 1 <= Len(F) /\ s = SubSeq(F, 1, n)
  BY <1>1 DEF F, n
<1>3. Append(SubSeq(F, 1, n), F[n + 1]) = SubSeq(F, 1, n + 1)
  <2>1. n + 1 \in Int /\ 1 \in Int /\ n + 1 \in 1 .. Len(F) /\ (n + 1) - 1 = n /\ F[n + 1] \in Names
    BY <1>2
  <2>2. SubSeq(F, 1, n + 1) = SubSeq(F, 1, (n + 1) - 1) \o <<F[n + 1]>>
    BY <1>2, <2>1, SubSeqRecursiveSecond
  <2>3. SubSeq(F, 1, n) \in Seq(Names)
    BY <1>2
  <2>4. Append(SubSeq(F, 1, n), F[n + 1]) = SubSeq(F, 1, n) \o <<F[n + 1]>>
    BY <2>1, <2>3, AppendIsConcat
  <2>5. QED
    BY <2>1, <2>2, <2>4
<1>4. Len(SubSeq(F, 1, n + 1)) = n + 1
  BY <1>2
<1>5. QED
  BY <1>2, <1>3, <1>4 DEF F, n

(* Memory that is freed holds what it held, or junk: a thread that still  *)
(* finds its list found it before.                                        *)
LEMMA FreedStays ==
  ASSUME TypeOK, NEW k \in Lists, thread[k].pc \notin {"none", "ended"},
         thread'[k].ptr = thread[k].ptr, thread'[k].arr = thread[k].arr,
         \A a \in Addrs : param'[a] \in {param[a], Junk} /\ array'[a] \in {array[a], Junk}
  PROVE  Given(k)' => Given(k)
<1>1. thread[k].ptr \in Addrs /\ thread[k].arr \in Addrs
  BY DEF TypeOK, ThreadTyped
<1>2. k # Junk /\ thread[k].arr # Junk
  BY <1>1, Constants
<1>3. QED
  BY <1>1, <1>2 DEF Given

(* A thread's step keeps the places of all threads. *)
LEMMA ThreadPlace ==
  ASSUME TypeOK, AskedInv, PlaceInv, NEW l \in Lists, _transcode_filelist(l), ~Crash
  PROVE  PlaceInv'
<1>1. /\ Keeps(l) /\ thread[l].pc # "none" /\ thread'[l].pc # "none" /\ UNCHANGED cmd
      /\ \A k \in Lists \ {l} : thread'[k] = thread[k]
  BY ThreadAlone DEF Keeps
<1>2. \A a \in Addrs : param'[a] \in {param[a], Junk} /\ array'[a] \in {array[a], Junk}
  <2>1. UNCHANGED <<param, array>> \/ FreeAgain(l)
    BY DEF _transcode_filelist, enqueue_filelist, NextFile, SubmitFile, SubmitFails, dequeue_filelist, heap
  <2>2. ASSUME FreeAgain(l)
        PROVE  \E p, b : param' \in {param, [param EXCEPT ![p] = Junk]} /\ array' \in {array, [array EXCEPT ![b] = Junk]}
    BY <2>2 DEF FreeAgain
  <2>3. QED
    BY <2>1, <2>2 DEF TypeOK, HeapTyped
<1>3. cmd'.pc = "create" => array'[cmd'.array] \in {cmd'.list, Junk}
  BY <1>1, <1>2 DEF PlaceInv, TypeOK, CmdTyped
<1>4. \A k \in Lists \ {l} : submitted'[k] = submitted[k]
  BY DEF _transcode_filelist, enqueue_filelist, NextFile, SubmitFile, SubmitFails, dequeue_filelist,
         FreeAgain, TypeOK
<1>5. \A k \in Lists \ {l} : Given(k)' => Place(k)'
  BY <1>1, <1>2, <1>4, FreedStays DEF PlaceInv, Place, Given
<1>6. ASSUME Given(l)' PROVE Place(l)'
  <2>1. thread'[l].pc # "ended" /\ ~FreeAgain(l) /\ thread[l].pc # "ended"
    <3>1. \A pc \in {"ended"} : Goto(l, pc) => thread'[l].pc = pc
      BY ThreadMoves DEF WorkerPc
    <3>2. thread[l].pc # "ended"
      BY DEF _transcode_filelist, enqueue_filelist, NextFile, SubmitFile, SubmitFails, dequeue_filelist, FreeAgain, At
    <3>3. QED
      BY <1>6, <3>1, <3>2 DEF Given, FreeAgain
  <2>2. Given(l) /\ Place(l)
    BY <1>1, <1>2, <1>6, <2>1, FreedStays DEF PlaceInv, Keeps
  <2>3. \A pc \in {"next", "dequeue", "free"} : Goto(l, pc) => thread'[l].pc = pc /\ thread'[l].idx = thread[l].idx
    BY ThreadMoves DEF WorkerPc
  <2>4. CASE enqueue_filelist(l)
    <3>1. UNCHANGED submitted /\ thread[l].pc = "start" /\ thread'[l].pc = "next" /\ thread'[l].idx = thread[l].idx
      BY <2>3, <2>4 DEF enqueue_filelist, At
    <3>2. QED
      BY <2>2, <3>1 DEF Place
  <2>5. CASE NextFile(l)
    <3>1. Found(l) = l /\ thread[l].pc = "next" /\ UNCHANGED submitted
      <4>1. thread[l].arr # Junk
        BY <2>5, Constants DEF TypeOK, ThreadTyped, NextFile, At
      <4>2. QED
        BY <2>2, <2>5, <4>1 DEF Found, Given, NextFile, At
    <3>2. \/ /\ thread[l].idx <= Len(Files[l])
             /\ thread'[l].pc = "submit" /\ thread'[l].idx = thread[l].idx + 1
             /\ thread'[l].file = Files[l][thread[l].idx]
          \/ thread'[l].pc = "dequeue"
      BY <2>5, <3>1, ThreadMoves
    <3>3. thread[l].idx = Len(submitted[l]) + 1 /\ thread[l].idx \in Nat /\ Len(submitted[l]) \in Nat
      BY <2>2, <3>1 DEF Place, TypeOK, ThreadTyped, Worker
    <3>4. QED
      BY <2>2, <3>1, <3>2, <3>3 DEF Place
  <2>6. CASE SubmitFile(l)
    <3>1. PICK s \in Seq(Names) : s = submitted[l]
      BY DEF TypeOK
    <3>2. /\ thread[l].pc = "submit" /\ thread'[l].pc = "next" /\ thread'[l].idx = thread[l].idx
          /\ submitted' = [submitted EXCEPT ![l] = Append(@, thread[l].file)]
      BY <2>3, <2>6 DEF SubmitFile, At
    <3>3. submitted'[l] = Append(s, thread[l].file)
      BY <3>1, <3>2 DEF TypeOK
    <3>4. /\ s = SubSeq(Files[l], 1, Len(s)) /\ Len(s) \in Nat /\ Len(Files[l]) \in Nat
          /\ thread[l].idx = Len(s) + 2 /\ thread[l].idx - 1 <= Len(Files[l])
          /\ thread[l].file = Files[l][thread[l].idx - 1]
      BY <2>2, <3>1, <3>2, Constants DEF Place
    <3>5. thread[l].idx - 1 = Len(s) + 1 /\ Len(s) + 1 <= Len(Files[l])
      BY <3>4
    <3>6. /\ submitted'[l] = SubSeq(Files[l], 1, Len(s) + 1) /\ Len(submitted'[l]) = Len(s) + 1
      BY <3>3, <3>4, <3>5, OneMore
    <3>7. thread'[l].idx = Len(submitted'[l]) + 1
      BY <3>2, <3>4, <3>6
    <3>8. QED
      BY <3>2, <3>6, <3>7 DEF Place
  <2>7. CASE SubmitFails(l) \/ dequeue_filelist(l)
    <3>1. UNCHANGED submitted /\ thread'[l].pc \in {"dequeue", "free"}
      BY <2>3, <2>7 DEF SubmitFails, dequeue_filelist
    <3>2. QED
      BY <2>2, <3>1 DEF Place
  <2>8. QED
    BY <2>1, <2>4, <2>5, <2>6, <2>7 DEF _transcode_filelist
<1>7. \A k \in Lists : thread'[k].pc = "none" => submitted'[k] = <<>>
  BY <1>1, <1>4 DEF PlaceInv
<1>8. QED
  BY <1>3, <1>5, <1>6, <1>7 DEF PlaceInv

(* The commands give lists to threads that have submitted nothing, and hand *)
(* out no memory with another thread's list in it.                          *)
LEMMA CommandPlace ==
  ASSUME TypeOK, AskedInv, PlaceInv,
         _cmd_transcodefilelist \/ transcode_filelist \/ FreeParam \/ FreeArray
           \/ _cmd_list_queued_transcodings \/ (ShowList /\ ~Crash)
  PROVE  PlaceInv'
<1>1. ASSUME NEW l \in Lists, read_transcode_filelist(l) PROVE PlaceInv'
  <2>1. PICK a \in freeArrays :
          IF read_filenamelist(l) = Nobody
          THEN /\ array' = [array EXCEPT ![a] = Junk]
               /\ UNCHANGED <<freeArrays, cmd>>
          ELSE /\ array' = [array EXCEPT ![a] = l]
               /\ freeArrays' = freeArrays \ {a}
               /\ cmd' = [Idle EXCEPT !.pc = "create", !.list = l, !.array = a]
    BY <1>1 DEF read_transcode_filelist
  <2>2. a \in Addrs /\ cmd = Idle /\ thread[l].pc = "none" /\ UNCHANGED <<thread, param, submitted>>
    BY <1>1, <2>1 DEF read_transcode_filelist, TypeOK, HeapTyped, AskedInv
  <2>3. array \in [Addrs -> Whole \cup {Junk}]
    BY DEF TypeOK, HeapTyped
  <2>4. /\ \A b \in Addrs \ {a} : array'[b] = array[b]
        /\ array'[a] \in {l, Junk}
        /\ cmd'.pc = "create" => cmd'.list = l /\ cmd'.array = a /\ array'[a] = l
    <3>1. CASE array' = [array EXCEPT ![a] = Junk] /\ UNCHANGED cmd
      BY <2>2, <2>3, <3>1 DEF Idle
    <3>2. CASE array' = [array EXCEPT ![a] = l] /\ cmd' = [Idle EXCEPT !.pc = "create", !.list = l, !.array = a]
      <4>1. cmd'.list = l /\ cmd'.array = a
        BY <3>2 DEF Idle
      <4>2. array'[a] = l /\ \A b \in Addrs \ {a} : array'[b] = array[b]
        BY <2>2, <2>3, <3>2
      <4>3. QED
        BY <4>1, <4>2
    <3>3. QED
      BY <2>1, <3>1, <3>2
  <2>5. ASSUME NEW k \in Lists, Given(k)' PROVE Given(k)
    <3>1. thread'[k].arr \in Addrs /\ k # l /\ k # Junk
      BY <2>2, <2>5, Constants DEF Given, TypeOK, ThreadTyped
    <3>2. thread'[k].arr # a
      BY <2>4, <2>5, <3>1 DEF Given
    <3>3. QED
      BY <2>2, <2>4, <2>5, <3>1, <3>2 DEF Given
  <2>6. \A k \in Lists : Place(k) => Place(k)'
    BY <2>2 DEF Place
  <2>7. QED
    BY <2>2, <2>4, <2>5, <2>6 DEF PlaceInv
<1>2. CASE transcode_filelist
  <2>1. PICK l \in Lists, a \in Addrs : l = cmd.list /\ a = cmd.array
    BY <1>2 DEF transcode_filelist, TypeOK, CmdTyped, Whole
  <2>2. /\ thread[l].pc = "none" /\ submitted[l] = <<>> /\ thread[l].idx = 1 /\ array[a] \in {l, Junk}
        /\ UNCHANGED <<array, submitted>> /\ cmd'.pc # "create"
    <3>1. cmd.pc = "create" /\ UNCHANGED <<array, submitted>>
      BY <1>2 DEF transcode_filelist
    <3>2. cmd'.pc # "create"
      BY <1>2 DEF transcode_filelist, TypeOK, CmdTyped, Command
    <3>3. thread[l].pc = "none"
      BY <2>1, <3>1 DEF AskedInv
    <3>4. thread[l].idx = 1
      BY <3>3 DEF TypeOK, ThreadTyped, NoThread
    <3>5. QED
      BY <2>1, <3>1, <3>2, <3>3, <3>4 DEF PlaceInv
  <2>3. PICK p \in Addrs : param' = [param EXCEPT ![p] = a]
    BY <1>2, <2>1 DEF transcode_filelist, TypeOK, HeapTyped
  <2>4. \A b \in Addrs : param'[b] = IF b = p THEN a ELSE param[b]
    BY <2>3 DEF TypeOK, HeapTyped
  <2>5. \A k \in Lists \ {l} : thread'[k] = thread[k]
    BY <1>2, <2>1, Created
  <2>6. ASSUME NEW k \in Lists \ {l}, Given(k)' PROVE Place(k)'
    <3>1. thread[k].ptr \in Addrs /\ thread[k].arr \in Addrs /\ k # Junk
      BY <2>5, <2>6, Constants DEF Given, TypeOK, ThreadTyped
    <3>2. thread[k].arr # a
      BY <2>2, <2>5, <2>6, <3>1 DEF Given
    <3>3. Given(k)
      BY <2>2, <2>4, <2>5, <2>6, <3>1, <3>2 DEF Given
    <3>4. QED
      BY <2>2, <2>5, <3>3 DEF PlaceInv, Place
  <2>7. ASSUME Given(l)' PROVE Place(l)'
    <3>1. thread'[l].pc = "start" /\ thread'[l].idx = 1
      <4>1. thread'[l] = thread[l] \/ (thread'[l].pc = "start" /\ thread'[l].idx = thread[l].idx)
        BY <1>2, <2>1, Created
      <4>2. QED
        BY <2>2, <2>7, <4>1 DEF Given
    <3>2. submitted'[l] = <<>> /\ Len(<<>>) = 0 /\ SubSeq(Files[l], 1, 0) = <<>>
      BY <2>2, Constants, SubSeqEmpty
    <3>3. QED
      BY <3>1, <3>2 DEF Place
  <2>8. \A k \in Lists : thread'[k].pc = "none" => submitted'[k] = <<>>
    BY <2>2, <2>5 DEF PlaceInv
  <2>9. QED
    BY <2>2, <2>6, <2>7, <2>8 DEF PlaceInv
<1>3. ASSUME UNCHANGED <<thread, submitted>>, cmd'.pc # "create",
             \A a \in Addrs : param'[a] \in {param[a], Junk} /\ array'[a] \in {array[a], Junk}
      PROVE  PlaceInv'
  <2>1. \A k \in Lists : Given(k)' => Given(k)
    BY <1>3, FreedStays DEF Given
  <2>2. \A k \in Lists : Place(k) => Place(k)'
    BY <1>3 DEF Place
  <2>3. QED
    BY <1>3, <2>1, <2>2 DEF PlaceInv
<1>4. CASE FreeParam
  <2>1. cmd'.pc # "create" /\ UNCHANGED <<thread, submitted, array>>
    BY <1>4 DEF FreeParam, TypeOK, CmdTyped, Command
  <2>2. \A a \in Addrs : param'[a] \in {param[a], Junk}
    BY <1>4 DEF FreeParam, TypeOK, HeapTyped
  <2>3. QED
    BY <1>3, <2>1, <2>2
<1>5. CASE FreeArray
  <2>1. cmd'.pc # "create" /\ UNCHANGED <<thread, submitted, param>>
    BY <1>5 DEF FreeArray, Idle
  <2>2. \A a \in Addrs : array'[a] \in {array[a], Junk}
    BY <1>5 DEF FreeArray, TypeOK, HeapTyped
  <2>3. QED
    BY <1>3, <2>1, <2>2
<1>6. CASE _cmd_list_queued_transcodings \/ (ShowList /\ ~Crash)
  <2>1. UNCHANGED <<thread, submitted, heap>>
    BY <1>6 DEF _cmd_list_queued_transcodings, LocateList, ShowList
  <2>2. cmd' = Idle \/ \E i \in Slots : cmd' = [Idle EXCEPT !.pc = "show", !.slot = i]
    BY <1>6 DEF _cmd_list_queued_transcodings, LocateList, ShowList
  <2>3. cmd'.pc # "create"
    <3>1. CASE cmd' = Idle
      BY <3>1 DEF Idle
    <3>2. ASSUME NEW i \in Slots, cmd' = [Idle EXCEPT !.pc = "show", !.slot = i] PROVE cmd'.pc = "show"
      BY <3>2 DEF Idle
    <3>3. QED
      BY <2>2, <3>1, <3>2
  <2>4. QED
    BY <1>3, <2>1, <2>3 DEF heap
<1>7. QED
  BY <1>1, <1>2, <1>4, <1>5, <1>6 DEF _cmd_transcodefilelist

(* Every step keeps the places. *)
LEMMA StepPlace == TypeOK /\ AskedInv /\ PlaceInv /\ [Next]_vars => PlaceInv'
<1> SUFFICES ASSUME TypeOK, AskedInv, PlaceInv, [Next]_vars PROVE PlaceInv'
  OBVIOUS
<1>1. CASE Crash
  <2>1. cmd'.pc = "idle" /\ \A l \in Lists : thread'[l].pc = "none" /\ submitted'[l] = <<>>
    BY <1>1, Nothing DEF Reset, Idle, NoThread
  <2>2. QED
    BY <2>1 DEF PlaceInv, Given
<1>2. CASE Next /\ ~Crash
  BY <1>2, ThreadPlace, CommandPlace DEF Next
<1>3. CASE UNCHANGED vars
  BY <1>3 DEF vars, PlaceInv, Given, Place
<1>4. QED
  BY <1>1, <1>2, <1>3

(* As long as the array it was given, though freed, has not been handed out *)
(* again, a thread submits the files of its list one after the other, each  *)
(* once (_transcode_filelist).                                              *)
THEOREM InTheirOrder == Spec => []GoesThroughItsList
<1>1. Init => AskedInv /\ PlaceInv
  <2>1. Init => /\ cmd.pc = "idle"
                /\ \A l \in Lists : thread[l].pc = "none" /\ submitted[l] = <<>>
    BY Nothing DEF Reset, Idle, NoThread
  <2>2. QED
    BY <2>1 DEF AskedInv, PlaceInv, Given
<1>2. TypeOK /\ PlaceInv => GoesThroughItsList
  BY DEF TypeOK, ThreadTyped, NoThread, PlaceInv, Given, Place, GoesThroughItsList
<1>3. QED
  BY <1>1, <1>2, Typed, StepAsked, StepPlace, PTL DEF Spec
=============================================================================
