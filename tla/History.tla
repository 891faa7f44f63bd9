------------------------------- MODULE History -------------------------------
(***************************************************************************)
(* What a server knows of the recordings it has made, and the files it     *)
(* keeps that in: the history (tvhistory.c), read when the server starts   *)
(* and written after every transcoding, and the statistics (stats.c), read *)
(* when the server starts and written when it ends.  The history is        *)
(* written in place: the file is cut to nothing when it is opened, so that *)
(* a process that dies before it has written leaves half a file.  The      *)
(* recording threads call in here with no mutex held.                      *)
(*                                                                         *)
(* The files are those of the server that root starts: its data directory  *)
(* belongs to config:username, a user's server has its data elsewhere.     *)
(***************************************************************************)
EXTENDS LockFile, Sequences, SequencesExt

CONSTANTS
    Threads,            \* the recording threads of a server
    MaxTitle,           \* recordings are 1, 2 ..., in the order they end
    Odd,                \* those with characters in their title that XML reads
    HISTORY_LENGTH,     \* 99
    EndsOverlap,        \* may two recordings be entered at the same time?
    MaxFaults           \* bound on the files that cannot be opened

ASSUME HistoryAssumption == HISTORY_LENGTH \in Nat \ {0} /\ MaxTitle \in Nat

Absent == <<-1>>
Torn == <<-2>>
NoTitle == 0
Slots == 1 .. HISTORY_LENGTH

NoMemory == [history |-> [i \in Slots |-> NoTitle], nrecs |-> 0, total |-> 0,
             thread |-> [t \in Threads |-> [pc |-> "idle", title |-> NoTitle]]]

VARIABLES
    memory,             \* of each process: the history, the number of files
                        \* transcoded, and where its recording threads are
    histfile,           \* Absent, Torn or the titles, newest first
    statfile,           \* the number of files transcoded
    ended,              \* how many recordings have ended
    faults,
    listed, saved,      \* what the history should show, and its file say
    misread,            \* was a whole history given up for a title (Odd)?
    counted             \* what the statistics should count, by process

histvars == <<memory, histfile, statfile, ended, faults, listed, saved, misread, counted>>

HistInit ==
    /\ memory = [p \in Pids |-> NoMemory]
    /\ histfile = Absent /\ statfile = 0
    /\ ended = 0 /\ faults = 0 /\ listed = <<>> /\ saved = <<>>
    /\ misread = FALSE
    /\ counted = [p \in Pids |-> 0]

Newest(s) == SubSeq(s, 1, IF Len(s) < HISTORY_LENGTH THEN Len(s) ELSE HISTORY_LENGTH)
Opens(ok) == \/ ok /\ UNCHANGED faults
             \/ ~ok /\ faults < MaxFaults /\ faults' = faults + 1
Up(p) == server[p].pc \in {"up", "ending", "ended"}
Thread(p, t) == memory[p].thread[t]
Enters(p, t, pc) ==
    memory' = [memory EXCEPT
        ![p].thread[t] = [pc |-> pc, title |-> IF pc = "idle" THEN NoTitle ELSE @.title]]

Filled(p) == SubSeq(memory[p].history, 1, memory[p].nrecs)

\* A mutant of read_profile_stats: what is there already is read again.
read_again(p) ==
    memory' = [memory EXCEPT ![p].total = statfile]

\* A profile's statistics are read once: `rp' leaves those in memory alone.
read_profile_stats(p) ==
    memory' = IF At(p, "boot") THEN [memory EXCEPT ![p].total = statfile] ELSE memory

\* read_inisettings reads the profiles, and with each its statistics.
ReadProfiles(p) ==
    /\ read_profile_stats(p)
    /\ counted' = IF At(p, "boot") THEN [counted EXCEPT ![p] = statfile] ELSE counted
    /\ UNCHANGED <<histfile, statfile, ended, faults, listed, saved, misread>>

\* The parser gives up at half a file and at a title it takes for markup.
Whole == histfile # Absent /\ histfile # Torn
Readable == Whole /\ \A i \in DOMAIN histfile : histfile[i] \notin Odd

tvhist_read(p) ==
    memory' = [memory EXCEPT
        ![p].history = [i \in Slots |-> IF i <= Len(histfile) THEN histfile[i] ELSE NoTitle],
        ![p].nrecs = Len(histfile)]

\* hist_init: a file that cannot be read is replaced by an empty one.
hist_init(p) ==
    /\ \/ /\ Readable
          /\ tvhist_read(p)
          /\ UNCHANGED <<histfile, listed, saved, misread, faults>>
       \/ /\ ~Readable
          /\ \/ Opens(TRUE) /\ histfile' = <<>>
             \/ Opens(FALSE) /\ UNCHANGED histfile
          /\ IF Whole THEN misread' = TRUE /\ UNCHANGED <<listed, saved>>
                      ELSE listed' = <<>> /\ saved' = <<>> /\ UNCHANGED misread
          /\ UNCHANGED memory
    /\ UNCHANGED <<statfile, ended, counted>>

\* The process is gone, and with it what was not written.
Forget(p) ==
    /\ memory' = [memory EXCEPT ![p] = NoMemory]
    /\ listed' = IF Up(p) THEN saved ELSE listed
    /\ counted' = [counted EXCEPT ![p] = 0]
    /\ UNCHANGED <<histfile, statfile, ended, faults, saved, misread>>

\* A transcoding ends well: startrec counts it, then enters it.
stats_update(p, t) ==
    /\ Thread(p, t).pc = "idle" /\ ended < MaxTitle
    /\ EndsOverlap \/ \A u \in Threads : Thread(p, u).pc = "idle"
    /\ memory' = [memory EXCEPT ![p].total = @ + 1,
                                ![p].thread[t] = [pc |-> "shift", title |-> ended + 1]]
    /\ counted' = [counted EXCEPT ![p] = @ + 1]
    /\ ended' = ended + 1
    /\ UNCHANGED <<histfile, statfile, faults, listed, saved, misread>>

\* A mutant of Shift: the others do not make way.
ShiftNothing(p, t) ==
    /\ Thread(p, t).pc = "shift"
    /\ Enters(p, t, "put")
    /\ UNCHANGED <<histfile, statfile, ended, faults, listed, saved, misread, counted>>

\* hist_addrec: all records move down a slot, the last one is freed.
Shift(p, t) ==
    /\ Thread(p, t).pc = "shift"
    /\ memory' = [memory EXCEPT
          ![p].history = [i \in Slots |-> IF i = 1 THEN @[1] ELSE @[i - 1]],
          ![p].thread[t].pc = "put"]
    /\ UNCHANGED <<histfile, statfile, ended, faults, listed, saved, misread, counted>>

Put(p, t) ==
    /\ Thread(p, t).pc = "put"
    /\ memory' = [memory EXCEPT
          ![p].history[1] = Thread(p, t).title,
          ![p].nrecs = IF @ < HISTORY_LENGTH THEN @ + 1 ELSE @,
          ![p].thread[t].pc = "write"]
    /\ listed' = Newest(<<Thread(p, t).title>> \o listed)
    /\ UNCHANGED <<histfile, statfile, ended, faults, saved, misread, counted>>

\* tvhist_write opens the file, which cuts it ...
Truncate(p, t, ok) ==
    /\ Thread(p, t).pc = "write"
    /\ Opens(ok)
    /\ histfile' = IF ok THEN Torn ELSE histfile
    /\ Enters(p, t, IF ok THEN "fill" ELSE "idle")
    /\ saved' = IF ok THEN <<>> ELSE saved
    /\ UNCHANGED <<statfile, ended, listed, misread, counted>>

\* ... and writes the records; one that is not there ends the server.
tvhist_write(p, t) ==
    /\ Thread(p, t).pc = "fill"
    /\ NoTitle \notin Range(Filled(p))
    /\ histfile' = Filled(p)
    /\ saved' = listed
    /\ Enters(p, t, "idle")
    /\ UNCHANGED <<statfile, ended, faults, listed, misread, counted>>

\* write_stats, at the end of main: a file that cannot be opened stays as it is.
write_stats(p, ok) ==
    /\ Opens(ok)
    /\ statfile' = IF ok THEN memory[p].total ELSE statfile
    /\ UNCHANGED <<memory, histfile, ended, listed, saved, misread, counted>>

\* `rst' clears what is in memory and writes it.
clear_stats(p, ok) ==
    /\ Opens(ok)
    /\ memory' = [memory EXCEPT ![p].total = 0]
    /\ statfile' = IF ok THEN 0 ELSE statfile
    /\ counted' = [counted EXCEPT ![p] = 0]
    /\ UNCHANGED <<histfile, ended, listed, saved, misread>>
=============================================================================
