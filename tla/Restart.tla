------------------------------- MODULE Restart -------------------------------
(***************************************************************************)
(* A server from main to its exit, again and again: it finds the lock      *)
(* file, becomes a daemon and another user, reads its statistics and its   *)
(* history, takes the port, makes recordings, and ends orderly, fails on   *)
(* the way, or is killed at any moment.                                    *)
(***************************************************************************)
EXTENDS History

vars == <<lockvars, histvars>>

Init == LockInit /\ HistInit

Keeps(p) == server[p].as = "root"

\* read_inisettings and chkdirstructure, as the user who started the server.
Boot(p) ==
    /\ At(p, "boot")
    /\ chkswitchuser(p)
    /\ IF Keeps(p) THEN ReadProfiles(p) ELSE UNCHANGED histvars

\* init_globs, the startup script, the DB, the cards; then the history.
LoadData(p) ==
    /\ At(p, "data")
    /\ IF Keeps(p) THEN hist_init(p) ELSE UNCHANGED histvars
    /\ Goto(p, "listen") /\ UNCHANGED <<others, lock, gaps, starts>>

\* startupsrv takes the port, if no other server has it.
startupsrv(p) ==
    /\ At(p, "listen") /\ \A q \in Pids : ~At(q, "up")
    /\ Goto(p, "up") /\ UNCHANGED <<others, lock, gaps, starts, histvars>>

\* A transcoding ends well and is entered, also while the server ends.
Record(p) == \E t \in Threads :
    /\ Up(p) /\ Keeps(p)
    /\ \/ stats_update(p, t) \/ Shift(p, t) \/ Put(p, t) \/ tvhist_write(p, t)
       \/ \E ok \in BOOLEAN : Truncate(p, t, ok)
    /\ UNCHANGED lockvars

\* `rp' and `rst'.
_cmd_refresh_profiles(p) ==
    /\ At(p, "up") /\ Keeps(p)
    /\ ReadProfiles(p)
    /\ UNCHANGED lockvars

_cmd_resetstatistics(p, ok) ==
    /\ At(p, "up") /\ Keeps(p)
    /\ clear_stats(p, ok)
    /\ UNCHANGED lockvars

\* SIGTERM: the port is closed, the statistics are written, then exit().
Stop(p) ==
    /\ At(p, "up") /\ Goto(p, "ending")
    /\ UNCHANGED <<others, lock, gaps, starts, histvars>>

WriteStats(p, ok) ==
    /\ At(p, "ending")
    /\ IF Keeps(p) THEN write_stats(p, ok) ELSE ok /\ UNCHANGED histvars
    /\ Goto(p, "ended") /\ UNCHANGED <<others, lock, gaps, starts>>

Gone(p) == IF Keeps(p) THEN Forget(p) ELSE UNCHANGED histvars

\* exit(): at the end, or when something on the way there fails.
Exit(p) ==
    /\ server[p].pc \in {"locked", "reborn", "boot", "data", "listen", "ended"}
    /\ exit(p) /\ Gone(p)

Kill(p) == p \in Running /\ Killed(p) /\ Gone(p)

Next ==
    \/ Locking /\ UNCHANGED histvars
    \/ \E p \in Pids :
        \/ Boot(p) \/ LoadData(p) \/ startupsrv(p) \/ Record(p)
        \/ _cmd_refresh_profiles(p) \/ Stop(p)
        \/ \E ok \in BOOLEAN : _cmd_resetstatistics(p, ok) \/ WriteStats(p, ok)
        \/ Exit(p) \/ Kill(p)

Spec == Init /\ [][Next]_vars

\* The history a server shows is that of the recordings it and the servers
\* before it have made, the newest of them, newest first (hist_addrec,
\* tvhist_write and hist_init: whole records move in memory, and the file is
\* the only copy when none runs).  Lost is only what had not been written when
\* a server died, all of it if the file was cut then, or what was entered when
\* the file could not be opened.  This holds if recordings are entered one at
\* a time (EndsOverlap: no mutex is held), until two servers have got past the
\* lock (gaps), and until a server starts on a history with a title that XML
\* reads as markup (Odd): tvhistory.c:289 writes it as it is, the next server
\* cannot read the file and replaces it by an empty one.
Entered(p) == \A t \in Threads : Thread(p, t).pc \notin {"shift", "put"}
HistoryIsLatest ==
    gaps = {} /\ ~misread => \A p \in Pids : Up(p) /\ Keeps(p) /\ Entered(p) => Filled(p) = listed

\* Every transcoding a server has counted since it started, or since the
\* statistics were reset, is in its statistics, on top of what it read when
\* it started: reading the profiles again does not set them back ("we don't
\* want that since it would erase all updated stats in the memory").
NothingUncounted == \A p \in Pids : Up(p) /\ Keeps(p) => memory[p].total = counted[p]
=============================================================================
