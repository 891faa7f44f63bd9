------------------------------ MODULE Commands ------------------------------
(***************************************************************************)
(* tvcmd.c: what the commands of a client do to the recordings, and which  *)
(* recordings their answers show.  A recording is its number, its card and *)
(* the number of its series (0 if single): when it starts, and so which    *)
(* request collides and which recording comes first, is left open here;    *)
(* Recs and RecScheduler have the times.                                   *)
(***************************************************************************)
EXTENDS Integers, FiniteSets, FiniteSetsExt, Functions

CONSTANTS
    Videos,             \* the video cards
    MaxNbr,             \* bound on the numbers of recordings
    NoRec,              \* a card that records nothing
    is_master_server    \* a slave has no cards and knows fewer commands

ASSUME MaxNbrAssumption == MaxNbr \in Nat

VARIABLES
    pending,            \* recs[]: the recordings that wait
    ongoing,            \* ongoing_recs[]
    abort_video,        \* the cards whose recording is to stop
    nbr                 \* global_seqnbr

data == <<pending, ongoing, abort_video, nbr>>

Recordings == [nbr : 1..MaxNbr, video : Videos, series : 0..MaxNbr]

\* initrecs.
DataInit ==
    /\ pending = {} /\ abort_video = {} /\ nbr = 1
    /\ ongoing = [v \in Videos |-> NoRec]

\* What has not been freed: the entries of both arrays (freerecs).
Allocated == pending \cup (Range(ongoing) \ {NoRec})

\* A command: its name (op) and its argument (arg), 0 if it has none.
Cmd(op, arg) == [op |-> op, arg |-> arg]
NoCmd == Cmd("", 0)

\* The commands told apart: those that add, delete, stop, list and dump.
\* The others print a text that does not depend on the recordings ("t", "v")
\* or belong to other modules.
MasterCmds == {"a", "ar", "q", "af", "d", "dr", "!", "l", "lh", "lts", "lu", "lr", "lm", "lmr",
               "n", "o", "x", "xx", "lph", "t", "v"}
SlaveCmds == {"!", "t", "v"}

_getCmdPtr(op) ==
    IF op \in (IF is_master_server THEN MasterCmds ELSE SlaveCmds) THEN op ELSE "undefined"

(***************************************************************************)
(* Commands that change the recordings.                                    *)
(***************************************************************************)
\* newrec and insertrec: a single recording, or a series of two.
New(v, repeat) ==
    IF repeat THEN {[nbr |-> k, video |-> v, series |-> nbr] : k \in {nbr, nbr + 1}}
    ELSE {[nbr |-> nbr, video |-> v, series |-> 0]}

\* Refused (its time, a collision, no room), or put on a card that takes it.
_cmd_add(repeat) ==
    \/ UNCHANGED data
    \/ \E v \in Videos :
          LET new == New(v, repeat)
          IN  /\ nbr + Cardinality(new) <= MaxNbr + 1
              /\ pending' = pending \cup new
              /\ nbr' = nbr + Cardinality(new)
              /\ UNCHANGED <<ongoing, abort_video>>

_cmd_quickrecording == _cmd_add(FALSE)

\* A line of the file after another, as long as there are any.
_cmd_addfromfile == \E repeat \in BOOLEAN : _cmd_add(repeat)

_cmd_delete(id, all) ==
    /\ pending' = {r \in pending : ~ \/ r.nbr = id
                                     \/ /\ all
                                        /\ \E s \in pending : s.nbr = id /\ s.series # 0 /\ r.series = s.series}
    /\ UNCHANGED <<ongoing, abort_video, nbr>>

_cmd_abort(v) ==
    /\ abort_video' = IF v \in Videos /\ ongoing[v] # NoRec THEN abort_video \cup {v} ELSE abort_video
    /\ UNCHANGED <<pending, ongoing, nbr>>

Change(cmd) ==
    CASE _getCmdPtr(cmd.op) = "a"  -> _cmd_add(FALSE)
      [] _getCmdPtr(cmd.op) = "ar" -> _cmd_add(TRUE)
      [] _getCmdPtr(cmd.op) = "q"  -> _cmd_quickrecording
      [] _getCmdPtr(cmd.op) = "af" -> _cmd_addfromfile
      [] _getCmdPtr(cmd.op) = "d"  -> _cmd_delete(cmd.arg, FALSE)
      [] _getCmdPtr(cmd.op) = "dr" -> _cmd_delete(cmd.arg, TRUE)
      [] _getCmdPtr(cmd.op) = "!"  -> _cmd_abort(cmd.arg)
      [] OTHER -> UNCHANGED data

(***************************************************************************)
(* Commands that show recordings: they collect pointers to them from the   *)
(* arrays of all cards, sort these, and write one after the other.         *)
(***************************************************************************)
\* n of them, the first by start time; all of them for n = 0.
list_recs(n) == IF n = 0 \/ n >= Cardinality(pending) THEN {pending} ELSE kSubset(n, pending)

_cmd_list(n) == IF n \in 0..99 THEN list_recs(n) ELSE {{}}      \* "l", "lh"
_cmd_list_ts == list_recs(0)
Singles(S) == {r \in S : r.series = 0}
_cmd_listsingle == {Singles(pending)}

\* The first of each series of a card, the first of each card.
Firsts(S, field) ==
    {T \in SUBSET S : /\ {t[field] : t \in T} = {r[field] : r \in S}
                      /\ Cardinality(T) = Cardinality({r[field] : r \in S})}
_cmd_listrep == Firsts({r \in pending : r.series # 0}, "series")
\* Into a mail: what `l' shows, or the series and the single ones among the
\* first n; the mail is sent before the mutex is given back.
listhtml_recsbuff(n, only_nonrepeat) ==
    IF only_nonrepeat THEN {Singles(S) : S \in list_recs(n)} ELSE list_recs(n)
_cmd_maillist_html(n) == IF n \in 0..99 THEN listhtml_recsbuff(n, FALSE) ELSE {{}}
_cmd_maillist_recsingle(n) ==
    IF n \in 0..99 THEN {S \cup T : S \in _cmd_listrep, T \in listhtml_recsbuff(n, TRUE)} ELSE {{}}

_cmd_nextrec == Firsts(pending, "video")

\* What the cards record; -1 for all of them.
_cmd_ongoingrec(v) == {{ongoing[w] : w \in {w \in Videos : ongoing[w] # NoRec /\ v \in {-1, w}}}}

\* The sets of recordings a command may collect.
Collected(cmd) ==
    CASE _getCmdPtr(cmd.op) \in {"l", "lh"} -> _cmd_list(cmd.arg)
      [] _getCmdPtr(cmd.op) = "lts" -> _cmd_list_ts
      [] _getCmdPtr(cmd.op) = "lu" -> _cmd_listsingle
      [] _getCmdPtr(cmd.op) = "lr" -> _cmd_listrep
      [] _getCmdPtr(cmd.op) = "lm" -> _cmd_maillist_html(cmd.arg)
      [] _getCmdPtr(cmd.op) = "lmr" -> _cmd_maillist_recsingle(cmd.arg)
      [] _getCmdPtr(cmd.op) = "n"  -> _cmd_nextrec
      [] _getCmdPtr(cmd.op) = "o"  -> _cmd_ongoingrec(cmd.arg)
      [] _getCmdPtr(cmd.op) \in {"x", "xx"} -> {pending}
      [] OTHER -> {{}}

\* What must reach a browser as it is, although commands are encoded for it:
\* the XML file (but not "xx", which shows it as a text), and the links of
\* _cmd_list_profiles_htmllinks.
_cmd_getxmlfile(op) == op = "x"
_cmd_list_profiles_htmllinks(op) == op = "lph"
Raw(cmd) == LET op == _getCmdPtr(cmd.op) IN _cmd_getxmlfile(op) \/ _cmd_list_profiles_htmllinks(op)

\* What web_cmd_del lists to choose from.
list_recskeyval == pending

(***************************************************************************)
(* The scheduler, with recs_mutex held: a recording that is due starts or  *)
(* is dropped, and one that ends is freed.                                 *)
(***************************************************************************)
StartRec(v) ==
    /\ ongoing[v] = NoRec
    /\ \E r \in {r \in pending : r.video = v} :
          /\ ongoing' = [ongoing EXCEPT ![v] = r]
          /\ pending' = pending \ {r}
    /\ UNCHANGED <<abort_video, nbr>>

MissRec == /\ \E r \in pending : pending' = pending \ {r}
           /\ UNCHANGED <<ongoing, abort_video, nbr>>

EndRec(v) ==
    /\ ongoing[v] # NoRec
    /\ ongoing' = [ongoing EXCEPT ![v] = NoRec]
    /\ abort_video' = abort_video \ {v}
    /\ UNCHANGED <<pending, nbr>>

Scheduler == \/ MissRec
             \/ \E v \in Videos : StartRec(v) \/ EndRec(v)
=============================================================================
