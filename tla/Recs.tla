-------------------------------- MODULE Recs --------------------------------
(***************************************************************************)
(* The per-card queues of pending recordings (recs.c), as operators.       *)
(*                                                                         *)
(* recs.c keeps, for each video card, an array of pointers whose first     *)
(* num_entries slots are the pending recordings.  Here a queue is the      *)
(* sequence of those slots; a recording is the part of struct              *)
(* recording_entry the scheduling depends on.  Titles, channels, file      *)
(* names and profiles are left out.                                        *)
(*                                                                         *)
(* Dates come in through four operators, so that what is said of the queue *)
(* does not depend on a calendar: Series.tla gives them the meaning        *)
(* datetimeutil.c gives them.                                              *)
(***************************************************************************)
EXTENDS Integers, Sequences, FiniteSets, Functions

CONSTANTS
  MaxEntries,         \* max_entries: slots of one card's array
  OccStart(_,_,_,_),  \* start of occurrence k of (type, start, end): k calls of increcdays
  OccEnd(_,_,_,_),    \* its end
  AdjStart(_,_,_,_),  \* start after adjust_initital_repeat_date at a given time
  AdjEnd(_,_,_,_)     \* end after it

ASSUME MaxEntriesAssumption == MaxEntries \in Nat \ {0}

(***************************************************************************)
(* A recording: its sequence number, the id of the series it belongs to    *)
(* (0 for a single recording) and its two timestamps.                      *)
(***************************************************************************)
Entry == [seqnbr : Nat \ {0}, recurrence_id : Nat, ts_start : Int, ts_end : Int]

(* The NULL pointer of ongoing_recs: global_seqnbr starts at 1. *)
NoRec == [seqnbr |-> 0, recurrence_id |-> 0, ts_start |-> 0, ts_end |-> 0]

(***************************************************************************)
(* An entry as _cmd_add hands it to insertrec: its recurrence type (0 for  *)
(* a single recording), its dates, how often it repeats (1 for a single    *)
(* recording) and the card it must be recorded on (-1 for any).            *)
(***************************************************************************)
Request == [type : Nat, start : Int, end : Int, num : Nat \ {0}, card : Int]

-----------------------------------------------------------------------------
(* The three tests isentryoverlapping makes of one pair of recordings. *)
Collides(s, e, r) ==
  \/ s >= r.ts_start /\ s <= r.ts_end
  \/ e >= r.ts_start /\ e <= r.ts_end
  \/ s < r.ts_start /\ e > r.ts_end

(* A mutant of isentryoverlapping: the recording under way is forgotten. *)
OverlapsPending(queue, active, req) ==
  \E k \in 0..(req.num - 1), r \in Range(queue) :
     Collides(OccStart(req.type, req.start, req.end, k),
              OccEnd(req.type, req.start, req.end, k), r)

(***************************************************************************)
(* Some occurrence of the request collides with a pending recording of the *)
(* card or with the one it is recording (active: {} or a singleton).  The  *)
(* occurrences are those of the dates in the request: insertrec calls this *)
(* before it adjusts the first date to the recurrence type.                *)
(***************************************************************************)
isentryoverlapping(queue, active, req) ==
  \E k \in 0..(req.num - 1), r \in Range(queue) \cup active :
     Collides(OccStart(req.type, req.start, req.end, k),
              OccEnd(req.type, req.start, req.end, k), r)

(* _insertrec refuses a full array, and only that. *)
Full(queue) == Len(queue) >= MaxEntries

(***************************************************************************)
(* insertrec returns -1, and the caller tries the next card, on a          *)
(* collision or when a whole series does not fit.  A single recording that *)
(* does not fit is not refused here.                                       *)
(***************************************************************************)
Refused(queue, active, req) ==
  \/ isentryoverlapping(queue, active, req)
  \/ req.type # 0 /\ Len(queue) + req.num > MaxEntries

(* newrec: the k-th entry a request expands to, with its numbers. *)
SingleEntry(req, seqnbr) ==
  [seqnbr |-> seqnbr, recurrence_id |-> 0, ts_start |-> req.start, ts_end |-> req.end]

SeriesEntry(req, k, seqnbr, id, time) ==
  LET s == AdjStart(req.type, req.start, req.end, time)
      e == AdjEnd(req.type, req.start, req.end, time)
  IN  [seqnbr |-> seqnbr + k, recurrence_id |-> id,
       ts_start |-> OccStart(req.type, s, e, k), ts_end |-> OccEnd(req.type, s, e, k)]

(***************************************************************************)
(* The loop of insertrec: the entries that are put in the queue.           *)
(***************************************************************************)
Expand(req, seqnbr, id, time) ==
  IF req.type = 0
  THEN <<SingleEntry(req, seqnbr)>>
  ELSE [i \in 1..req.num |-> SeriesEntry(req, i - 1, seqnbr, id, time)]

-----------------------------------------------------------------------------
Sorted(queue) ==
  \A i, j \in DOMAIN queue : i < j => queue[i].ts_start <= queue[j].ts_start

(***************************************************************************)
(* sortrecs on the given slots of a queue.  Every operation of recs.c      *)
(* leaves a subset of the slots (plus new ones at the end), in some order, *)
(* and calls qsort, which promises no order among equal start times.       *)
(***************************************************************************)
sortrecs(queue, slots) ==
  LET n == Cardinality(slots)
  IN  {r \in {[i \in 1..n |-> queue[p[i]]] : p \in Bijection(1..n, slots)} : Sorted(r)}

(* insertrec: the queue with new entries, after the sort of _insertrec. *)
Inserted(queue, new) == sortrecs(queue \o new, DOMAIN (queue \o new))

(* A mutant of WithoutTop: the last slot is dropped, not the first. *)
WithoutLast(queue) == sortrecs(queue, DOMAIN queue \ {Len(queue)})

(* remove_toprec, delete_toprec: the last slot fills slot 0, then the sort. *)
WithoutTop(queue) == sortrecs(queue, DOMAIN queue \ {1})

(* The slots delete_recid keeps: all but one, or all of other series. *)
Kept(queue, i, allrecurrences) ==
  IF allrecurrences /\ queue[i].recurrence_id # 0
  THEN {j \in DOMAIN queue : queue[j].recurrence_id # queue[i].recurrence_id}
  ELSE DOMAIN queue \ {i}
=============================================================================
