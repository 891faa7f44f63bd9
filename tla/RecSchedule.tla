---------------------------- MODULE RecSchedule -----------------------------
(***************************************************************************)
(* What the recording scheduler promises, without queues, threads, flags   *)
(* or a mutex: bookings of a card never overlap, are recorded one at a     *)
(* time, the earliest first, not before their time, and are given up       *)
(* unrecorded only when they are too late or their client says so.         *)
(* RecScheduler.tla is shown to implement this.                            *)
(***************************************************************************)
EXTENDS Integers

CONSTANTS
  Card,      \* the video cards
  Early,     \* how long before its start a booking may be started
  Late       \* how long after its start it must still be startable

VARIABLES
  now,
  pending,   \* the bookings of each card that wait for their time
  running,   \* the booking each card is recording: empty or a singleton
  used       \* the numbers of all bookings there have been

vars == <<now, pending, running, used>>

Apart(b, c) == b.ts_end < c.ts_start \/ c.ts_end < b.ts_start

Init ==
  /\ now = 0
  /\ pending = [c \in Card |-> {}]
  /\ running = [c \in Card |-> {}]
  /\ used = {}

Tick == now' = now + 1 /\ UNCHANGED <<pending, running, used>>

(* One or more bookings with new numbers, apart from each other and from all there are. *)
Book(c) ==
  /\ \E new \in SUBSET pending'[c] :
       /\ new # {}
       /\ \A b \in new :
            /\ b.seqnbr \notin used
            /\ \A d \in pending[c] \cup running[c] \cup (new \ {b}) : Apart(b, d)
       /\ \A b, d \in new : b.seqnbr = d.seqnbr => b = d
       /\ pending' = [pending EXCEPT ![c] = @ \cup new]
       /\ used' = used \cup {b.seqnbr : b \in new}
  /\ UNCHANGED <<now, running>>

Cancel(c) ==
  /\ \E gone \in SUBSET pending[c] : pending' = [pending EXCEPT ![c] = @ \ gone]
  /\ UNCHANGED <<now, running, used>>

Earliest(c, b) == b \in pending[c] /\ \A d \in pending[c] : b.ts_start <= d.ts_start

Start(c) ==
  /\ running[c] = {}
  /\ \E b \in pending[c] :
       /\ Earliest(c, b)
       /\ now >= b.ts_start - Early
       /\ pending' = [pending EXCEPT ![c] = @ \ {b}]
       /\ running' = [running EXCEPT ![c] = {b}]
  /\ UNCHANGED <<now, used>>

Miss(c) ==
  /\ \E b \in pending[c] :
       /\ Earliest(c, b)
       /\ now > b.ts_start + Late
       /\ pending' = [pending EXCEPT ![c] = @ \ {b}]
  /\ UNCHANGED <<now, running, used>>

Finish(c) ==
  /\ running' = [running EXCEPT ![c] = {}]
  /\ UNCHANGED <<now, pending, used>>

Next ==
  \/ Tick
  \/ \E c \in Card : Book(c) \/ Cancel(c) \/ Start(c) \/ Miss(c) \/ Finish(c)

Spec == Init /\ [][Next]_vars
=============================================================================
