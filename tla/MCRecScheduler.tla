--------------------------- MODULE MCRecScheduler ---------------------------
(* Values for the runs of RecScheduler: a day of DayLen seconds, series that repeat every day. *)
EXTENDS RecScheduler

CONSTANT DayLen

DailyStart(type, s, e, k) == s + k * DayLen
DailyEnd(type, s, e, k) == e + k * DayLen
SameStart(type, s, e, t) == s
SameEnd(type, s, e, t) == e

(* These dates are ones the theorem that nothing overlaps is about. *)
ASSUME DailyAsAsked == SeriesAsAsked

Single(s, e, card) == [type |-> 0, start |-> s, end |-> e, num |-> 1, card |-> card]
Series(type, s, e, num) == [type |-> type, start |-> s, end |-> e, num |-> num, card |-> -1]

SmallRequests == {Single(1, 2, -1), Single(2, 3, -1), Single(3, 4, 0), Series(1, 1, 1, 2)}

TwoCardRequests == {Single(1, 1, -1), Single(1, 2, -1), Single(2, 2, 1)}

(* A file just made, and one an earlier server left with a recording still to come. *)
NewOrLeft == {Empty, [Empty EXCEPT ![0] = <<SingleEntry(Single(3, 4, 0), 1)>>]}
=============================================================================
