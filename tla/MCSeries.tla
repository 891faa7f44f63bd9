------------------------------ MODULE MCSeries ------------------------------
(* Values for the runs of Series: a day of four units, a common year from the first of January. *)
EXTENDS Database

Months == <<0, 31, 59, 90, 120, 151, 181, 212, 243, 273, 304, 334, 365>>

Ar(type, count, until, day, clock, length, short) ==
  [type |-> type, count |-> count, until |-> until, day |-> day, clock |-> clock,
   length |-> length, short |-> short]

(* Every type, asked for on each day of a week, at, before and after the time of day it is. *)
Counted ==
  {Ar(type, count, NoDay, day, clock, length, FALSE) :
     type \in RecurrenceType, count \in {1, 3, 6}, day \in {NoDay} \cup 1..7, clock \in 1..3,
     length \in {0, 3}}
Until ==
  {Ar(type, 0, until, day, 2, 1, short) :
     type \in RecurrenceType, until \in {7, 14, 15}, day \in 2..8, short \in BOOLEAN}

TooLong == {Ar(type, 1, NoDay, 2, 1, 4, FALSE) : type \in RecurrenceType}

PassingCommands == Counted \cup Until \cup TooLong

(* Until a day soon, from today (day 1) or from a date not given. *)
TodayCommands == {Ar(1, 0, 3, day, clock, 1, FALSE) : day \in {NoDay, 0, 1}, clock \in {0, 2}}
=============================================================================
