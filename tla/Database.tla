------------------------------ MODULE Database ------------------------------
(***************************************************************************)
(* A series in the recording database: its entries are recorded or deleted *)
(* one by one, and what is left is written to the XML file as one record,  *)
(* the master of the series, with the numbers of the deleted ones, and     *)
(* expanded again when the file is read (tvxmldb.c, recs.c).  The server   *)
(* of this version writes the file but no longer calls readXMLFile.        *)
(***************************************************************************)
EXTENDS Series, SequencesExt

CONSTANTS
  Manglings,          \* what is asked for: by date (0), "01-06" (1), "E01" (2)
  StartNumbers,       \* the numbers asked for
  MaxDeleted          \* bound on the occurrences deleted

ASSUME ManglingsKnown == Manglings \subseteq Nat /\ StartNumbers \subseteq Nat

VARIABLES
  mangling,           \* recurrence_mangling of the series
  entries,            \* recs[]: the entries of the series, sorted
  excluded,           \* excluded_recordings[]: the numbers deleted
  back                \* the entries as read from the file

dbvars == <<mangling, entries, excluded, back>>

DbInit ==
  /\ Init
  /\ mangling = 0
  /\ entries = <<>> /\ excluded = {} /\ back = <<>>

\* The name of occurrence k of a series: all get the date of the first one.
rec_title_mangling(type, first, num, number, k) ==
  CASE type = 0 -> <<Day(first.start)>>
    [] type = 1 -> <<k + number, num + number - 1>>
    [] type = 2 -> <<k + number>>

Occurrence(at, first, num, number, k, type) ==
  [start |-> at.start, end |-> at.end, num |-> num - k, number |-> number + k,
   name |-> rec_title_mangling(type, first, num, number, k)]

\* insertrec of a record that was read, some of its occurrences deleted: the
\* dates are moved on only for the occurrences that are kept.
insertrec(rec, time) ==
  LET first == adjust_initital_repeat_date(rec.type, [start |-> rec.start, end |-> rec.end], time)
      occ == Occurrences(rec.type, first)
      _insertrec(k, recs) ==
        Append(recs, Occurrence(occ[Len(recs)], first, rec.num, rec.number, k, rec.mangling))
      made[k \in 0 .. rec.num] ==
        IF k = 0 THEN <<>>
        ELSE IF k - 1 + rec.number \in rec.excludes THEN made[k - 1]
        ELSE _insertrec(k - 1, made[k - 1])
  IN  made[rec.num]

\* A record of the file; one that does not start before its end is corrupt.
processRecording(rec, time) == IF rec.start >= rec.end THEN <<>> ELSE insertrec(rec, time)

\* A mutant of _writeXMLFile: the series is numbered from its start again.
_writeXMLFile_restarts ==
  LET top == entries[1]
  IN  [type |-> cmd.type, start |-> top.start, end |-> top.end, num |-> top.num, mangling |-> mangling,
       number |-> 1,
       excludes |-> {n \in excluded : n > 1}]

\* The master record: the first entry left, the numbers deleted after it.
_writeXMLFile ==
  LET top == entries[1]
      lowest == top.number
  IN  [type |-> cmd.type, start |-> top.start, end |-> top.end, num |-> top.num, mangling |-> mangling,
       number |-> lowest,
       excludes |-> {n \in excluded : n > lowest}]

\* `sm' and `ss', given before the series is; default_repeat_name_mangle_type
\* and initial_recurrence_start_number, which is for one series only, are 1
\* otherwise.
_cmd_set_rep_name_mangling(type) == IF type \in 0 .. 2 THEN type ELSE 1
_cmd_set_rep_start_number(number) == IF number \in 1 .. 99 THEN number ELSE 1

\* The entries insertrec has made of the command.
Pend ==
  /\ pc = "stored" /\ pc' = "pending"
  /\ \E type \in Manglings, number \in StartNumbers :
       /\ mangling' = _cmd_set_rep_name_mangling(type)
       /\ entries' = [n \in DOMAIN inserted |->
                         Occurrence(inserted[n], entry, repeat_nbr,
                                    _cmd_set_rep_start_number(number), n - 1, mangling')]
  /\ UNCHANGED <<now, cmd, repeat_nbr, entry, loop, excluded, back>>

\* remove_toprec: the next recording starts.
remove_toprec ==
  /\ pc = "pending" /\ entries # <<>>
  /\ entries' = Tail(entries)
  /\ UNCHANGED <<vars, mangling, excluded, back>>

\* delete_recid, of one occurrence.
delete_recid(n) ==
  /\ pc = "pending"
  /\ Cardinality(excluded) < MaxDeleted
  /\ excluded' = excluded \cup {entries[n].number}
  /\ entries' = RemoveAt(entries, n)
  /\ UNCHANGED <<vars, mangling, back>>

\* The file is written and, some time before the next recording, read again.
readXMLFile ==
  /\ pc = "pending" /\ entries # <<>>
  /\ \E time \in {now, entries[1].start} :
        /\ time <= entries[1].start
        /\ back' = processRecording(_writeXMLFile, time)
  /\ pc' = "read"
  /\ UNCHANGED <<now, cmd, repeat_nbr, entry, loop, mangling, entries, excluded>>

DbNext ==
  \/ Next /\ UNCHANGED dbvars
  \/ Pend
  \/ remove_toprec
  \/ \E n \in DOMAIN entries : delete_recid(n)
  \/ readXMLFile

DbSpec == DbInit /\ [][DbNext]_<<vars, dbvars>>

Gapless == \A n \in 1 .. Len(entries) - 1 : entries[n + 1].number = entries[n].number + 1

\* Reading the file gives back the series that was written: the same number
\* of entries with the same numbers and, unless they are named by date, the
\* same names, whichever were recorded or deleted before; and on the same
\* dates, unless one in the middle was deleted (insertrec then moves those
\* after it, as it goes on to the next date only for entries it makes).
\* Recordings that end when they start are taken (_cmd_add) but not read.
ReadsBack == pc = "read" /\ entries[1].start < entries[1].end =>
  /\ Len(back) = Len(entries)
  /\ \A n \in DOMAIN entries :
       /\ back[n].number = entries[n].number /\ back[n].num = entries[n].num
       /\ mangling # 0 => back[n].name = entries[n].name
       /\ Gapless => back[n].start = entries[n].start /\ back[n].end = entries[n].end
=============================================================================
