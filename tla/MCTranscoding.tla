--------------------------- MODULE MCTranscoding ---------------------------
(* Values for the runs of Transcoding. *)
EXTENDS Transcoding

CONSTANTS series, film, fileA, fileB, fileC

Mp4Only == [use_transcoding |-> TRUE, keep |-> FALSE]
Both == [use_transcoding |-> TRUE, keep |-> TRUE]
Mp2Only == [use_transcoding |-> FALSE, keep |-> FALSE]

(* Two profiles for one recording, one for the others. *)
SomeProfiles == [j \in Job |-> IF j = series THEN <<Mp4Only, Mp4Only>> ELSE <<Both>>]

(* All but one are called film: the file of A and B has one suffix, that of C another. *)
SomeNames == [j \in Job |-> IF j = series THEN "series" ELSE "film"]

SomeFiles == [f \in FileJob |-> IF f = fileC THEN "film.avi" ELSE "film.mpg"]

(* Two recordings, a recording and a file of its name, two threads of one file, two of one name. *)
Pairs == {{series, film}, {film, fileA}, {fileA, fileB}, {fileA, fileC}}
=============================================================================
