---------------------------- MODULE MCFileLists ----------------------------
(* Three lists, one of them with a missing file, for one slot. *)
EXTENDS FileLists

MCFiles == [l \in Lists |-> IF l = 1 THEN <<"a", "b">> ELSE IF l = 2 THEN <<"c">> ELSE <<"d">>]
=============================================================================
