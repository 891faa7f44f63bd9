----------------------------- MODULE MCRestart -----------------------------
(* Three process numbers, one shorter than the others, and three recordings for a history of two, *)
(* the last with a title that XML reads. *)
EXTENDS Restart, TLC

AnyThread == Permutations(Threads)
=============================================================================
