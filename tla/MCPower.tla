------------------------------- MODULE MCPower -------------------------------
(* Two cards, recordings asked for at two times; ini values of a few minutes. *)
EXTENDS Power
MCVideos == 0 .. 1
MCStarts == {2, 6}
=============================================================================
