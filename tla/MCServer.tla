------------------------------ MODULE MCServer ------------------------------
(* Three clients for two slots, one card, one recording. *)
EXTENDS Server

MCTermCmds == {Cmd("a", 0), Cmd("dr", 1), Cmd("l", 1), Cmd("x", 0)}
MCWebCmds == {Cmd("lmr", 0), Cmd("lph", 0)}
=============================================================================
