------------------------------- MODULE FreqMap -------------------------------
(***************************************************************************)
(* What a channel's name stands for (freqmap.c): a station of the xawtv    *)
(* file, a channel of the chosen frequency map, or a frequency in kHz.     *)
(***************************************************************************)
EXTENDS Integers, Sequences, SequencesExt

CONSTANTS
    Table,      \* the chosen map: kHz by channel
    Manual,     \* the channels written as a frequency, `@': their kHz
    Stations    \* the file: <<station, channel>> in its order

NoFreq == 0

\* read_xawtvfile stops at a station of no known channel, and the server with it.
ASSUME StationsKnown == \A i \in DOMAIN Stations :
           Stations[i][2] \in DOMAIN Table \cup DOMAIN Manual

getfreqfromch(ch) ==
    CASE ch \in DOMAIN Manual /\ Manual[ch] \in 1000 .. 999999 -> 1000 * Manual[ch]
      [] ch \in DOMAIN Table \ DOMAIN Manual -> 1000 * Table[ch]
      [] OTHER -> NoFreq

get_chfromstation(name) ==
    LET i == SelectInSeq(Stations, LAMBDA s : s[1] = name)
    IN  IF i = 0 THEN name ELSE Stations[i][2]

\* A station hides the channel of its name, also one that is not tuned to.
getfreqfromstr(name) == getfreqfromch(get_chfromstation(name))
=============================================================================
