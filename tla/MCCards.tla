------------------------------- MODULE MCCards -------------------------------
(* Three profiles whose rates lie apart, below and across one another, two  *)
(* whose size is misspelt, two channels and an input, the four ways to      *)
(* configure the switch, and cards that lack a control.                     *)
EXTENDS Cards

Profile(b, pb, sound, size) == [bitrate |-> b, peak |-> pb, sampling |-> 48, abps |-> sound,
                                aspect |-> "4x3", size |-> size]
ProfilesDef == [low |-> Profile(1, 2, 192, "qvga"), normal |-> Profile(3, 5, 192, "vga"),
                high |-> Profile(6, 8, 384, "vga"),
                capital |-> Profile(1, 2, 192, "QVGA"), full |-> Profile(1, 2, 192, "full")]
FoundDef == {Profile(6, 8, 224, "pal")}
TableDef == [e5 |-> 175250, se8 |-> 161250]
ManualDef == [x |-> 217250]
StationsDef == << <<"news", "se8">>, <<"e5", "x">> >>

Plain == [external_switch |-> FALSE, external_input |-> 0, tuner |-> FALSE,
          external_tuner_station |-> "", allow |-> TRUE, missing |-> {}]
ConfigsDef == { [Plain EXCEPT !.tuner = TRUE, !.missing = {"bass"}], [Plain EXCEPT !.allow = FALSE],
                [Plain EXCEPT !.external_switch = TRUE, !.tuner = TRUE, !.missing = {"hue"}],
                [Plain EXCEPT !.external_switch = TRUE, !.external_input = 1, !.allow = FALSE],
                [Plain EXCEPT !.external_switch = TRUE, !.external_tuner_station = "news", !.tuner = TRUE] }
ListsDef == {<<"low">>, <<"normal", "high">>, <<"capital">>, <<"full">>}

(* Of these lists startrec finds the best, as the theorem about it supposes. *)
ASSUME ListsInOrder == BetterInOrder

ControlDef == [hue |-> -50, bass |-> 50, volume |-> 50]
NormalDef == {50}
=============================================================================
