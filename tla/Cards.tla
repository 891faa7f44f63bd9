-------------------------------- MODULE Cards --------------------------------
(***************************************************************************)
(* One video card from the server's start to its end: what setup_video     *)
(* (vcard.c) asks of the driver through vctrl.c before a recording, with   *)
(* the retries, the early returns and the descriptors it opens; what       *)
(* setup_capture_cards asks when the server starts; and what the control   *)
(* commands ask while a recording is under way.  The card keeps its        *)
(* settings from one recording, and from one server, to the next.          *)
(*                                                                         *)
(* An operation is a sequence of ioctl calls of which the driver may fail  *)
(* any; `hurt' says whether one was failed since the operation began.  A   *)
(* card may lack some of the controls, and a profile may name a size of    *)
(* the picture that is none: no one checks it before it is used.           *)
(***************************************************************************)
EXTENDS FreqMap, FiniteSets

CONSTANTS
    Configs,            \* see Config
    tuner_input_index,
    Profiles,           \* by name: bitrate, peak, sampling, abps, aspect, size
    default_profile,
    SizesKnown,         \* the names of sizes, in letters of either case
    SizesNamed,         \* as they are spelled in the table
    EncodersFound,      \* what the encoder may be set to before the first server
    ProfileLists,       \* the lists of profiles recordings have
    Channels,           \* stations and channels recordings have
    Inputs,             \* `_inpVN': the inputs N recordings have
    Controls,           \* the image and audio controls that are followed
    CommandsUsed,       \* "va", "ac", "ic", "vc", "li", "lc"
    card_control,       \* the values the configuration gives them
    Normal,             \* the values commands give them
    MaxFd,              \* bound on descriptors: no recording starts without three
    MaxFaults           \* bound on the calls the driver fails

Encoder == {"bitrate", "peak", "sampling", "abps", "aspect", "size"}

\* The configuration and the card.  tuner: tuner_devices has a device for it;
\* allow: allow_profiles_adj_encoder; missing: the controls it does not have.
Config == [external_switch : BOOLEAN, external_input : 0..7, tuner : BOOLEAN,
           external_tuner_station : Channels \cup {""}, allow : BOOLEAN,
           missing : SUBSET {"brightness", "contrast", "saturation", "hue",
                             "bass", "treble", "volume", "loudness"}]

\* validate() keeps each rate in its range; nothing keeps the peak above the rate.
ASSUME ProfilesOrdered ==
    /\ default_profile \in DOMAIN Profiles
    /\ \A p \in DOMAIN Profiles :
           /\ DOMAIN Profiles[p] = Encoder
           /\ Profiles[p].bitrate \in Int /\ Profiles[p].peak \in Int
           /\ Profiles[p].bitrate <= Profiles[p].peak

\* The driver kept the rates of whoever set them before in order.
ASSUME FoundOrdered == \A e \in EncodersFound :
    DOMAIN e = Encoder /\ e.bitrate \in Int /\ e.peak \in Int /\ e.bitrate <= e.peak

\* A recording has one profile at least, and those it has are known.
ASSUME ProfilesKnown == \A list \in ProfileLists : list \in Seq(DOMAIN Profiles) /\ list # <<>>

\* _cmd_add refuses the others, and the configuration is right about its own.
ASSUME ChannelsKnown == \A ch \in Channels : getfreqfromstr(ch) # NoFreq

\* Room for a recording and a command.
ASSUME SomeDescriptors == MaxFd \in Int /\ MaxFd >= 5

VARIABLES
    conf,
    hw,         \* the registers of the card
    fds,        \* open descriptors of the server on the card: their device
    pc, fd, fdtuner,
    job,        \* what the card is set up for: channel or input, and profile
    left,       \* retries that the call under way has left
    cmd,        \* the command that has the card open: what it does, descriptor
    refused,    \* has the driver refused a value that a command gave it?
    hurt, faults

held == <<fd, fdtuner>>
vars == <<conf, hw, fds, pc, held, job, left, cmd, refused, hurt, faults>>

-----------------------------------------------------------------------------
(* The driver: a call writes a register or reads one.  It refuses a rate   *)
(* above the peak rate, a control outside its range and one that the card  *)
(* does not have: this is EINVAL to vctrl.c.                               *)

Limits == [brightness |-> <<0, 255, 1>>, contrast |-> <<0, 127, 1>>,
           saturation |-> <<0, 127, 1>>, hue |-> <<-128, 127, 1>>,
           bass |-> <<0, 65535, 655>>, treble |-> <<0, 65535, 655>>,
           volume |-> <<0, 65535, 655>>, loudness |-> <<0, 1, 1>>]

Read == <<"none", 0>>

\* The card after n of the calls: a register holds what was last written to it.
After(h, ws, n) ==
    LET writes(r) == {k \in 1 .. n : ws[k][1] = r}
    IN  [r \in DOMAIN h |-> IF writes(r) = {} THEN h[r] ELSE ws[Max(writes(r))][2]]

Accepts(h) ==
    /\ h.bitrate <= h.peak
    /\ \A c \in Controls : h[c] \in Limits[c][1] .. Limits[c][2]

HasNot(r) == r \in Controls /\ r \in conf.missing

\* The first call the driver refuses, or one more than there are.
Refusal(h, ws) ==
    LET bad == {n \in DOMAIN ws : HasNot(ws[n][1]) \/ ~Accepts(After(h, ws, n))}
    IN  IF bad = {} THEN Len(ws) + 1 ELSE CHOOSE n \in bad : \A k \in bad : n <= k

\* How the calls can end: where the card is left, and what errno says.
Ends(h, ws) ==
    LET r == Refusal(h, ws)
    IN  {[hw |-> After(h, ws, r - 1), ret |-> IF r > Len(ws) THEN "ok"
                                              ELSE IF HasNot(ws[r][1]) THEN "EINVAL" ELSE "ERANGE"]}
        \cup [hw : {After(h, ws, n - 1) : n \in 1 .. (IF r > Len(ws) THEN Len(ws) ELSE r)},
              ret : {"EBUSY", "EIO"}]

Fault == faults < MaxFaults /\ faults' = faults + 1 /\ hurt' = TRUE
NoFault == UNCHANGED <<faults, hurt>>
Blames(e) == IF e.ret \in {"EBUSY", "EIO"} THEN Fault ELSE NoFault

-----------------------------------------------------------------------------
(* vctrl.c *)

\* _denorm: from -50..50 to the range of the control, down to a step of it.
_denorm(normval, min, max, step) ==
    LET v == ((2 * (normval + 50) * (max - min) + 100) \div 200) + min
    IN  (v \div step) * step

Level(c, val) ==
    CASE c = "volume" -> val * 655
      [] c = "loudness" -> IF val = 0 THEN 0 ELSE 1
      [] OTHER -> _denorm(val, Limits[c][1], Limits[c][2], Limits[c][3])

InRange(c, val) ==
    CASE c = "volume" -> val \in 0 .. 100
      [] c = "loudness" -> TRUE
      [] OTHER -> val \in -50 .. 50

\* validate() again.
ASSUME ControlsConfigured == \A c \in Controls :
           c \in DOMAIN Limits /\ card_control[c] \in Int /\ InRange(c, card_control[c])

\* A mutant of video_set_video_bitrate: the peak rate first, whatever is set.
peak_first(h, p) == <<Read, Read, <<"peak", p.peak>>, <<"bitrate", p.bitrate>>>>

video_set_video_bitrate(h, p) ==
    IF p.peak < h.peak
    THEN <<Read, Read, <<"bitrate", p.bitrate>>, <<"peak", p.peak>>>>
    ELSE <<Read, Read, <<"peak", p.peak>>, <<"bitrate", p.bitrate>>>>

video_set_audio_bitrate(p) == <<<<"sampling", p.sampling>>, <<"abps", p.abps>>>>
video_set_video_aspect(p) == <<<<"aspect", p.aspect>>>>
video_set_named_size(p) == <<Read, <<"size", p.size>>>>

\* _vctrl_channel: the unit of the tuner is read, then the frequency is set.
set_frequency(ch) == <<Read, <<"freq", getfreqfromstr(ch)>>>>

\* video_get_wh_fromname, and the look-up in video_set_named_size.
SizeKnown(p) == p.size \in SizesKnown \cup SizesNamed
SizeNamed(p) == p.size \in SizesNamed

\* A mutant of tune: the input is taken to be the tuner.
tune_only(h, ch) == <<Read>> \o set_frequency(ch)

\* video_set_channel for a station or channel.
tune(h, ch) ==
    (IF h.input = tuner_input_index THEN <<Read>> ELSE <<Read, <<"input", tuner_input_index>>>>)
    \o set_frequency(ch)

\* video_set_channel for an input, and video_set_input_source.
take_input(idx) == <<<<"input", idx>>>>

-----------------------------------------------------------------------------
\* The descriptors of the process, the lowest free number first.
Numbers == 3 .. MaxFd
FreeFd == CHOOSE n \in Numbers : n \notin DOMAIN fds /\ \A k \in 3 .. (n - 1) : k \in DOMAIN fds
Opened(dev) == [n \in DOMAIN fds \cup {FreeFd} |-> IF n = FreeFd THEN dev ELSE fds[n]]
Closed(ns) == [n \in DOMAIN fds \ ns |-> fds[n]]
NoFd == -1
NoCmd == [what |-> "none", fd |-> NoFd]
NoJob == [for |-> "nothing", channel |-> "", input |-> 0, list |-> <<>>, profile |-> default_profile]
Retries == 2

Goto(l) == pc' = l /\ left' = Retries
Still == UNCHANGED <<conf, cmd, refused>>

\* How setup_video, and setup_capture_cards with the process, give up: what is
\* closed on the way out, everything if the process ends.
GiveUp(ns) ==
    /\ fds' = IF job.for = "start" THEN <<>> ELSE Closed(ns)
    /\ fd' = NoFd /\ fdtuner' = NoFd /\ Goto("failed") /\ UNCHANGED job

\* A call, with the retries that its callers make while the card is busy.
Try(ws, next) == \E e \in Ends(hw, ws) :
    /\ Blames(e) /\ hw' = e.hw
    /\ CASE e.ret = "ok" -> Goto(next) /\ UNCHANGED <<fds, held, job>>
         [] e.ret = "EBUSY" /\ left > 0 -> left' = left - 1 /\ UNCHANGED <<fds, held, job, pc>>
         [] OTHER -> GiveUp({fd, fdtuner})
    /\ Still

-----------------------------------------------------------------------------
(* startrec: the profile the encoder is set to.  The comment says the one  *)
(* of the highest bit rate; each is compared with the first, not with the  *)
(* highest so far.                                                         *)
Bitrate(name) == Profiles[name].bitrate

\* A mutant of Chosen: the first, whatever the others are.
ChosenFirst(list) == list[1]

Chosen(list) ==
    LET better == {i \in DOMAIN list : Bitrate(list[i]) > Bitrate(list[1])}
    IN  IF better = {} THEN list[1] ELSE list[CHOOSE i \in better : \A k \in better : k <= i]

StartRec(list, channel, input) ==
    /\ pc = "idle" /\ Cardinality(Numbers \ DOMAIN fds) >= 3 /\ Goto("open")
    /\ job' = [for |-> "rec", channel |-> channel, input |-> input, list |-> list, profile |-> Chosen(list)]
    /\ hurt' = FALSE /\ UNCHANGED <<hw, fds, held, faults>> /\ Still

\* video_open of the encoder.
OpenEncoder ==
    /\ pc = "open"
    /\ \/ /\ NoFault /\ fds' = Opened("encoder") /\ fd' = FreeFd /\ UNCHANGED <<hw, job>>
          /\ \/ job.for = "start" /\ fdtuner' = NoFd /\ Goto("rates")
             \/ job.for = "rec" /\ conf.tuner /\ fdtuner' = NoFd /\ Goto("opentuner")
             \/ job.for = "rec" /\ ~conf.tuner /\ fdtuner' = FreeFd /\ Goto("switch")
       \/ Fault /\ GiveUp({}) /\ UNCHANGED hw
    /\ Still

OpenTuner ==
    /\ pc = "opentuner"
    /\ \/ /\ NoFault /\ fds' = Opened("tuner") /\ fdtuner' = FreeFd
          /\ Goto("switch") /\ UNCHANGED <<hw, fd, job>>
       \/ Fault /\ GiveUp({fd}) /\ UNCHANGED hw
    /\ Still

\* external_switch: the box chooses the channel, the card only its input.
SwitchInput ==
    /\ pc = "switch" /\ conf.external_switch
    /\ \E e \in Ends(hw, take_input(conf.external_input)) : Blames(e) /\ hw' = e.hw
    /\ Goto(IF conf.external_input = tuner_input_index THEN "station" ELSE "script")
    /\ UNCHANGED <<fds, held, job>> /\ Still

NoStation ==
    /\ pc = "station" /\ conf.external_tuner_station = ""
    /\ NoFault /\ GiveUp({fdtuner}) /\ UNCHANGED hw /\ Still

Station ==
    /\ pc = "station" /\ conf.external_tuner_station # ""
    /\ Try(tune(hw, conf.external_tuner_station), "script")

\* The script must be there and end well.
Script ==
    /\ pc = "script"
    /\ \/ NoFault /\ Goto("release") /\ UNCHANGED <<fds, held, job>>
       \/ Fault /\ GiveUp({fd, fdtuner})
    /\ UNCHANGED hw /\ Still

Params == IF conf.allow THEN "rates" ELSE "release"

\* How taking the input ended is not looked at.
ChannelInput ==
    /\ pc = "switch" /\ ~conf.external_switch /\ job.channel = ""
    /\ \E e \in Ends(hw, take_input(job.input)) : Blames(e) /\ hw' = e.hw
    /\ Goto(Params) /\ UNCHANGED <<fds, held, job>> /\ Still

Channel ==
    /\ pc = "switch" /\ ~conf.external_switch /\ job.channel # ""
    /\ Try(tune(hw, job.channel), Params)

\* No call, no fault of the card: the name is in no table, with the first look
\* at it, or with the last, when all else is set.
NoSuchSize == NoFault /\ GiveUp({fd, fdtuner}) /\ UNCHANGED hw /\ Still

setup_hw_parameters ==
    LET p == Profiles[job.profile]
    IN  \/ pc = "rates" /\ ~SizeKnown(p) /\ NoSuchSize
        \/ pc = "rates" /\ SizeKnown(p) /\ Try(video_set_video_bitrate(hw, p), "audio")
        \/ pc = "audio" /\ Try(video_set_audio_bitrate(p), "aspect")
        \/ pc = "aspect" /\ Try(video_set_video_aspect(p), "size")
        \/ pc = "size" /\ SizeNamed(p) /\ Try(video_set_named_size(p), "release")
        \/ pc = "size" /\ ~SizeNamed(p) /\ NoSuchSize

\* The end of setup_video: only the encoder stays open.
Release ==
    /\ pc = "release" /\ NoFault /\ UNCHANGED <<hw, job>> /\ Still
    /\ \/ job.for = "start" /\ fds' = Closed({fd}) /\ fd' = NoFd /\ Goto("controls")
       \/ /\ job.for = "rec" /\ Goto("capture") /\ UNCHANGED fd
          /\ fds' = IF fdtuner # fd THEN Closed({fdtuner}) ELSE fds
    /\ fdtuner' = NoFd

\* The recording ends, or its file cannot be made: video_close.
EndRec ==
    /\ pc = "capture" /\ Goto("idle") /\ fds' = Closed({fd}) /\ fd' = NoFd
    /\ NoFault /\ UNCHANGED <<hw, fdtuner, job>> /\ Still

\* The thread goes; at the start, the server does (_exit).
Failed ==
    /\ pc = "failed" /\ Goto(IF job.for = "start" THEN "down" ELSE "idle")
    /\ NoFault /\ UNCHANGED <<hw, fds, held, job>> /\ Still

-----------------------------------------------------------------------------
\* setup_capture_cards: every card gets the default profile if recordings may
\* not choose theirs, then the controls.
Start ==
    /\ pc = "down" /\ Goto(IF conf.allow THEN "controls" ELSE "open")
    /\ job' = [NoJob EXCEPT !.for = "start"] /\ hurt' = FALSE
    /\ UNCHANGED <<hw, fds, held, faults>> /\ Still

Required == {"brightness", "saturation", "contrast", "hue", "volume"}
Order == <<"brightness", "saturation", "contrast", "hue", "bass", "treble", "loudness", "volume">>
Configured(i) == IF Order[i] \in Controls THEN <<Order[i], Level(Order[i], card_control[Order[i]])>> ELSE Read

\* setup_audio_image_controls stops at a control all cards should have, and
\* the server goes on; the other controls may fail.
Stopped(i, bad) == \E k \in bad : k < i /\ Order[k] \in Required
Settings(bad) == [i \in 1 .. 8 |-> IF i \in bad \/ Stopped(i, bad) THEN Read ELSE Configured(i)]
Lacking == {i \in 1 .. 8 : HasNot(Order[i])}

SetControls ==
    /\ pc = "controls" /\ Goto("idle") /\ UNCHANGED <<fds, held, job>> /\ Still
    /\ \/ NoFault /\ hw' = After(hw, Settings(Lacking), 8)
       \/ \E i \in 1 .. 8 : ~Stopped(i, Lacking) /\ Fault /\ hw' = After(hw, Settings(Lacking \cup {i}), 8)

\* Commands run once the server has started, one at a time, whatever the
\* recording thread is doing with the card.
Serving == pc # "down" /\ (job.for = "start" => pc = "idle")
CardFault == faults < MaxFaults /\ faults' = faults + 1 /\ UNCHANGED hurt
TheRest == UNCHANGED <<conf, fd, fdtuner, pc, job, left>>

\* video_open in a command, of the tuner's device.
OpenCard(what) ==
    /\ cmd = NoCmd /\ Serving /\ TheRest /\ UNCHANGED hw
    /\ \/ /\ NoFault /\ UNCHANGED refused
          /\ fds' = Opened(IF conf.tuner THEN "tuner" ELSE "encoder")
          /\ cmd' = [what |-> what, fd |-> FreeFd]
       \/ CardFault /\ UNCHANGED <<fds, cmd, refused>>

Answers(ret) ==
    /\ refused' = (refused \/ ret = "ERANGE")
    /\ IF ret \in {"EBUSY", "EIO"} THEN CardFault ELSE NoFault
    /\ fds' = Closed({cmd.fd}) /\ cmd' = NoCmd /\ TheRest

\* `va', `ac' and `ic' set a control.
AdjustVolume(val) ==
    /\ cmd.what = "va" /\ InRange("volume", val)
    /\ \E e \in Ends(hw, <<<<"volume", Level("volume", val)>>>>) : hw' = e.hw /\ Answers(e.ret)

AdjustAudio(c, val) ==
    /\ cmd.what = "ac" /\ c \in {"bass", "treble"} /\ InRange(c, val)
    /\ \E e \in Ends(hw, <<<<c, Level(c, val)>>>>) : hw' = e.hw /\ Answers(e.ret)

AdjustImage(c, val) ==
    /\ cmd.what = "ic" /\ c \in {"brightness", "saturation", "contrast", "hue"} /\ InRange(c, val)
    /\ \E e \in Ends(hw, <<<<c, Level(c, val)>>>>) : hw' = e.hw /\ Answers(e.ret)

\* `vc', `li' and `lc' read: the card, the inputs and the controls.  A read
\* that fails ends them.
CardInfo == <<Read>>
ListInputs == <<Read, Read, Read>>
ListControls == [i \in 1 .. 2 * Len(Order) |-> Read]

Look ==
    /\ cmd.what \in {"vc", "li", "lc"}
    /\ LET ws == CASE cmd.what = "vc" -> CardInfo
                   [] cmd.what = "li" -> ListInputs
                   [] cmd.what = "lc" -> ListControls
       IN  \E e \in Ends(hw, ws) : hw' = e.hw /\ Answers(e.ret)

\* The server dies: killed, or by `va' without a card, which takes its value
\* from a field that is not there (tvcmd.c:1811).
Die ==
    /\ pc \notin {"down", "failed"} /\ Goto("down")
    /\ fds' = <<>> /\ fd' = NoFd /\ fdtuner' = NoFd /\ job' = NoJob
    /\ cmd' = NoCmd /\ NoFault /\ UNCHANGED <<conf, hw, refused>>

Left(e) == [r \in Encoder \cup Controls \cup {"input", "freq"} |->
              CASE r \in Encoder -> e[r]
                [] r \in Controls -> Level(r, card_control[r])
                [] r = "input" -> tuner_input_index
                [] r = "freq" -> NoFreq]

Init ==
    /\ conf \in Configs
    /\ \E e \in EncodersFound : hw = Left(e)        \* as it was left
    /\ fds = <<>> /\ fd = NoFd /\ fdtuner = NoFd
    /\ pc = "down" /\ job = NoJob /\ left = Retries
    /\ cmd = NoCmd /\ refused = FALSE /\ hurt = FALSE /\ faults = 0

Next ==
    \/ Start \/ OpenEncoder \/ OpenTuner \/ SwitchInput \/ NoStation \/ Station \/ Script
    \/ ChannelInput \/ Channel \/ setup_hw_parameters \/ Release \/ EndRec \/ Failed \/ Die
    \/ \E list \in ProfileLists : \/ \E ch \in Channels : StartRec(list, ch, 0)
                                  \/ \E i \in Inputs : StartRec(list, "", i)
    \/ \E what \in CommandsUsed : OpenCard(what)
    \/ SetControls \/ Look
    \/ \E val \in Normal : \/ AdjustVolume(val)
                          \/ \E c \in Controls : AdjustAudio(c, val) \/ AdjustImage(c, val)

Spec == Init /\ [][Next]_vars

-----------------------------------------------------------------------------
Tuned(ch) == hw.input = tuner_input_index /\ hw.freq = getfreqfromstr(ch)
Encodes(p) == \A r \in Encoder : hw[r] = Profiles[p][r]
Best(list) == {p \in Range(list) : \A q \in Range(list) : Bitrate(q) <= Bitrate(p)}

\* The profiles of a list that are better than its first come in rising order, as
\* they do in every list of two: startrec compares each with the first only,
\* and of the others may take one that is not the best.
BetterInOrder == \A list \in ProfileLists : \A i, j \in DOMAIN list :
    i < j /\ Bitrate(list[i]) > Bitrate(list[1]) /\ Bitrate(list[j]) > Bitrate(list[1]) =>
        Bitrate(list[i]) <= Bitrate(list[j])

\* When a recording has the encoder adjusted: setup_video does it where there is no
\* external switch only.
Adjusts == conf.allow /\ ~conf.external_switch
AsFound == \E e \in EncodersFound : \A r \in Encoder : hw[r] = e[r]

\* What is recorded is what was asked for: the channel of the recording, or
\* the input of the box or of the recording if the card would take it, encoded
\* as one of the best of its profiles says, or as the default one does if
\* profiles may not adjust the encoder, whatever the card was busy with, and
\* whatever the recordings before it, the failed ones too, and the commands have
\* left there (setup_video, startrec, setup_capture_cards).  The exception: with
\* an external switch and profiles that may adjust the encoder nobody does, and
\* the recording is encoded as the first server found the card (vcard.c:290).
RecordsAsAsked == pc = "capture" =>
    /\ IF conf.external_switch
       THEN IF conf.external_input = tuner_input_index THEN Tuned(conf.external_tuner_station)
                                                       ELSE hurt \/ hw.input = conf.external_input
       ELSE IF job.channel # "" THEN Tuned(job.channel) ELSE hurt \/ hw.input = job.input
    /\ IF ~conf.allow THEN Encodes(default_profile)
       ELSE IF Adjusts THEN \E p \in Best(job.list) : Encodes(p) ELSE AsFound

\* A set-up fails for a fault of the card, and for two faults of the
\* configuration: an external switch through the tuner with no station, and a
\* profile to be set whose size of the picture is not spelled as in the table.
\* The driver is never asked for a value it must refuse, on the way from any
\* settings to any others, of the controls the card has (for one it lacks a
\* command is told so).  And nothing stays open when an operation ends, but for
\* the switch with no station (setup_video, video_set_video_bitrate, _denorm).
NoStationGiven == /\ conf.external_switch /\ conf.external_input = tuner_input_index
                  /\ conf.external_tuner_station = ""
SizeMisspelt == (job.for = "start" \/ Adjusts) /\ ~SizeNamed(Profiles[job.profile])
FailsCleanly ==
    /\ ~refused
    /\ pc = "failed" => hurt \/ NoStationGiven \/ SizeMisspelt
    /\ pc \in {"failed", "idle"} => DOMAIN fds \subseteq {cmd.fd} \/ (NoStationGiven /\ conf.tuner)
=============================================================================
