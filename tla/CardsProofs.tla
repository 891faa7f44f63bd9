---------------------------- MODULE CardsProofs ----------------------------
(***************************************************************************)
(* The driver is never asked for a value it must refuse, a set-up that     *)
(* fails leaves nothing open, and what is recorded is what was asked for,  *)
(* but for the exceptions that the properties name: the theorems about     *)
(* Cards, for any profiles, channels, controls and cards that lack some.   *)
(***************************************************************************)
EXTENDS Cards, FiniteSetTheorems, WellFoundedInduction, TLAPS

-----------------------------------------------------------------------------
(* Numbers. *)

\* Some number of a set is the least.
LEMMA Least ==
    ASSUME NEW S, S \subseteq Nat, S # {}
    PROVE  \E i \in S : \A k \in S : i <= k
<1>1. PICK i \in S : \A k \in S : ~(<<k, i>> \in OpToRel(<, Nat))
  BY NatLessThanWellFounded, WFMin
<1>2. \A k \in S : ~(k < i) BY <1>1 DEF OpToRel
<1> QED BY <1>2

\* Some number of a set below a bound is the greatest.
LEMMA Greatest ==
    ASSUME NEW n \in Nat, NEW S, S \subseteq 1 .. n, S # {}
    PROVE  \E i \in S : \A k \in S : k <= i
<1> DEFINE T == {n - k : k \in S}
<1>0. \A k \in 1 .. n : n - k \in Nat OBVIOUS
<1>1. T \subseteq Nat /\ T # {} BY <1>0, Zenon
<1>2. PICK m \in T : \A l \in T : m <= l
  <2> HIDE DEF T
  <2> QED BY <1>1, Least
<1>3. PICK i \in S : m = n - i OBVIOUS
<1>4. \A k \in S : n - i <= n - k BY <1>2, <1>3
<1> QED BY <1>4

\* Short lists of calls put one after the other.
LEMMA Joined ==
    ASSUME NEW a, NEW b, NEW c, NEW d
    PROVE  <<a>> \o <<c, d>> = <<a, c, d>> /\ <<a, b>> \o <<c, d>> = <<a, b, c, d>>
<1> DEFINE one == <<a>> \o <<c, d>>
           two == <<a, b>> \o <<c, d>>
<1>1. one = <<a, c, d>>
  <2>1. one \in Seq({a, b, c, d}) OBVIOUS
  <2>2. Len(one) = 3 /\ one[1] = a /\ one[2] = c /\ one[3] = d OBVIOUS
  <2> HIDE DEF one
  <2> QED BY <2>1, <2>2
<1>2. two = <<a, b, c, d>>
  <2>1. two \in Seq({a, b, c, d}) OBVIOUS
  <2>2. Len(two) = 4 /\ two[1] = a /\ two[2] = b /\ two[3] = c /\ two[4] = d OBVIOUS
  <2> HIDE DEF two
  <2> QED BY <2>1, <2>2
<1> QED BY <1>1, <1>2

-----------------------------------------------------------------------------
(* The registers after a number of calls. *)

\* Nothing is written before the first call.
LEMMA AfterNone ==
    ASSUME NEW h, NEW ws, h = [r \in DOMAIN h |-> h[r]]
    PROVE  After(h, ws, 0) = h
<1>1. 1 .. 0 = {} OBVIOUS
<1> QED BY <1>1 DEF After

\* The registers are those there were.
LEMMA AfterDomain ==
    ASSUME NEW h, NEW ws, NEW n
    PROVE  /\ DOMAIN After(h, ws, n) = DOMAIN h
           /\ After(h, ws, n) = [r \in DOMAIN h |-> After(h, ws, n)[r]]
BY DEF After

\* A register that none of the calls writes keeps its value.
LEMMA AfterLeaves ==
    ASSUME NEW h, NEW ws, NEW n, NEW r \in DOMAIN h,
           \A k \in 1 .. n : ws[k][1] # r
    PROVE  After(h, ws, n)[r] = h[r]
<1>1. {k \in 1 .. n : ws[k][1] = r} = {} OBVIOUS
<1> QED BY <1>1 DEF After

\* A register has what the last of the calls that write it wrote.
LEMMA AfterWrites ==
    ASSUME NEW h, NEW ws, NEW n \in Nat, NEW r \in DOMAIN h, NEW i \in 1 .. n,
           ws[i][1] = r, \A k \in (i + 1) .. n : ws[k][1] # r
    PROVE  After(h, ws, n)[r] = ws[i][2]
<1> DEFINE W == {k \in 1 .. n : ws[k][1] = r}
<1>1. i \in W OBVIOUS
<1>2. \A k \in W : i >= k OBVIOUS
<1>3. \A x \in W : (\A y \in W : x >= y) => x = i
  <2> SUFFICES ASSUME NEW x \in W, \A y \in W : x >= y PROVE x = i OBVIOUS
  <2>1. x >= i BY <1>1
  <2>2. i >= x BY <1>2
  <2> QED BY <2>1, <2>2
<1>4. Max(W) = i
  <2> HIDE DEF W
  <2> QED BY <1>1, <1>2, <1>3 DEF Max
<1>5. W # {} BY <1>1
<1>6. After(h, ws, n)[r] = IF W = {} THEN h[r] ELSE ws[Max(W)][2] BY DEF After
<1> QED BY <1>4, <1>5, <1>6

\* A register has its old value or one that a call wrote there.
LEMMA AfterSome ==
    ASSUME NEW h, NEW ws, NEW n \in Nat, NEW r \in DOMAIN h
    PROVE  \/ After(h, ws, n)[r] = h[r]
           \/ \E k \in 1 .. n : ws[k][1] = r /\ After(h, ws, n)[r] = ws[k][2]
<1> DEFINE W == {k \in 1 .. n : ws[k][1] = r}
<1>1. CASE W = {} BY <1>1, AfterLeaves
<1>2. CASE W # {}
  <2>1. \E i \in W : \A k \in W : k <= i BY <1>2, Greatest
  <2>2. PICK i \in W : \A k \in W : k <= i BY <2>1
  <2>3. \A k \in (i + 1) .. n : ws[k][1] # r BY <2>2
  <2> QED BY <2>2, <2>3, AfterWrites
<1> QED BY <1>1, <1>2

-----------------------------------------------------------------------------
(* How calls can end when the driver has no reason to refuse any. *)

\* No call is refused if the card has what it is for, and is right after each.
LEMMA NoRefusal ==
    ASSUME NEW h, NEW ws, DOMAIN ws = 1 .. Len(ws),
           \A n \in 1 .. Len(ws) : ~HasNot(ws[n][1]) /\ Accepts(After(h, ws, n))
    PROVE  Refusal(h, ws) = Len(ws) + 1
<1>1. {n \in DOMAIN ws : HasNot(ws[n][1]) \/ ~Accepts(After(h, ws, n))} = {} OBVIOUS
<1> QED BY <1>1 DEF Refusal

\* Then all are made, or the card stops before one of them.
LEMMA EndsThen ==
    ASSUME NEW h, NEW ws, Len(ws) \in Nat, DOMAIN ws = 1 .. Len(ws),
           \A n \in 1 .. Len(ws) : ~HasNot(ws[n][1]) /\ Accepts(After(h, ws, n)),
           NEW e \in Ends(h, ws)
    PROVE  \/ e.ret = "ok" /\ e.hw = After(h, ws, Len(ws))
           \/ e.ret \in {"EBUSY", "EIO"} /\ \E n \in 0 .. Len(ws) - 1 : e.hw = After(h, ws, n)
<1> DEFINE all == [hw |-> After(h, ws, Len(ws)), ret |-> "ok"]
           some == {After(h, ws, n - 1) : n \in 1 .. Len(ws)}
<1>1. Refusal(h, ws) = Len(ws) + 1 BY NoRefusal
<1>2. Ends(h, ws) = {all} \cup [hw : some, ret : {"EBUSY", "EIO"}]
  <2>1. Len(ws) + 1 > Len(ws) /\ Len(ws) + 1 - 1 = Len(ws) OBVIOUS
  <2> QED BY <1>1, <2>1 DEF Ends
<1>3. CASE e = all BY <1>3
<1>4. CASE e \in [hw : some, ret : {"EBUSY", "EIO"}]
  <2>1. e.hw \in some /\ e.ret \in {"EBUSY", "EIO"} BY <1>4
  <2>2. PICK n \in 1 .. Len(ws) : e.hw = After(h, ws, n - 1) BY <2>1
  <2>3. n - 1 \in 0 .. Len(ws) - 1 BY <2>2
  <2> QED BY <2>1, <2>2, <2>3
<1> QED BY <1>2, <1>3, <1>4

\* What the card holds: every register, rates the driver takes, controls in range.
Registers == Encoder \cup Controls \cup {"input", "freq"}
OnCard(h) == /\ DOMAIN h = Registers /\ h = [r \in DOMAIN h |-> h[r]]
             /\ h.bitrate \in Int /\ h.peak \in Int
             /\ Accepts(h)

\* The controls are registers of their own.
LEMMA ControlsApart ==
    \A c \in Controls : c \notin Encoder /\ c # "input" /\ c # "freq" /\ c # "none"
BY ControlsConfigured DEF Limits, Encoder

\* Calls that write neither a rate nor a control leave a card the driver accepts.
LEMMA AfterKeepsCard ==
    ASSUME NEW h, OnCard(h), NEW ws, NEW n,
           \A k \in 1 .. n : ws[k][1] \notin Controls \cup {"bitrate", "peak"}
    PROVE  OnCard(After(h, ws, n))
<1> DEFINE g == After(h, ws, n)
<1>1. DOMAIN g = Registers /\ g = [r \in DOMAIN g |-> g[r]] BY AfterDomain DEF OnCard
<1>2. "bitrate" \in DOMAIN h /\ "peak" \in DOMAIN h /\ \A c \in Controls : c \in DOMAIN h
  BY DEF OnCard, Registers, Encoder
<1>3. g.bitrate = h.bitrate /\ g.peak = h.peak BY <1>2, AfterLeaves
<1>4. \A c \in Controls : g[c] = h[c] BY <1>2, AfterLeaves
<1> HIDE DEF g
<1>5. Accepts(g) BY <1>3, <1>4 DEF OnCard, Accepts
<1>6. OnCard(g) BY <1>1, <1>3, <1>5 DEF OnCard
<1> QED BY <1>6 DEF g

\* Such calls are not refused; they leave alone what they do not write.
LEMMA EndsPlain ==
    ASSUME NEW h, OnCard(h), NEW ws, Len(ws) \in Nat, DOMAIN ws = 1 .. Len(ws),
           \A k \in 1 .. Len(ws) : ws[k][1] \notin Controls \cup {"bitrate", "peak"},
           NEW e \in Ends(h, ws)
    PROVE  /\ OnCard(e.hw)
           /\ e.ret \in {"ok", "EBUSY", "EIO"}
           /\ e.ret = "ok" => e.hw = After(h, ws, Len(ws))
           /\ \A r \in Registers : (\A k \in 1 .. Len(ws) : ws[k][1] # r) => e.hw[r] = h[r]
<1>1. \A n \in 0 .. Len(ws) : OnCard(After(h, ws, n))
  <2> SUFFICES ASSUME NEW n \in 0 .. Len(ws) PROVE OnCard(After(h, ws, n)) OBVIOUS
  <2>1. \A k \in 1 .. n : k \in 1 .. Len(ws) OBVIOUS
  <2> QED BY <2>1, AfterKeepsCard
<1>2. \A n \in 1 .. Len(ws) : ~HasNot(ws[n][1]) /\ Accepts(After(h, ws, n))
  <2>1. \A n \in 1 .. Len(ws) : n \in 0 .. Len(ws) OBVIOUS
  <2>2. \A n \in 1 .. Len(ws) : ~HasNot(ws[n][1]) BY DEF HasNot
  <2> QED BY <1>1, <2>1, <2>2 DEF OnCard
<1>3. \/ e.ret = "ok" /\ e.hw = After(h, ws, Len(ws))
      \/ e.ret \in {"EBUSY", "EIO"} /\ \E n \in 0 .. Len(ws) - 1 : e.hw = After(h, ws, n)
  BY <1>2, EndsThen
<1>4. PICK n \in 0 .. Len(ws) : e.hw = After(h, ws, n)
  <2>1. Len(ws) \in 0 .. Len(ws) /\ 0 .. Len(ws) - 1 \subseteq 0 .. Len(ws) OBVIOUS
  <2> QED BY <1>3, <2>1
<1>5. \A r \in Registers : (\A k \in 1 .. Len(ws) : ws[k][1] # r) => e.hw[r] = h[r]
  <2> SUFFICES ASSUME NEW r \in Registers, \A k \in 1 .. Len(ws) : ws[k][1] # r
               PROVE  e.hw[r] = h[r]
    OBVIOUS
  <2>1. r \in DOMAIN h BY DEF OnCard
  <2>2. \A k \in 1 .. n : k \in 1 .. Len(ws) BY <1>4
  <2> QED BY <1>4, <2>1, <2>2, AfterLeaves
<1>6. OnCard(e.hw) BY <1>1, <1>4
<1> QED BY <1>3, <1>5, <1>6

\* What the other registers are to a call that writes some.
Elsewhere(h, g, some) == \A r \in Registers \ some : g[r] = h[r]

\* Tuning is not refused, and when it is done the card is on the channel.
LEMMA EndsTune ==
    ASSUME NEW h, OnCard(h), NEW ch, NEW e \in Ends(h, tune(h, ch))
    PROVE  /\ OnCard(e.hw) /\ e.ret \in {"ok", "EBUSY", "EIO"}
           /\ Elsewhere(h, e.hw, {"input", "freq"})
           /\ e.ret = "ok" => e.hw["input"] = tuner_input_index /\ e.hw["freq"] = getfreqfromstr(ch)
<1> DEFINE f == getfreqfromstr(ch)
           short == <<Read, Read, <<"freq", f>>>>
           long == <<Read, <<"input", tuner_input_index>>, Read, <<"freq", f>>>>
<1>1. tune(h, ch) = IF h.input = tuner_input_index THEN short ELSE long
  <2>1. tune(h, ch) = (IF h.input = tuner_input_index THEN <<Read>>
                       ELSE <<Read, <<"input", tuner_input_index>>>>) \o <<Read, <<"freq", f>>>>
    BY DEF tune, set_frequency
  <2> QED BY <2>1, Joined, Zenon
<1>2. "input" \in DOMAIN h /\ "freq" \in DOMAIN h /\ "input" \in Registers /\ "freq" \in Registers
  BY DEF OnCard, Registers
<1>3. {"none", "input", "freq"} \cap (Controls \cup {"bitrate", "peak"}) = {}
  BY ControlsApart
<1>4. ASSUME NEW ws \in {short, long}
      PROVE  /\ Len(ws) \in Nat /\ DOMAIN ws = 1 .. Len(ws)
             /\ \A k \in 1 .. Len(ws) : ws[k][1] \in {"none", "input", "freq"}
  <2> HIDE DEF f
  <2>1. CASE ws = short BY <2>1 DEF Read
  <2>2. CASE ws = long BY <2>2 DEF Read
  <2> QED BY <1>4, <2>1, <2>2
<1>5. \A r \in Registers \ {"input", "freq"} : r # "none"
  BY ControlsApart DEF Registers, Encoder
<1>6. PICK ws \in {short, long} : tune(h, ch) = ws BY <1>1
<1>7. Len(ws) \in Nat /\ DOMAIN ws = 1 .. Len(ws)
      /\ \A k \in 1 .. Len(ws) : ws[k][1] \in {"none", "input", "freq"}
  BY <1>4
<1>8. /\ OnCard(e.hw) /\ e.ret \in {"ok", "EBUSY", "EIO"}
      /\ e.ret = "ok" => e.hw = After(h, ws, Len(ws))
      /\ \A r \in Registers : (\A k \in 1 .. Len(ws) : ws[k][1] # r) => e.hw[r] = h[r]
  <2>1. \A k \in 1 .. Len(ws) : ws[k][1] \notin Controls \cup {"bitrate", "peak"}
    BY <1>3, <1>7
  <2>2. e \in Ends(h, ws) BY <1>6
  <2> HIDE DEF short, long
  <2> QED BY <1>7, <2>1, <2>2, EndsPlain
<1>9. Elsewhere(h, e.hw, {"input", "freq"}) BY <1>5, <1>7, <1>8 DEF Elsewhere
<1>10. After(h, short, 3)["freq"] = f
  <2>1. short[3][1] = "freq" /\ short[3][2] = f OBVIOUS
  <2>2. \A k \in (3 + 1) .. 3 : short[k][1] # "freq" OBVIOUS
  <2> HIDE DEF short
  <2> QED BY <1>2, <2>1, <2>2, AfterWrites
<1>11. After(h, short, 3)["input"] = h.input
  <2>1. \A k \in 1 .. 3 : short[k][1] # "input" BY DEF Read
  <2> HIDE DEF short
  <2> QED BY <1>2, <2>1, AfterLeaves
<1>12. After(h, long, 4)["freq"] = f
  <2>1. long[4][1] = "freq" /\ long[4][2] = f OBVIOUS
  <2>2. \A k \in (4 + 1) .. 4 : long[k][1] # "freq" OBVIOUS
  <2> HIDE DEF long
  <2> QED BY <1>2, <2>1, <2>2, AfterWrites
<1>13. After(h, long, 4)["input"] = tuner_input_index
  <2>1. long[2][1] = "input" /\ long[2][2] = tuner_input_index OBVIOUS
  <2>2. \A k \in (2 + 1) .. 4 : long[k][1] # "input" BY DEF Read
  <2> HIDE DEF long
  <2> QED BY <1>2, <2>1, <2>2, AfterWrites
<1>14. CASE h.input = tuner_input_index
  <2>1. ws = short BY <1>1, <1>6, <1>14
  <2>2. Len(ws) = 3 BY <2>1
  <2> HIDE DEF short
  <2> QED BY <1>8, <1>9, <1>10, <1>11, <1>14, <2>1, <2>2
<1>15. CASE h.input # tuner_input_index
  <2>1. ws = long BY <1>1, <1>6, <1>15
  <2>2. Len(ws) = 4 BY <2>1
  <2> HIDE DEF long
  <2> QED BY <1>8, <1>9, <1>12, <1>13, <2>1, <2>2
<1> QED BY <1>14, <1>15

\* Taking an input is not refused.
LEMMA EndsTakeInput ==
    ASSUME NEW h, OnCard(h), NEW idx, NEW e \in Ends(h, take_input(idx))
    PROVE  /\ OnCard(e.hw) /\ e.ret \in {"ok", "EBUSY", "EIO"}
           /\ Elsewhere(h, e.hw, {"input"})
           /\ e.ret = "ok" => e.hw["input"] = idx
<1> DEFINE ws == <<<<"input", idx>>>>
<1>1. Len(ws) = 1 /\ DOMAIN ws = 1 .. 1 /\ ws[1][1] = "input" /\ ws[1][2] = idx OBVIOUS
<1>2. "input" \in DOMAIN h BY DEF OnCard, Registers
<1>3. e \in Ends(h, ws) BY DEF take_input
<1> HIDE DEF ws
<1>4. \A k \in 1 .. Len(ws) : ws[k][1] \notin Controls \cup {"bitrate", "peak"}
  BY <1>1, ControlsApart
<1>5. /\ OnCard(e.hw) /\ e.ret \in {"ok", "EBUSY", "EIO"}
      /\ e.ret = "ok" => e.hw = After(h, ws, Len(ws))
      /\ \A r \in Registers : (\A k \in 1 .. Len(ws) : ws[k][1] # r) => e.hw[r] = h[r]
  <2>1. Len(ws) \in Nat /\ DOMAIN ws = 1 .. Len(ws) BY <1>1
  <2> QED BY <1>3, <1>4, <2>1, EndsPlain
<1>6. \A k \in (1 + 1) .. 1 : ws[k][1] # "input" OBVIOUS
<1>7. After(h, ws, 1)["input"] = idx BY <1>1, <1>2, <1>6, AfterWrites
<1> QED BY <1>1, <1>5, <1>7 DEF Elsewhere

\* Nor are the sampling and the rate of sound,
LEMMA EndsAudio ==
    ASSUME NEW h, OnCard(h), NEW p, NEW e \in Ends(h, video_set_audio_bitrate(p))
    PROVE  /\ OnCard(e.hw) /\ e.ret \in {"ok", "EBUSY", "EIO"}
           /\ Elsewhere(h, e.hw, {"sampling", "abps"})
           /\ e.ret = "ok" => e.hw["sampling"] = p.sampling /\ e.hw["abps"] = p.abps
<1> DEFINE ws == <<<<"sampling", p.sampling>>, <<"abps", p.abps>>>>
<1>1. /\ Len(ws) = 2 /\ DOMAIN ws = 1 .. 2
      /\ ws[1][1] = "sampling" /\ ws[1][2] = p.sampling /\ ws[2][1] = "abps" /\ ws[2][2] = p.abps
  OBVIOUS
<1>2. "sampling" \in DOMAIN h /\ "abps" \in DOMAIN h BY DEF OnCard, Registers, Encoder
<1>3. e \in Ends(h, ws) BY DEF video_set_audio_bitrate
<1> HIDE DEF ws
<1>4. \A k \in 1 .. Len(ws) : ws[k][1] \notin Controls \cup {"bitrate", "peak"}
  BY <1>1, ControlsApart DEF Encoder
<1>5. /\ OnCard(e.hw) /\ e.ret \in {"ok", "EBUSY", "EIO"}
      /\ e.ret = "ok" => e.hw = After(h, ws, Len(ws))
      /\ \A r \in Registers : (\A k \in 1 .. Len(ws) : ws[k][1] # r) => e.hw[r] = h[r]
  <2>1. Len(ws) \in Nat /\ DOMAIN ws = 1 .. Len(ws) BY <1>1
  <2> QED BY <1>3, <1>4, <2>1, EndsPlain
<1>6. \A k \in (1 + 1) .. 2 : ws[k][1] # "sampling" BY <1>1
<1>7. \A k \in (2 + 1) .. 2 : ws[k][1] # "abps" OBVIOUS
<1>8. After(h, ws, 2)["sampling"] = p.sampling BY <1>1, <1>2, <1>6, AfterWrites
<1>9. After(h, ws, 2)["abps"] = p.abps BY <1>1, <1>2, <1>7, AfterWrites
<1> QED BY <1>1, <1>5, <1>8, <1>9 DEF Elsewhere

\* the aspect,
LEMMA EndsAspect ==
    ASSUME NEW h, OnCard(h), NEW p, NEW e \in Ends(h, video_set_video_aspect(p))
    PROVE  /\ OnCard(e.hw) /\ e.ret \in {"ok", "EBUSY", "EIO"}
           /\ Elsewhere(h, e.hw, {"aspect"})
           /\ e.ret = "ok" => e.hw["aspect"] = p.aspect
<1> DEFINE ws == <<<<"aspect", p.aspect>>>>
<1>1. Len(ws) = 1 /\ DOMAIN ws = 1 .. 1 /\ ws[1][1] = "aspect" /\ ws[1][2] = p.aspect OBVIOUS
<1>2. "aspect" \in DOMAIN h BY DEF OnCard, Registers, Encoder
<1>3. e \in Ends(h, ws) BY DEF video_set_video_aspect
<1> HIDE DEF ws
<1>4. \A k \in 1 .. Len(ws) : ws[k][1] \notin Controls \cup {"bitrate", "peak"}
  BY <1>1, ControlsApart DEF Encoder
<1>5. /\ OnCard(e.hw) /\ e.ret \in {"ok", "EBUSY", "EIO"}
      /\ e.ret = "ok" => e.hw = After(h, ws, Len(ws))
      /\ \A r \in Registers : (\A k \in 1 .. Len(ws) : ws[k][1] # r) => e.hw[r] = h[r]
  <2>1. Len(ws) \in Nat /\ DOMAIN ws = 1 .. Len(ws) BY <1>1
  <2> QED BY <1>3, <1>4, <2>1, EndsPlain
<1>6. \A k \in (1 + 1) .. 1 : ws[k][1] # "aspect" OBVIOUS
<1>7. After(h, ws, 1)["aspect"] = p.aspect BY <1>1, <1>2, <1>6, AfterWrites
<1> QED BY <1>1, <1>5, <1>7 DEF Elsewhere

\* or the size of the picture.
LEMMA EndsSize ==
    ASSUME NEW h, OnCard(h), NEW p, NEW e \in Ends(h, video_set_named_size(p))
    PROVE  /\ OnCard(e.hw) /\ e.ret \in {"ok", "EBUSY", "EIO"}
           /\ Elsewhere(h, e.hw, {"size"})
           /\ e.ret = "ok" => e.hw["size"] = p.size
<1> DEFINE ws == <<Read, <<"size", p.size>>>>
<1>1. /\ Len(ws) = 2 /\ DOMAIN ws = 1 .. 2
      /\ ws[1][1] = "none" /\ ws[2][1] = "size" /\ ws[2][2] = p.size
  BY DEF Read
<1>2. "size" \in DOMAIN h /\ "none" \notin Registers
  BY ControlsApart DEF OnCard, Registers, Encoder
<1>3. e \in Ends(h, ws) BY DEF video_set_named_size
<1> HIDE DEF ws
<1>4. \A k \in 1 .. Len(ws) : ws[k][1] \notin Controls \cup {"bitrate", "peak"}
  BY <1>1, ControlsApart DEF Encoder
<1>5. /\ OnCard(e.hw) /\ e.ret \in {"ok", "EBUSY", "EIO"}
      /\ e.ret = "ok" => e.hw = After(h, ws, Len(ws))
      /\ \A r \in Registers : (\A k \in 1 .. Len(ws) : ws[k][1] # r) => e.hw[r] = h[r]
  <2>1. Len(ws) \in Nat /\ DOMAIN ws = 1 .. Len(ws) BY <1>1
  <2> QED BY <1>3, <1>4, <2>1, EndsPlain
<1>6. \A k \in (2 + 1) .. 2 : ws[k][1] # "size" OBVIOUS
<1>7. After(h, ws, 2)["size"] = p.size BY <1>1, <1>2, <1>6, AfterWrites
<1> QED BY <1>1, <1>2, <1>5, <1>7 DEF Elsewhere

\* Looking at the card changes nothing on it.
LEMMA EndsReads ==
    ASSUME NEW h, OnCard(h), NEW ws, Len(ws) \in Nat, DOMAIN ws = 1 .. Len(ws),
           \A k \in 1 .. Len(ws) : ws[k] = Read, NEW e \in Ends(h, ws)
    PROVE  e.hw = h /\ e.ret \in {"ok", "EBUSY", "EIO"}
<1>1. \A k \in 1 .. Len(ws) : ws[k][1] = "none" BY DEF Read
<1>2. "none" \notin Registers /\ "none" \notin Controls \cup {"bitrate", "peak"}
  BY ControlsApart DEF Registers, Encoder
<1>3. /\ OnCard(e.hw) /\ e.ret \in {"ok", "EBUSY", "EIO"}
      /\ \A r \in Registers : (\A k \in 1 .. Len(ws) : ws[k][1] # r) => e.hw[r] = h[r]
  BY <1>1, <1>2, EndsPlain
<1>4. \A r \in Registers : e.hw[r] = h[r] BY <1>1, <1>2, <1>3
<1>5. e.hw = h BY <1>3, <1>4 DEF OnCard
<1> QED BY <1>3, <1>5

\* The rates are set in an order the driver takes, whatever they were before.
LEMMA EndsRates ==
    ASSUME NEW h, OnCard(h), NEW name \in DOMAIN Profiles,
           NEW e \in Ends(h, video_set_video_bitrate(h, Profiles[name]))
    PROVE  /\ OnCard(e.hw) /\ e.ret \in {"ok", "EBUSY", "EIO"}
           /\ Elsewhere(h, e.hw, {"bitrate", "peak"})
           /\ e.ret = "ok" => /\ e.hw["bitrate"] = Profiles[name].bitrate
                              /\ e.hw["peak"] = Profiles[name].peak
<1> DEFINE p == Profiles[name]
           down == <<Read, Read, <<"bitrate", p.bitrate>>, <<"peak", p.peak>>>>
           up == <<Read, Read, <<"peak", p.peak>>, <<"bitrate", p.bitrate>>>>
<1>1. p.bitrate \in Int /\ p.peak \in Int /\ p.bitrate <= p.peak BY ProfilesOrdered
<1>2. h.bitrate \in Int /\ h.peak \in Int /\ h.bitrate <= h.peak BY DEF OnCard, Accepts
<1>3. /\ "bitrate" \in DOMAIN h /\ "peak" \in DOMAIN h /\ DOMAIN h = Registers
      /\ "none" \notin Registers /\ \A c \in Controls : c \in DOMAIN h /\ c # "bitrate" /\ c # "peak"
  BY ControlsApart DEF OnCard, Registers, Encoder
<1>4. ASSUME NEW ws, NEW n \in 0 .. 4,
             \A k \in 1 .. 4 : ws[k][1] \in {"none", "bitrate", "peak"}
      PROVE  /\ DOMAIN After(h, ws, n) = Registers
             /\ After(h, ws, n) = [r \in DOMAIN After(h, ws, n) |-> After(h, ws, n)[r]]
             /\ Elsewhere(h, After(h, ws, n), {"bitrate", "peak"})
             /\ \A c \in Controls : After(h, ws, n)[c] = h[c]
  <2>1. \A k \in 1 .. n : k \in 1 .. 4 OBVIOUS
  <2>2. \A r \in Registers \ {"bitrate", "peak"} : After(h, ws, n)[r] = h[r]
    <3> SUFFICES ASSUME NEW r \in Registers \ {"bitrate", "peak"} PROVE After(h, ws, n)[r] = h[r]
      OBVIOUS
    <3>1. \A k \in 1 .. n : ws[k][1] # r BY <1>3, <1>4, <2>1
    <3> QED BY <1>3, <3>1, AfterLeaves
  <2> QED BY <1>3, <2>2, AfterDomain DEF Elsewhere
<1>5. ASSUME NEW ws, Len(ws) = 4, DOMAIN ws = 1 .. 4, e \in Ends(h, ws),
             \A k \in 1 .. 4 : ws[k][1] \in {"none", "bitrate", "peak"},
             \A n \in 0 .. 4 : /\ After(h, ws, n).bitrate \in Int /\ After(h, ws, n).peak \in Int
                               /\ After(h, ws, n).bitrate <= After(h, ws, n).peak,
             After(h, ws, 4).bitrate = p.bitrate, After(h, ws, 4).peak = p.peak
      PROVE  /\ OnCard(e.hw) /\ e.ret \in {"ok", "EBUSY", "EIO"}
             /\ Elsewhere(h, e.hw, {"bitrate", "peak"})
             /\ e.ret = "ok" => e.hw["bitrate"] = p.bitrate /\ e.hw["peak"] = p.peak
  <2>1. \A n \in 0 .. 4 : OnCard(After(h, ws, n)) /\ Elsewhere(h, After(h, ws, n), {"bitrate", "peak"})
    <3> SUFFICES ASSUME NEW n \in 0 .. 4
                 PROVE  OnCard(After(h, ws, n)) /\ Elsewhere(h, After(h, ws, n), {"bitrate", "peak"})
      OBVIOUS
    <3>1. PICK g : g = After(h, ws, n) OBVIOUS
    <3>2. /\ DOMAIN g = Registers /\ g = [r \in DOMAIN g |-> g[r]]
          /\ Elsewhere(h, g, {"bitrate", "peak"}) /\ \A c \in Controls : g[c] = h[c]
      BY <1>4, <1>5, <3>1
    <3>3. g.bitrate \in Int /\ g.peak \in Int /\ g.bitrate <= g.peak BY <1>5, <3>1
    <3>4. Accepts(g) BY <3>2, <3>3 DEF OnCard, Accepts
    <3>5. OnCard(g) BY <3>2, <3>3, <3>4 DEF OnCard
    <3> QED BY <3>1, <3>2, <3>5
  <2>2. \A n \in 1 .. 4 : ~HasNot(ws[n][1]) /\ Accepts(After(h, ws, n))
    <3>1. \A n \in 1 .. 4 : n \in 0 .. 4 OBVIOUS
    <3>2. {"none", "bitrate", "peak"} \cap Controls = {} BY ControlsApart DEF Encoder
    <3>3. \A n \in 1 .. 4 : ws[n][1] \notin Controls BY <1>5, <3>2
    <3> QED BY <2>1, <3>1, <3>3 DEF OnCard, HasNot
  <2>3. \/ e.ret = "ok" /\ e.hw = After(h, ws, 4)
        \/ e.ret \in {"EBUSY", "EIO"} /\ \E n \in 0 .. 4 - 1 : e.hw = After(h, ws, n)
    <3>1. Len(ws) \in Nat BY <1>5
    <3> QED BY <1>5, <2>2, <3>1, EndsThen
  <2>4. 4 \in 0 .. 4 /\ \A n \in 0 .. 4 - 1 : n \in 0 .. 4 OBVIOUS
  <2> QED BY <1>5, <2>1, <2>3, <2>4
<1>6. CASE p.peak < h.peak
  <2>1. /\ Len(down) = 4 /\ DOMAIN down = 1 .. 4
        /\ down[1][1] = "none" /\ down[2][1] = "none" /\ down[3][1] = "bitrate" /\ down[4][1] = "peak"
        /\ down[3][2] = p.bitrate /\ down[4][2] = p.peak
    BY DEF Read
  <2>2. e \in Ends(h, down) BY <1>6 DEF video_set_video_bitrate
  <2> HIDE DEF down, p
  <2>3. \A k \in 1 .. 4 : down[k][1] \in {"none", "bitrate", "peak"} BY <2>1
  <2>4. \A n \in 0 .. 2 : After(h, down, n).bitrate = h.bitrate /\ After(h, down, n).peak = h.peak
    <3> SUFFICES ASSUME NEW n \in 0 .. 2
                 PROVE  After(h, down, n).bitrate = h.bitrate /\ After(h, down, n).peak = h.peak
      OBVIOUS
    <3>1. \A k \in 1 .. n : down[k][1] = "none" BY <2>1
    <3> QED BY <1>3, <3>1, AfterLeaves
  <2>5. After(h, down, 3).bitrate = p.bitrate /\ After(h, down, 3).peak = h.peak
    <3>1. \A k \in (3 + 1) .. 3 : down[k][1] # "bitrate" OBVIOUS
    <3>2. \A k \in 1 .. 3 : down[k][1] # "peak" BY <2>1
    <3> QED BY <1>3, <2>1, <3>1, <3>2, AfterWrites, AfterLeaves
  <2>6. After(h, down, 4).bitrate = p.bitrate /\ After(h, down, 4).peak = p.peak
    <3>1. \A k \in (3 + 1) .. 4 : down[k][1] # "bitrate" BY <2>1
    <3>2. \A k \in (4 + 1) .. 4 : down[k][1] # "peak" OBVIOUS
    <3> QED BY <1>3, <2>1, <3>1, <3>2, AfterWrites
  <2>7. \A n \in 0 .. 4 : /\ After(h, down, n).bitrate \in Int /\ After(h, down, n).peak \in Int
                          /\ After(h, down, n).bitrate <= After(h, down, n).peak
    <3>1. \A n \in 0 .. 4 : n \in 0 .. 2 \/ n = 3 \/ n = 4 OBVIOUS
    <3>2. p.bitrate <= h.peak BY <1>1, <1>2, <1>6
    <3> QED BY <1>1, <1>2, <2>4, <2>5, <2>6, <3>1, <3>2
  <2>8. /\ OnCard(e.hw) /\ e.ret \in {"ok", "EBUSY", "EIO"}
        /\ Elsewhere(h, e.hw, {"bitrate", "peak"})
        /\ e.ret = "ok" => e.hw["bitrate"] = p.bitrate /\ e.hw["peak"] = p.peak
    BY <1>5, <2>1, <2>2, <2>3, <2>6, <2>7
  <2> QED BY <2>8 DEF p
<1>7. CASE ~(p.peak < h.peak)
  <2>1. /\ Len(up) = 4 /\ DOMAIN up = 1 .. 4
        /\ up[1][1] = "none" /\ up[2][1] = "none" /\ up[3][1] = "peak" /\ up[4][1] = "bitrate"
        /\ up[3][2] = p.peak /\ up[4][2] = p.bitrate
    BY DEF Read
  <2>2. e \in Ends(h, up) BY <1>7 DEF video_set_video_bitrate
  <2> HIDE DEF up, p
  <2>3. \A k \in 1 .. 4 : up[k][1] \in {"none", "bitrate", "peak"} BY <2>1
  <2>4. \A n \in 0 .. 2 : After(h, up, n).bitrate = h.bitrate /\ After(h, up, n).peak = h.peak
    <3> SUFFICES ASSUME NEW n \in 0 .. 2
                 PROVE  After(h, up, n).bitrate = h.bitrate /\ After(h, up, n).peak = h.peak
      OBVIOUS
    <3>1. \A k \in 1 .. n : up[k][1] = "none" BY <2>1
    <3> QED BY <1>3, <3>1, AfterLeaves
  <2>5. After(h, up, 3).bitrate = h.bitrate /\ After(h, up, 3).peak = p.peak
    <3>1. \A k \in (3 + 1) .. 3 : up[k][1] # "peak" OBVIOUS
    <3>2. \A k \in 1 .. 3 : up[k][1] # "bitrate" BY <2>1
    <3> QED BY <1>3, <2>1, <3>1, <3>2, AfterWrites, AfterLeaves
  <2>6. After(h, up, 4).bitrate = p.bitrate /\ After(h, up, 4).peak = p.peak
    <3>1. \A k \in (3 + 1) .. 4 : up[k][1] # "peak" BY <2>1
    <3>2. \A k \in (4 + 1) .. 4 : up[k][1] # "bitrate" OBVIOUS
    <3> QED BY <1>3, <2>1, <3>1, <3>2, AfterWrites
  <2>7. \A n \in 0 .. 4 : /\ After(h, up, n).bitrate \in Int /\ After(h, up, n).peak \in Int
                          /\ After(h, up, n).bitrate <= After(h, up, n).peak
    <3>1. \A n \in 0 .. 4 : n \in 0 .. 2 \/ n = 3 \/ n = 4 OBVIOUS
    <3>2. h.bitrate <= p.peak BY <1>1, <1>2, <1>7
    <3> QED BY <1>1, <1>2, <2>4, <2>5, <2>6, <3>1, <3>2
  <2>8. /\ OnCard(e.hw) /\ e.ret \in {"ok", "EBUSY", "EIO"}
        /\ Elsewhere(h, e.hw, {"bitrate", "peak"})
        /\ e.ret = "ok" => e.hw["bitrate"] = p.bitrate /\ e.hw["peak"] = p.peak
    BY <1>5, <2>1, <2>2, <2>3, <2>6, <2>7
  <2> QED BY <2>8 DEF p
<1> QED BY <1>6, <1>7

-----------------------------------------------------------------------------
(* The controls. *)

\* A number between two others, by whatever name.
LEMMA Between ==
    ASSUME NEW lo \in Int, NEW hi \in Int, NEW y \in Int, lo <= y, y <= hi, NEW x, x = y
    PROVE  x \in lo .. hi
<1>1. y \in lo .. hi OBVIOUS
<1> QED BY <1>1, Zenon

\* A step of a range is a number.
LEMMA DenormInt ==
    ASSUME NEW val \in Int, NEW lo \in Int, NEW hi \in Int, NEW step \in Nat \ {0}
    PROVE  _denorm(val, lo, hi, step) \in Int
<1>1. PICK x \in Int : x = 2 * (val + 50) * (hi - lo) + 100 OBVIOUS
<1>2. PICK v \in Int : v = (x \div 200) + lo BY <1>1
<1>3. PICK q \in Int : q = v \div step BY <1>2
<1>4. q * step \in Int BY <1>3
<1>5. _denorm(val, lo, hi, step) = q * step BY <1>1, <1>2, <1>3 DEF _denorm
<1> QED BY <1>4, <1>5

\* The whole of a range is covered, and no more, in steps of one or of 655.
LEMMA DenormInRange ==
    ASSUME NEW val \in -50 .. 50
    PROVE  /\ 0 <= _denorm(val, 0, 255, 1) /\ _denorm(val, 0, 255, 1) <= 255
           /\ 0 <= _denorm(val, 0, 127, 1) /\ _denorm(val, 0, 127, 1) <= 127
           /\ -128 <= _denorm(val, -128, 127, 1) /\ _denorm(val, -128, 127, 1) <= 127
           /\ 0 <= _denorm(val, 0, 65535, 655) /\ _denorm(val, 0, 65535, 655) <= 65535
<1>1. 0 <= _denorm(val, 0, 255, 1) /\ _denorm(val, 0, 255, 1) <= 255 BY DEF _denorm
<1>2. 0 <= _denorm(val, 0, 127, 1) /\ _denorm(val, 0, 127, 1) <= 127 BY DEF _denorm
<1>3. -128 <= _denorm(val, -128, 127, 1) /\ _denorm(val, -128, 127, 1) <= 127 BY DEF _denorm
<1>4. 0 <= _denorm(val, 0, 65535, 655) /\ _denorm(val, 0, 65535, 655) <= 65535
  <2>1. PICK x \in Int : x = 131070 * val + 6553600 OBVIOUS
  <2>2. x >= 100 /\ x <= 13107100 BY <2>1
  <2>3. PICK v \in Int : v = x \div 200 BY <2>1
  <2>4. v >= 0 /\ v <= 65535
    <3>1. 200 * v <= x /\ x < 200 * v + 200 BY <2>1, <2>3
    <3> QED BY <2>2, <3>1
  <2>5. PICK q \in Int : q = v \div 655 BY <2>3
  <2>6. 655 * q <= v /\ v < 655 * q + 655 BY <2>3, <2>5
  <2>7. q * 655 >= 0 /\ q * 655 <= 65535 BY <2>4, <2>6
  <2>8. 2 * (val + 50) * (65535 - 0) + 100 = x BY <2>1
  <2>9. _denorm(val, 0, 65535, 655) = q * 655 BY <2>3, <2>5, <2>8 DEF _denorm
  <2> QED BY <2>7, <2>9
<1> QED BY <1>1, <1>2, <1>3, <1>4

\* A value a command or the configuration may give is one the driver takes.
LEMMA LevelInRange ==
    ASSUME NEW c \in DOMAIN Limits, NEW val \in Int, InRange(c, val)
    PROVE  Level(c, val) \in Limits[c][1] .. Limits[c][2]
<1>1. c \in {"brightness", "contrast", "saturation", "hue", "bass", "treble", "volume", "loudness"}
  BY DEF Limits
<1>2. PICK lo \in Int : Limits[c][1] = lo BY DEF Limits
<1>3. PICK hi \in Int : Limits[c][2] = hi BY DEF Limits
<1>4. \E y \in Int : Level(c, val) = y /\ lo <= y /\ y <= hi
  <2>1. CASE c = "volume"
    <3>1. val \in 0 .. 100 BY <2>1 DEF InRange
    <3>2. Level(c, val) = val * 655 BY <2>1 DEF Level
    <3>3. lo = 0 /\ hi = 65535 BY <1>2, <1>3, <2>1 DEF Limits
    <3>4. val * 655 \in Int /\ lo <= val * 655 /\ val * 655 <= hi BY <3>1, <3>3
    <3> QED BY <3>2, <3>4
  <2>2. CASE c = "loudness"
    <3>1. Level(c, val) = 0 \/ Level(c, val) = 1 BY <2>2 DEF Level
    <3>2. lo = 0 /\ hi = 1 BY <1>2, <1>3, <2>2 DEF Limits
    <3> QED BY <3>1, <3>2
  <2>3. CASE c # "volume" /\ c # "loudness"
    <3>1. val \in -50 .. 50 BY <2>3 DEF InRange
    <3>2. PICK y \in Int : y = _denorm(val, Limits[c][1], Limits[c][2], Limits[c][3])
      <4>1. Limits[c][1] \in Int /\ Limits[c][2] \in Int /\ Limits[c][3] \in Nat \ {0}
        BY DEF Limits
      <4> QED BY <4>1, DenormInt
    <3>3. Level(c, val) = y BY <2>3, <3>2 DEF Level
    <3>4. CASE c = "brightness"
      <4>1. lo = 0 /\ hi = 255 /\ Limits[c][3] = 1 BY <1>2, <1>3, <3>4 DEF Limits
      <4>2. y = _denorm(val, 0, 255, 1) BY <1>2, <1>3, <3>2, <4>1
      <4> QED BY <3>1, <3>3, <4>1, <4>2, DenormInRange
    <3>5. CASE c \in {"contrast", "saturation"}
      <4>1. lo = 0 /\ hi = 127 /\ Limits[c][3] = 1 BY <1>2, <1>3, <3>5 DEF Limits
      <4>2. y = _denorm(val, 0, 127, 1) BY <1>2, <1>3, <3>2, <4>1
      <4> QED BY <3>1, <3>3, <4>1, <4>2, DenormInRange
    <3>6. CASE c = "hue"
      <4>1. lo = -128 /\ hi = 127 /\ Limits[c][3] = 1 BY <1>2, <1>3, <3>6 DEF Limits
      <4>2. y = _denorm(val, -128, 127, 1) BY <1>2, <1>3, <3>2, <4>1
      <4> QED BY <3>1, <3>3, <4>1, <4>2, DenormInRange
    <3>7. CASE c \in {"bass", "treble"}
      <4>1. lo = 0 /\ hi = 65535 /\ Limits[c][3] = 655 BY <1>2, <1>3, <3>7 DEF Limits
      <4>2. y = _denorm(val, 0, 65535, 655) BY <1>2, <1>3, <3>2, <4>1
      <4> QED BY <3>1, <3>3, <4>1, <4>2, DenormInRange
    <3> QED BY <1>1, <2>3, <3>4, <3>5, <3>6, <3>7
  <2> QED BY <2>1, <2>2, <2>3
<1>5. Level(c, val) \in lo .. hi BY <1>4, Between
<1> QED BY <1>2, <1>3, <1>5, Zenon

\* Calls that write controls, each in its range, and nothing else on the card.
SetsControls(ws, n) == \A k \in 1 .. n :
    /\ ws[k][1] \notin Registers \ Controls
    /\ ws[k][1] \in Controls => ws[k][2] \in Limits[ws[k][1]][1] .. Limits[ws[k][1]][2]

\* They leave a card the driver accepts, and the rest of it as it was.
LEMMA AfterControls ==
    ASSUME NEW h, OnCard(h), NEW ws, NEW n \in Nat, SetsControls(ws, n)
    PROVE  OnCard(After(h, ws, n)) /\ Elsewhere(h, After(h, ws, n), Controls)
<1>1. PICK g : g = After(h, ws, n) OBVIOUS
<1>2. DOMAIN g = Registers /\ g = [r \in DOMAIN g |-> g[r]] BY <1>1, AfterDomain DEF OnCard
<1>3. \A r \in Registers \ Controls : g[r] = h[r]
  <2> SUFFICES ASSUME NEW r \in Registers \ Controls PROVE g[r] = h[r] OBVIOUS
  <2>1. \A k \in 1 .. n : ws[k][1] # r BY DEF SetsControls
  <2> QED BY <1>1, <2>1, AfterLeaves DEF OnCard
<1>4. \A c \in Controls : g[c] \in Limits[c][1] .. Limits[c][2]
  <2> SUFFICES ASSUME NEW c \in Controls PROVE g[c] \in Limits[c][1] .. Limits[c][2] OBVIOUS
  <2>1. c \in DOMAIN h BY DEF OnCard, Registers
  <2>2. h[c] \in Limits[c][1] .. Limits[c][2] BY DEF OnCard, Accepts
  <2>3. \/ g[c] = h[c] \/ \E k \in 1 .. n : ws[k][1] = c /\ g[c] = ws[k][2]
    BY <1>1, <2>1, AfterSome
  <2> QED BY <2>2, <2>3 DEF SetsControls
<1>5. "bitrate" \in Registers \ Controls /\ "peak" \in Registers \ Controls
  BY ControlsApart DEF Registers, Encoder
<1>6. g.bitrate = h.bitrate /\ g.peak = h.peak BY <1>3, <1>5
<1>7. Accepts(g) BY <1>4, <1>6 DEF OnCard, Accepts
<1>8. OnCard(g) BY <1>2, <1>6, <1>7 DEF OnCard
<1> QED BY <1>1, <1>3, <1>8 DEF Elsewhere

\* The command that sets a control is not refused the value, if it is told perhaps
\* that the card has no such control.
LEMMA EndsControl ==
    ASSUME NEW h, OnCard(h), NEW c \in DOMAIN Limits, NEW v,
           v \in Limits[c][1] .. Limits[c][2],
           NEW e \in Ends(h, <<<<c, v>>>>)
    PROVE  /\ OnCard(e.hw) /\ Elsewhere(h, e.hw, Controls)
           /\ e.ret \in {"ok", "EINVAL", "EBUSY", "EIO"}
<1> DEFINE ws == <<<<c, v>>>>
<1>1. Len(ws) = 1 /\ DOMAIN ws = 1 .. 1 /\ ws[1][1] = c /\ ws[1][2] = v OBVIOUS
<1>2. e \in Ends(h, ws) OBVIOUS
<1> HIDE DEF ws
<1>3. c \notin Registers \ Controls BY DEF Limits, Registers, Encoder
<1>4. \A n \in 0 .. 1 : SetsControls(ws, n) BY <1>1, <1>3 DEF SetsControls
<1>5. \A n \in 0 .. 1 : OnCard(After(h, ws, n)) /\ Elsewhere(h, After(h, ws, n), Controls)
  BY <1>4, AfterControls
<1>6. CASE ~HasNot(c)
  <2>1. \A n \in 1 .. Len(ws) : ~HasNot(ws[n][1]) /\ Accepts(After(h, ws, n))
    BY <1>1, <1>5, <1>6 DEF OnCard
  <2>2. Len(ws) \in Nat /\ DOMAIN ws = 1 .. Len(ws) BY <1>1
  <2>3. \/ e.ret = "ok" /\ e.hw = After(h, ws, Len(ws))
        \/ e.ret \in {"EBUSY", "EIO"} /\ \E n \in 0 .. Len(ws) - 1 : e.hw = After(h, ws, n)
    BY <1>2, <2>1, <2>2, EndsThen
  <2>4. Len(ws) \in 0 .. 1 /\ \A n \in 0 .. Len(ws) - 1 : n \in 0 .. 1 BY <1>1
  <2> QED BY <1>5, <2>3, <2>4
<1>7. CASE HasNot(c)
  <2>1. {n \in DOMAIN ws : HasNot(ws[n][1]) \/ ~Accepts(After(h, ws, n))} = {1}
    BY <1>1, <1>7
  <2>2. Refusal(h, ws) = 1 BY <2>1 DEF Refusal
  <2> DEFINE none == [hw |-> After(h, ws, 0), ret |-> "EINVAL"]
             some == {After(h, ws, n - 1) : n \in 1 .. 1}
  <2>3. Ends(h, ws) = {none} \cup [hw : some, ret : {"EBUSY", "EIO"}]
    BY <1>1, <1>7, <2>2 DEF Ends
  <2>4. e.hw \in {After(h, ws, 0)} \cup some /\ e.ret \in {"EINVAL", "EBUSY", "EIO"}
    BY <1>2, <2>3
  <2>5. e.hw = After(h, ws, 0) BY <2>4
  <2>6. 0 \in 0 .. 1 OBVIOUS
  <2> QED BY <1>5, <2>4, <2>5, <2>6
<1> QED BY <1>6, <1>7

\* setup_audio_image_controls, whatever the card lacks and fails to set.
LEMMA AfterSettings ==
    ASSUME NEW h, OnCard(h), NEW bad
    PROVE  OnCard(After(h, Settings(bad), 8)) /\ Elsewhere(h, After(h, Settings(bad), 8), Controls)
<1>1. ASSUME NEW k \in 1 .. 8
      PROVE  \/ Settings(bad)[k] = Read
             \/ \E c \in Controls : Settings(bad)[k] = <<c, Level(c, card_control[c])>>
  BY DEF Settings, Configured
<1>2. \A c \in Controls : Level(c, card_control[c]) \in Limits[c][1] .. Limits[c][2]
  BY ControlsConfigured, LevelInRange
<1>3. "none" \notin Registers \ Controls /\ "none" \notin Controls
  BY ControlsApart DEF Registers, Encoder
<1>4. SetsControls(Settings(bad), 8)
  <2> SUFFICES ASSUME NEW k \in 1 .. 8, NEW w, w = Settings(bad)[k]
               PROVE  /\ w[1] \notin Registers \ Controls
                      /\ w[1] \in Controls => w[2] \in Limits[w[1]][1] .. Limits[w[1]][2]
    BY DEF SetsControls
  <2>1. CASE w = Read
    <3>1. w[1] = "none" BY <2>1 DEF Read
    <3> QED BY <1>3, <3>1
  <2>2. CASE w # Read
    <3>1. PICK c \in Controls : w = <<c, Level(c, card_control[c])>> BY <1>1, <2>2
    <3>2. w[1] = c /\ w[2] = Level(c, card_control[c]) BY <3>1
    <3> QED BY <1>2, <3>2
  <2> QED BY <2>1, <2>2
<1> QED BY <1>4, AfterControls

-----------------------------------------------------------------------------
(* Descriptors. *)

\* What is open and belongs to no one any more.
Leaked == DOMAIN fds \ {fd, fdtuner, cmd.fd}

\* What the thread is busy with when it is where.
Busy ==
    /\ pc # "down" => job.for \in {"start", "rec"}
    /\ pc \in {"opentuner", "switch", "station", "script", "capture"} => job.for = "rec"
    /\ pc = "controls" => job.for = "start"
    /\ pc = "down" \/ (job.for = "start" /\ pc # "idle") => cmd = NoCmd

\* Every number stands for a descriptor of its own, or for none.
Numbered ==
    /\ DOMAIN fds \subseteq Numbers
    /\ {fd, fdtuner, cmd.fd} \subseteq DOMAIN fds \cup {NoFd}
    /\ cmd.fd # NoFd => cmd.fd # fd /\ cmd.fd # fdtuner

\* Which descriptors the thread holds where.
Holds ==
    /\ pc \in {"down", "idle", "failed", "open", "controls"} => fd = NoFd /\ fdtuner = NoFd
    /\ pc \in {"opentuner", "capture"} => fd # NoFd /\ fdtuner = NoFd
    /\ pc \in {"switch", "station", "script"} => fd # NoFd /\ fdtuner # NoFd
    /\ pc \in {"rates", "audio", "aspect", "size", "release"} =>
           fd # NoFd /\ (job.for = "rec" <=> fdtuner # NoFd)
    /\ pc = "opentuner" => conf.tuner
    /\ pc # "down" /\ fdtuner \notin {NoFd, fd} => conf.tuner
    /\ pc = "station" => conf.external_switch /\ conf.external_input = tuner_input_index

\* Nothing is lost but in the one way that FailsCleanly names.
Closes ==
    /\ Leaked # {} => NoStationGiven /\ conf.tuner
    /\ pc = "down" \/ (job.for = "start" /\ pc = "failed") => DOMAIN fds = {}

\* There is room for what the recording and a command may still open.
Room ==
    /\ \E a \in Numbers : a \notin Leaked
    /\ pc \notin {"idle", "failed"} =>
           \E a, b, c \in Numbers : {a, b, c} \cap Leaked = {} /\ a # b /\ a # c /\ b # c

Open == Busy /\ Numbered /\ Holds /\ Closes /\ Room

\* There is a number to open when not all are taken: the lowest.
LEMMA FreeFdFree ==
    ASSUME NEW a \in Numbers, a \notin DOMAIN fds
    PROVE  FreeFd \in Numbers /\ FreeFd \notin DOMAIN fds
<1> DEFINE S == Numbers \ DOMAIN fds
<1>1. Numbers \subseteq Nat BY SomeDescriptors DEF Numbers
<1>2. S \subseteq Nat /\ S # {} BY <1>1
<1>3. PICK i \in S : \A k \in S : i <= k
  <2> HIDE DEF S
  <2> QED BY <1>2, Least
<1>4. \A k \in 3 .. (i - 1) : k \in DOMAIN fds
  <2> SUFFICES ASSUME NEW k \in 3 .. (i - 1) PROVE k \in DOMAIN fds OBVIOUS
  <2>1. i \in Int /\ i <= MaxFd BY <1>3, SomeDescriptors DEF Numbers
  <2>2. k \in Numbers /\ ~(i <= k) BY <2>1, SomeDescriptors DEF Numbers
  <2> QED BY <1>3, <2>2
<1>5. \E n \in Numbers : n \notin DOMAIN fds /\ \A k \in 3 .. (n - 1) : k \in DOMAIN fds
  BY <1>3, <1>4
<1> QED BY <1>5 DEF FreeFd

\* No descriptor is the one that says there is none.
LEMMA NoFdApart == NoFd \notin Numbers
BY DEF NoFd, Numbers

\* A card nobody uses, at first.
LEMMA OpenAtFirst == Init => Open
<1> SUFFICES ASSUME Init PROVE Open OBVIOUS
<1>1. /\ fds = <<>> /\ fd = NoFd /\ fdtuner = NoFd /\ pc = "down" /\ cmd = NoCmd
      /\ cmd.fd = NoFd
  BY DEF Init, NoCmd
<1>2. DOMAIN fds = {} BY <1>1
<1>3. {3, 4, 5} \subseteq Numbers BY SomeDescriptors DEF Numbers
<1>4. Busy BY <1>1 DEF Busy
<1>5. Numbered BY <1>1, <1>2 DEF Numbered
<1>6. Holds BY <1>1 DEF Holds
<1>7. Closes BY <1>1, <1>2 DEF Closes, Leaked
<1>8. Leaked = {} BY <1>2 DEF Leaked
<1>9. Room BY <1>3, <1>8 DEF Room
<1> QED BY <1>4, <1>5, <1>6, <1>7, <1>9 DEF Open

\* Three numbers are free when a recording starts.
LEMMA ThreeFree ==
    ASSUME Cardinality(Numbers \ DOMAIN fds) >= 3
    PROVE  \E a, b, c \in Numbers \ DOMAIN fds : a # b /\ a # c /\ b # c
<1> DEFINE S == Numbers \ DOMAIN fds
<1>1. IsFiniteSet(S)
  <2>1. IsFiniteSet(3 .. MaxFd) BY SomeDescriptors, FS_Interval
  <2> QED BY <2>1, FS_Subset DEF Numbers
<1> HIDE DEF S
<1>2. Cardinality(S) >= 3 BY DEF S
<1>3. PICK a \in S : TRUE
  <2>1. S # {} BY <1>2, FS_EmptySet
  <2> QED BY <2>1
<1>4. Cardinality(S \ {a}) = Cardinality(S) - 1 /\ IsFiniteSet(S \ {a})
  BY <1>1, <1>3, FS_RemoveElement
<1>5. Cardinality(S) \in Nat BY <1>1, FS_CardinalityType
<1>6. PICK b \in S \ {a} : TRUE
  <2>1. Cardinality(S \ {a}) # 0 BY <1>2, <1>4, <1>5
  <2>2. S \ {a} # {} BY <2>1, FS_EmptySet
  <2> QED BY <2>2
<1>7. Cardinality((S \ {a}) \ {b}) = Cardinality(S \ {a}) - 1
  BY <1>4, <1>6, FS_RemoveElement
<1>8. PICK c \in (S \ {a}) \ {b} : TRUE
  <2>1. Cardinality((S \ {a}) \ {b}) # 0 BY <1>2, <1>4, <1>5, <1>7
  <2>2. (S \ {a}) \ {b} # {} BY <2>1, FS_EmptySet
  <2> QED BY <2>2
<1> QED BY <1>3, <1>6, <1>8 DEF S

\* A step of the thread that opens and closes nothing.
LEMMA OpenMoves ==
    ASSUME Open, UNCHANGED <<fds, fd, fdtuner, cmd, conf>>, Busy', Holds',
           pc' = "down" \/ (job'.for = "start" /\ pc' = "failed") => DOMAIN fds = {},
           pc' \notin {"idle", "failed"} => pc \notin {"idle", "failed"}
    PROVE  Open'
<1>1. Leaked' = Leaked BY DEF Leaked
<1>2. Numbered' BY DEF Open, Numbered
<1>3. Closes' BY <1>1 DEF Open, Closes, NoStationGiven
<1>4. Room' BY <1>1 DEF Open, Room
<1> QED BY <1>2, <1>3, <1>4 DEF Open

\* Giving up closes what the thread held, but for the encoder in one case.
LEMMA OpenGivesUp ==
    ASSUME Open, NEW ns, ns \subseteq {fd, fdtuner}, GiveUp(ns), Still,
           pc \notin {"down", "idle", "failed"},
           \/ {fd, fdtuner} \cap DOMAIN fds \subseteq ns
           \/ {fdtuner} = ns /\ NoStationGiven /\ (fd # fdtuner => conf.tuner) /\ job.for = "rec"
    PROVE  Open'
<1>1. /\ fd' = NoFd /\ fdtuner' = NoFd /\ pc' = "failed" /\ job' = job
      /\ conf' = conf /\ cmd' = cmd
  BY DEF GiveUp, Still, Goto
<1>2. DOMAIN fds' = IF job.for = "start" THEN {} ELSE DOMAIN fds \ ns
  BY DEF GiveUp, Closed
<1>3. NoFd \notin DOMAIN fds BY NoFdApart DEF Open, Numbered
<1>4. job.for \in {"start", "rec"} /\ (job.for = "start" => cmd = NoCmd) BY DEF Open, Busy
<1>5. cmd = NoCmd => cmd.fd = NoFd BY DEF NoCmd
<1>6. Busy' BY <1>1, <1>4 DEF Busy
<1>7. cmd.fd # NoFd => cmd.fd \in DOMAIN fds /\ cmd.fd # fd /\ cmd.fd # fdtuner
  BY DEF Open, Numbered
<1>8. Numbered'
  <2>1. cmd.fd # NoFd => cmd.fd \notin ns BY <1>7
  <2> QED BY <1>1, <1>2, <1>4, <1>5, <1>7, <2>1 DEF Open, Numbered
<1>9. Holds' BY <1>1 DEF Holds
<1>10. ASSUME NEW a, NEW b, NEW c, {a, b, c} \cap Leaked = {}, {a, b, c} \subseteq Numbers,
              a # b, a # c, b # c, Leaked' \subseteq Leaked \cup {fd}
       PROVE  Room'
  <2>1. \E x \in Numbers : x \notin Leaked' BY <1>10
  <2> QED BY <1>1, <2>1 DEF Room
<1>11. Leaked' \subseteq Leaked \cup {fd} /\ (Leaked' # {} => NoStationGiven /\ conf.tuner)
  <2>1. Leaked' = DOMAIN fds' \ {NoFd, cmd.fd} BY <1>1 DEF Leaked
  <2>2. CASE job.for = "start" BY <1>2, <2>1, <2>2
  <2>3. CASE job.for = "rec" /\ {fd, fdtuner} \cap DOMAIN fds \subseteq ns
    <3>1. Leaked' \subseteq Leaked BY <1>2, <2>1, <2>3 DEF Leaked
    <3> QED BY <3>1 DEF Open, Closes
  <2>4. CASE /\ job.for = "rec"
             /\ {fdtuner} = ns /\ NoStationGiven /\ (fd # fdtuner => conf.tuner)
    <3>1. Leaked' \subseteq Leaked \cup {fd} BY <1>2, <2>1, <2>4 DEF Leaked
    <3>2. CASE fd = fdtuner
      <4>1. Leaked' \subseteq Leaked BY <1>2, <2>1, <2>4, <3>2 DEF Leaked
      <4> QED BY <3>1, <4>1 DEF Open, Closes
    <3>3. CASE fd # fdtuner BY <2>4, <3>1, <3>3
    <3> QED BY <3>2, <3>3
  <2> QED BY <1>4, <2>2, <2>3, <2>4
<1>12. Closes'
  <2>1. NoStationGiven' <=> NoStationGiven BY <1>1 DEF NoStationGiven
  <2> QED BY <1>1, <1>2, <1>4, <1>11, <2>1 DEF Closes
<1>13. Room'
  <2>1. PICK a, b, c \in Numbers : {a, b, c} \cap Leaked = {} /\ a # b /\ a # c /\ b # c
    BY DEF Open, Room
  <2> QED BY <1>10, <1>11, <2>1
<1> QED BY <1>6, <1>8, <1>9, <1>12, <1>13 DEF Open

\* How a call with its retries ends.
LEMMA TryEnds ==
    ASSUME NEW ws, NEW next, Try(ws, next)
    PROVE  /\ Still
           /\ \/ UNCHANGED <<fds, held, job>> /\ pc' \in {next, pc}
              \/ GiveUp({fd, fdtuner})
BY DEF Try, Goto, held

\* One more can be opened before the thread has both of its own.
LEMMA RoomForTheThread ==
    ASSUME Open, pc \in {"open", "opentuner"}
    PROVE  FreeFd \in Numbers /\ FreeFd \notin DOMAIN fds
<1>1. PICK a, b, c \in Numbers : {a, b, c} \cap Leaked = {} /\ a # b /\ a # c /\ b # c
  BY DEF Open, Room
<1>2. fdtuner = NoFd BY DEF Open, Holds
<1>3. \A x \in Numbers : x \in DOMAIN fds => x \in Leaked \/ x = fd \/ x = cmd.fd
  BY <1>2, NoFdApart DEF Leaked
<1>4. \E x \in {a, b, c} : x # fd /\ x # cmd.fd BY <1>1
<1>5. \E x \in Numbers : x \notin DOMAIN fds BY <1>1, <1>3, <1>4
<1> QED BY <1>5, FreeFdFree

\* And one by a command, whatever the thread has.
LEMMA RoomForACommand ==
    ASSUME Open, cmd = NoCmd
    PROVE  FreeFd \in Numbers /\ FreeFd \notin DOMAIN fds
<1>1. cmd.fd = NoFd BY DEF NoCmd
<1>2. \A x \in Numbers : x \in DOMAIN fds => x \in Leaked \/ x = fd \/ x = fdtuner
  BY <1>1, NoFdApart DEF Leaked
<1>3. CASE pc \in {"idle", "failed"}
  <2>1. fd = NoFd /\ fdtuner = NoFd BY <1>3 DEF Open, Holds
  <2>2. \E x \in Numbers : x \notin DOMAIN fds
    BY <1>2, <2>1, NoFdApart DEF Open, Room
  <2> QED BY <2>2, FreeFdFree
<1>4. CASE pc \notin {"idle", "failed"}
  <2>1. PICK a, b, c \in Numbers : {a, b, c} \cap Leaked = {} /\ a # b /\ a # c /\ b # c
    BY <1>4 DEF Open, Room
  <2>2. \E x \in {a, b, c} : x # fd /\ x # fdtuner BY <2>1
  <2>3. \E x \in Numbers : x \notin DOMAIN fds BY <1>2, <2>1, <2>2
  <2> QED BY <2>3, FreeFdFree
<1> QED BY <1>3, <1>4

\* The thread opens the encoder or the tuner.
LEMMA ThreadOpens ==
    ASSUME Open, pc \in {"open", "opentuner"}, NEW dev, fds' = Opened(dev),
           UNCHANGED <<conf, cmd, job>>,
           pc' \notin {"down", "idle", "failed"},
           \/ pc = "open" /\ fd' = FreeFd /\ fdtuner' \in {NoFd, FreeFd}
           \/ pc = "opentuner" /\ fd' = fd /\ fdtuner' = FreeFd,
           Busy', Holds'
    PROVE  Open'
<1>1. PICK n : n = FreeFd OBVIOUS
<1>2. n \in Numbers /\ n \notin DOMAIN fds BY <1>1, RoomForTheThread
<1>3. DOMAIN fds' = DOMAIN fds \cup {n} BY <1>1 DEF Opened
<1>4. fdtuner = NoFd /\ (pc = "open" => fd = NoFd) /\ (pc = "opentuner" => fd # NoFd)
  BY DEF Open, Holds
<1>5. cmd.fd # n /\ fd # n
  <2>1. {fd, cmd.fd} \subseteq DOMAIN fds \cup {NoFd} BY DEF Open, Numbered
  <2>2. n # NoFd BY <1>2, NoFdApart
  <2> QED BY <1>2, <2>1, <2>2
<1>6. Numbered' BY <1>1, <1>2, <1>3, <1>4, <1>5 DEF Open, Numbered
<1>7. Leaked' = Leaked
  <2>1. NoFd \notin DOMAIN fds /\ NoFd # n BY <1>2, NoFdApart DEF Open, Numbered
  <2>2. CASE pc = "open" BY <1>1, <1>2, <1>3, <1>4, <2>1, <2>2 DEF Leaked
  <2>3. CASE pc = "opentuner" BY <1>1, <1>2, <1>3, <1>4, <2>1, <2>3 DEF Leaked
  <2> QED BY <2>2, <2>3
<1>8. Closes' BY <1>7 DEF Open, Closes, NoStationGiven
<1>9. Room' BY <1>7 DEF Open, Room
<1> QED BY <1>6, <1>8, <1>9 DEF Open

\* The thread closes some of what it holds and keeps the rest.
LEMMA ThreadCloses ==
    ASSUME Open, NEW ns, ns \subseteq {fd, fdtuner}, fds' = Closed(ns),
           UNCHANGED <<conf, cmd, job>>,
           pc \notin {"down", "idle", "failed"}, pc' \notin {"down", "failed"},
           fd' \in {fd, NoFd}, fdtuner' \in {fdtuner, NoFd},
           fd \in ns => fd' = NoFd, fdtuner \in ns => fdtuner' = NoFd,
           {fd, fdtuner} \cap DOMAIN fds \subseteq ns \cup {fd', fdtuner'},
           Busy', Holds'
    PROVE  Open'
<1>1. DOMAIN fds' = DOMAIN fds \ ns BY DEF Closed
<1>2. NoFd \notin DOMAIN fds BY NoFdApart DEF Open, Numbered
<1>3. cmd.fd # NoFd => cmd.fd \notin ns BY DEF Open, Numbered
<1>4. cmd'.fd = cmd.fd OBVIOUS
<1>5. Numbered'
  <2>1. DOMAIN fds' \subseteq Numbers BY <1>1 DEF Open, Numbered
  <2>2. fd' \in DOMAIN fds' \cup {NoFd} BY <1>1 DEF Open, Numbered
  <2>3. fdtuner' \in DOMAIN fds' \cup {NoFd} BY <1>1 DEF Open, Numbered
  <2>4. cmd.fd \in DOMAIN fds' \cup {NoFd} BY <1>1, <1>3 DEF Open, Numbered
  <2>5. cmd.fd # NoFd => cmd.fd # fd' /\ cmd.fd # fdtuner' BY DEF Open, Numbered
  <2> QED BY <1>4, <2>1, <2>2, <2>3, <2>4, <2>5 DEF Numbered
<1>6. Leaked' \subseteq Leaked
  <2>1. Leaked' = DOMAIN fds' \ {fd', fdtuner', cmd.fd} BY <1>4 DEF Leaked
  <2> QED BY <1>1, <1>2, <2>1 DEF Leaked
<1>7. Closes' BY <1>6 DEF Open, Closes, NoStationGiven
<1>8. Room'
  <2>1. PICK a, b, c \in Numbers : {a, b, c} \cap Leaked = {} /\ a # b /\ a # c /\ b # c
    BY DEF Open, Room
  <2>2. {a, b, c} \cap Leaked' = {} BY <1>6, <2>1
  <2> QED BY <2>1, <2>2 DEF Room
<1> QED BY <1>5, <1>7, <1>8 DEF Open

\* A command opens the card, and what it opens is its own.
LEMMA OpenByCommand ==
    ASSUME Open, NEW what, OpenCard(what)
    PROVE  Open'
<1>1. /\ cmd = NoCmd /\ Serving /\ UNCHANGED <<conf, fd, fdtuner, pc, job>>
      /\ \/ \E dev : fds' = Opened(dev) /\ cmd' = [what |-> what, fd |-> FreeFd]
         \/ UNCHANGED <<fds, cmd>>
  BY DEF OpenCard, TheRest
<1>2. CASE UNCHANGED <<fds, cmd>>
  <2>1. Busy' /\ Holds' BY <1>1, <1>2 DEF Open, Busy, Holds
  <2> QED BY <1>1, <1>2, <2>1, OpenMoves DEF Open, Closes
<1>3. ASSUME NEW dev, fds' = Opened(dev), cmd' = [what |-> what, fd |-> FreeFd]
      PROVE  Open'
  <2>1. PICK n : n = FreeFd OBVIOUS
  <2>2. n \in Numbers /\ n \notin DOMAIN fds BY <1>1, <2>1, RoomForACommand
  <2>3. DOMAIN fds' = DOMAIN fds \cup {n} /\ cmd'.fd = n /\ cmd.fd = NoFd
    BY <1>1, <1>3, <2>1 DEF Opened, NoCmd
  <2>4. n # NoFd /\ NoFd \notin DOMAIN fds BY <2>2, NoFdApart DEF Open, Numbered
  <2>5. n # fd /\ n # fdtuner BY <2>2, <2>4 DEF Open, Numbered
  <2>6. Busy' BY <1>1 DEF Open, Busy, Serving
  <2>7. Numbered' BY <1>1, <2>2, <2>3, <2>5 DEF Open, Numbered
  <2>8. Holds' BY <1>1 DEF Open, Holds
  <2>9. Leaked' = Leaked BY <1>1, <2>2, <2>3, <2>4 DEF Leaked
  <2>10. pc # "down" /\ (job.for = "start" => pc = "idle") BY <1>1 DEF Serving
  <2>11. Closes' BY <1>1, <2>9, <2>10 DEF Open, Closes, NoStationGiven
  <2>12. Room' BY <1>1, <2>9 DEF Open, Room
  <2> QED BY <2>6, <2>7, <2>8, <2>11, <2>12 DEF Open
<1> QED BY <1>1, <1>2, <1>3

\* A command that answers closes what it opened.
LEMMA OpenAnswers ==
    ASSUME Open, NEW ret, Answers(ret), pc # "down"
    PROVE  Open'
<1>1. /\ fds' = Closed({cmd.fd}) /\ cmd' = NoCmd /\ UNCHANGED <<conf, fd, fdtuner, pc, job>>
  BY DEF Answers, TheRest
<1>2. DOMAIN fds' = DOMAIN fds \ {cmd.fd} /\ cmd'.fd = NoFd BY <1>1 DEF Closed, NoCmd
<1>3. NoFd \notin DOMAIN fds BY NoFdApart DEF Open, Numbered
<1>4. Busy' BY <1>1 DEF Open, Busy
<1>5. Numbered'
  <2>1. fd \in DOMAIN fds' \cup {NoFd} BY <1>2 DEF Open, Numbered
  <2>2. fdtuner \in DOMAIN fds' \cup {NoFd} BY <1>2 DEF Open, Numbered
  <2> QED BY <1>1, <1>2, <2>1, <2>2 DEF Open, Numbered
<1>6. Holds' BY <1>1 DEF Open, Holds
<1>7. Leaked' = Leaked BY <1>1, <1>2, <1>3 DEF Leaked
<1>8. Closes' BY <1>1, <1>2, <1>7 DEF Open, Closes, NoStationGiven
<1>9. Room' BY <1>1, <1>7 DEF Open, Room
<1> QED BY <1>4, <1>5, <1>6, <1>8, <1>9 DEF Open

\* A command under way means that the server is up.
LEMMA CommandMeansUp ==
    ASSUME Open, cmd.what # "none"
    PROVE  pc # "down"
BY DEF Open, Busy, NoCmd

\* The death of the server closes everything.
LEMMA OpenDies == Open /\ Die => Open'
<1> SUFFICES ASSUME Open, Die PROVE Open' OBVIOUS
<1>1. /\ pc' = "down" /\ fds' = <<>> /\ fd' = NoFd /\ fdtuner' = NoFd /\ job' = NoJob
      /\ cmd' = NoCmd /\ conf' = conf
  BY DEF Die, Goto
<1>2. DOMAIN fds' = {} /\ cmd'.fd = NoFd BY <1>1 DEF NoCmd
<1>3. {3, 4, 5} \subseteq Numbers BY SomeDescriptors DEF Numbers
<1>4. Busy' BY <1>1 DEF Busy
<1>5. Numbered' BY <1>1, <1>2 DEF Numbered
<1>6. Holds' BY <1>1 DEF Holds
<1>7. Leaked' = {} BY <1>2 DEF Leaked
<1>8. Closes' BY <1>2, <1>7 DEF Closes
<1>9. Room' BY <1>3, <1>7 DEF Room
<1> QED BY <1>4, <1>5, <1>6, <1>8, <1>9 DEF Open

\* A recording begins when three numbers are free.
LEMMA OpenBegins ==
    ASSUME Open, NEW list, NEW channel, NEW input, StartRec(list, channel, input)
    PROVE  Open'
<1>1. /\ pc = "idle" /\ pc' = "open" /\ job'.for = "rec"
      /\ UNCHANGED <<fds, fd, fdtuner, conf, cmd>>
      /\ Cardinality(Numbers \ DOMAIN fds) >= 3
  BY DEF StartRec, Goto, Still, held
<1>2. Leaked' = Leaked BY <1>1 DEF Leaked
<1>3. Busy' BY <1>1 DEF Busy
<1>4. Numbered' BY <1>1 DEF Open, Numbered
<1>5. Holds' BY <1>1 DEF Open, Holds
<1>6. Closes' BY <1>1, <1>2 DEF Open, Closes, NoStationGiven
<1>7. PICK a, b, c \in Numbers \ DOMAIN fds : a # b /\ a # c /\ b # c
  BY <1>1, ThreeFree
<1>8. {a, b, c} \cap Leaked = {} BY <1>7 DEF Leaked
<1>9. Room'
  <2>1. a \in Numbers /\ b \in Numbers /\ c \in Numbers /\ a \notin Leaked' BY <1>2, <1>7, <1>8
  <2> QED BY <1>2, <1>7, <1>8, <2>1 DEF Room
<1> QED BY <1>3, <1>4, <1>5, <1>6, <1>9 DEF Open

\* Each call of a set-up, with its retries, leads on or gives up.
LEMMA OpenTries ==
    ASSUME Open, NEW ws, NEW next, Try(ws, next),
           \/ pc = "station" /\ next = "script"
           \/ pc = "switch" /\ job.for = "rec" /\ next \in {"rates", "release"}
           \/ pc = "rates" /\ next = "audio"
           \/ pc = "audio" /\ next = "aspect"
           \/ pc = "aspect" /\ next = "size"
           \/ pc = "size" /\ next = "release"
    PROVE  Open'
<1>1. Still /\ ((UNCHANGED <<fds, held, job>> /\ pc' \in {next, pc}) \/ GiveUp({fd, fdtuner}))
  BY TryEnds
<1>2. CASE UNCHANGED <<fds, held, job>> /\ pc' \in {next, pc}
  <2>1. UNCHANGED <<fds, fd, fdtuner, job, conf, cmd>> BY <1>1, <1>2 DEF held, Still
  <2>2. CASE pc' = pc
    <3>1. Busy' /\ Holds' BY <2>1, <2>2 DEF Open, Busy, Holds
    <3> QED BY <2>1, <2>2, <3>1, OpenMoves
  <2>3. CASE pc' = next
    <3>1. Busy' BY <2>1, <2>3 DEF Open, Busy
    <3>2. Holds' BY <2>1, <2>3 DEF Open, Busy, Holds
    <3> QED BY <2>1, <2>3, <3>1, <3>2, OpenMoves
  <2> QED BY <1>2, <2>2, <2>3
<1>3. CASE GiveUp({fd, fdtuner}) BY <1>1, <1>3, OpenGivesUp
<1> QED BY <1>1, <1>2, <1>3

\* The commands that set a control or look at the card, for short.
Commanded == \/ Look \/ \E val \in Normal : \/ AdjustVolume(val)
                                            \/ \E c \in Controls : AdjustAudio(c, val) \/ AdjustImage(c, val)

\* They all answer, and close what they opened.
LEMMA OpenCommanded == Open /\ Commanded => Open'
<1> SUFFICES ASSUME Open, Commanded PROVE Open' OBVIOUS
<1>1. (\E ret : Answers(ret)) /\ cmd.what # "none"
  <2>1. CASE Look BY <2>1 DEF Look
  <2>2. ASSUME NEW val \in Normal, AdjustVolume(val) PROVE \E ret : Answers(ret) /\ cmd.what # "none"
    BY <2>2 DEF AdjustVolume
  <2>3. ASSUME NEW val \in Normal, NEW c \in Controls, AdjustAudio(c, val)
        PROVE  \E ret : Answers(ret) /\ cmd.what # "none"
    BY <2>3 DEF AdjustAudio
  <2>4. ASSUME NEW val \in Normal, NEW c \in Controls, AdjustImage(c, val)
        PROVE  \E ret : Answers(ret) /\ cmd.what # "none"
    BY <2>4 DEF AdjustImage
  <2> QED BY <2>1, <2>2, <2>3, <2>4 DEF Commanded
<1> QED BY <1>1, CommandMeansUp, OpenAnswers

\* The steps of the thread before it tries its calls.
LEMMA OpenSetsUp ==
    ASSUME Open, OpenEncoder \/ OpenTuner \/ SwitchInput \/ NoStation \/ Script \/ ChannelInput
    PROVE  Open'
<1>1. CASE OpenEncoder
  <2>1. pc = "open" /\ Still BY <1>1 DEF OpenEncoder
  <2>2. fd = NoFd /\ fdtuner = NoFd BY <2>1 DEF Open, Holds
  <2>3. CASE GiveUp({})
    <3>1. {fd, fdtuner} \cap DOMAIN fds \subseteq {} BY <2>2, NoFdApart DEF Open, Numbered
    <3> QED BY <2>1, <2>3, <3>1, OpenGivesUp
  <2>4. CASE /\ fds' = Opened("encoder") /\ fd' = FreeFd /\ UNCHANGED <<hw, job>>
             /\ \/ job.for = "start" /\ fdtuner' = NoFd /\ Goto("rates")
                \/ job.for = "rec" /\ conf.tuner /\ fdtuner' = NoFd /\ Goto("opentuner")
                \/ job.for = "rec" /\ ~conf.tuner /\ fdtuner' = FreeFd /\ Goto("switch")
    <3>1. FreeFd # NoFd BY <2>1, RoomForTheThread, NoFdApart
    <3>2. UNCHANGED <<conf, cmd, job>> BY <2>1, <2>4 DEF Still
    <3>3. \/ job.for = "start" /\ fdtuner' = NoFd /\ pc' = "rates"
          \/ job.for = "rec" /\ conf.tuner /\ fdtuner' = NoFd /\ pc' = "opentuner"
          \/ job.for = "rec" /\ ~conf.tuner /\ fdtuner' = FreeFd /\ pc' = "switch"
      BY <2>4 DEF Goto
    <3>4. Busy' BY <2>1, <3>2, <3>3 DEF Open, Busy
    <3>5. Holds' BY <2>4, <3>1, <3>2, <3>3 DEF Holds
    <3> QED BY <2>1, <2>4, <3>2, <3>3, <3>4, <3>5, ThreadOpens
  <2> QED BY <1>1, <2>3, <2>4 DEF OpenEncoder
<1>2. CASE OpenTuner
  <2>1. pc = "opentuner" /\ Still BY <1>2 DEF OpenTuner
  <2>2. fd # NoFd /\ fdtuner = NoFd /\ conf.tuner /\ job.for = "rec"
    BY <2>1 DEF Open, Holds, Busy
  <2>3. CASE GiveUp({fd})
    <3>1. {fd, fdtuner} \cap DOMAIN fds \subseteq {fd} BY <2>2, NoFdApart DEF Open, Numbered
    <3> QED BY <2>1, <2>3, <3>1, OpenGivesUp
  <2>4. CASE fds' = Opened("tuner") /\ fdtuner' = FreeFd /\ Goto("switch") /\ UNCHANGED <<hw, fd, job>>
    <3>1. FreeFd # NoFd BY <2>1, RoomForTheThread, NoFdApart
    <3>2. UNCHANGED <<conf, cmd, job>> /\ pc' = "switch" BY <2>1, <2>4 DEF Still, Goto
    <3>3. Busy' BY <2>2, <3>2 DEF Busy
    <3>4. Holds' BY <2>2, <2>4, <3>1, <3>2 DEF Holds
    <3> QED BY <2>1, <2>4, <3>2, <3>3, <3>4, ThreadOpens
  <2> QED BY <1>2, <2>3, <2>4 DEF OpenTuner
<1>3. CASE SwitchInput
  <2>1. /\ pc = "switch" /\ pc' = IF conf.external_input = tuner_input_index THEN "station" ELSE "script"
        /\ conf.external_switch /\ UNCHANGED <<fds, fd, fdtuner, job, conf, cmd>>
    BY <1>3 DEF SwitchInput, Goto, Still, held
  <2>2. Busy' BY <2>1 DEF Open, Busy
  <2>3. Holds' BY <2>1 DEF Open, Holds
  <2> QED BY <2>1, <2>2, <2>3, OpenMoves
<1>4. CASE NoStation
  <2>1. /\ pc = "station" /\ conf.external_tuner_station = "" /\ GiveUp({fdtuner}) /\ Still
    BY <1>4 DEF NoStation
  <2>2. /\ NoStationGiven /\ (fd # fdtuner => conf.tuner) /\ job.for = "rec"
    BY <2>1 DEF Open, Holds, Busy, NoStationGiven
  <2> QED BY <2>1, <2>2, OpenGivesUp
<1>5. CASE Script
  <2>1. pc = "script" /\ Still BY <1>5 DEF Script
  <2>2. CASE Goto("release") /\ UNCHANGED <<fds, held, job>>
    <3>1. pc' = "release" /\ UNCHANGED <<fds, fd, fdtuner, job, conf, cmd>>
      BY <2>1, <2>2 DEF Goto, Still, held
    <3>2. Busy' BY <2>1, <3>1 DEF Open, Busy
    <3>3. Holds' BY <2>1, <3>1 DEF Open, Busy, Holds
    <3> QED BY <2>1, <3>1, <3>2, <3>3, OpenMoves
  <2>3. CASE GiveUp({fd, fdtuner}) BY <2>1, <2>3, OpenGivesUp
  <2> QED BY <1>5, <2>2, <2>3 DEF Script
<1>6. CASE ChannelInput
  <2>1. /\ pc = "switch" /\ pc' \in {"rates", "release"}
        /\ UNCHANGED <<fds, fd, fdtuner, job, conf, cmd>>
    BY <1>6 DEF ChannelInput, Params, Goto, Still, held
  <2>2. Busy' BY <2>1 DEF Open, Busy
  <2>3. Holds' BY <2>1 DEF Open, Busy, Holds
  <2> QED BY <2>1, <2>2, <2>3, OpenMoves
<1> QED BY <1>1, <1>2, <1>3, <1>4, <1>5, <1>6

\* The calls it tries.
LEMMA OpenCalls == Open /\ (Station \/ Channel \/ setup_hw_parameters) => Open'
<1>1. ASSUME Open, Station PROVE Open' BY <1>1, OpenTries DEF Station
<1>2. ASSUME Open, Channel PROVE Open'
  <2>1. pc = "switch" /\ job.for = "rec" /\ Params \in {"rates", "release"}
    BY <1>2 DEF Channel, Open, Busy, Params
  <2> QED BY <1>2, <2>1, OpenTries DEF Channel
<1>3. ASSUME Open, setup_hw_parameters PROVE Open'
  <2>1. CASE pc \in {"rates", "size"} /\ NoSuchSize
    <3>1. GiveUp({fd, fdtuner}) /\ Still BY <2>1 DEF NoSuchSize
    <3> QED BY <1>3, <2>1, <3>1, OpenGivesUp
  <2>2. CASE ~(pc \in {"rates", "size"} /\ NoSuchSize)
    BY <1>3, <2>2, OpenTries DEF setup_hw_parameters
  <2> QED BY <2>1, <2>2
<1> QED BY <1>1, <1>2, <1>3

\* The end of a set-up, of a recording, of one that failed, and the start.
LEMMA OpenAround ==
    ASSUME Open, Release \/ EndRec \/ Failed \/ Start \/ SetControls
    PROVE  Open'
<1>1. CASE Release
  <2>1. pc = "release" /\ UNCHANGED <<job, conf, cmd>> /\ fdtuner' = NoFd
    BY <1>1 DEF Release, Still
  <2>2. fd # NoFd /\ (job.for = "rec" <=> fdtuner # NoFd) BY <2>1 DEF Open, Holds
  <2>3. NoFd \notin DOMAIN fds BY NoFdApart DEF Open, Numbered
  <2>4. CASE job.for = "start" /\ fds' = Closed({fd}) /\ fd' = NoFd /\ Goto("controls")
    <3>1. pc' = "controls" BY <2>4 DEF Goto
    <3>2. Busy' BY <2>1, <2>4, <3>1 DEF Open, Busy
    <3>3. Holds' BY <2>1, <2>4, <3>1 DEF Holds
    <3>4. fdtuner = NoFd BY <2>2, <2>4
    <3> QED BY <2>1, <2>2, <2>3, <2>4, <3>1, <3>2, <3>3, <3>4, ThreadCloses
  <2>5. CASE /\ job.for = "rec" /\ Goto("capture") /\ UNCHANGED fd
             /\ fds' = IF fdtuner # fd THEN Closed({fdtuner}) ELSE fds
    <3>1. pc' = "capture" BY <2>5 DEF Goto
    <3>2. Busy' BY <2>1, <2>5, <3>1 DEF Busy
    <3>3. Holds' BY <2>1, <2>2, <2>5, <3>1 DEF Holds
    <3>4. CASE fdtuner # fd
      BY <2>1, <2>2, <2>3, <2>5, <3>1, <3>2, <3>3, <3>4, ThreadCloses
    <3>5. CASE fdtuner = fd
      <4>1. Leaked' = Leaked BY <2>1, <2>3, <2>5, <3>5 DEF Leaked
      <4>2. Numbered' BY <2>1, <2>5, <3>5 DEF Open, Numbered
      <4>3. Closes' BY <2>1, <3>1, <4>1 DEF Open, Closes, NoStationGiven
      <4>4. Room' BY <2>1, <4>1 DEF Open, Room
      <4> QED BY <3>2, <3>3, <4>2, <4>3, <4>4 DEF Open
    <3> QED BY <3>4, <3>5
  <2> QED BY <1>1, <2>4, <2>5 DEF Release
<1>2. CASE EndRec
  <2>1. /\ pc = "capture" /\ pc' = "idle" /\ fds' = Closed({fd}) /\ fd' = NoFd
        /\ UNCHANGED <<fdtuner, job, conf, cmd>>
    BY <1>2 DEF EndRec, Goto, Still
  <2>2. fd # NoFd /\ fdtuner = NoFd /\ job.for = "rec" BY <2>1 DEF Open, Holds, Busy
  <2>3. Busy' BY <2>1, <2>2 DEF Busy
  <2>4. Holds' BY <2>1, <2>2 DEF Holds
  <2>5. {fd, fdtuner} \cap DOMAIN fds \subseteq {fd} \cup {fd', fdtuner'} BY <2>1
  <2> QED BY <2>1, <2>2, <2>3, <2>4, <2>5, ThreadCloses
<1>3. CASE Failed
  <2>1. /\ pc = "failed" /\ pc' = IF job.for = "start" THEN "down" ELSE "idle"
        /\ UNCHANGED <<fds, fd, fdtuner, job, conf, cmd>>
    BY <1>3 DEF Failed, Goto, Still, held
  <2>2. Busy' BY <2>1 DEF Open, Busy
  <2>3. Holds' BY <2>1 DEF Open, Holds
  <2>4. Leaked' = Leaked BY <2>1 DEF Leaked
  <2>5. Numbered' BY <2>1 DEF Open, Numbered
  <2>6. Closes' BY <2>1, <2>4 DEF Open, Closes, NoStationGiven, Busy
  <2>7. job.for = "start" => Leaked = {} BY <2>1 DEF Open, Closes, Leaked
  <2>8. {3, 4, 5} \subseteq Numbers BY SomeDescriptors DEF Numbers
  <2>9. Room' BY <2>1, <2>4, <2>7, <2>8 DEF Open, Room
  <2> QED BY <2>2, <2>3, <2>5, <2>6, <2>9 DEF Open
<1>4. CASE Start
  <2>1. /\ pc = "down" /\ pc' \in {"controls", "open"} /\ job'.for = "start"
        /\ UNCHANGED <<fds, fd, fdtuner, conf, cmd>>
    BY <1>4 DEF Start, Goto, Still, held, NoJob
  <2>2. Busy' BY <2>1 DEF Open, Busy
  <2>3. Holds' BY <2>1 DEF Open, Holds
  <2> QED BY <2>1, <2>2, <2>3, OpenMoves
<1>5. CASE SetControls
  <2>1. pc = "controls" /\ pc' = "idle" /\ UNCHANGED <<fds, fd, fdtuner, job, conf, cmd>>
    BY <1>5 DEF SetControls, Goto, Still, held
  <2>2. Busy' BY <2>1 DEF Open, Busy
  <2>3. Holds' BY <2>1 DEF Open, Holds
  <2> QED BY <2>1, <2>2, <2>3, OpenMoves
<1> QED BY <1>1, <1>2, <1>3, <1>4, <1>5

\* What is open is accounted for after any step.
LEMMA OpenKept == Open /\ [Next]_vars => Open'
<1> SUFFICES ASSUME Open, [Next]_vars PROVE Open' OBVIOUS
<1>1. CASE Start \/ Release \/ EndRec \/ Failed \/ SetControls BY <1>1, OpenAround
<1>2. CASE OpenEncoder \/ OpenTuner \/ SwitchInput \/ NoStation \/ Script \/ ChannelInput
  BY <1>2, OpenSetsUp
<1>3. CASE Station \/ Channel \/ setup_hw_parameters BY <1>3, OpenCalls
<1>4. CASE Die BY <1>4, OpenDies
<1>5. CASE \E list, ch, i : StartRec(list, ch, i) BY <1>5, OpenBegins
<1>6. CASE \E what \in CommandsUsed : OpenCard(what) BY <1>6, OpenByCommand
<1>7. CASE Commanded BY <1>7, OpenCommanded
<1>8. CASE UNCHANGED vars
  <2>1. UNCHANGED <<fds, fd, fdtuner, cmd, conf, pc, job>> BY <1>8 DEF vars, held
  <2>2. Busy' /\ Holds' BY <2>1 DEF Open, Busy, Holds
  <2> QED BY <2>1, <2>2, OpenMoves DEF Open, Closes
<1>9. CASE \/ \E list \in ProfileLists : \/ \E ch \in Channels : StartRec(list, ch, 0)
                                        \/ \E i \in Inputs : StartRec(list, "", i)
  BY <1>5, <1>9
<1> QED BY <1>1, <1>2, <1>3, <1>4, <1>6, <1>7, <1>8, <1>9 DEF Next, Commanded

-----------------------------------------------------------------------------
(* What the card is set to. *)

\* The card has the input, and the channel, that the recording is to have.
InputAsAsked ==
    IF conf.external_switch
    THEN IF conf.external_input = tuner_input_index THEN Tuned(conf.external_tuner_station)
                                                    ELSE hurt \/ hw.input = conf.external_input
    ELSE IF job.channel # "" THEN Tuned(job.channel) ELSE hurt \/ hw.input = job.input

\* The registers in r are as the profile of the job has them.
Has(r) == \A x \in r : hw[x] = Profiles[job.profile][x]

\* The calls of setup_hw_parameters.
Setting == {"rates", "audio", "aspect", "size"}

\* What the job is, by the way it takes.
Job ==
    /\ job.profile \in DOMAIN Profiles
    /\ job.for = "start" => job.profile = default_profile
    /\ job.for = "rec" => job.list \in ProfileLists /\ job.profile = Chosen(job.list)
    /\ pc \in Setting /\ job.for = "rec" => conf.allow /\ ~conf.external_switch
    /\ pc \in Setting \cup {"open", "release"} /\ job.for = "start" => ~conf.allow
    /\ pc \in {"station", "script"} => conf.external_switch

\* How far the input has been set,
InputSet ==
    /\ pc = "script" => InputAsAsked
    /\ pc \in Setting \cup {"release", "capture"} /\ job.for = "rec" => InputAsAsked

\* and the encoder.
EncoderSet ==
    /\ pc \in {"audio", "aspect", "size"} => Has({"bitrate", "peak"})
    /\ pc \in {"aspect", "size"} => Has({"sampling", "abps"})
    /\ pc = "size" => Has({"aspect"})
    /\ pc = "release" /\ job.for = "start" => Has(Encoder)
    /\ pc \in {"release", "capture"} /\ job.for = "rec" /\ conf.allow /\ ~conf.external_switch =>
           Has(Encoder)

\* The default profile, when no recording may have its own.
DefaultSet == ~conf.allow /\ (pc \in {"controls", "idle"} \/ (job.for = "rec" /\ pc # "down")) =>
    Encodes(default_profile)

\* The driver has been asked for nothing it must refuse.
Unrefused ==
    /\ OnCard(hw) /\ ~refused
    /\ pc = "failed" => hurt \/ NoStationGiven \/ SizeMisspelt

SetUp == Job /\ InputSet /\ EncoderSet /\ DefaultSet /\ Unrefused

\* A profile, a channel or an input stays set while other registers are written.
LEMMA SetElsewhere ==
    ASSUME NEW S, Elsewhere(hw, hw', S), UNCHANGED <<conf, job>>, hurt => hurt'
    PROVE  /\ S \cap {"input", "freq"} = {} => (InputAsAsked => InputAsAsked')
           /\ \A r \in SUBSET Encoder : r \cap S = {} => (Has(r) => Has(r)')
           /\ S \cap Encoder = {} => (Encodes(default_profile) => Encodes(default_profile)')
<1>1. "input" \in Registers /\ "freq" \in Registers /\ Encoder \subseteq Registers
  BY DEF Registers
<1>2. S \cap {"input", "freq"} = {} => hw'["input"] = hw["input"] /\ hw'["freq"] = hw["freq"]
  BY <1>1 DEF Elsewhere
<1>3. S \cap {"input", "freq"} = {} => (InputAsAsked => InputAsAsked')
  BY <1>2 DEF InputAsAsked, Tuned
<1>4. \A r \in SUBSET Encoder : r \cap S = {} => (Has(r) => Has(r)')
  <2> SUFFICES ASSUME NEW r \in SUBSET Encoder, r \cap S = {}, Has(r) PROVE Has(r)' OBVIOUS
  <2>1. \A x \in r : hw'[x] = hw[x] BY <1>1 DEF Elsewhere
  <2> QED BY <2>1 DEF Has
<1>5. S \cap Encoder = {} => (Encodes(default_profile) => Encodes(default_profile)')
  <2> SUFFICES ASSUME S \cap Encoder = {}, Encodes(default_profile) PROVE Encodes(default_profile)'
    OBVIOUS
  <2>1. \A x \in Encoder : hw'[x] = hw[x] BY <1>1 DEF Elsewhere
  <2> QED BY <2>1 DEF Encodes
<1> QED BY <1>3, <1>4, <1>5

\* What the thread has set is not touched by a step elsewhere on the card.
LEMMA SetUpStays ==
    ASSUME SetUp, Elsewhere(hw, hw', Controls), UNCHANGED <<conf, job, pc, hurt>>,
           OnCard(hw'), ~refused'
    PROVE  SetUp'
<1>1. Controls \cap {"input", "freq"} = {} /\ \A r \in SUBSET Encoder : r \cap Controls = {}
  BY ControlsApart
<1>2. /\ InputAsAsked => InputAsAsked'
      /\ \A r \in SUBSET Encoder : Has(r) => Has(r)'
      /\ Encodes(default_profile) => Encodes(default_profile)'
  <2>1. Controls \cap Encoder = {} BY <1>1
  <2> QED BY <1>1, <2>1, SetElsewhere
<1>3. {"bitrate", "peak"} \in SUBSET Encoder /\ {"sampling", "abps"} \in SUBSET Encoder
      /\ {"aspect"} \in SUBSET Encoder /\ Encoder \in SUBSET Encoder
  BY DEF Encoder
<1>4. Job' BY DEF SetUp, Job
<1>5. InputSet' BY <1>2 DEF SetUp, InputSet
<1>6. EncoderSet' BY <1>2, <1>3 DEF SetUp, EncoderSet
<1>7. DefaultSet' BY <1>2 DEF SetUp, DefaultSet
<1>8. Unrefused' BY DEF SetUp, Unrefused, NoStationGiven, SizeMisspelt, Adjusts
<1> QED BY <1>4, <1>5, <1>6, <1>7, <1>8 DEF SetUp

\* The card as the server finds it.
LEMMA SetUpAtFirst == Init => SetUp
<1> SUFFICES ASSUME Init PROVE SetUp OBVIOUS
<1>1. pc = "down" /\ job = NoJob /\ refused = FALSE BY DEF Init
<1>2. job.for = "nothing" /\ job.profile = default_profile BY <1>1 DEF NoJob
<1>3. PICK e \in EncodersFound : hw = Left(e) BY DEF Init
<1>4. DOMAIN hw = Registers /\ hw = [r \in DOMAIN hw |-> hw[r]]
  <2>1. Encoder \cup Controls \cup {"input", "freq"} = Registers BY DEF Registers
  <2> QED BY <1>3, <2>1 DEF Left
<1>5. "bitrate" \in Encoder /\ "peak" \in Encoder BY DEF Encoder
<1>6. \A r \in Encoder : hw[r] = e[r]
  <2> SUFFICES ASSUME NEW r \in Encoder PROVE hw[r] = e[r] OBVIOUS
  <2>1. r \notin Controls BY ControlsApart
  <2>2. r # "input" /\ r # "freq" BY DEF Encoder
  <2> QED BY <1>3, <2>1, <2>2 DEF Left
<1>7. hw.bitrate \in Int /\ hw.peak \in Int /\ hw.bitrate <= hw.peak
  BY <1>5, <1>6, FoundOrdered
<1>8. \A c \in Controls : hw[c] \in Limits[c][1] .. Limits[c][2]
  <2> SUFFICES ASSUME NEW c \in Controls PROVE hw[c] \in Limits[c][1] .. Limits[c][2] OBVIOUS
  <2>1. hw[c] = Level(c, card_control[c]) BY <1>3, ControlsApart DEF Left
  <2>2. Level(c, card_control[c]) \in Limits[c][1] .. Limits[c][2]
    BY ControlsConfigured, LevelInRange
  <2> QED BY <2>1, <2>2
<1>9. OnCard(hw) BY <1>4, <1>7, <1>8 DEF OnCard, Accepts
<1> QED BY <1>1, <1>2, <1>9, ProfilesOrdered
        DEF SetUp, Job, InputSet, EncoderSet, DefaultSet, Unrefused, Setting

\* A step of the thread that leaves the card alone and goes on.
LEMMA SetUpMoves ==
    ASSUME SetUp, hw' = hw, UNCHANGED <<conf, refused>>, hurt' = hurt, job' = job,
           Job', InputSet', EncoderSet', DefaultSet', pc' # "failed"
    PROVE  SetUp'
BY DEF SetUp, Unrefused

\* The card, the input and the encoder when the job is the same and the card too.
LEMMA SameCard ==
    ASSUME hw' = hw, UNCHANGED <<conf, job>>, hurt => hurt'
    PROVE  /\ InputAsAsked => InputAsAsked'
           /\ \A r \in SUBSET Encoder : Has(r) => Has(r)'
           /\ Encodes(default_profile) => Encodes(default_profile)'
<1>1. Elsewhere(hw, hw', {}) BY DEF Elsewhere
<1> QED BY <1>1, SetElsewhere

\* What a step of the thread leaves behind when it fails, or the server dies.
LEMMA SetUpFails ==
    ASSUME SetUp, pc' = "failed", hurt' \/ NoStationGiven \/ SizeMisspelt, Busy, pc # "down", job.for = "rec" \/ pc # "idle",
           hurt => hurt', UNCHANGED <<conf, job, refused>>, OnCard(hw'),
           job.for = "rec" => \/ pc \in Setting
                              \/ Elsewhere(hw, hw', {"input", "freq"})
    PROVE  SetUp'
<1>1. Job' BY DEF SetUp, Job, Setting
<1>2. InputSet' BY DEF InputSet, Setting
<1>3. EncoderSet' BY DEF EncoderSet
<1>4. DefaultSet'
  <2> SUFFICES ASSUME ~conf.allow, job.for = "rec" PROVE Encodes(default_profile)'
    BY DEF DefaultSet
  <2>1. pc \notin Setting BY DEF SetUp, Job
  <2>2. Encodes(default_profile) BY DEF SetUp, DefaultSet
  <2>3. {"input", "freq"} \cap Encoder = {} BY DEF Encoder
  <2> QED BY <2>1, <2>2, <2>3, SetElsewhere
<1>5. Unrefused' BY DEF SetUp, Unrefused, NoStationGiven, SizeMisspelt, Adjusts
<1> QED BY <1>1, <1>2, <1>3, <1>4, <1>5 DEF SetUp

\* How a call that the driver has no reason to refuse ends, with its retries.
LEMMA TryGoes ==
    ASSUME NEW ws, NEW next, Try(ws, next), \A e \in Ends(hw, ws) : e.ret \in {"ok", "EBUSY", "EIO"}
    PROVE  /\ UNCHANGED <<conf, refused, job>> /\ (hurt => hurt')
           /\ \E e \in Ends(hw, ws) :
                /\ hw' = e.hw
                /\ \/ e.ret = "ok" /\ pc' = next /\ hurt' = hurt
                   \/ pc' = pc /\ hurt'
                   \/ pc' = "failed" /\ hurt'
<1>1. PICK e \in Ends(hw, ws) :
        /\ Blames(e) /\ hw' = e.hw
        /\ CASE e.ret = "ok" -> Goto(next) /\ UNCHANGED <<fds, held, job>>
             [] e.ret = "EBUSY" /\ left > 0 -> left' = left - 1 /\ UNCHANGED <<fds, held, job, pc>>
             [] OTHER -> GiveUp({fd, fdtuner})
  BY DEF Try
<1>2. Still BY DEF Try
<1>3. CASE e.ret = "ok"
  <2>1. Goto(next) /\ job' = job BY <1>1, <1>3
  <2>2. hurt' = hurt BY <1>1, <1>3 DEF Blames, NoFault
  <2> QED BY <1>1, <1>2, <1>3, <2>1, <2>2 DEF Goto, Still
<1>4. CASE e.ret \in {"EBUSY", "EIO"}
  <2>1. hurt' = TRUE BY <1>1, <1>4 DEF Blames, Fault
  <2>2. \/ job' = job /\ pc' = pc
        \/ GiveUp({fd, fdtuner})
    BY <1>1, <1>4
  <2>3. job' = job /\ pc' \in {pc, "failed"} BY <2>2 DEF GiveUp, Goto
  <2> QED BY <1>1, <1>2, <2>1, <2>3 DEF Still
<1> QED BY <1>1, <1>3, <1>4

\* The default profile stays set while the thread tunes.
LEMMA DefaultWhileTuning ==
    ASSUME SetUp, Elsewhere(hw, hw', {"input", "freq"}), UNCHANGED <<conf, job>>, hurt => hurt',
           pc' \notin {"controls", "idle", "down"}, pc # "down"
    PROVE  DefaultSet'
<1> SUFFICES ASSUME ~conf.allow, job.for = "rec" PROVE Encodes(default_profile)'
  BY DEF DefaultSet
<1>1. Encodes(default_profile) BY DEF SetUp, DefaultSet
<1>2. {"input", "freq"} \cap Encoder = {} BY DEF Encoder
<1> QED BY <1>1, <1>2, SetElsewhere

\* The station of the external switch.
LEMMA SetUpStation == SetUp /\ Open /\ Station => SetUp'
<1> SUFFICES ASSUME SetUp, Open, Station PROVE SetUp' OBVIOUS
<1> DEFINE ch == conf.external_tuner_station
<1>1. pc = "station" /\ Try(tune(hw, ch), "script") BY DEF Station
<1>2. job.for = "rec" /\ conf.external_switch /\ conf.external_input = tuner_input_index
  BY <1>1 DEF Open, Busy, Holds
<1>3. OnCard(hw) BY DEF SetUp, Unrefused
<1>4. PICK ws : ws = tune(hw, ch) OBVIOUS
<1>5. \A e \in Ends(hw, ws) : e.ret \in {"ok", "EBUSY", "EIO"} BY <1>3, <1>4, EndsTune
<1>6. UNCHANGED <<conf, refused, job>> /\ (hurt => hurt') BY <1>1, <1>4, <1>5, TryGoes
<1>7. PICK e \in Ends(hw, ws) :
        /\ hw' = e.hw
        /\ \/ e.ret = "ok" /\ pc' = "script" /\ hurt' = hurt
           \/ pc' = pc /\ hurt'
           \/ pc' = "failed" /\ hurt'
  BY <1>1, <1>4, <1>5, TryGoes
<1>8. /\ OnCard(hw') /\ Elsewhere(hw, hw', {"input", "freq"})
      /\ e.ret = "ok" => hw'["input"] = tuner_input_index /\ hw'["freq"] = getfreqfromstr(ch)
  BY <1>3, <1>4, <1>7, EndsTune
<1>9. CASE pc' = "failed"
  <2>1. Busy /\ pc # "down" BY <1>1 DEF Open
  <2>2. hurt' BY <1>1, <1>6, <1>7, <1>9 DEF Params
  <2> QED BY <1>2, <1>6, <1>8, <1>9, <2>1, <2>2, SetUpFails
<1>10. CASE pc' # "failed"
  <2>1. pc' \in {"station", "script"} BY <1>1, <1>7, <1>10
  <2>2. Job' BY <1>2, <1>6, <2>1 DEF SetUp, Job, Setting
  <2>3. InputSet'
    <3>1. CASE pc' = "script"
      <4>1. e.ret = "ok" BY <1>1, <1>7, <3>1
      <4>2. InputAsAsked' BY <1>2, <1>6, <1>8, <4>1 DEF InputAsAsked, Tuned
      <4> QED BY <3>1, <4>2 DEF InputSet, Setting
    <3>2. CASE pc' = "station" BY <3>2 DEF InputSet, Setting
    <3> QED BY <2>1, <3>1, <3>2
  <2>4. EncoderSet' BY <2>1 DEF EncoderSet
  <2>5. DefaultSet' BY <1>1, <1>6, <1>8, <2>1, DefaultWhileTuning
  <2>6. Unrefused' BY <1>6, <1>8, <2>1 DEF SetUp, Unrefused
  <2> QED BY <2>2, <2>3, <2>4, <2>5, <2>6 DEF SetUp
<1> QED BY <1>9, <1>10

\* The channel of the recording.
LEMMA SetUpChannel == SetUp /\ Open /\ Channel => SetUp'
<1> SUFFICES ASSUME SetUp, Open, Channel PROVE SetUp' OBVIOUS
<1> DEFINE ch == job.channel
<1>1. /\ pc = "switch" /\ Try(tune(hw, ch), Params) /\ ~conf.external_switch /\ job.channel # ""
  BY DEF Channel
<1>2. job.for = "rec" BY <1>1 DEF Open, Busy
<1>3. OnCard(hw) BY DEF SetUp, Unrefused
<1>4. PICK ws : ws = tune(hw, ch) OBVIOUS
<1>5. \A e \in Ends(hw, ws) : e.ret \in {"ok", "EBUSY", "EIO"} BY <1>3, <1>4, EndsTune
<1>6. UNCHANGED <<conf, refused, job>> /\ (hurt => hurt') BY <1>1, <1>4, <1>5, TryGoes
<1>7. PICK e \in Ends(hw, ws) :
        /\ hw' = e.hw
        /\ \/ e.ret = "ok" /\ pc' = Params /\ hurt' = hurt
           \/ pc' = pc /\ hurt'
           \/ pc' = "failed" /\ hurt'
  BY <1>1, <1>4, <1>5, TryGoes
<1>8. /\ OnCard(hw') /\ Elsewhere(hw, hw', {"input", "freq"})
      /\ e.ret = "ok" => hw'["input"] = tuner_input_index /\ hw'["freq"] = getfreqfromstr(ch)
  BY <1>3, <1>4, <1>7, EndsTune
<1>9. CASE pc' = "failed"
  <2>1. Busy /\ pc # "down" BY <1>1 DEF Open
  <2>2. hurt' BY <1>1, <1>6, <1>7, <1>9 DEF Params
  <2> QED BY <1>2, <1>6, <1>8, <1>9, <2>1, <2>2, SetUpFails
<1>10. CASE pc' = "switch" /\ pc' # "failed"
  <2>1. Job' BY <1>6, <1>10 DEF SetUp, Job, Setting
  <2>2. InputSet' /\ EncoderSet' BY <1>10 DEF InputSet, EncoderSet, Setting
  <2>3. DefaultSet' BY <1>1, <1>6, <1>8, <1>10, DefaultWhileTuning
  <2>4. Unrefused' BY <1>6, <1>8, <1>10 DEF SetUp, Unrefused
  <2> QED BY <2>1, <2>2, <2>3, <2>4 DEF SetUp
<1>11. CASE pc' = Params /\ e.ret = "ok"
  <2>1. pc' = IF conf.allow THEN "rates" ELSE "release" BY <1>11 DEF Params
  <2>2. Job' BY <1>1, <1>2, <1>6, <2>1 DEF SetUp, Job, Setting
  <2>3. InputAsAsked' BY <1>1, <1>6, <1>8, <1>11 DEF InputAsAsked, Tuned
  <2>4. InputSet' BY <2>1, <2>3 DEF InputSet
  <2>5. EncoderSet' BY <1>2, <1>6, <2>1 DEF EncoderSet
  <2>6. DefaultSet' BY <1>1, <1>6, <1>8, <2>1, DefaultWhileTuning
  <2>7. Unrefused' BY <1>6, <1>8, <2>1 DEF SetUp, Unrefused
  <2> QED BY <2>2, <2>4, <2>5, <2>6, <2>7 DEF SetUp
<1> QED BY <1>1, <1>7, <1>9, <1>10, <1>11

\* The input of the box, or of the recording: the card takes it or was hurt.
LEMMA SetUpTakesInput == SetUp /\ Open /\ (SwitchInput \/ ChannelInput) => SetUp'
<1> SUFFICES ASSUME SetUp, Open, SwitchInput \/ ChannelInput PROVE SetUp' OBVIOUS
<1> DEFINE idx == IF conf.external_switch THEN conf.external_input ELSE job.input
<1>1. /\ pc = "switch" /\ UNCHANGED <<conf, refused, job>>
      /\ \/ /\ conf.external_switch
            /\ pc' = IF conf.external_input = tuner_input_index THEN "station" ELSE "script"
         \/ /\ ~conf.external_switch /\ job.channel = "" /\ pc' = IF conf.allow THEN "rates" ELSE "release"
      /\ \E e \in Ends(hw, take_input(idx)) : Blames(e) /\ hw' = e.hw
  BY DEF SwitchInput, ChannelInput, Goto, Still, Params
<1>2. job.for = "rec" BY <1>1 DEF Open, Busy
<1>3. OnCard(hw) BY DEF SetUp, Unrefused
<1>4. PICK e \in Ends(hw, take_input(idx)) : Blames(e) /\ hw' = e.hw BY <1>1
<1>5. /\ OnCard(hw') /\ e.ret \in {"ok", "EBUSY", "EIO"}
      /\ Elsewhere(hw, hw', {"input"})
      /\ e.ret = "ok" => hw'["input"] = idx
  <2> HIDE DEF idx
  <2> QED BY <1>3, <1>4, EndsTakeInput
<1>6. (e.ret = "ok" => hurt' = hurt) /\ (e.ret # "ok" => hurt') /\ (hurt => hurt')
  BY <1>4, <1>5 DEF Blames, Fault, NoFault
<1>7. hurt' \/ hw'["input"] = idx BY <1>5, <1>6
<1>8. Elsewhere(hw, hw', {"input", "freq"}) BY <1>5 DEF Elsewhere
<1>9. pc' \in {"station", "script", "rates", "release"} BY <1>1
<1>10. Job' BY <1>1, <1>2 DEF SetUp, Job, Setting
<1>11. InputSet'
  <2>1. CASE pc' = "station" BY <2>1 DEF InputSet, Setting
  <2>2. CASE pc' # "station"
    <3>1. InputAsAsked' BY <1>1, <1>7, <2>2 DEF InputAsAsked
    <3> QED BY <3>1 DEF InputSet
  <2> QED BY <2>1, <2>2
<1>12. EncoderSet' BY <1>1, <1>2 DEF EncoderSet
<1>13. DefaultSet' BY <1>1, <1>6, <1>8, <1>9, DefaultWhileTuning
<1>14. Unrefused' BY <1>1, <1>5, <1>9 DEF SetUp, Unrefused
<1> QED BY <1>10, <1>11, <1>12, <1>13, <1>14 DEF SetUp

\* A call of setup_hw_parameters: what it sets joins what is set already.
LEMMA SetUpSetting ==
    ASSUME SetUp, Open, NEW ws, NEW next, NEW S, Try(ws, next),
           \/ pc = "rates" /\ next = "audio" /\ S = {"bitrate", "peak"}
           \/ pc = "audio" /\ next = "aspect" /\ S = {"sampling", "abps"}
           \/ pc = "aspect" /\ next = "size" /\ S = {"aspect"}
           \/ pc = "size" /\ next = "release" /\ S = {"size"},
           \A e \in Ends(hw, ws) :
               /\ OnCard(e.hw) /\ e.ret \in {"ok", "EBUSY", "EIO"} /\ Elsewhere(hw, e.hw, S)
               /\ e.ret = "ok" => \A r \in S : e.hw[r] = Profiles[job.profile][r]
    PROVE  SetUp'
<1>1. UNCHANGED <<conf, refused, job>> /\ (hurt => hurt') BY TryGoes
<1>2. PICK e \in Ends(hw, ws) :
        /\ hw' = e.hw
        /\ \/ e.ret = "ok" /\ pc' = next /\ hurt' = hurt
           \/ pc' = pc /\ hurt'
           \/ pc' = "failed" /\ hurt'
  BY TryGoes
<1>3. /\ OnCard(hw') /\ Elsewhere(hw, hw', S)
      /\ e.ret = "ok" => \A r \in S : hw'[r] = Profiles[job.profile][r]
  BY <1>2
<1>4. pc \in Setting /\ pc # "down" /\ pc # "idle" BY DEF Setting
<1>5. Busy /\ job.for \in {"start", "rec"} BY <1>4 DEF Open, Busy
<1>6. job.for = "rec" => conf.allow /\ ~conf.external_switch BY <1>4 DEF SetUp, Job
<1>7. job.for = "start" => ~conf.allow BY <1>4 DEF SetUp, Job
<1>8. CASE pc' = "failed"
  <2>1. hurt' BY <1>2, <1>8
  <2> QED BY <1>1, <1>3, <1>4, <1>5, <1>8, <2>1, SetUpFails
<1>9. CASE pc' # "failed"
  <2>1. pc' = pc \/ (pc' = next /\ e.ret = "ok") BY <1>2, <1>9
  <2>2. S \cap {"input", "freq"} = {} OBVIOUS
  <2>3. Job' BY <1>1, <1>5, <1>6, <1>7, <2>1 DEF SetUp, Job, Setting
  <2>4. InputSet'
    <3>1. job.for = "rec" => InputAsAsked'
      <4>1. job.for = "rec" => InputAsAsked BY <1>4 DEF SetUp, InputSet
      <4> QED BY <1>1, <1>3, <2>2, <4>1, SetElsewhere
    <3>2. pc' # "script" /\ job'.for = job.for BY <1>1, <2>1
    <3> QED BY <3>1, <3>2 DEF InputSet
  <2>5. \A r \in SUBSET Encoder : r \cap S = {} => (Has(r) => Has(r)')
    BY <1>1, <1>3, SetElsewhere
  <2>6. pc' = next => Has(S)' BY <1>1, <1>3, <2>1 DEF Has
  <2>7. {"bitrate", "peak"} \in SUBSET Encoder /\ {"sampling", "abps"} \in SUBSET Encoder
        /\ {"aspect"} \in SUBSET Encoder
    BY DEF Encoder
  <2>8. EncoderSet'
    <3>1. CASE pc = "rates"
      <4>1. pc' = "rates" \/ (pc' = "audio" /\ Has({"bitrate", "peak"})') BY <2>1, <2>6, <3>1
      <4> QED BY <4>1 DEF EncoderSet
    <3>2. CASE pc = "audio"
      <4>1. Has({"bitrate", "peak"})
        BY <3>2 DEF SetUp, EncoderSet
      <4>2. {"bitrate", "peak"} \cap S = {} BY <3>2
      <4>3. Has({"bitrate", "peak"})' BY <2>5, <2>7, <4>1, <4>2
      <4>4. pc' = "audio" \/ (pc' = "aspect" /\ Has({"sampling", "abps"})') BY <2>1, <2>6, <3>2
      <4> QED BY <4>3, <4>4 DEF EncoderSet
    <3>3. CASE pc = "aspect"
      <4>1. Has({"bitrate", "peak"}) /\ Has({"sampling", "abps"})
        BY <3>3 DEF SetUp, EncoderSet
      <4>2. {"bitrate", "peak"} \cap S = {} /\ {"sampling", "abps"} \cap S = {} BY <3>3
      <4>3. Has({"bitrate", "peak"})' /\ Has({"sampling", "abps"})' BY <2>5, <2>7, <4>1, <4>2
      <4>4. pc' = "aspect" \/ (pc' = "size" /\ Has({"aspect"})') BY <2>1, <2>6, <3>3
      <4> QED BY <4>3, <4>4 DEF EncoderSet
    <3>4. CASE pc = "size"
      <4>1. Has({"bitrate", "peak"}) /\ Has({"sampling", "abps"}) /\ Has({"aspect"})
        BY <3>4 DEF SetUp, EncoderSet
      <4>2. /\ {"bitrate", "peak"} \cap S = {} /\ {"sampling", "abps"} \cap S = {}
            /\ {"aspect"} \cap S = {}
        BY <3>4
      <4>3. Has({"bitrate", "peak"})' /\ Has({"sampling", "abps"})' /\ Has({"aspect"})'
        BY <2>5, <2>7, <4>1, <4>2
      <4>4. pc' = "size" \/ (pc' = "release" /\ Has({"size"})') BY <2>1, <2>6, <3>4
      <4>5. Has({"size"})' => Has(Encoder)' BY <4>3 DEF Has, Encoder
      <4> QED BY <4>3, <4>4, <4>5 DEF EncoderSet
    <3> QED BY <3>1, <3>2, <3>3, <3>4
  <2>9. DefaultSet' BY <1>1, <1>5, <1>6, <2>1 DEF DefaultSet
  <2>10. Unrefused' BY <1>1, <1>3, <1>9 DEF SetUp, Unrefused
  <2> QED BY <2>3, <2>4, <2>8, <2>9, <2>10 DEF SetUp
<1> QED BY <1>8, <1>9

\* setup_hw_parameters, call by call.
LEMMA SetUpParameters == SetUp /\ Open /\ setup_hw_parameters => SetUp'
<1> SUFFICES ASSUME SetUp, Open, setup_hw_parameters PROVE SetUp' OBVIOUS
<1>1. PICK p : p = Profiles[job.profile] OBVIOUS
<1>2. OnCard(hw) /\ job.profile \in DOMAIN Profiles BY DEF SetUp, Unrefused, Job
<1>3. CASE pc = "rates" /\ Try(video_set_video_bitrate(hw, p), "audio")
  <2>1. PICK ws : ws = video_set_video_bitrate(hw, p) OBVIOUS
  <2>2. ASSUME NEW e \in Ends(hw, ws)
        PROVE  /\ OnCard(e.hw) /\ e.ret \in {"ok", "EBUSY", "EIO"}
               /\ Elsewhere(hw, e.hw, {"bitrate", "peak"})
               /\ e.ret = "ok" => \A r \in {"bitrate", "peak"} : e.hw[r] = Profiles[job.profile][r]
    <3>1. e \in Ends(hw, video_set_video_bitrate(hw, Profiles[job.profile])) BY <1>1, <2>1
    <3> QED BY <1>2, <3>1, EndsRates
  <2> QED BY <1>3, <2>1, <2>2, SetUpSetting
<1>4. CASE pc = "audio" /\ Try(video_set_audio_bitrate(p), "aspect")
  <2>1. PICK ws : ws = video_set_audio_bitrate(p) OBVIOUS
  <2>2. ASSUME NEW e \in Ends(hw, ws)
        PROVE  /\ OnCard(e.hw) /\ e.ret \in {"ok", "EBUSY", "EIO"}
               /\ Elsewhere(hw, e.hw, {"sampling", "abps"})
               /\ e.ret = "ok" => \A r \in {"sampling", "abps"} : e.hw[r] = Profiles[job.profile][r]
    BY <1>1, <1>2, <2>1, EndsAudio
  <2> QED BY <1>4, <2>1, <2>2, SetUpSetting
<1>5. CASE pc = "aspect" /\ Try(video_set_video_aspect(p), "size")
  <2>1. PICK ws : ws = video_set_video_aspect(p) OBVIOUS
  <2>2. ASSUME NEW e \in Ends(hw, ws)
        PROVE  /\ OnCard(e.hw) /\ e.ret \in {"ok", "EBUSY", "EIO"}
               /\ Elsewhere(hw, e.hw, {"aspect"})
               /\ e.ret = "ok" => \A r \in {"aspect"} : e.hw[r] = Profiles[job.profile][r]
    BY <1>1, <1>2, <2>1, EndsAspect
  <2> QED BY <1>5, <2>1, <2>2, SetUpSetting
<1>6. CASE pc = "size" /\ Try(video_set_named_size(p), "release")
  <2>1. PICK ws : ws = video_set_named_size(p) OBVIOUS
  <2>2. ASSUME NEW e \in Ends(hw, ws)
        PROVE  /\ OnCard(e.hw) /\ e.ret \in {"ok", "EBUSY", "EIO"}
               /\ Elsewhere(hw, e.hw, {"size"})
               /\ e.ret = "ok" => \A r \in {"size"} : e.hw[r] = Profiles[job.profile][r]
    BY <1>1, <1>2, <2>1, EndsSize
  <2> QED BY <1>6, <2>1, <2>2, SetUpSetting
<1>7. CASE /\ (pc = "rates" /\ ~SizeKnown(p)) \/ (pc = "size" /\ ~SizeNamed(p))
           /\ NoSuchSize
  <2>1. /\ hw' = hw /\ UNCHANGED <<conf, refused, job>> /\ hurt' = hurt /\ pc' = "failed"
    BY <1>7 DEF NoSuchSize, NoFault, GiveUp, Goto, Still
  <2>2. pc \in Setting /\ pc # "down" /\ pc # "idle" BY <1>7 DEF Setting
  <2>3. Busy /\ job.for \in {"start", "rec"} BY <2>2 DEF Open, Busy
  <2>4. ~SizeNamed(Profiles[job.profile]) BY <1>1, <1>7 DEF SizeKnown, SizeNamed
  <2>5. job.for = "rec" => conf.allow /\ ~conf.external_switch BY <2>2 DEF SetUp, Job
  <2>6. SizeMisspelt BY <2>3, <2>4, <2>5 DEF SizeMisspelt, Adjusts
  <2> QED BY <1>2, <2>1, <2>2, <2>3, <2>6, SetUpFails
<1>8. \/ pc = "rates" /\ Try(video_set_video_bitrate(hw, p), "audio")
      \/ pc = "audio" /\ Try(video_set_audio_bitrate(p), "aspect")
      \/ pc = "aspect" /\ Try(video_set_video_aspect(p), "size")
      \/ pc = "size" /\ Try(video_set_named_size(p), "release")
      \/ /\ (pc = "rates" /\ ~SizeKnown(p)) \/ (pc = "size" /\ ~SizeNamed(p))
         /\ NoSuchSize
  BY <1>1, Zenon DEF setup_hw_parameters
<1> QED BY <1>3, <1>4, <1>5, <1>6, <1>7, <1>8, Zenon

\* The profile startrec takes is the first, or the last that is better.
LEMMA ChosenIs ==
    ASSUME NEW list \in ProfileLists
    PROVE  \E i \in DOMAIN list :
             /\ Chosen(list) = list[i]
             /\ \/ i = 1 /\ \A k \in DOMAIN list : ~(Bitrate(list[k]) > Bitrate(list[1]))
                \/ /\ Bitrate(list[i]) > Bitrate(list[1])
                   /\ \A k \in DOMAIN list : Bitrate(list[k]) > Bitrate(list[1]) => k <= i
<1> DEFINE better == {i \in DOMAIN list : Bitrate(list[i]) > Bitrate(list[1])}
<1>1. list \in Seq(DOMAIN Profiles) /\ list # <<>> BY ProfilesKnown
<1>2. DOMAIN list = 1 .. Len(list) /\ Len(list) \in Nat /\ 1 \in DOMAIN list BY <1>1
<1>3. Chosen(list) = IF better = {} THEN list[1]
                     ELSE list[CHOOSE i \in better : \A k \in better : k <= i]
  BY DEF Chosen
<1>4. CASE better = {} BY <1>2, <1>3, <1>4
<1>5. CASE better # {}
  <2>1. better \subseteq 1 .. Len(list) BY <1>2
  <2>2. \E i \in better : \A k \in better : k <= i
    <3> HIDE DEF better
    <3> QED BY <1>2, <1>5, <2>1, Greatest
  <2>3. PICK i : i = CHOOSE j \in better : \A k \in better : k <= j OBVIOUS
  <2>4. i \in better /\ \A k \in better : k <= i
    <3> HIDE DEF better
    <3> QED BY <2>2, <2>3
  <2>5. Chosen(list) = list[i] BY <1>3, <1>5, <2>3
  <2> QED BY <2>4, <2>5
<1> QED BY <1>4, <1>5

\* It is one of the known profiles.
LEMMA ChosenKnown ==
    ASSUME NEW list \in ProfileLists
    PROVE  Chosen(list) \in DOMAIN Profiles
<1>1. list \in Seq(DOMAIN Profiles) BY ProfilesKnown
<1>2. \E i \in DOMAIN list : Chosen(list) = list[i] BY ChosenIs
<1> QED BY <1>1, <1>2

\* The steps of a set-up that leave the card alone.
LEMMA SetUpAlone ==
    ASSUME SetUp, Open, OpenEncoder \/ OpenTuner \/ NoStation \/ Script \/ Release
    PROVE  SetUp'
<1>1. hw' = hw /\ UNCHANGED <<conf, refused, job>> /\ (hurt => hurt')
  <2>1. CASE OpenEncoder BY <2>1 DEF OpenEncoder, Still, GiveUp, NoFault, Fault
  <2>2. CASE OpenTuner BY <2>2 DEF OpenTuner, Still, GiveUp, NoFault, Fault
  <2>3. CASE NoStation BY <2>3 DEF NoStation, Still, GiveUp, NoFault
  <2>4. CASE Script BY <2>4 DEF Script, Still, GiveUp, NoFault, Fault
  <2>5. CASE Release BY <2>5 DEF Release, Still, NoFault
  <2> QED BY <2>1, <2>2, <2>3, <2>4, <2>5
<1>2. /\ InputAsAsked => InputAsAsked'
      /\ \A r \in SUBSET Encoder : Has(r) => Has(r)'
      /\ Encodes(default_profile) => Encodes(default_profile)'
  BY <1>1, SameCard
<1>3. \/ pc' = "failed" /\ (hurt' \/ NoStationGiven)
         /\ pc \in {"open", "opentuner", "station", "script"}
      \/ pc = "open" /\ job.for = "start" /\ pc' = "rates"
      \/ pc = "open" /\ job.for = "rec" /\ pc' \in {"opentuner", "switch"}
      \/ pc = "opentuner" /\ pc' = "switch"
      \/ pc = "script" /\ pc' = "release"
      \/ pc = "release" /\ job.for = "start" /\ pc' = "controls"
      \/ pc = "release" /\ job.for = "rec" /\ pc' = "capture"
  <2>1. CASE OpenEncoder BY <2>1 DEF OpenEncoder, GiveUp, Goto, Fault
  <2>2. CASE OpenTuner BY <2>2 DEF OpenTuner, GiveUp, Goto, Fault
  <2>3. CASE NoStation
    BY <2>3 DEF NoStation, GiveUp, Goto, NoStationGiven, Open, Holds
  <2>4. CASE Script BY <2>4 DEF Script, GiveUp, Goto, Fault
  <2>5. CASE Release BY <2>5 DEF Release, Goto
  <2> QED BY <2>1, <2>2, <2>3, <2>4, <2>5
<1>4. OnCard(hw') BY <1>1 DEF SetUp, Unrefused
<1>5. CASE pc' = "failed"
  <2>1. hurt' \/ NoStationGiven BY <1>3, <1>5
  <2>2. pc # "down" /\ pc # "idle" /\ Busy BY <1>3, <1>5 DEF Open
  <2>3. Elsewhere(hw, hw', {"input", "freq"}) BY <1>1 DEF Elsewhere
  <2> QED BY <1>1, <1>4, <1>5, <2>1, <2>2, <2>3, SetUpFails
<1>6. CASE pc' # "failed"
  <2>1. Unrefused' BY <1>1, <1>4, <1>6 DEF SetUp, Unrefused
  <2>2. pc # "down" /\ job.for \in {"start", "rec"} /\ (pc \in {"opentuner", "script"} => job.for = "rec")
    BY <1>3, <1>6 DEF Open, Busy
  <2>3. Job' BY <1>1, <1>3, <1>6, <2>2 DEF SetUp, Job, Setting
  <2>4. InputSet' BY <1>1, <1>2, <1>3, <1>6, <2>2 DEF SetUp, InputSet, Setting
  <2>5. EncoderSet'
    <3>1. Encoder \in SUBSET Encoder OBVIOUS
    <3>2. Has(Encoder) => Has(Encoder)' BY <1>2, <3>1
    <3>3. CASE pc' \in {"rates", "opentuner", "switch", "controls"} BY <3>3 DEF EncoderSet
    <3>4. CASE pc' = "release"
      <4>1. pc = "script" BY <1>3, <3>4
      <4>2. conf.external_switch /\ job.for = "rec" BY <2>2, <4>1 DEF SetUp, Job
      <4> QED BY <1>1, <3>4, <4>2 DEF EncoderSet
    <3>5. CASE pc' = "capture"
      <4>1. pc = "release" /\ job.for = "rec" BY <1>3, <3>5
      <4>2. conf.allow /\ ~conf.external_switch => Has(Encoder)
        BY <4>1 DEF SetUp, EncoderSet
      <4> QED BY <1>1, <3>2, <3>5, <4>1, <4>2 DEF EncoderSet
    <3> QED BY <1>3, <1>6, <3>3, <3>4, <3>5
  <2>6. DefaultSet'
    <3>1. CASE job.for = "rec"
      <4>1. ~conf.allow => Encodes(default_profile) BY <2>2, <3>1 DEF SetUp, DefaultSet
      <4> QED BY <1>1, <1>2, <4>1 DEF DefaultSet
    <3>2. CASE job.for = "start"
      <4>1. pc' \in {"rates", "controls"} BY <1>3, <1>6, <2>2, <3>2
      <4>2. pc' = "controls" => Has(Encoder) /\ job.profile = default_profile
        BY <1>3, <2>2, <3>2 DEF SetUp, EncoderSet, Job
      <4>3. Has(Encoder) /\ job.profile = default_profile => Encodes(default_profile)
        BY DEF Has, Encodes
      <4> QED BY <1>1, <1>2, <3>2, <4>1, <4>2, <4>3 DEF DefaultSet
    <3> QED BY <2>2, <3>1, <3>2
  <2> QED BY <2>1, <2>3, <2>4, <2>5, <2>6 DEF SetUp
<1> QED BY <1>5, <1>6

\* The end of a recording, of one that failed, the beginning of one, the
\* start of the server and its end.
LEMMA SetUpAround ==
    ASSUME SetUp, Open,
           \/ EndRec \/ Failed \/ Start \/ Die
           \/ \E list \in ProfileLists : \E ch, i : StartRec(list, ch, i)
    PROVE  SetUp'
<1>1. hw' = hw /\ UNCHANGED <<conf, refused>>
  BY DEF EndRec, Failed, Start, Die, StartRec, Still, Goto
<1>2. Encodes(default_profile) => Encodes(default_profile)'
  BY <1>1 DEF Encodes
<1>3. OnCard(hw') /\ ~refused' BY <1>1 DEF SetUp, Unrefused
<1>4. ASSUME pc' \in {"idle", "down", "controls", "open"}
      PROVE  InputSet' /\ EncoderSet' /\ Unrefused'
  BY <1>3, <1>4 DEF InputSet, EncoderSet, Unrefused, Setting
<1>5. CASE EndRec
  <2>1. pc = "capture" /\ pc' = "idle" /\ job' = job BY <1>5 DEF EndRec, Goto
  <2>2. job.for = "rec" BY <2>1 DEF Open, Busy
  <2>3. Job' BY <1>1, <2>1 DEF SetUp, Job, Setting
  <2>4. DefaultSet' BY <1>1, <1>2, <2>1, <2>2 DEF SetUp, DefaultSet
  <2> QED BY <1>4, <2>1, <2>3, <2>4 DEF SetUp
<1>6. CASE Failed
  <2>1. /\ pc = "failed" /\ job' = job
        /\ pc' = IF job.for = "start" THEN "down" ELSE "idle"
    BY <1>6 DEF Failed, Goto
  <2>2. job.for \in {"start", "rec"} BY <2>1 DEF Open, Busy
  <2>3. Job' BY <1>1, <2>1 DEF SetUp, Job, Setting
  <2>4. DefaultSet' BY <1>1, <1>2, <2>1, <2>2 DEF SetUp, DefaultSet
  <2> QED BY <1>4, <2>1, <2>3, <2>4 DEF SetUp
<1>7. CASE Start
  <2>1. /\ pc' = IF conf.allow THEN "controls" ELSE "open"
        /\ job' = [NoJob EXCEPT !.for = "start"]
    BY <1>7 DEF Start, Goto
  <2>2. job'.for = "start" /\ job'.profile = default_profile BY <2>1 DEF NoJob
  <2>3. Job' BY <1>1, <2>1, <2>2, ProfilesOrdered DEF Job, Setting
  <2>4. DefaultSet' BY <1>1, <2>1, <2>2 DEF DefaultSet
  <2> QED BY <1>4, <2>1, <2>3, <2>4 DEF SetUp
<1>8. CASE Die
  <2>1. pc' = "down" /\ job' = NoJob BY <1>8 DEF Die, Goto
  <2>2. job'.for = "nothing" /\ job'.profile = default_profile BY <2>1 DEF NoJob
  <2>3. Job' BY <2>1, <2>2, ProfilesOrdered DEF Job, Setting
  <2>4. DefaultSet' BY <2>1 DEF DefaultSet
  <2> QED BY <1>4, <2>1, <2>3, <2>4 DEF SetUp
<1>9. ASSUME NEW list \in ProfileLists, NEW ch, NEW i, StartRec(list, ch, i) PROVE SetUp'
  <2>1. /\ pc = "idle" /\ pc' = "open"
        /\ job' = [for |-> "rec", channel |-> ch, input |-> i, list |-> list, profile |-> Chosen(list)]
    BY <1>9 DEF StartRec, Goto
  <2>2. job'.for = "rec" /\ job'.list = list /\ job'.profile = Chosen(list) BY <2>1
  <2>3. Chosen(list) \in DOMAIN Profiles BY ChosenKnown
  <2>4. Job' BY <2>1, <2>2, <2>3 DEF Job, Setting
  <2>5. DefaultSet' BY <1>1, <1>2, <2>1 DEF SetUp, DefaultSet
  <2> QED BY <1>4, <2>1, <2>4, <2>5 DEF SetUp
<1> QED BY <1>5, <1>6, <1>7, <1>8, <1>9

\* The controls are set when the server starts.
LEMMA SetUpControls == SetUp /\ Open /\ SetControls => SetUp'
<1> SUFFICES ASSUME SetUp, Open, SetControls PROVE SetUp' OBVIOUS
<1>1. pc = "controls" /\ pc' = "idle" /\ UNCHANGED <<conf, refused, job>>
  BY DEF SetControls, Goto, Still
<1>2. OnCard(hw) BY DEF SetUp, Unrefused
<1>3. hurt => hurt' BY DEF SetControls, NoFault, Fault
<1>4. OnCard(hw') /\ Elsewhere(hw, hw', Controls)
  <2>1. \E bad : hw' = After(hw, Settings(bad), 8) BY DEF SetControls
  <2> QED BY <1>2, <2>1, AfterSettings
<1>5. Job' BY <1>1 DEF SetUp, Job, Setting
<1>6. InputSet' /\ EncoderSet' BY <1>1 DEF InputSet, EncoderSet, Setting
<1>7. DefaultSet'
  <2>1. Controls \cap Encoder = {} BY ControlsApart
  <2>2. Encodes(default_profile) => Encodes(default_profile)' BY <1>1, <1>3, <1>4, <2>1, SetElsewhere
  <2> QED BY <1>1, <2>2 DEF SetUp, DefaultSet
<1>8. Unrefused' BY <1>1, <1>4 DEF SetUp, Unrefused
<1> QED BY <1>5, <1>6, <1>7, <1>8 DEF SetUp

\* A command that sets a control or looks, whatever the thread is doing.
LEMMA SetUpAnswers ==
    ASSUME SetUp, NEW ret \in {"ok", "EINVAL", "EBUSY", "EIO"}, Answers(ret),
           OnCard(hw'), Elsewhere(hw, hw', Controls)
    PROVE  SetUp'
<1>1. UNCHANGED <<conf, job, pc, hurt>> BY DEF Answers, TheRest, CardFault, NoFault
<1>2. ~refused' BY DEF Answers, SetUp, Unrefused
<1> QED BY <1>1, <1>2, SetUpStays

\* The commands write controls only, each with a value in its range.
LEMMA CommandsEnd ==
    ASSUME OnCard(hw), Commanded
    PROVE  \E ret \in {"ok", "EINVAL", "EBUSY", "EIO"} :
               Answers(ret) /\ OnCard(hw') /\ Elsewhere(hw, hw', Controls)
<1>1. CASE Look
  <2>1. PICK ws : /\ ws \in {CardInfo, ListInputs, ListControls}
                  /\ \E e \in Ends(hw, ws) : hw' = e.hw /\ Answers(e.ret)
    BY <1>1 DEF Look
  <2>2. Len(ws) \in Nat /\ DOMAIN ws = 1 .. Len(ws) /\ \A k \in 1 .. Len(ws) : ws[k] = Read
    <3>1. CASE ws = CardInfo BY <3>1 DEF CardInfo
    <3>2. CASE ws = ListInputs BY <3>2 DEF ListInputs
    <3>3. CASE ws = ListControls
      <4>1. 2 * Len(Order) \in Nat BY DEF Order
      <4> QED BY <3>3, <4>1 DEF ListControls
    <3> QED BY <2>1, <3>1, <3>2, <3>3
  <2>3. PICK e \in Ends(hw, ws) : hw' = e.hw /\ Answers(e.ret) BY <2>1
  <2>4. hw' = hw /\ e.ret \in {"ok", "EBUSY", "EIO"} BY <2>2, <2>3, EndsReads
  <2>5. Elsewhere(hw, hw', Controls) BY <2>4 DEF Elsewhere
  <2> QED BY <2>3, <2>4, <2>5
<1>2. ASSUME NEW c \in DOMAIN Limits, NEW val \in Int, InRange(c, val),
             NEW e \in Ends(hw, <<<<c, Level(c, val)>>>>), hw' = e.hw, Answers(e.ret)
      PROVE  \E ret \in {"ok", "EINVAL", "EBUSY", "EIO"} :
                 Answers(ret) /\ OnCard(hw') /\ Elsewhere(hw, hw', Controls)
  <2>1. Level(c, val) \in Limits[c][1] .. Limits[c][2] BY <1>2, LevelInRange
  <2>2. PICK v : v = Level(c, val) OBVIOUS
  <2>3. e \in Ends(hw, <<<<c, v>>>>) /\ v \in Limits[c][1] .. Limits[c][2] BY <2>1, <2>2
  <2>4. OnCard(e.hw) /\ Elsewhere(hw, e.hw, Controls) /\ e.ret \in {"ok", "EINVAL", "EBUSY", "EIO"}
    BY <2>3, EndsControl
  <2> QED BY <1>2, <2>4
<1>3. ASSUME NEW val \in Normal, AdjustVolume(val)
      PROVE  \E ret \in {"ok", "EINVAL", "EBUSY", "EIO"} :
                 Answers(ret) /\ OnCard(hw') /\ Elsewhere(hw, hw', Controls)
  <2>1. InRange("volume", val) /\ "volume" \in DOMAIN Limits BY <1>3 DEF AdjustVolume, Limits
  <2>2. val \in Int BY <2>1 DEF InRange
  <2>3. PICK c : c = "volume" OBVIOUS
  <2>4. PICK e \in Ends(hw, <<<<c, Level(c, val)>>>>) : hw' = e.hw /\ Answers(e.ret)
    BY <1>3, <2>3 DEF AdjustVolume
  <2> QED BY <1>2, <2>1, <2>2, <2>3, <2>4
<1>4. ASSUME NEW val \in Normal, NEW c \in Controls, AdjustAudio(c, val) \/ AdjustImage(c, val)
      PROVE  \E ret \in {"ok", "EINVAL", "EBUSY", "EIO"} :
                 Answers(ret) /\ OnCard(hw') /\ Elsewhere(hw, hw', Controls)
  <2>1. /\ InRange(c, val)
        /\ c \in {"bass", "treble", "brightness", "saturation", "contrast", "hue"}
        /\ \E e \in Ends(hw, <<<<c, Level(c, val)>>>>) : hw' = e.hw /\ Answers(e.ret)
    BY <1>4 DEF AdjustAudio, AdjustImage
  <2>2. val \in Int BY <2>1 DEF InRange
  <2>3. c \in DOMAIN Limits BY ControlsConfigured
  <2>4. PICK e \in Ends(hw, <<<<c, Level(c, val)>>>>) : hw' = e.hw /\ Answers(e.ret) BY <2>1
  <2> QED BY <1>2, <2>1, <2>2, <2>3, <2>4
<1> QED BY <1>1, <1>3, <1>4 DEF Commanded

\* So they touch nothing of what the thread sets.
LEMMA SetUpCommanded == SetUp /\ Commanded => SetUp'
<1> SUFFICES ASSUME SetUp, Commanded PROVE SetUp' OBVIOUS
<1>1. OnCard(hw) BY DEF SetUp, Unrefused
<1>2. PICK ret \in {"ok", "EINVAL", "EBUSY", "EIO"} :
               Answers(ret) /\ OnCard(hw') /\ Elsewhere(hw, hw', Controls)
  BY <1>1, CommandsEnd
<1> QED BY <1>2, SetUpAnswers

\* What the card is set to is known after any step.
LEMMA SetUpKept == SetUp /\ Open /\ [Next]_vars => SetUp'
<1> SUFFICES ASSUME SetUp, Open, [Next]_vars PROVE SetUp' OBVIOUS
<1>1. CASE OpenEncoder \/ OpenTuner \/ NoStation \/ Script \/ Release BY <1>1, SetUpAlone
<1>2. CASE SwitchInput \/ ChannelInput BY <1>2, SetUpTakesInput
<1>3. CASE Station BY <1>3, SetUpStation
<1>4. CASE Channel BY <1>4, SetUpChannel
<1>5. CASE setup_hw_parameters BY <1>5, SetUpParameters
<1>6. CASE EndRec \/ Failed \/ Start \/ Die BY <1>6, SetUpAround
<1>7. CASE \E list \in ProfileLists : \E ch, i : StartRec(list, ch, i) BY <1>7, SetUpAround
<1>8. CASE SetControls BY <1>8, SetUpControls
<1>9. CASE Commanded BY <1>9, SetUpCommanded
<1>10. CASE (\E what \in CommandsUsed : OpenCard(what)) \/ UNCHANGED vars
  <2>1. hw' = hw /\ UNCHANGED <<conf, job, pc, hurt, refused>>
    <3>1. CASE UNCHANGED vars BY <3>1 DEF vars
    <3>2. ASSUME NEW what, OpenCard(what)
          PROVE  hw' = hw /\ UNCHANGED <<conf, job, pc, hurt, refused>>
      BY <3>2 DEF OpenCard, TheRest, NoFault, CardFault
    <3> QED BY <1>10, <3>1, <3>2
  <2>2. Elsewhere(hw, hw', Controls) BY <2>1 DEF Elsewhere
  <2>3. OnCard(hw') /\ ~refused' BY <2>1 DEF SetUp, Unrefused
  <2> QED BY <2>1, <2>2, <2>3, SetUpStays
<1>11. CASE \/ \E list \in ProfileLists : \/ \E ch \in Channels : StartRec(list, ch, 0)
                                         \/ \E i \in Inputs : StartRec(list, "", i)
  BY <1>7, <1>11
<1> QED BY <1>1, <1>2, <1>3, <1>4, <1>5, <1>6, <1>8, <1>9, <1>10, <1>11 DEF Next, Commanded

-----------------------------------------------------------------------------
(* What nobody sets. *)

\* With an external switch and profiles that may adjust it, the encoder is as found.
Untouched == conf.allow /\ conf.external_switch => AsFound

\* Only setup_hw_parameters writes the encoder.
LEMMA EncoderKept ==
    ASSUME SetUp, Open, [Next]_vars, pc \notin Setting
    PROVE  \A r \in Encoder : hw'[r] = hw[r]
<1>1. OnCard(hw) BY DEF SetUp, Unrefused
<1>2. ASSUME NEW S, Elsewhere(hw, hw', S), S \cap Encoder = {}
      PROVE  \A r \in Encoder : hw'[r] = hw[r]
  <2>1. Encoder \subseteq Registers BY DEF Registers
  <2> QED BY <1>2, <2>1 DEF Elsewhere
<1>3. Controls \cap Encoder = {} /\ {"input", "freq"} \cap Encoder = {} /\ {"input"} \cap Encoder = {}
  BY ControlsApart DEF Encoder
<1>4. CASE hw' = hw BY <1>4
<1>5. ASSUME NEW idx, NEW e \in Ends(hw, take_input(idx)), hw' = e.hw
      PROVE  \A r \in Encoder : hw'[r] = hw[r]
  <2>1. Elsewhere(hw, hw', {"input"}) BY <1>1, <1>5, EndsTakeInput
  <2> QED BY <1>2, <1>3, <2>1
<1>6. CASE SwitchInput \/ ChannelInput
  <2>1. \E idx : \E e \in Ends(hw, take_input(idx)) : hw' = e.hw
    BY <1>6 DEF SwitchInput, ChannelInput
  <2> QED BY <1>5, <2>1
<1>7. ASSUME NEW ch, NEW e \in Ends(hw, tune(hw, ch)), hw' = e.hw
      PROVE  \A r \in Encoder : hw'[r] = hw[r]
  <2>1. Elsewhere(hw, hw', {"input", "freq"}) BY <1>1, <1>7, EndsTune
  <2> QED BY <1>2, <1>3, <2>1
<1>8. CASE Station \/ Channel
  <2>1. \E ch : \E e \in Ends(hw, tune(hw, ch)) : hw' = e.hw
    <3>1. CASE Station BY <3>1 DEF Station, Try
    <3>2. CASE Channel BY <3>2 DEF Channel, Try
    <3> QED BY <1>8, <3>1, <3>2
  <2> QED BY <1>7, <2>1
<1>9. CASE SetControls
  <2>1. PICK bad : hw' = After(hw, Settings(bad), 8) BY <1>9 DEF SetControls
  <2>2. Elsewhere(hw, hw', Controls) BY <1>1, <2>1, AfterSettings
  <2> QED BY <1>2, <1>3, <2>2
<1>10. CASE Commanded
  <2>1. Elsewhere(hw, hw', Controls) BY <1>1, <1>10, CommandsEnd
  <2> QED BY <1>2, <1>3, <2>1
<1>11. ASSUME \/ OpenEncoder \/ OpenTuner \/ NoStation \/ Script \/ Release \/ EndRec \/ Failed \/ Start \/ Die
              \/ \E list, ch, i : StartRec(list, ch, i)
              \/ \E what : OpenCard(what)
              \/ UNCHANGED vars
       PROVE  hw' = hw
  BY <1>11 DEF OpenEncoder, OpenTuner, NoStation, Script, Release, EndRec, Failed, Start, Die,
               StartRec, OpenCard, vars
<1>12. ~setup_hw_parameters BY DEF setup_hw_parameters, Setting
<1>13. CASE \/ \E list \in ProfileLists : \/ \E ch \in Channels : StartRec(list, ch, 0)
                                         \/ \E i \in Inputs : StartRec(list, "", i)
  BY <1>4, <1>11, <1>13
<1> QED BY <1>4, <1>6, <1>8, <1>9, <1>10, <1>11, <1>12, <1>13 DEF Next, Commanded

\* The configuration and the card are what they are.
LEMMA ConfKept == [Next]_vars => conf' = conf
<1> SUFFICES ASSUME [Next]_vars PROVE conf' = conf OBVIOUS
<1>1. CASE Still BY <1>1 DEF Still
<1>2. CASE Die BY <1>2 DEF Die
<1>3. CASE TheRest BY <1>3 DEF TheRest
<1>4. CASE UNCHANGED vars BY <1>4 DEF vars
<1>5. CASE Commanded
  <2>1. \E ret : Answers(ret)
    BY <1>5, Zenon DEF Commanded, Look, AdjustVolume, AdjustAudio, AdjustImage
  <2> QED BY <2>1 DEF Answers, TheRest
<1>6. CASE \/ Start \/ OpenEncoder \/ OpenTuner \/ SwitchInput \/ NoStation \/ Station \/ Script
           \/ ChannelInput \/ Channel \/ Release \/ EndRec \/ Failed \/ SetControls
  BY <1>1, <1>6, Zenon DEF Start, OpenEncoder, OpenTuner, SwitchInput, NoStation, Station, Script,
     ChannelInput, Channel, Release, EndRec, Failed, SetControls, Try
<1>7. CASE setup_hw_parameters
  <2>1. (\E ws, next : Try(ws, next)) \/ NoSuchSize BY <1>7, Zenon DEF setup_hw_parameters
  <2> QED BY <1>1, <2>1 DEF Try, NoSuchSize
<1>8. CASE \E list, ch, i : StartRec(list, ch, i) BY <1>1, <1>8 DEF StartRec
<1>9. CASE \E what : OpenCard(what) BY <1>3, <1>9 DEF OpenCard
<1>10. CASE \/ \E list \in ProfileLists : \/ \E ch \in Channels : StartRec(list, ch, 0)
                                         \/ \E i \in Inputs : StartRec(list, "", i)
  BY <1>8, <1>10
<1> QED BY <1>2, <1>4, <1>5, <1>6, <1>7, <1>9, <1>10 DEF Next, Commanded

\* Which it never does then.
LEMMA UntouchedKept == SetUp /\ Open /\ Untouched /\ [Next]_vars => Untouched'
<1> SUFFICES ASSUME SetUp, Open, Untouched, [Next]_vars, conf'.allow, conf'.external_switch
             PROVE  AsFound'
  BY DEF Untouched
<1>1. conf' = conf BY ConfKept
<1>2. pc \notin Setting
  <2>1. pc \in Setting => job.for \in {"start", "rec"} BY DEF Setting, Open, Busy
  <2> QED BY <1>1, <2>1 DEF SetUp, Job
<1>3. \A r \in Encoder : hw'[r] = hw[r] BY <1>2, EncoderKept
<1>4. AsFound BY <1>1 DEF Untouched
<1> QED BY <1>3, <1>4 DEF AsFound

\* At first it is as it was found, by its definition.
LEMMA UntouchedAtFirst == Init => Untouched
<1> SUFFICES ASSUME Init PROVE AsFound BY DEF Untouched
<1>1. PICK e \in EncodersFound : hw = Left(e) BY DEF Init
<1>2. \A r \in Encoder : hw[r] = e[r]
  <2> SUFFICES ASSUME NEW r \in Encoder PROVE hw[r] = e[r] OBVIOUS
  <2>1. r \notin Controls BY ControlsApart
  <2>2. r # "input" /\ r # "freq" BY DEF Encoder
  <2> QED BY <1>1, <2>1, <2>2 DEF Left
<1> QED BY <1>2 DEF AsFound

-----------------------------------------------------------------------------
(* The theorems. *)

\* What is open, and what the card is set to, hold of every state.
LEMMA AlwaysSetUp == Spec => [](Open /\ SetUp /\ Untouched)
<1>1. Init => Open /\ SetUp /\ Untouched BY OpenAtFirst, SetUpAtFirst, UntouchedAtFirst
<1>2. (Open /\ SetUp /\ Untouched) /\ [Next]_vars => (Open /\ SetUp /\ Untouched)'
  BY OpenKept, SetUpKept, UntouchedKept
<1> QED BY <1>1, <1>2, PTL DEF Spec

\* A set-up of a card fails for a fault of the card, for an external switch with no
\* station to tune to or for a name of a size that is none, and leaves nothing open but
\* with such a switch, whatever profiles, controls, channels and switches are configured
\* and whichever controls the card lacks: the driver is never asked for a rate above the
\* peak or for a value out of range of a control it has, in any order of recordings,
\* commands, faults and restarts (vctrl.c, setup_video, setup_capture_cards).
THEOREM FailuresAreFaults == Spec => []FailsCleanly
<1>1. Open /\ SetUp /\ Untouched => FailsCleanly
  <2> SUFFICES ASSUME Open, SetUp PROVE FailsCleanly OBVIOUS
  <2>1. ~refused /\ (pc = "failed" => hurt \/ NoStationGiven \/ SizeMisspelt)
    BY DEF SetUp, Unrefused
  <2>2. ASSUME pc \in {"failed", "idle"}
        PROVE  DOMAIN fds \subseteq {cmd.fd} \/ (NoStationGiven /\ conf.tuner)
    <3>1. fd = NoFd /\ fdtuner = NoFd BY <2>2 DEF Open, Holds
    <3>2. NoFd \notin DOMAIN fds BY NoFdApart DEF Open, Numbered
    <3>3. CASE Leaked = {} BY <3>1, <3>2, <3>3 DEF Leaked
    <3>4. CASE Leaked # {} BY <3>4 DEF Open, Closes
    <3> QED BY <3>3, <3>4
  <2> QED BY <2>1, <2>2 DEF FailsCleanly
<1> QED BY <1>1, AlwaysSetUp, PTL

\* If the better profiles rise, the one startrec takes is one of the best.
LEMMA ChosenBest ==
    ASSUME BetterInOrder, NEW list \in ProfileLists
    PROVE  Chosen(list) \in Best(list)
<1>1. list \in Seq(DOMAIN Profiles) /\ list # <<>> BY ProfilesKnown
<1>2. /\ DOMAIN list = 1 .. Len(list) /\ Len(list) \in Nat /\ 1 \in DOMAIN list
      /\ \A k \in DOMAIN list : list[k] \in DOMAIN Profiles
  BY <1>1
<1>3. \A k \in DOMAIN list : Bitrate(list[k]) \in Int BY <1>2, ProfilesOrdered DEF Bitrate
<1>4. PICK i \in DOMAIN list :
        /\ Chosen(list) = list[i]
        /\ \/ i = 1 /\ \A k \in DOMAIN list : ~(Bitrate(list[k]) > Bitrate(list[1]))
           \/ /\ Bitrate(list[i]) > Bitrate(list[1])
              /\ \A k \in DOMAIN list : Bitrate(list[k]) > Bitrate(list[1]) => k <= i
  BY ChosenIs
<1>5. \A k \in DOMAIN list : Bitrate(list[k]) <= Bitrate(list[i])
  <2> SUFFICES ASSUME NEW k \in DOMAIN list PROVE Bitrate(list[k]) <= Bitrate(list[i]) OBVIOUS
  <2>1. /\ Bitrate(list[k]) \in Int /\ Bitrate(list[1]) \in Int /\ Bitrate(list[i]) \in Int
        /\ k \in Int /\ i \in Int
    BY <1>2, <1>3
  <2>2. CASE ~(Bitrate(list[k]) > Bitrate(list[1])) BY <1>4, <2>1, <2>2
  <2>3. CASE Bitrate(list[k]) > Bitrate(list[1])
    <3>1. Bitrate(list[i]) > Bitrate(list[1]) /\ k <= i BY <1>4, <2>3
    <3>2. CASE k = i BY <2>1, <3>2
    <3>3. CASE k # i
      <4>1. k < i BY <2>1, <3>1, <3>3
      <4> QED BY <2>3, <3>1, <4>1 DEF BetterInOrder
    <3> QED BY <3>2, <3>3
  <2> QED BY <2>2, <2>3
<1>6. Range(list) = {list[k] : k \in DOMAIN list} BY DEF Range
<1> QED BY <1>4, <1>5, <1>6 DEF Best

\* What is recorded, for all lists: the input asked for, encoded as startrec chose.
RecordsAsChosen == pc = "capture" =>
    /\ job.list \in ProfileLists
    /\ InputAsAsked
    /\ IF ~conf.allow THEN Encodes(default_profile)
       ELSE IF Adjusts THEN Encodes(Chosen(job.list)) ELSE AsFound

\* Every recording has the channel or the input it was asked for with, unless the
\* card failed to take the input, and is encoded as the profile startrec has chosen
\* of its list says, or as the default does where profiles may not adjust the encoder,
\* whatever was recorded, refused or set on the card before, and whichever way the
\* profiles lie to one another; but where they may and there is an external switch
\* (vcard.c:290), it is encoded as the first server found the card (setup_video).
THEOREM RecordedAsChosen == Spec => []RecordsAsChosen
<1>1. ASSUME Open, SetUp, Untouched PROVE RecordsAsChosen
  <2> SUFFICES ASSUME pc = "capture" PROVE
         /\ job.list \in ProfileLists
         /\ InputAsAsked
         /\ ~conf.allow => Encodes(default_profile)
         /\ Adjusts => Encodes(Chosen(job.list))
         /\ conf.allow /\ ~Adjusts => AsFound
    BY DEF RecordsAsChosen
  <2>1. job.for = "rec" BY <1>1 DEF Open, Busy
  <2>2. InputAsAsked BY <1>1, <2>1 DEF SetUp, InputSet
  <2>3. ~conf.allow => Encodes(default_profile) BY <1>1, <2>1 DEF SetUp, DefaultSet
  <2>4. job.list \in ProfileLists /\ job.profile = Chosen(job.list) BY <1>1, <2>1 DEF SetUp, Job
  <2>5. ASSUME Adjusts PROVE Encodes(Chosen(job.list))
    <3>1. Has(Encoder) BY <1>1, <2>1, <2>5 DEF SetUp, EncoderSet, Adjusts
    <3>2. Encodes(job.profile) BY <3>1 DEF Has, Encodes
    <3> QED BY <2>4, <3>2
  <2>6. conf.allow /\ ~Adjusts => AsFound BY <1>1 DEF Untouched, Adjusts
  <2> QED BY <2>2, <2>3, <2>4, <2>5, <2>6
<1>2. Open /\ SetUp /\ Untouched => RecordsAsChosen BY <1>1
<1> QED BY <1>2, AlwaysSetUp, PTL

\* Then, where it is adjusted for the recording, the encoder has one of the best of its
\* profiles, for any lists of which startrec finds the best.
THEOREM RecordedAsAsked ==
  ASSUME BetterInOrder
  PROVE  Spec => []RecordsAsAsked
<1>1. RecordsAsChosen => RecordsAsAsked
  <2> SUFFICES ASSUME RecordsAsChosen, pc = "capture" PROVE
         /\ InputAsAsked
         /\ ~conf.allow => Encodes(default_profile)
         /\ Adjusts => \E p \in Best(job.list) : Encodes(p)
         /\ conf.allow /\ ~Adjusts => AsFound
    BY DEF RecordsAsAsked, InputAsAsked
  <2>1. /\ job.list \in ProfileLists
        /\ InputAsAsked
        /\ ~conf.allow => Encodes(default_profile)
        /\ Adjusts => Encodes(Chosen(job.list))
        /\ conf.allow /\ ~Adjusts => AsFound
    BY DEF RecordsAsChosen, Adjusts
  <2>2. Chosen(job.list) \in Best(job.list) BY <2>1, ChosenBest
  <2> QED BY <2>1, <2>2
<1> QED BY <1>1, RecordedAsChosen, PTL
=============================================================================
