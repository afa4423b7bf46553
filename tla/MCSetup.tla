------------------------------ MODULE MCSetup ------------------------------
(***************************************************************************)
(* What is set up before a show, on small instances: the configuration and  *)
(* the presets, what the settings mean, and the routing of the channels.    *)
(* They are explored one at a time: `part` says which one moves.            *)
(***************************************************************************)
EXTENDS Presets, Settings, ChannelMap

\* Two names make one id, and "b" is the built-in's.
MCIdOf == [n \in {"A", "A!", "B", "C"} |->
             IF n = "B" THEN "b" ELSE IF n = "C" THEN "c" ELSE "a"]
PresetOf(n, s, f) == [name |-> n, scope |-> s, fields |-> f]
None == [i \in {} |-> {}]
\* A first launch; two presets, one of an earlier build; a preset written by
\* hand that uses another's passwords; and files that cannot be read.
MCFinds ==
  LET found(d, fs, bad, rec, v) ==
        [disk |-> d, files |-> fs, unreadable |-> bad, active |-> rec, vault |-> v]
      two(a, b) == [i \in {"a", "b"} |-> IF i = "a" THEN a ELSE b]
      byHand == PresetOf("A", "b", [statusKey |-> "own", audioDeviceId |-> Foreign,
                  videoSource |-> Foreign, coughMuteMode |-> "", eventId |-> Foreign])
      own(n) == PresetOf(n, MCIdOf[n], [statusKey |-> "own"]) IN
  {found({}, None, {}, NoRecord, {}),
   found({Defaults}, two(PresetOf("A", "", [statusKey |-> "own"]),
                         PresetOf("B", "b", [statusKey |-> "cam4", eventId |-> Foreign])),
         {}, [id |-> "a", scope |-> ""], {"", "b"} \X Keys),
   found({[Defaults EXCEPT !.audioDeviceId = "mic"]},
         [i \in {"a", "c"} |-> IF i = "a" THEN byHand ELSE own("C")],
         {}, [id |-> "c", scope |-> "c"], {"c", "b"} \X Keys),
   found({Defaults}, None, {"b"}, Damaged, {""} \X Keys)}
MCPresetBudgets == {[calls |-> 2, faults |-> 1, crashes |-> 1], [calls |-> 3, faults |-> 0, crashes |-> 0]}

\* Settings one thing apart from a seat that works, or a few: of the capture, of
\* what is sent, of its format and of the return.
Format(w, h, s, r, p) == [w |-> w, h |-> h, scan |-> s, rate |-> r, point |-> p]
Working ==
  [host |-> [scheme |-> TRUE, name |-> "desk", port |-> 443], named |-> TRUE,
   audioKind |-> "", audioDevice |-> "mic", videoSource |-> "", card |-> NoId, srtPort |-> 40901,
   secondPort |-> 0, keyLen |-> 0, latency |-> 120, returnMid |-> 1, bitrate |-> 0,
   override |-> Unwritten, returnSource |-> "srt", returnChannel |-> "", returnPort |-> 0,
   returnOverride |-> FALSE, returnUrl |-> [name |-> "", port |-> 0], returnKeyLen |-> 0,
   pictureLatency |-> 0]
Unstated == [w |-> 0, h |-> 0, rate |-> 0]
Every == {"mic", "1", "2"}
SeatOf(c, m, d, s, t) == [conf |-> c, machine |-> m, dead |-> d, stored |-> s, stated |-> t]
CaptureCases ==
  {SeatOf([Working EXCEPT !.audioKind = k, !.audioDevice = a, !.videoSource = v, !.card = c],
          m, {}, {}, Unstated) :
     k \in {"", "decklink", "other"}, a \in {"mic", Speaker, NoId, "1"},
     v \in {"", "decklink", "none", "other"}, c \in {NoId, "1", Misspelt},
     m \in {{}, {"mic"}, {"mic", "1"}, Every}}
  \cup {SeatOf([Working EXCEPT !.audioKind = k, !.videoSource = "decklink"], {"mic", "1"}, d, {}, Unstated) :
     k \in {"native", "decklink"}, d \in SUBSET {"mic", "1"}}
SendCases ==
  {SeatOf([Working EXCEPT !.host = [scheme |-> s, name |-> n, port |-> h], !.srtPort = p,
             !.secondPort = q, !.keyLen = k, !.latency = l], Every, {}, v, Unstated) :
     s \in BOOLEAN, n \in {"", "desk"}, h \in {0, 443}, p \in {0, 1, 65536}, q \in {0, 1, 2, -1},
     k \in {0, 16, 24}, l \in {-1, 0}, v \in {{}, {"srt"}}}
Rates == {500, 1000, 4999, 12500, 23976, 23980, 24000, 25000, 29970, 30000, 50000, 59940, 60000,
          119880, 999998, 1000000, 1000001}
FormatCases ==
  {SeatOf([Working EXCEPT !.override = Format(w, 1080, s, r, FALSE)], Every, {}, {}, Unstated) :
     w \in {1919, 1920, 9000}, s \in {"p", "i"}, r \in {r \in Rates : r % 1000 = 0}}
  \cup {SeatOf([Working EXCEPT !.override = Format(1920, 1080, "p", r, TRUE)], Every, {}, {}, Unstated) :
     r \in Rates}
  \cup {SeatOf([Working EXCEPT !.override = o], Every, {}, {}, [w |-> w, h |-> 720, rate |-> r]) :
     w \in {0, 1279, 1280, 9000}, o \in {Unwritten, Format(1920, 1080, "p", 50000, FALSE)}, r \in Rates}
ReturnCases ==
  {SeatOf([Working EXCEPT !.host.name = h, !.returnSource = s, !.returnChannel = c, !.returnPort = p,
             !.returnOverride = o, !.returnUrl = [name |-> n, port |-> q], !.latency = l],
          Every, {}, {}, Unstated) :
     h \in {"", "desk"}, s \in {"", "srt", "other"}, c \in {"", "left", "both"}, p \in {0, -1, 40502},
     o \in BOOLEAN, n \in {"", "other"}, q \in {0, 70000}, l \in {-1, 0}}
  \cup {SeatOf([Working EXCEPT !.returnSource = s, !.returnKeyLen = k, !.pictureLatency = l],
               Every, {}, v, Unstated) :
     s \in {"", "srt"}, k \in {0, 16, 20, 24, 32}, l \in {-1, 0, 200}, v \in {{}, {"srtreturn"}}}
MCCases == CaptureCases \cup SendCases \cup FormatCases \cup ReturnCases
MCOverrides == {Unwritten, Format(1280, 720, "p", 59940, TRUE)}

\* Two channels, crossed and inverted; and a device whose width nobody knows.
Crossing == <<[output |-> 0, input |-> 1, gain |-> 1], [output |-> 1, input |-> 0, gain |-> -1]>>
MCPad   == [d \in {"card", "odd"} |-> IF d = "card" THEN 2 ELSE 1]
MCTold  == [MCPad EXCEPT !["odd"] = 0]
MCSaved == [d \in {"card", "odd"} |-> IF d = "card" THEN Crossing ELSE <<>>]
MCMaps  == {Crossing}
\* Two calls on one capture, or one across a rebuild.
MCChanBudgets == {[calls |-> 2, captures |-> 1], [calls |-> 1, captures |-> 2]}

VARIABLE part

allVars == <<part, presetVars, settingsVars, chanVars>>

\* A part that does not move starts from one state only.  Bound: three calls from
\* one of the finds, two with a fault and a crash from each.
MCInit ==
  /\ part \in {"presets", "settings", "routing"}
  /\ part = "presets" \/ budget = CHOOSE b \in PresetBudgets : b.calls = 3
  /\ PresetsInit /\ (budget.calls = 3 => DOMAIN files = {"a", "b"})
  /\ part = "settings" \/ (conf = Working /\ machine = {"mic"})
  /\ SettingsInit
  /\ part = "routing" \/ chanLeft = CHOOSE b \in ChanBudgets : TRUE
  /\ ChanInit

PresetsMove  == part = "presets" /\ PresetsNext /\ UNCHANGED <<part, settingsVars, chanVars>>
SettingsMove == part = "settings" /\ SettingsNext /\ UNCHANGED <<part, presetVars, chanVars>>
RoutingMoves == part = "routing" /\ ChanNext /\ UNCHANGED <<part, presetVars, settingsVars>>

MCNext == PresetsMove \/ SettingsMove \/ RoutingMoves
MCSpec == MCInit /\ [][MCNext]_allVars

\* The moving component's state is of its type.
TypesOK ==
  CASE part = "presets" -> PresetsTypeOK [] part = "settings" -> SettingsTypeOK
    [] part = "routing" -> ChanTypeOK
=============================================================================
