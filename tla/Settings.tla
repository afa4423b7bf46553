------------------------------- MODULE Settings -------------------------------
(***************************************************************************)
(* What the saved configuration means (config.go) and what is made of it:  *)
(* the capture's pre-flight and its build, START and its dials, the return *)
(* and the picture.  A host is what is written around a name, a device an  *)
(* identifier of a kind; what is out of range is in no other way wrong.    *)
(***************************************************************************)
EXTENDS VideoFormat, FiniteSets, Sequences

CONSTANTS
  Cases,      \* configurations, each with a machine, stored passphrases and a switcher
  Overrides,  \* what may be typed for the format while a session runs
  Mics, Cards \* identifiers: endpoints that record, and cards that are such numbers

\* Other identifiers: none, an endpoint that plays, one of another machine, no number.
NoId == ""
Speaker == "speaker"
Misspelt == "misspelt"
DeviceIds == Mics \cup Cards \cup {NoId, Speaker, Misspelt}

HostNames == {"", "desk", "other"}
Written == [scheme : BOOLEAN, name : HostNames, port : Int]
Ports == 1..65535
Configuration ==
  [host : Written, named : BOOLEAN, audioKind : STRING, audioDevice : DeviceIds, videoSource : STRING,
   card : DeviceIds, srtPort : Int, secondPort : Int, keyLen : Int, latency : Int, returnMid : Int,
   bitrate : Int, override : Typed, returnSource : STRING, returnChannel : STRING, returnPort : Int,
   returnOverride : BOOLEAN, returnUrl : [name : HostNames, port : Int], returnKeyLen : Int,
   pictureLatency : Int]
Unwritten == [w |-> 0, h |-> 0, scan |-> "none", rate |-> 0, point |-> FALSE]

ASSUME SettingsAssumption ==
  /\ Mics \cap Cards = {} /\ (Mics \cup Cards) \cap {NoId, Speaker, Misspelt} = {}
  /\ \A k \in Cases : /\ k.conf \in Configuration /\ k.dead \subseteq k.machine
                      /\ k.machine \subseteq Mics \cup Cards /\ k.stored \subseteq {"srt", "srtreturn"}
                      /\ k.stated \in [w : Nat, h : Nat, rate : Nat]
  /\ Overrides \subseteq Typed

VARIABLES
  conf,      \* the configuration
  machine,   \* the devices this machine has
  dead,      \* those that another program holds
  stored,    \* which passphrases the credential store has
  stated,    \* what the switcher states of its format
  captured,  \* the capture: closed, open, with the slate for the card, or why it is not
  hiccup,    \* an enumeration of devices came back empty
  plan,      \* capturePlan of the last pre-flight
  feed,      \* the session: stopped, dialling, sent, or why it is not
  sinks,     \* Opts.Sinks
  conformTo, \* what the session's picture is conformed to
  built,     \* what the capture was built to
  returning, \* the SRT return
  picture    \* the SRT picture

settingsVars == <<conf, machine, dead, stored, stated, captured, hiccup, plan, feed, sinks, conformTo,
                  built, returning, picture>>

NoPlan == [video |-> NoId, audio |-> NoId]
Outcomes == {"none", "refused", "failed", "ok"}

SettingsTypeOK ==
  /\ conf \in Configuration /\ stated \in [w : Nat, h : Nat, rate : Nat]
  /\ dead \subseteq machine /\ machine \subseteq Mics \cup Cards /\ stored \subseteq {"srt", "srtreturn"}
  /\ captured \in Outcomes \cup {"slate"} /\ hiccup \in BOOLEAN
  /\ plan \in [video : DeviceIds, audio : DeviceIds]
  /\ feed \in Outcomes \cup {"dialling"} /\ sinks \in Seq([host : HostNames, port : Int])
  /\ conformTo \in Target /\ built \in Target
  /\ returning \in Outcomes /\ picture \in Outcomes

SettingsInit ==
  /\ \E k \in Cases : conf = k.conf /\ machine = k.machine /\ dead = k.dead
                      /\ stored = k.stored /\ stated = k.stated
  /\ captured = "none" /\ hiccup = FALSE /\ plan = NoPlan
  /\ feed = "none" /\ sinks = <<>> /\ conformTo = NoTarget /\ built = NoTarget
  /\ returning = "none" /\ picture = "none"

-----------------------------------------------------------------------------
(* What a field means when it says nothing, or says it in many words.       *)

OrElse(s, default) == IF s = "" THEN default ELSE s
EffectiveAudioSourceKind(c) == OrElse(c.audioKind, "native")
EffectiveVideoSource(c)     == OrElse(c.videoSource, "slate")
EffectiveReturnSource(c)    == OrElse(c.returnSource, "webrtc")
EffectiveReturnChannel(c)   == OrElse(c.returnChannel, "stereo")
UsesDeckLinkAudio(c) == EffectiveAudioSourceKind(c) = "decklink"
UsesDeckLinkVideo(c) == EffectiveVideoSource(c) = "decklink"
UsesDeckLinkCard(c)  == UsesDeckLinkVideo(c) \/ UsesDeckLinkAudio(c)
SendsVideo(c)        == EffectiveVideoSource(c) # "none"
UsesSRTReturn(c)     == EffectiveReturnSource(c) = "srt"

\* hostOnly: neither the scheme nor the port of what is written is part of the host.
EffectiveSRTHost(c) == c.host.name

\* parseSRTReturnOverride names a host, and a port unless it is 0.
HasOverride(c) == c.returnOverride /\ c.returnUrl.name # ""
EffectiveSRTReturnHost(c) == IF HasOverride(c) THEN c.returnUrl.name ELSE EffectiveSRTHost(c)
EffectiveSRTReturnPort(c) ==
  CASE HasOverride(c) /\ c.returnUrl.port # 0 -> c.returnUrl.port
    [] ~(HasOverride(c) /\ c.returnUrl.port # 0) /\ c.returnPort # 0 -> c.returnPort
    [] OTHER -> 40501
EffectivePictureLatencyMs(c) == IF c.pictureLatency > 0 THEN c.pictureLatency ELSE 120

\* AudioDeviceKey: of a kind it does not know, the default's.
AudioDeviceKey(c) ==
  IF UsesDeckLinkAudio(c) THEN <<"decklink", c.card>> ELSE <<"native", c.audioDevice>>

MaxVideoBitrateKbps == 100000   \* kilobits
MaxLatency == 8000     \* milliseconds
AtMost(n, max) == n >= 0 /\ n <= max

\* Mutant: the second output may have the first one's port.
ValidateEachPort(c) ==
  /\ c.host # [scheme |-> FALSE, name |-> "", port |-> 0] /\ c.named
  /\ EffectiveAudioSourceKind(c) \in {"native", "decklink"}
  /\ EffectiveVideoSource(c) \in {"slate", "decklink", "none"}
  /\ UsesDeckLinkAudio(c) \/ c.audioDevice # NoId
  /\ c.srtPort \in Ports /\ c.secondPort \in Ports \cup {0}
  /\ c.keyLen \in {0, 16, 32} /\ c.returnMid \in 1..7 /\ AtMost(c.bitrate, MaxVideoBitrateKbps)
  /\ c.override # Unwritten => ParseVideoFormat(c.override) # NoTarget
\* Validate, and ValidateReturn.
Validate(c) ==
  /\ c.host # [scheme |-> FALSE, name |-> "", port |-> 0] /\ c.named
  /\ EffectiveAudioSourceKind(c) \in {"native", "decklink"}
  /\ EffectiveVideoSource(c) \in {"slate", "decklink", "none"}
  /\ UsesDeckLinkAudio(c) \/ c.audioDevice # NoId
  /\ c.srtPort \in Ports
  /\ c.secondPort = 0 \/ (c.secondPort \in Ports /\ c.secondPort # c.srtPort)
  /\ c.keyLen \in {0, 16, 32} /\ c.returnMid \in 1..7 /\ AtMost(c.bitrate, MaxVideoBitrateKbps)
  /\ c.override # Unwritten => ParseVideoFormat(c.override) # NoTarget

ValidateReturn(c) ==
  /\ EffectiveReturnSource(c) \in {"webrtc", "srt"}
  /\ EffectiveReturnChannel(c) \in {"stereo", "left", "right"}
  /\ EffectiveSRTReturnPort(c) \in Ports
  /\ c.returnOverride => c.returnUrl.name # ""
  /\ AtMost(c.pictureLatency, MaxLatency) /\ c.returnKeyLen \in {0, 16, 32}
  /\ EffectiveSRTHost(c) # ""

-----------------------------------------------------------------------------
(* The capture: which devices it is to open, and whether it can.            *)

\* ListInputDevices: what the machine has, or nothing, when it cannot be listed.
Listings == {machine, {}}

\* preflightAudioDevice, and resolveDeckLinkCard: NoPlan's NoId is its refusal.
MicIsThere(c, list) == c.audioDevice # Speaker /\ (list = {} \/ c.audioDevice \in list)
CardFor(c, list) ==
  CASE list = {} -> c.card
    [] list # {} /\ c.card # NoId -> IF c.card \in list \cap Cards THEN c.card ELSE NoId
    [] list # {} /\ c.card = NoId /\ Cardinality(list \cap Cards) = 1 -> CHOOSE d \in list \cap Cards : TRUE
    [] OTHER -> NoId

\* preflightCapture, with what each of its two enumerations answers.
PreflightRefuses(c, mics, cards) ==
  \/ ~UsesDeckLinkAudio(c) /\ ~MicIsThere(c, mics)
  \/ UsesDeckLinkCard(c) /\ CardFor(c, cards) = NoId
Planned(c, cards) ==
  [video |-> IF UsesDeckLinkVideo(c) THEN CardFor(c, cards) ELSE NoId,
   audio |-> IF UsesDeckLinkAudio(c) THEN CardFor(c, cards) ELSE NoId]

\* captureOpts: the device of the commentary, of which there is to be exactly one.
NativeAudioDevice(c) == IF UsesDeckLinkAudio(c) THEN NoId ELSE c.audioDevice
DeviceKey(c, p) == IF p.audio # NoId THEN <<"decklink", p.audio>> ELSE <<"native", NativeAudioDevice(c)>>

\* NewCapture, leg by leg: a card is a number, the commentary has one source,
\* which records, and a card is one and the same for both.
AcceptsPicture(p) == p.video = NoId \/ p.video \in Cards
AcceptsCommentary(c, p) ==
  LET native == NativeAudioDevice(c) IN
  /\ (native = NoId) # (p.audio = NoId)
  /\ IF p.audio # NoId THEN p.audio \in Cards ELSE native # Speaker
  /\ p.audio # NoId /\ p.video # NoId => p.audio = p.video
Accepts(c, p) == (SendsVideo(c) => AcceptsPicture(p)) /\ AcceptsCommentary(c, p)

\* Whether GStreamer opens them (external).
Opens(c, p) == /\ {p.video, p.audio} \subseteq (machine \ dead) \cup {NoId}
               /\ NativeAudioDevice(c) \in ((machine \cap Mics) \ dead) \cup {NoId}

\* rebuildCapture's ladder: of what cannot be built or opened, when there is a
\* card for the picture only, the slate takes its place.
RebuildCapture ==
  /\ captured = "none"
  /\ \E mics \in Listings, cards \in Listings :
       LET p == Planned(conf, cards)
           slate == [p EXCEPT !.video = NoId]
           up(q) == Accepts(conf, q) /\ Opens(conf, q) IN
       /\ hiccup' = ({} \in {mics, cards})
       /\ IF PreflightRefuses(conf, mics, cards) THEN captured' = "refused" /\ UNCHANGED plan
          ELSE IF up(p) THEN captured' = "ok" /\ plan' = p
          ELSE IF p.video # NoId /\ p.audio = NoId /\ up(slate) THEN captured' = "slate" /\ plan' = slate
          ELSE captured' = "failed" /\ plan' = p
  /\ built' = Resolve(FallbackConformTarget)   \* conformNow, before a START
  /\ UNCHANGED <<conf, machine, dead, stored, stated, feed, sinks, conformTo, returning, picture>>

-----------------------------------------------------------------------------
(* START, and what it dials.                                                *)

\* srtPassphrase and its two likes: a key length asks for a passphrase.
HasPassphrase(which, keyLen) == which \in stored \/ keyLen = 0

\* senderOpts: the second output differs from the first in its port.
SenderOpts(c) ==
  LET to(port) == [host |-> EffectiveSRTHost(c), port |-> port] IN
  IF c.secondPort = 0 THEN <<to(c.srtPort)>> ELSE <<to(c.srtPort), to(c.secondPort)>>

\* Start, onto a capture that is conformed to what it decided (captureForSessionLocked).
Start ==
  /\ feed = "none" /\ captured \in {"ok", "slate"}
  /\ conformTo' = ConformFormat(stated, conf.override)
  /\ IF Validate(conf) /\ HasPassphrase("srt", conf.keyLen)
     THEN feed' = "dialling" /\ sinks' = SenderOpts(conf) /\ built' = Resolve(conformTo')
     ELSE feed' = "refused" /\ UNCHANGED <<sinks, built>>
  /\ UNCHANGED <<conf, machine, dead, stored, stated, captured, hiccup, plan, returning, picture>>

\* ReplaceSinkOn's refusals, before it resolves the host and dials: the loop
\* tries for ever what it refuses.
SinkIsUsable(sink, c) ==
  /\ sink.host # "" /\ sink.port \in Ports /\ c.latency >= 0
  /\ "srt" \in stored => c.keyLen \in {0, 16, 32}
DialSinks ==
  /\ feed = "dialling"
  /\ feed' = IF \A i \in DOMAIN sinks : SinkIsUsable(sinks[i], conf) THEN "ok" ELSE "failed"
  /\ UNCHANGED <<conf, machine, dead, stored, stated, captured, hiccup, plan, sinks, conformTo, built,
                 returning, picture>>

\* The override is written anew, by a save, while the session runs.
SaveOverride ==
  /\ feed \in {"ok", "failed"} /\ \E o \in Overrides : conf' = [conf EXCEPT !.override = o]
  /\ UNCHANGED <<machine, dead, stored, stated, captured, hiccup, plan, feed, sinks, conformTo, built,
                 returning, picture>>

\* StartReturn, and normalise of what it asks for.
StartReturn ==
  /\ returning = "none"
  /\ returning' =
       IF ~(UsesSRTReturn(conf) /\ ValidateReturn(conf) /\ HasPassphrase("srtreturn", conf.returnKeyLen))
       THEN "refused"
       ELSE IF /\ EffectiveSRTReturnHost(conf) # "" /\ EffectiveSRTReturnPort(conf) \in Ports
               /\ conf.latency >= 0 /\ EffectiveReturnChannel(conf) \in {"stereo", "left", "right"}
               /\ "srtreturn" \in stored => conf.returnKeyLen \in {0, 16, 32}
            THEN "ok" ELSE "failed"
  /\ UNCHANGED <<conf, machine, dead, stored, stated, captured, hiccup, plan, feed, sinks, conformTo,
                 built, picture>>

\* monitorPictureOpts, whose listener is the return's, and normalise of what it asks for.
StartPicture ==
  /\ picture = "none"
  /\ picture' =
       IF UsesSRTReturn(conf) \/ ~HasPassphrase("srtreturn", conf.returnKeyLen) THEN "refused"
       ELSE IF /\ EffectiveSRTReturnHost(conf) # "" /\ EffectiveSRTReturnPort(conf) \in Ports
               /\ EffectivePictureLatencyMs(conf) >= 0 /\ conf.returnKeyLen \in {0, 16, 24, 32}
            THEN "ok" ELSE "failed"
  /\ UNCHANGED <<conf, machine, dead, stored, stated, captured, hiccup, plan, feed, sinks, conformTo,
                 built, returning>>

SettingsNext ==
  \/ RebuildCapture \/ Start \/ DialSinks \/ SaveOverride \/ StartReturn \/ StartPicture

SettingsSpec == SettingsInit /\ [][SettingsNext]_settingsVars

-----------------------------------------------------------------------------
\* What is accepted can be dialled: a session is not started, and left to try for
\* ever, on what its own dial refuses, but for the two things Validate does not
\* ask, whether the latency is negative and whether the host has a name; nor is a
\* return, nor a picture whose settings ValidateReturn accepts; and the two
\* outputs are never one listener (Validate, ReplaceSinkOn, ReturnOpts.normalise).
AcceptedCanBeDialled ==
  /\ feed = "failed" => conf.latency < 0 \/ EffectiveSRTHost(conf) = ""
  /\ returning = "failed" => conf.latency < 0
  /\ picture = "failed" => ~ValidateReturn(conf)
  /\ \A i, j \in DOMAIN sinks : sinks[i] = sinks[j] => i = j

\* What the pre-flight lets through when the devices could be listed opens, unless
\* another program holds it, or a card is named for a microphone, for it does not
\* ask of which kind a device is; and what is opened is the device whose key the
\* channel maps are kept under, if the card is named (preflightCapture, NewCapture,
\* AudioDeviceKey).
PreflightIsRight ==
  /\ captured = "failed" /\ ~hiccup /\ conf.audioDevice \notin Cards =>
       dead \cap {plan.video, plan.audio, NativeAudioDevice(conf)} # {}
  /\ captured \in {"ok", "slate"} /\ (UsesDeckLinkAudio(conf) => conf.card # NoId) =>
       DeviceKey(conf, plan) = AudioDeviceKey(conf)

\* The two parsers of a rate, and the two ways of showing one, agree: what an
\* operator may type, a switcher that states it is conformed to just so; what is
\* shown of a format is read back as that rate (videoformat.go, gst.go).
FormatsAgree ==
  LET typed == ParseVideoFormat(conf.override)
      set   == Stated(stated) IN
  /\ typed # NoTarget =>
       /\ ParseVideoFormat(Canonical(typed)) = typed
       /\ ~conf.override.point \/ conf.override.rate % 1000 # 0 =>
            ConformTargetFromRate(conf.override.w, conf.override.h, conf.override.rate) = typed
  /\ set # NoTarget => LET seen == GetSwitcherFormat(stated) IN
                        SameConformTarget(ConformTargetFromRate(seen.w, seen.h, seen.rate), set)

\* The lamp judges what the switcher receives against what is sent: as long as the
\* raster is one a capture can have, whatever is saved meanwhile (GetConformTarget).
LampJudgesWhatIsSent ==
  (/\ feed \in {"dialling", "ok", "failed"} /\ conformTo.w % 2 = 0 /\ conformTo.h % 2 = 0
   /\ conformTo.w <= maxDimension /\ conformTo.h <= maxDimension) =>
    GetConformTarget(TRUE, conformTo, conf.override) = Shown(built)

AcceptedIsUsable ==
  AcceptedCanBeDialled /\ PreflightIsRight /\ FormatsAgree /\ LampJudgesWhatIsSent
=============================================================================
