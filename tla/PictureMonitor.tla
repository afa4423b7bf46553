--------------------------- MODULE PictureMonitor ---------------------------
(***************************************************************************)
(* The programme picture of the second window: its reconnect machine        *)
(* (internal/gst/picture.go), one attempt's pipeline and the parser it is    *)
(* built with (picture_cgo.go), and the window's calls, its one session and *)
(* the native overlay the pictures are drawn in (monitor_picture.go).       *)
(*                                                                         *)
(* Back-off is a wait of any length; options, statistics and the diagnostic *)
(* after a run of failures are left out.                                    *)
(***************************************************************************)
EXTENDS Naturals, Sequences, FiniteSets

CONSTANTS
  PicCallers,    \* the page's calls, as the goroutines they run on
  PicAddresses,  \* how many addresses the host resolves to
  PicStates,     \* pictureStatesBuffer
  MaxPictures,   \* bound: sessions
  PicBudgets     \* what the switcher sends at first, and bounds: pipelines, changes
                 \*   of the rectangle and of the page's wish, changes of the codec
Codecs == {"h265", "h264", "other"}

NoCaller == "nobody"
TearDownCall == "teardown"

ASSUME PictureAssumption ==
  /\ PicCallers \cap {TearDownCall, NoCaller} = {}
  /\ \A n \in {PicAddresses, PicStates, MaxPictures} : n \in Nat \ {0}
  /\ PicBudgets \subseteq [tries : Nat, views : Nat, codecs : Nat, sends : Codecs]

Pictures == 1 .. MaxPictures
NoPicture == 0
Parsers == {"h265parse", "h264parse"}

VARIABLES
  picMu,     \* who holds it, NoCaller if free
  picCall,   \* what its holder is at: "options", "overlay", "run", "stop"
  picStop,   \* the session being stopped
  pic,       \* m.pic
  pics,      \* sessions started so far
  parting,   \* the teardown: "no", "closing", "stopped", "dropped", "gone"
  window,    \* does the monitor's window still exist?
  surface,   \* the overlay's own window: "none", "hidden", "shown"
  overlay,   \* m.picOverlay is set
  rect,      \* picRect has area
  want,      \* picWantVisible
  lastPic,   \* m.lastPicture
  picLoop, picQuit, picStates,   \* of each session: loop, quit, channel
  picFwd,    \* its forwarder: "none", "range", "apply", "done"
  picLost,   \* one of its states found the channel full
  picPipe,   \* its pipeline: "none", "built", "playing", "null"
  picLeft,   \* addresses the attempt has yet to dial
  picErr,    \* an error waits in Errors()
  videoLinked, frame,   \* of the address being dialled
  builtWith, \* the parser the pipeline was built with
  learned,   \* pictureLearnedParser, h265parse until something is learnt
  codec,     \* what the transport carries
  budget,    \* what is left of the bounds
  blind      \* pipelines built since the window went

picCallVars == <<picMu, picCall, picStop, pic, pics, parting>>
viewVars == <<window, surface, overlay, rect, want>>
mediaVars == <<picPipe, picLeft, picErr, videoLinked, frame, builtWith, learned, codec,
               blind>>
picPipeVars == <<mediaVars, budget>>
picLoopVars == <<picLoop, picQuit, picStates, picLost>>
picFwdVars == <<picFwd, lastPic>>
picVars == <<picCallVars, viewVars, picPipeVars, picLoopVars, picFwdVars>>

PicLamps == {"STOPPED", "CONNECTING", "SHOWING", "BACKOFF"}

PicTypeOK ==
  /\ picMu \in PicCallers \cup {TearDownCall, NoCaller}
  /\ picCall \in {"none", "options", "overlay", "run", "stop"}
  /\ picStop \in Pictures \cup {NoPicture} /\ pic \in Pictures \cup {NoPicture}
  /\ pics \in 0 .. MaxPictures
  /\ parting \in {"no", "closing", "stopped", "dropped", "gone"}
  /\ surface \in {"none", "hidden", "shown"}
  /\ {window, overlay, rect, want} \subseteq BOOLEAN
  /\ lastPic \in PicLamps
  /\ picLoop \in [Pictures -> {"none", "top", "check", "new", "dial", "await", "live", "close",
                               "shut", "backoff", "wait", "stop", "done"}]
  /\ picQuit \subseteq Pictures /\ picLost \subseteq Pictures
  /\ picStates \in [Pictures -> Seq(PicLamps)]
  /\ \A g \in Pictures : Len(picStates[g]) <= PicStates
  /\ picFwd \in [Pictures -> {"none", "range", "apply", "done"}]
  /\ picPipe \in [Pictures -> {"none", "built", "playing", "null"}]
  /\ picLeft \in [Pictures -> 0 .. PicAddresses]
  /\ picErr \subseteq Pictures /\ videoLinked \subseteq Pictures /\ frame \subseteq Pictures
  /\ builtWith \in [Pictures -> Parsers] /\ learned \in Parsers /\ codec \in Codecs
  /\ blind \in Nat

PicInit ==
  /\ picMu = NoCaller /\ picCall = "none" /\ picStop = NoPicture
  /\ pic = NoPicture /\ pics = 0 /\ parting = "no"
  /\ window = TRUE /\ surface = "none" /\ overlay = FALSE /\ rect = FALSE /\ want = FALSE
  /\ lastPic = "STOPPED"
  /\ picLoop = [g \in Pictures |-> "none"] /\ picQuit = {} /\ picLost = {}
  /\ picStates = [g \in Pictures |-> <<>>]
  /\ picFwd = [g \in Pictures |-> "none"]
  /\ picPipe = [g \in Pictures |-> "none"] /\ picLeft = [g \in Pictures |-> 0]
  /\ picErr = {} /\ videoLinked = {} /\ frame = {}
  /\ builtWith = [g \in Pictures |-> "h265parse"] /\ learned = "h265parse"
  /\ budget \in PicBudgets /\ codec = budget.sends /\ blind = 0

-----------------------------------------------------------------------------
(* The overlay.  Whoever holds picViewMu does one of these in one step.     *)

\* The page asked, the pipeline is SHOWING and the rectangle has area.
Visible == want' /\ lastPic' = "SHOWING" /\ rect'
Apply == surface' = IF ~(overlay' /\ window) THEN surface ELSE IF Visible THEN "shown" ELSE "hidden"

\* A wish and a rectangle that reach a window without an overlay make one,
\* unless the application is closing or there is no window to put it in.
EnsureOverlay ==
  \/ /\ overlay \/ parting # "no" \/ ~window
     /\ UNCHANGED overlay
  \/ /\ ~overlay /\ parting = "no" /\ window
     /\ overlay' = TRUE

SetPictureRect ==
  /\ budget.views > 0 /\ budget' = [budget EXCEPT !.views = @ - 1]
  /\ rect' \in BOOLEAN
  /\ EnsureOverlay
  /\ UNCHANGED <<want, lastPic>>
  /\ Apply
  /\ UNCHANGED <<picCallVars, window, mediaVars, picLoopVars, picFwd>>

SetPictureVisible ==
  /\ budget.views > 0 /\ budget' = [budget EXCEPT !.views = @ - 1]
  /\ want' \in BOOLEAN
  /\ UNCHANGED <<overlay, rect, lastPic>>
  /\ Apply
  /\ UNCHANGED <<picCallVars, window, mediaVars, picLoopVars, picFwd>>

\* The operator closes the window: the overlay goes with its parent.
WindowGoes ==
  /\ window /\ window' = FALSE
  /\ surface' = "none"
  /\ UNCHANGED <<picCallVars, overlay, rect, want, picPipeVars, picLoopVars, picFwdVars>>

-----------------------------------------------------------------------------
(* The calls that hold picMu.                                              *)

Hold(c, at) == picMu = NoCaller /\ picMu' = c /\ picCall' = at
Drop == picMu' = NoCaller /\ picCall' = "none"

\* The application is asked for the options over the link, which takes a while.
StartPicture(c) ==
  /\ Hold(c, "options")
  /\ parting = "no" /\ pic = NoPicture /\ pics < MaxPictures
  /\ UNCHANGED <<picStop, pic, pics, parting, viewVars, picPipeVars, picLoopVars, picFwdVars>>

OptionsCame ==
  /\ picCall = "options"
  /\ \/ picCall' = "overlay" /\ UNCHANGED picMu
     \/ Drop
  /\ UNCHANGED <<picStop, pic, pics, parting, viewVars, picPipeVars, picLoopVars, picFwdVars>>

PictureOverlay ==
  /\ picCall = "overlay"
  /\ EnsureOverlay
  /\ IF overlay' THEN picCall' = "run" /\ UNCHANGED picMu ELSE Drop
  /\ UNCHANGED <<rect, want, lastPic>>
  /\ Apply
  /\ UNCHANGED <<picStop, pic, pics, parting, window, picPipeVars, picLoopVars, picFwd>>

RunPicture ==
  /\ picCall = "run"
  /\ Drop
  /\ pics' = pics + 1 /\ pic' = pics'
  /\ picLoop' = [picLoop EXCEPT ![pics'] = "top"]
  /\ picFwd' = [picFwd EXCEPT ![pics'] = "range"]
  /\ UNCHANGED <<picStop, parting, viewVars, picPipeVars, picQuit, picStates, picLost, lastPic>>

\* picMu is held over the wait for the loop and for the forwarder.
StopPicture(c) ==
  /\ Hold(c, "stop")
  /\ pic # NoPicture
  /\ pic' = NoPicture /\ picStop' = pic
  /\ picQuit' = picQuit \cup {pic}
  /\ UNCHANGED <<pics, parting, viewVars, picPipeVars, picLoop, picStates, picLost, picFwdVars>>

\* The overlay is hidden again, whatever the forwarder made of the last state.
PictureJoined ==
  /\ picCall = "stop"
  /\ picLoop[picStop] = "done" /\ picFwd[picStop] = "done"
  /\ parting' = IF picMu = TearDownCall THEN "stopped" ELSE parting
  /\ Drop /\ picStop' = NoPicture
  /\ UNCHANGED <<overlay, rect, want, lastPic>>
  /\ Apply
  /\ UNCHANGED <<pic, pics, window, picPipeVars, picLoopVars, picFwd>>

-----------------------------------------------------------------------------
(* The teardown: closing, the picture's stop, then the overlay.             *)

PartingBegins ==
  /\ parting = "no"
  /\ parting' = "closing"
  /\ UNCHANGED <<picMu, picCall, picStop, pic, pics, viewVars, picPipeVars, picLoopVars, picFwdVars>>

PartingStops ==
  /\ parting = "closing"
  /\ \/ StopPicture(TearDownCall)
     \/ /\ picMu = NoCaller /\ pic = NoPicture
        /\ parting' = "stopped"
        /\ UNCHANGED <<picMu, picCall, picStop, pic, pics, viewVars, picPipeVars, picLoopVars,
                       picFwdVars>>

\* The overlay is taken out under picViewMu and closed after it is released.
PartingDrops ==
  /\ parting = "stopped"
  /\ parting' = IF overlay THEN "dropped" ELSE "gone"
  /\ overlay' = FALSE
  /\ UNCHANGED <<picMu, picCall, picStop, pic, pics, window, surface, rect, want,
                 picPipeVars, picLoopVars, picFwdVars>>

PartingCloses ==
  /\ parting = "dropped"
  /\ parting' = "gone" /\ surface' = "none"
  /\ UNCHANGED <<picMu, picCall, picStop, pic, pics, window, overlay, rect, want,
                 picPipeVars, picLoopVars, picFwdVars>>

-----------------------------------------------------------------------------
(* The reconnect machine.                                                  *)

PicStep(g, from, to) == picLoop[g] = from /\ picLoop' = [picLoop EXCEPT ![g] = to]

\* A reader that has fallen behind loses the state that is being announced.
PicEmit(g, s) ==
  IF Len(picStates[g]) < PicStates
    THEN picStates' = [picStates EXCEPT ![g] = Append(@, s)] /\ UNCHANGED picLost
    ELSE picLost' = picLost \cup {g} /\ UNCHANGED picStates

Silent == UNCHANGED <<picStates, picLost>>
LoopOnly == UNCHANGED <<picCallVars, viewVars, picPipeVars, picFwdVars, picQuit>>

\* Mutant: the window is not looked at.
PicTopBlind(g) ==
  /\ \/ g \in picQuit /\ PicStep(g, "top", "stop") /\ Silent
     \/ g \notin picQuit /\ PicStep(g, "top", "new") /\ PicEmit(g, "CONNECTING")
  /\ LoopOnly

\* A window that is gone ends the session: nothing is built into it again.
PicTop(g) ==
  /\ \/ /\ g \in picQuit \/ ~window
        /\ PicStep(g, "top", "stop") /\ Silent
     \/ /\ g \notin picQuit /\ window
        /\ PicStep(g, "top", "new") /\ PicEmit(g, "CONNECTING")
  /\ LoopOnly

\* A pipeline is built with the parser last learnt; that and the host's
\* resolution may fail.
PicBuild(g) ==
  /\ budget.tries > 0 /\ budget' = [budget EXCEPT !.tries = @ - 1]
  /\ \/ /\ PicStep(g, "new", "dial")
        /\ picPipe' = [picPipe EXCEPT ![g] = "built"]
        /\ picLeft' = [picLeft EXCEPT ![g] = PicAddresses]
        /\ builtWith' = [builtWith EXCEPT ![g] = learned]
        /\ blind' = IF window THEN blind ELSE blind + 1
     \/ /\ PicStep(g, "new", "backoff")
        /\ UNCHANGED <<picPipe, picLeft, builtWith, blind>>
  /\ UNCHANGED <<picCallVars, viewVars, picErr, videoLinked, frame, learned, codec,
                 picFwdVars, picQuit, picStates, picLost>>

PicDial(g) ==
  /\ PicStep(g, "dial", "await")
  /\ picPipe' = [picPipe EXCEPT ![g] = "playing"]
  /\ picLeft' = [picLeft EXCEPT ![g] = @ - 1]
  /\ picErr' = picErr \ {g} /\ videoLinked' = videoLinked \ {g} /\ frame' = frame \ {g}
  /\ UNCHANGED <<picCallVars, viewVars, builtWith, learned, codec, budget, blind,
                 picFwdVars, picQuit, picStates, picLost>>

\* A decoded frame, an error, or neither in time.
AwaitFrame(g) ==
  \/ /\ g \in frame
     /\ PicStep(g, "await", "live") /\ PicEmit(g, "SHOWING")
     /\ LoopOnly
  \/ /\ \E err \in {picErr, picErr \ {g}} : picErr' = err
     /\ IF picLeft[g] > 0
          THEN PicStep(g, "await", "dial") /\ picPipe' = [picPipe EXCEPT ![g] = "built"]
          ELSE PicStep(g, "await", "close") /\ UNCHANGED picPipe
     /\ UNCHANGED <<picCallVars, viewVars, picLeft, videoLinked, frame, builtWith, learned, codec,
                    budget, blind, picFwdVars, picQuit, picStates, picLost>>

PicLive(g) ==
  /\ \/ g \in picQuit /\ PicStep(g, "live", "shut")
     \/ g \in picErr /\ PicStep(g, "live", "close")
  /\ Silent /\ LoopOnly

PicClose(g) ==
  /\ PicStep(g, "close", "backoff") \/ PicStep(g, "shut", "stop")
  /\ picPipe' = [picPipe EXCEPT ![g] = "null"]
  /\ picErr' = picErr \ {g} /\ videoLinked' = videoLinked \ {g} /\ frame' = frame \ {g}
  /\ UNCHANGED <<picCallVars, viewVars, picLeft, builtWith, learned, codec, budget,
                 blind, picFwdVars, picQuit, picStates, picLost>>

PicBackOff(g) ==
  /\ \/ g \in picQuit /\ PicStep(g, "backoff", "stop") /\ Silent
     \/ g \notin picQuit /\ PicStep(g, "backoff", "wait") /\ PicEmit(g, "BACKOFF")
  /\ LoopOnly

PicSleep(g) ==
  /\ \/ PicStep(g, "wait", "top")
     \/ g \in picQuit /\ PicStep(g, "wait", "stop")
  /\ Silent /\ LoopOnly

PicFinish(g) ==
  /\ PicStep(g, "stop", "done") /\ PicEmit(g, "STOPPED")
  /\ LoopOnly

-----------------------------------------------------------------------------
(* The streaming threads of a pipeline that is playing.                    *)

ParserFor == [h265 |-> "h265parse", h264 |-> "h264parse", other |-> "none"]

\* A video pad: one this branch cannot show is discarded, one the pipeline was
\* built wrong for ends the attempt, and is what the next is built for.
PicPadAdded(g) ==
  /\ picPipe[g] = "playing" /\ g \notin videoLinked
  /\ CASE codec = "other" -> FALSE
       [] ParserFor[codec] = builtWith[g] ->
            videoLinked' = videoLinked \cup {g} /\ UNCHANGED <<learned, picErr>>
       [] OTHER ->
            /\ learned' = ParserFor[codec]
            /\ picErr' = picErr \cup {g}
            /\ UNCHANGED videoLinked
  /\ UNCHANGED <<picCallVars, viewVars, picPipe, picLeft, frame, builtWith, codec, budget,
                 blind, picLoopVars, picFwdVars>>

FirstFrame(g) ==
  /\ picPipe[g] = "playing" /\ g \in videoLinked \ frame
  /\ frame' = frame \cup {g}
  /\ UNCHANGED <<picCallVars, viewVars, picPipe, picLeft, picErr, videoLinked, builtWith, learned,
                 codec, budget, blind, picLoopVars, picFwdVars>>

PicBusError(g) ==
  /\ picPipe[g] = "playing" /\ g \notin picErr
  /\ picErr' = picErr \cup {g}
  /\ UNCHANGED <<picCallVars, viewVars, picPipe, picLeft, videoLinked, frame, builtWith, learned,
                 codec, budget, blind, picLoopVars, picFwdVars>>

\* The switcher's output is set to another codec.
CodecChanges ==
  /\ budget.codecs > 0 /\ budget' = [budget EXCEPT !.codecs = @ - 1]
  /\ codec' \in Codecs \ {codec}
  /\ UNCHANGED <<picCallVars, viewVars, picPipe, picLeft, picErr, videoLinked, frame, builtWith,
                 learned, blind, picLoopVars, picFwdVars>>

-----------------------------------------------------------------------------
(* forwardPictureStates: record the state, then move the overlay (and tell  *)
(* the page).                                                              *)

PicForward(g) ==
  /\ picFwd[g] = "range" /\ picStates[g] # <<>>
  /\ picFwd' = [picFwd EXCEPT ![g] = "apply"]
  /\ picStates' = [picStates EXCEPT ![g] = Tail(@)]
  /\ lastPic' = Head(picStates[g])
  /\ UNCHANGED <<picCallVars, viewVars, picPipeVars, picLoop, picQuit, picLost>>

PicApply(g) ==
  /\ picFwd[g] = "apply"
  /\ picFwd' = [picFwd EXCEPT ![g] = "range"]
  /\ UNCHANGED <<overlay, want, rect, lastPic>>
  /\ Apply
  /\ UNCHANGED <<picCallVars, window, picPipeVars, picLoopVars>>

PicRanged(g) ==
  /\ picFwd[g] = "range" /\ picStates[g] = <<>> /\ picLoop[g] = "done"
  /\ picFwd' = [picFwd EXCEPT ![g] = "done"]
  /\ UNCHANGED <<picCallVars, viewVars, picPipeVars, picLoopVars, lastPic>>

-----------------------------------------------------------------------------

PicLoopStep(g) ==
  \/ PicTop(g) \/ PicBuild(g) \/ PicDial(g) \/ AwaitFrame(g) \/ PicLive(g)
  \/ PicClose(g) \/ PicBackOff(g) \/ PicSleep(g) \/ PicFinish(g)

PicNext ==
  \/ SetPictureRect \/ SetPictureVisible \/ WindowGoes
  \/ \E c \in PicCallers : StartPicture(c) \/ StopPicture(c)
  \/ OptionsCame \/ PictureOverlay \/ RunPicture \/ PictureJoined
  \/ PartingBegins \/ PartingStops \/ PartingDrops \/ PartingCloses
  \/ CodecChanges
  \/ \E g \in Pictures : \/ PicLoopStep(g) \/ PicPadAdded(g) \/ FirstFrame(g) \/ PicBusError(g)
                         \/ PicForward(g) \/ PicApply(g) \/ PicRanged(g)

PicSpec == PicInit /\ [][PicNext]_picVars

-----------------------------------------------------------------------------

Drawing == {g \in Pictures : picPipe[g] \in {"built", "playing"}}

\* A pipeline draws into an overlay that exists until it has been stopped, and
\* no overlay is left or made once the teardown is done; a window that goes
\* takes with it at most the attempt that had already looked for it.
SinkHasItsWindow ==
  /\ Drawing # {} /\ window => surface # "none"
  /\ Cardinality(Drawing) <= 1
  /\ parting = "gone" => surface = "none" /\ ~overlay /\ Drawing = {}
  /\ blind <= 1

\* The overlay covers the page's fallback exactly while the page asks for it, has
\* room for it and a picture is SHOWING, however the calls, the states and the
\* stop fall together: after a stop, and before the page is told of the end of
\* a picture, it is hidden.
OverlayFollows ==
  LET follows == surface = "shown" <=> want /\ rect /\ lastPic = "SHOWING"
      moving == \E g \in Pictures : picFwd[g] = "apply"
  IN /\ overlay /\ window /\ ~moving => follows
     /\ picMu = NoCaller /\ pic = NoPicture /\ picLost = {} => surface # "shown"

\* What the operator sees is what is so: the window and the overlay belong to the
\* picture that draws into them, and to none once it has stopped.
OverlayIsRight == SinkHasItsWindow /\ OverlayFollows
=============================================================================
