------------------------------ MODULE MCSessions ------------------------------
(***************************************************************************)
(* The sessions of the program on small instances: the one that sends, over *)
(* the capture, and the two that play what comes back.  The parts are       *)
(* explored one at a time: `part` says which one moves.                     *)
(***************************************************************************)
EXTENDS CaptureSession, ReturnMonitor, PictureMonitor, PictureFeed, TLC

CONSTANTS s1, s2
SeatSymmetry == Permutations({s1, s2})
MCSettings == {[video |-> "card", audio |-> "card"], [video |-> "card", audio |-> "native"]}
\* Three calls of two goroutines with nothing going wrong, two with one thing,
\* and shutdowns over two calls, over a call that goes wrong, and over a launch
\* at which neither the card nor the slate can be opened.
MCBudgets ==
  {[calls |-> 3, troubles |-> 0, quits |-> FALSE], [calls |-> 2, troubles |-> 1, quits |-> FALSE],
   [calls |-> 2, troubles |-> 0, quits |-> TRUE],  [calls |-> 1, troubles |-> 1, quits |-> TRUE],
   [calls |-> 0, troubles |-> 2, quits |-> TRUE]}
\* One attempt with the page and the window moving, two with less of it, and two
\* over which the switcher's output is set to another codec.
MCPicBudgets ==
  {[tries |-> 1, views |-> 2, codecs |-> 0, sends |-> "h265"],
   [tries |-> 2, views |-> 1, codecs |-> 0, sends |-> "h265"],
   [tries |-> 2, views |-> 0, codecs |-> 1, sends |-> "h264"]}

MCRetBudgets == {[returns |-> 1, tries |-> 4], [returns |-> 2, tries |-> 3]}

VARIABLE part

sessionsVars == <<part, vars, retVars, picVars, feedPathVars>>

\* A part that does not move starts from one state only.  The largest instances
\* of the capture, three calls and a shutdown over two, are explored with the
\* card's sound.
SessionsInit ==
  /\ part \in {"capture", "return", "picture", "feed"}
  /\ Init /\ RetInit /\ PicInit /\ FeedInit
  /\ part # "capture" => calls = 0 /\ cfg = CHOOSE c \in Settings : TRUE
  /\ calls = 3 \/ (quits /\ calls = 2) => cfg.audio = "card"
  /\ part # "return" => retLeft = CHOOSE b \in RetBudgets : TRUE
  /\ part # "picture" => budget = CHOOSE b \in PicBudgets : TRUE
  /\ part # "feed" => gop = 0 /\ carried = CHOOSE c \in FeedCodecs : TRUE

CaptureMoves == part = "capture" /\ Next /\ UNCHANGED <<part, retVars, picVars, feedPathVars>>
ReturnMoves  == part = "return" /\ RetNext /\ UNCHANGED <<part, vars, picVars, feedPathVars>>
PictureMoves == part = "picture" /\ PicNext /\ UNCHANGED <<part, vars, retVars, feedPathVars>>
FeedMoves    == part = "feed" /\ FeedNext /\ UNCHANGED <<part, vars, retVars, picVars>>

SessionsNext == CaptureMoves \/ ReturnMoves \/ PictureMoves \/ FeedMoves

SessionsSpec == SessionsInit /\ [][SessionsNext]_sessionsVars
=============================================================================
