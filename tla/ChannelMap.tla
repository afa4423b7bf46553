------------------------------ MODULE ChannelMap ------------------------------
(***************************************************************************)
(* The routing of a capture's channels (channelmap.go, capture_cgo.go) and  *)
(* the record that pages are shown of it (app.go): routed by any page,        *)
(* live, with a width that the capture publishes by itself, over captures   *)
(* that are stopped and built anew.  Events reach the pages in their order; *)
(* EventFeed is about that.                                                 *)
(***************************************************************************)
EXTENDS Integers, Sequences

CONSTANTS
  Pages,      \* who has a routing grid
  Told, Pad,  \* per device, the channels it is known to have, or 0, and those its pad negotiates
  Maps,       \* the routings that may be saved, or asked for: sequences of contributions
  Saved,      \* per device, the one that is saved
  ChanBudgets \* bounds: calls and page loads, and captures built

Devices == DOMAIN Pad
Gains == {-1, 0, 1, 2}   \* 1 is ChannelGainLimit
MaxInputChannels == 32
Contribution == [output : Int, input : Int, gain : Gains]

ASSUME ChannelMapAssumption ==
  /\ Pad \in [Devices -> Nat \ {0}] /\ Told \in [Devices -> Nat] /\ "" \notin Devices
  /\ Maps \subseteq Seq(Contribution) /\ Saved \in [Devices -> Maps \cup {<<>>}]
  /\ ChanBudgets \subseteq [calls : Nat, captures : Nat]

NoMatrix == <<>>
Nothing == [map |-> <<>>, width |-> 0, key |-> ""]   \* end of capture, and the first state
Resting == [at |-> "idle", cap |-> 0, say |-> Nothing, stale |-> FALSE]

VARIABLES
  captures,  \* those built: device, matrix, whether it is stopped, negotiated
             \* width, and where its width is on its way to the pages, with what stamp
  rebuild,   \* how far rebuildCapture is
  cap,       \* a.capSet.Commentary: which of the captures, or 0
  cache,     \* lastChannelMap, lastInputChannels and lastDeviceKey
  grid,      \* per page, the routing it shows
  routing,   \* per page, the call it is in
  chanLeft,  \* what is left of the bounds
  crossed    \* history: somebody acted on what had changed since he looked

chanVars == <<captures, rebuild, cap, cache, grid, routing, chanLeft, crossed>>

Stages == {"none", "queued", "taken", "stamped", "published"}
CallPlaces == {"idle", "set", "record", "send", "read", "note", "answer"}
GridState == [map : Maps \cup {<<>>}, width : Nat, key : Devices \cup {""}]
ChanTypeOK ==
  /\ \A g \in DOMAIN captures :
       /\ captures[g].device \in Devices /\ captures[g].map \in Maps \cup {<<>>}
       /\ captures[g].width \in Nat /\ captures[g].stage \in Stages /\ captures[g].say \in GridState
  /\ rebuild \in {"idle", "stopped", "forgotten", "down", "built"} /\ cap \in 0..Len(captures)
  /\ cache \in GridState /\ grid \in [Pages -> GridState]
  /\ \A p \in Pages : routing[p].at \in CallPlaces /\ routing[p].say \in GridState
  /\ chanLeft \in [calls : Nat, captures : Nat] /\ crossed \in BOOLEAN

ChanInit ==
  /\ captures = <<>> /\ rebuild = "idle" /\ cap = 0 /\ cache = Nothing
  /\ grid = [p \in Pages |-> Nothing] /\ routing = [p \in Pages |-> Resting]
  /\ chanLeft \in ChanBudgets /\ crossed = FALSE

-----------------------------------------------------------------------------
(* What is made of a routing.                                               *)

\* DefaultChannelMap: one input to both sides, or the first to the left, the second to the right.
Unity(side, input) == [output |-> side, input |-> input, gain |-> 1]
DefaultChannelMap(width) == <<Unity(0, 0), Unity(1, IF width = 1 THEN 0 ELSE 1)>>
Resolved(m, width) == IF m = <<>> THEN DefaultChannelMap(width) ELSE m

\* MixMatrix: what it refuses, and what it makes.
Fits(m, width) ==
  LET r == Resolved(m, width) IN
  /\ width \in 1..MaxInputChannels
  /\ \A i \in DOMAIN r : r[i].output \in 0..1 /\ r[i].input \in 0..(width - 1) /\ r[i].gain \in -1..1
  /\ \A i, j \in DOMAIN r : r[i].output = r[j].output /\ r[i].input = r[j].input => i = j
MixMatrix(m, width) ==
  LET r == Resolved(m, width)
      at(out, in) == {i \in DOMAIN r : r[i].output = out /\ r[i].input = in} IN
  [cell \in (0..1) \X (0..(width - 1)) |->
     IF at(cell[1], cell[2]) = {} THEN 0 ELSE r[CHOOSE i \in at(cell[1], cell[2]) : TRUE].gain]

\* A stopped capture has no pad to read a width off.
negotiatedInputChannels(g) == IF captures[g].stopped THEN 0 ELSE captures[g].width

-----------------------------------------------------------------------------
(* Who holds what he read when it changes holds something stale.            *)

Outdated(r) == [r EXCEPT !.stale = TRUE]
Forgets == [p \in Pages |-> IF routing[p].at = "idle" THEN Resting ELSE Outdated(routing[p])]

\* The record changed: who is about to say something else is late.
Late(held) == IF held.at \in {"send", "note", "answer"} THEN Outdated(held) ELSE held
AllLate == [p \in Pages |-> Late(routing[p])]
LateWidths == [g \in DOMAIN captures |->
                 IF captures[g].stage = "stamped" THEN Outdated(captures[g]) ELSE captures[g]]

\* A page's call goes on; another's is late if the record changed.
CallGoes(p, next) == routing' = [routing EXCEPT ![p] = next]
GoesRecording(p, next) == routing' = [AllLate EXCEPT ![p] = next]
Asks(p) == /\ routing[p].at = "idle" /\ chanLeft.calls > 0
           /\ chanLeft' = [chanLeft EXCEPT !.calls = @ - 1]
Acted(stale) == crossed' = (crossed \/ stale)

\* currentCommentary takes capMu, which a rebuild holds to its end.
Open(p, at, m) ==
  /\ Asks(p) /\ rebuild = "idle"
  /\ CallGoes(p, [at |-> at, cap |-> cap, stale |-> FALSE,
              say |-> [map |-> m, width |-> 0, key |-> IF cap = 0 THEN "" ELSE captures[cap].device]])
  /\ UNCHANGED <<captures, rebuild, cap, cache, grid, crossed>>

\* SetChannelMap, which takes chanApplyMu for the three steps after.
SetChannelMap(p) == cap # 0 /\ \E m \in Maps \cup {<<>>} : Open(p, "set", m)
\* Mutant: without chanApplyMu.
AnybodyApplies == TRUE
NobodyApplies == \A q \in Pages : routing[q].at # "record" /\ (routing[q].at = "send" => routing[q].cap = 0)

\* The element's own step: a stopped capture, one that negotiated nothing and a
\* routing that does not fit are refused, and nothing is written.
WriteMatrix(p) ==
  LET g == routing[p].cap
      m == routing[p].say.map IN
  /\ routing[p].at = "set" /\ NobodyApplies
  /\ IF Fits(m, negotiatedInputChannels(g))
     THEN /\ captures' = [captures EXCEPT ![g].matrix = MixMatrix(m, negotiatedInputChannels(g))]
          /\ CallGoes(p, [routing[p] EXCEPT !.at = "record"])
     ELSE CallGoes(p, Resting) /\ UNCHANGED captures
  /\ UNCHANGED <<rebuild, cap, cache, grid, chanLeft, crossed>>

RecordMap(p) ==
  /\ routing[p].at = "record"
  /\ cache' = [cache EXCEPT !.map = routing[p].say.map]
  /\ captures' = LateWidths
  /\ GoesRecording(p, [routing[p] EXCEPT !.at = "send", !.say.width = cache.width])
  /\ Acted(routing[p].stale)
  /\ UNCHANGED <<rebuild, cap, grid, chanLeft>>

\* events.send: of SetChannelMap, and of a page that loads.
SendMap(p) ==
  /\ routing[p].at = "send"
  /\ grid' = [q \in Pages |-> routing[p].say]
  /\ CallGoes(p, Resting) /\ Acted(routing[p].stale)
  /\ UNCHANGED <<captures, rebuild, cap, cache, chanLeft>>

\* domReady replays the record; it asks nothing of the capture.
ReplayMap(p) ==
  /\ Asks(p)
  /\ CallGoes(p, [at |-> "send", cap |-> 0, say |-> cache, stale |-> FALSE])
  /\ UNCHANGED <<captures, rebuild, cap, cache, grid, crossed>>

\* GetChannelMap: the width is read off the pad, which a stopped capture has not,
\* recorded, and returned with the routing.
GetChannelMap(p) == Open(p, "read", <<>>)
ReadWidth(p) ==
  LET g == routing[p].cap IN
  /\ routing[p].at = "read"
  /\ CallGoes(p, [routing[p] EXCEPT !.at = "note",
                !.say.width = IF g = 0 THEN 0 ELSE negotiatedInputChannels(g)])
  /\ UNCHANGED <<captures, rebuild, cap, cache, grid, chanLeft, crossed>>
NoteWidth(p) ==
  /\ routing[p].at = "note"
  /\ cache' = [routing[p].say EXCEPT !.map = cache.map]
  /\ captures' = LateWidths
  /\ GoesRecording(p, [routing[p] EXCEPT !.at = "answer", !.say.map = cache.map])
  /\ Acted(routing[p].stale)
  /\ UNCHANGED <<rebuild, cap, grid, chanLeft>>
Answer(p) ==
  /\ routing[p].at = "answer"
  /\ grid' = [grid EXCEPT ![p] = routing[p].say]
  /\ CallGoes(p, Resting) /\ Acted(routing[p].stale)
  /\ UNCHANGED <<captures, rebuild, cap, cache, chanLeft>>

-----------------------------------------------------------------------------
(* The width, from the pad to the pages.                                    *)

\* The CAPS probe, on a streaming thread (external): it queues the width once.
PadNegotiates(g) ==
  /\ g = Len(captures) /\ ~captures[g].stopped /\ captures[g].width = 0
  /\ captures' = [captures EXCEPT ![g].width = Pad[captures[g].device], ![g].stage = "queued"]
  /\ routing' = [p \in Pages |-> IF routing[p].at = "note" THEN Outdated(routing[p]) ELSE routing[p]]
  /\ UNCHANGED <<rebuild, cap, cache, grid, chanLeft, crossed>>

\* publishWidths: what was queued before the stop is drained, and not delivered.
TakeWidth(g) ==
  /\ captures[g].stage = "queued"
  /\ captures' = [captures EXCEPT ![g].stage = IF captures[g].stopped THEN "published" ELSE "taken"]
  /\ UNCHANGED <<rebuild, cap, cache, grid, routing, chanLeft, crossed>>

\* inputChannelsForwarder.  A capture's width that comes before it is adopted is
\* lost with the record that adopting clears.
StampWidth(g) ==
  LET said == [map |-> cache.map, width |-> captures[g].width, key |-> captures[g].device] IN
  /\ captures[g].stage = "taken"
  /\ cache' = said
  /\ captures' = [LateWidths EXCEPT ![g].stage = "stamped", ![g].say = said]
  /\ routing' = AllLate
  /\ Acted(captures[g].stale \/ cap # g)
  /\ UNCHANGED <<rebuild, cap, grid, chanLeft>>
PublishWidth(g) ==
  /\ captures[g].stage = "stamped"
  /\ grid' = [p \in Pages |-> captures[g].say]
  /\ captures' = [captures EXCEPT ![g].stage = "published", ![g].say = Nothing]
  /\ Acted(captures[g].stale)
  /\ UNCHANGED <<rebuild, cap, cache, routing, chanLeft>>

-----------------------------------------------------------------------------
(* rebuildCapture, under capMu; CaptureSession has when it may.             *)

StopOld ==
  /\ rebuild = "idle" /\ cap # 0
  /\ captures' = [g \in DOMAIN captures |-> IF g = cap THEN Outdated([captures[g] EXCEPT !.stopped = TRUE, !.matrix = NoMatrix])
                                            ELSE captures[g]]
  /\ rebuild' = "stopped" /\ routing' = Forgets
  /\ UNCHANGED <<cap, cache, grid, chanLeft, crossed>>

ForgetChannelMap ==
  /\ rebuild = "stopped" /\ rebuild' = "forgotten"
  /\ cap' = 0 /\ cache' = Nothing
  /\ captures' = LateWidths /\ routing' = AllLate
  /\ UNCHANGED <<grid, chanLeft, crossed>>
TellForgotten ==
  /\ rebuild = "forgotten" /\ rebuild' = "down"
  /\ grid' = [p \in Pages |-> Nothing]
  /\ UNCHANGED <<captures, cap, cache, routing, chanLeft, crossed>>

\* applyStartChannelMapLocked: without a width nothing is written.  With one, the
\* element takes no other, and a device that has another does not start (external).
BuildCapture ==
  /\ rebuild = "down" \/ (rebuild = "idle" /\ cap = 0)
  /\ chanLeft.captures > 0 /\ chanLeft' = [chanLeft EXCEPT !.captures = @ - 1]
  /\ \E d \in Devices : LET m == Saved[d] IN
       /\ Told[d] # 0 => Told[d] = Pad[d] /\ Fits(m, Told[d])
       /\ captures' = Append(captures,
            [device |-> d, map |-> m, stopped |-> FALSE, width |-> 0, stage |-> "none",
             say |-> Nothing, stale |-> FALSE,
             matrix |-> IF Told[d] = 0 THEN NoMatrix ELSE MixMatrix(m, Told[d])])
  /\ rebuild' = "built"
  /\ UNCHANGED <<cap, cache, grid, routing, crossed>>
BuildFailed ==
  /\ rebuild = "down" /\ rebuild' = "idle"
  /\ UNCHANGED <<captures, cap, cache, grid, routing, chanLeft, crossed>>

\* adoptCaptureLocked: the routing it was built with; the width is left to come.
AdoptCapture ==
  /\ rebuild = "built" /\ rebuild' = "idle"
  /\ cap' = Len(captures)
  /\ cache' = [Nothing EXCEPT !.map = captures[Len(captures)].map]
  /\ captures' = LateWidths /\ routing' = Forgets
  /\ UNCHANGED <<grid, chanLeft, crossed>>

ChanNext ==
  \/ \E p \in Pages :
       SetChannelMap(p) \/ WriteMatrix(p) \/ RecordMap(p) \/ SendMap(p) \/ ReplayMap(p)
       \/ GetChannelMap(p) \/ ReadWidth(p) \/ NoteWidth(p) \/ Answer(p)
  \/ \E g \in DOMAIN captures : PadNegotiates(g) \/ TakeWidth(g) \/ StampWidth(g) \/ PublishWidth(g)
  \/ StopOld \/ ForgetChannelMap \/ TellForgotten \/ BuildCapture \/ BuildFailed \/ AdoptCapture

ChanSpec == ChanInit /\ [][ChanNext]_chanVars

-----------------------------------------------------------------------------
\* Nobody is about to say anything, and the open capture's width was said.
AllSaid == /\ rebuild = "idle" /\ \A p \in Pages : routing[p].at = "idle"
           /\ \A g \in DOMAIN captures : captures[g].stage \notin {"queued", "taken", "stamped"}
           /\ cap # 0 => captures[cap].stage = "published"

\* Every page shows, and every page that loads would be shown, the open capture's
\* device, its width and the routing in force, or that there is none: whoever
\* routes beside whom, unless a call or a width crossed another's or a rebuild,
\* or no width was known to write the saved routing with (SetChannelMap,
\* inputChannelsForwarder, forgetChannelMap).
ShownIsInForce ==
  AllSaid /\ ~crossed =>
    \A shown \in {cache} \cup {grid[p] : p \in Pages} :
      IF cap = 0 THEN shown = Nothing
      ELSE /\ shown.key = captures[cap].device /\ shown.width = captures[cap].width
           /\ captures[cap].matrix # NoMatrix => captures[cap].matrix = MixMatrix(shown.map, shown.width)

\* A matrix of a width that the pad has not stops the capture: none is ever
\* written, whatever a page was showing (cgoCapture.SetChannelMap, MixMatrix).
MatrixFits ==
  \A g \in DOMAIN captures :
    captures[g].matrix # NoMatrix /\ captures[g].width # 0 =>
      /\ DOMAIN captures[g].matrix = (0..1) \X (0..(captures[g].width - 1))
      /\ \A cell \in DOMAIN captures[g].matrix : captures[g].matrix[cell] \in -1..1

RoutingIsShown == ShownIsInForce /\ MatrixFits
=============================================================================
