------------------------------ MODULE MixerDesk ------------------------------
(***************************************************************************)
(* The switcher's desk and app_mixer.go before it: what a status connection *)
(* yields of it, and how commands are decoded, checked and applied.  The    *)
(* desk moves by itself.  (When commands may be written is MixerArm and     *)
(* MixerController; who reads and writes here is MixerDrawer.)              *)
(***************************************************************************)
EXTENDS MixerState, SequencesExt

Nameless == ""

CONSTANTS
  Strips,      \* names the device may have
  InputOf,     \* the input each is of
  Routes,      \* sets of buses a strip may be routed to by others
  Batches,     \* sequences of messages [kind, args] a seat may send
  DeskBudgets  \* bounds: changes at the device, things that go wrong, and clicks

\* Buses are known ones, what a mute is set to is a Boolean, and none of the values a frame
\* holds reads as missing.
ASSUME DeskAssumption ==
  /\ \A r \in Routes : r \subseteq AllBuses
  /\ \A b \in Batches : \A i \in DOMAIN b : \A k \in {"muted"} :
       Readable(Get(Obj(b[i].args), k)) => b[i].args[k] \in BOOLEAN
  /\ DeskBudgets \subseteq [moves : Nat, faults : Nat, clicks : Nat]
  /\ \A r \in SUBSET AllBuses : Readable(r)
  /\ \A b \in BOOLEAN : Readable(b)
  /\ Readable("output")
  /\ Strips # {} /\ \A n \in Strips : Readable(n) /\ n \notin {Nameless, "assign_list"} /\ InputOf[n] # MixerNode
  /\ Absent # Null /\ Absent # Odd /\ Null # Odd

VARIABLES
  device,    \* the desk: how its strips are routed, which are muted, its muted buses
  sent,      \* the command the last step wrote, and the message it came from
  deskLeft   \* of the budget

deskVars == <<device, sent, deskLeft>>

DeskTypeOK ==
  /\ DOMAIN device.route \subseteq Strips /\ DOMAIN device.muted = DOMAIN device.route
  /\ device.off \subseteq AllBuses
  /\ sent = Absent \/ DOMAIN sent = {"msg", "cmd"}
  /\ deskLeft \in [moves : Nat, faults : Nat, clicks : Nat]
-----------------------------------------------------------------------------
(* The device: the frame of a device, whole or with one field lost.          *)

Inputs == {InputOf[n] : n \in Strips}

TrueState(d) ==
  [inputs  |-> [i \in Inputs |->
                 [k \in {n \in DOMAIN d.route : InputOf[n] = i} \cup {"assign_list"} |->
                    IF k = "assign_list" THEN Odd ELSE [muted |-> d.muted[k], display_name |-> k]]],
   matrix  |-> [n \in DOMAIN d.route |-> [outputs |-> d.route[n], pfl_outputs |-> {}]],
   outputs |-> [b \in AllBuses |-> [muted |-> b \in d.off]],
   levels  |-> [n \in DOMAIN d.route \cup AllBuses |-> 0]]

\* Where a field may be lost: a key of the mixer, of a strip, or of a bus.
StripPlaces(n) ==
  {<<"matrix", n>>, <<"matrix", n, "outputs">>, <<"matrix", n, "pfl_outputs">>,
   <<"inputs", InputOf[n]>>, <<"inputs", InputOf[n], n>>,
   <<"inputs", InputOf[n], n, "muted">>, <<"inputs", InputOf[n], n, "display_name">>,
   <<"levels", n>>}
Places(d) ==
  {<<k>> : k \in {"inputs", "matrix", "outputs", "levels"}}
  \cup (UNION {StripPlaces(n) : n \in DOMAIN d.route})
  \cup {<<"outputs", "master">>, <<"outputs", "master", "muted">>}

\* A key lost, null, or of another type: of an object, or of one within it.
Spoil(o, k, v) == IF v = Absent THEN [x \in DOMAIN o \ {k} |-> o[x]] ELSE [o EXCEPT ![k] = v]
Lose(o, place, v) ==
  CASE Len(place) = 1 -> Spoil(o, place[1], v)
    [] Len(place) = 2 -> [o EXCEPT ![place[1]] = Spoil(@, place[2], v)]
    [] Len(place) = 3 -> [o EXCEPT ![place[1]][place[2]] = Spoil(@, place[3], v)]
    [] Len(place) = 4 -> [o EXCEPT ![place[1]][place[2]][place[3]] = Spoil(@, place[4], v)]

Entry(path, state) == [node |-> MixerNode, path |-> path, state |-> state]
OtherNode == [node |-> CHOOSE i \in Inputs : TRUE, path |-> "/", state |-> [display_name |-> "COMMS"]]
Delta == Entry("/levels", <<>>)

\* What the device may send first on a connection.
Frames(d) ==
  LET whole == Entry("/", TrueState(d))
  IN {<<OtherNode, whole>>, <<whole, Delta>>, <<Delta, whole>>, <<Delta>>, <<OtherNode, Delta>>,
      <<OtherNode>>, <<Entry("/", Null), whole>>, <<Entry("/", Odd)>>, <<Entry(Absent, TrueState(d))>>,
      <<Entry(Odd, Odd), whole>>}
     \cup {<<Entry("/", Lose(TrueState(d), p, v))>> : p \in Places(d), v \in {Absent, Null, Odd}}
-----------------------------------------------------------------------------
(* Reading.                                                                *)

\* RawSnapshot passes over what is no whole document, until its time is up.
HasWholeNodeEntry(frame) == \E i \in DOMAIN frame : frame[i].path = "/"

RawSnapshot(frames) ==
  LET whole == {i \in DOMAIN frames : HasWholeNodeEntry(frames[i])}
  IN IF whole = {} THEN <<>> ELSE frames[Min(whole)]

\* What a connection of its own yields: a whole document in the end, or a frame that lacks
\* something, and then nothing more before its time is up.
WholeAtLast == <<<<Delta>>, <<OtherNode, Entry("/", TrueState(device))>>>>

Connections ==
  {[frames |-> WholeAtLast, faults |-> 0]}
  \cup IF deskLeft.faults = 0 THEN {} ELSE {[frames |-> <<f>>, faults |-> 1] : f \in Frames(device)}

\* Nothing of it is kept from one call to the next.
GetMixerSnapshot(connection) == Reading(RawSnapshot(connection.frames))
-----------------------------------------------------------------------------
(* Commands.                                                               *)

Writes(command) == sent' = command

\* Mutant: a list that is missing is an empty one.
ZeroEmpty ==
  [matrix |-> Nameless, input |-> Nameless, name |-> Nameless, agc_mode |-> Nameless,
   outputs |-> <<>>, buses |-> <<>>, limiter_th |-> Absent,
   muted |-> FALSE, gain |-> <<0, 0>>, pre_gain |-> 0, compressor_th |-> 0]

Zero ==
  [matrix |-> Nameless, input |-> Nameless, name |-> Nameless, agc_mode |-> Nameless,
   outputs |-> Absent, buses |-> <<>>, limiter_th |-> Absent,
   muted |-> FALSE, gain |-> <<0, 0>>, pre_gain |-> 0, compressor_th |-> 0]

ArgsOf ==
  [setRouting |-> {"matrix", "input", "outputs"}, setInputMuted |-> {"name", "muted"},
   setOutputMuted |-> {"buses", "muted"}, setChFader |-> {"name", "gain"},
   setCompLimit |-> {"name", "agc_mode", "pre_gain", "compressor_th", "limiter_th"}]

\* decodeMixerCommand: an unknown key and a wrong type are refused; a key that is
\* missing or null keeps its zero.
Decodes(m) ==
  /\ m.kind \in DOMAIN ArgsOf /\ m.args \notin {Absent, Odd}
  /\ DOMAIN Obj(m.args) \subseteq ArgsOf[m.kind]
  /\ \A k \in DOMAIN Obj(m.args) : m.args[k] # Odd

Decoded(m) == [k \in ArgsOf[m.kind] |-> Field(Obj(m.args), k, Zero[k])]

CheckBusSet(buses) == IsInjective(buses) /\ ToSet(buses) \subseteq AllBuses

\* Envelope, of each kind.
ValidRouting(c) ==
  /\ c.matrix \in {"output", "pfl"} /\ c.input # Nameless
  /\ c.outputs # Absent /\ CheckBusSet(c.outputs)
ValidInputMute(c) == c.name # Nameless
ValidBusMute(c) == c.buses # <<>> /\ CheckBusSet(c.buses)
ValidFader(c) == c.name # Nameless
ValidCompLimit(c) ==
  /\ c.name # Nameless /\ c.agc_mode \in {"off", "limiter"}
  /\ (c.limiter_th # Absent) <=> (c.agc_mode = "limiter")

Valid(kind, c) ==
  CASE kind = "setRouting" -> ValidRouting(c)
    [] kind = "setInputMuted" -> ValidInputMute(c)
    [] kind = "setOutputMuted" -> ValidBusMute(c)
    [] kind = "setChFader" -> ValidFader(c)
    [] kind = "setCompLimit" -> ValidCompLimit(c)

Accepted(batch) ==
  /\ batch # <<>>
  /\ \A i \in DOMAIN batch : Decodes(batch[i])
  /\ \A i \in DOMAIN batch : Valid(batch[i].kind, Decoded(batch[i]))

\* What the desk makes of a command.
Applied(d, kind, c) ==
  CASE kind = "setRouting" /\ c.matrix = "output" /\ c.input \in DOMAIN d.route ->
         [d EXCEPT !.route[c.input] = ToSet(c.outputs)]
    [] kind = "setInputMuted" /\ c.name \in DOMAIN d.route -> [d EXCEPT !.muted[c.name] = c.muted]
    [] kind = "setOutputMuted" ->
         [d EXCEPT !.off = IF c.muted THEN @ \cup ToSet(c.buses) ELSE @ \ ToSet(c.buses)]
    [] OTHER -> d

\* One command of a batch, every one of which is good.
SendMixerCommands ==
  /\ deskLeft.moves > 0 /\ deskLeft' = [deskLeft EXCEPT !.moves = @ - 1]
  /\ \E batch \in {b \in Batches : Accepted(b)} : \E i \in DOMAIN batch :
       /\ Writes([msg |-> batch[i], cmd |-> Decoded(batch[i])])
       /\ device' = Applied(device, batch[i].kind, Decoded(batch[i]))
-----------------------------------------------------------------------------
\* Somebody else's hand, a recall, an input added or removed.
DeskMoves ==
  /\ deskLeft.moves > 0 /\ deskLeft' = [deskLeft EXCEPT !.moves = @ - 1]
  /\ \/ \E n \in DOMAIN device.route, r \in Routes : device' = [device EXCEPT !.route[n] = r]
     \/ \E n \in DOMAIN device.route : device' = [device EXCEPT !.muted[n] = ~@]
     \/ \E n \in DOMAIN device.route :
          LET others == DOMAIN device.route \ {n} IN
          device' = [device EXCEPT !.route = [x \in others |-> @[x]], !.muted = [x \in others |-> @[x]]]
     \/ \E n \in Strips \ DOMAIN device.route :
          LET all == DOMAIN device.route \cup {n} IN
          device' = [device EXCEPT !.route = [x \in all |-> IF x = n THEN {"master", "aux1", "aux2"} ELSE @[x]],
                               !.muted = [x \in all |-> x # n /\ @[x]]]
  /\ Writes(Absent)

DeskInit ==
  /\ \E n \in Strips : \E r \in Routes :
       device = [route |-> [x \in {n} |-> r], muted |-> [x \in {n} |-> TRUE], off |-> {}]
  /\ sent = Absent /\ deskLeft \in DeskBudgets
-----------------------------------------------------------------------------
\* A strip's buses as they are written were all listed by the message, and a limiter's
\* threshold is one it named, for a limiter that is on (decodeMixerCommand, Envelope): no
\* list that is missing, misspelt or of another type un-routes a strip.
SentIsMeant ==
  sent # Absent =>
    LET said == Obj(sent.msg.args) IN
    CASE sent.msg.kind = "setRouting" ->
           Readable(Get(said, "outputs")) /\ ToSet(sent.cmd.outputs) = ToSet(said.outputs)
      [] sent.msg.kind = "setCompLimit" ->
           Readable(Get(said, "limiter_th")) <=> sent.cmd.agc_mode = "limiter"
      [] OTHER -> TRUE
=============================================================================
