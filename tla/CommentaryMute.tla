---------------------------- MODULE CommentaryMute ----------------------------
(***************************************************************************)
(* app.go, "THE COUGH MUTE": the one mute that the desk and every remote    *)
(* seat may press, on an element of the capture pipeline that a device      *)
(* change replaces.                                                         *)
(*                                                                         *)
(* Every press is a call on a goroutine of its own, so the two halves of    *)
(* one keypress may arrive in either order; the stamp each carries decides. *)
(* What is shown is a record beside the element: a press writes both under  *)
(* muteApplyMu, a rebuilt capture and the session's forwarder write the     *)
(* record alone.  A poll of the remote seats releases a mute whose holder   *)
(* has gone.  It belongs to the listener that the seats are connected to:   *)
(* a restart of that drops them all, ends its poll and begins another.      *)
(*                                                                         *)
(* Stamps are read off one clock, and the element takes what it is set to.  *)
(* The event sent after each change of the record is not modelled.          *)
(***************************************************************************)
EXTENDS Naturals, FiniteSets

CONSTANTS
  Desk,       \* the seat at the machine
  Remote,     \* the other seats, each a connection with an address of its own
  MaxPresses, \* bound: presses, and stops of the listener
  MaxMuteCalls,   \* bound: presses and releases
  MaxCaps,    \* bound: captures built
  MaxPolls    \* bound: listeners, each with a poll; the last stays up

ASSUME MuteAssumption ==
  /\ Desk \notin Remote
  /\ MaxPresses \in Nat /\ MaxMuteCalls \in Nat /\ MaxCaps \in Nat \ {0} /\ MaxPolls \in Nat \ {0}

Keys == Remote \cup {Desk}
MuteCalls == 1 .. MaxMuteCalls
Caps  == 1 .. MaxCaps
Polls == 1 .. MaxPolls

VARIABLES
  cap,       \* the capture in a.capSet, 0 when there is none
  elem,      \* each capture's mute element
  stopped,   \* captures that have been stopped
  capMu,     \* whether a rebuild holds it
  rebuild,   \* where the rebuild stands
  sample,    \* mutedNow, as it read it
  rec,       \* muted, muteBy (at most one seat), muteSeq, and whether the window is open
  applyMu,   \* the call that holds it, 0 when free
  req,       \* every call of setCommentaryMuteFrom
  clock,     \* the last stamp given
  session,   \* whether a session runs: its forwarder reconciles
  seen,      \* what reconcileMute has read and not yet compared
  listener,  \* the listener that is up, 0 when there is none
  conn,      \* the remote seats connected to it
  came,      \* every seat that ever was: no two have the same address
  last,      \* the seats each poll saw last
  poll       \* where it stands, with the call it waits for

recVars == <<rec, applyMu>>
capVars == <<cap, elem, stopped, capMu, rebuild, sample>>
connVars == <<listener, conn, came, last, poll>>
sessVars == <<session, seen>>
muteVars == <<capVars, recVars, req, clock, sessVars, connVars>>

NoCall == [pc |-> "none", seat |-> Desk, want |-> FALSE, stamp |-> 0, cap |-> 0]
PollAt(label) == [pc |-> label, call |-> 0]
NotMuted == [muted |-> FALSE, by |-> {}, seq |-> 0, fresh |-> FALSE]
InFlight == {i \in MuteCalls : req[i].pc \notin {"none", "done"}}
Made == {i \in MuteCalls : req[i].pc # "none"}
Begun == {w \in Polls : poll[w].pc # "none"}
Spare == clock + Cardinality(Begun \ {listener}) < MaxPresses

MuteTypeOK ==
  /\ cap \in 0 .. MaxCaps
  /\ elem \in [Caps -> BOOLEAN] /\ stopped \subseteq Caps
  /\ capMu \in BOOLEAN /\ sample \in BOOLEAN /\ session \in BOOLEAN
  /\ rebuild \in {"idle", "stop", "forget", "build", "publish"}
  /\ rec \in [muted : BOOLEAN, by : SUBSET Keys, seq : Nat, fresh : BOOLEAN]
  /\ applyMu \in 0 .. MaxMuteCalls
  /\ req \in [MuteCalls -> [pc : {"none", "sent", "ready", "write", "record", "done"},
                        seat : Keys, want : BOOLEAN, stamp : Nat,
                        cap : 0 .. MaxCaps]]
  /\ clock \in Nat
  /\ seen \in {"none", "muted", "open"}
  /\ listener \in 0 .. MaxPolls
  /\ conn \subseteq Remote /\ came \subseteq Remote
  /\ last \in [Polls -> SUBSET Remote]
  /\ poll \in [Polls -> [pc : {"none", "idle", "check", "wait", "ended"}, call : 0 .. MaxMuteCalls]]

MuteInit ==
  /\ cap = 1 /\ elem = [c \in Caps |-> FALSE] /\ stopped = {}
  /\ capMu = FALSE /\ rebuild = "idle" /\ sample = FALSE
  /\ rec = NotMuted /\ applyMu = 0
  /\ req = [i \in MuteCalls |-> NoCall] /\ clock = 0
  /\ session = FALSE /\ seen = "none"
  /\ listener = 1 /\ conn = {} /\ came = {}
  /\ last = [w \in Polls |-> {}]
  /\ poll = [w \in Polls |-> PollAt(IF w = 1 THEN "idle" ELSE "none")]

-----------------------------------------------------------------------------
(* setCommentaryMuteFrom.                                                   *)

\* SetCommentaryMute, from the page: stamped when the key moves.
Press(seat, want) ==
  /\ seat = Desk \/ seat \in conn
  /\ Spare
  /\ \E i \in MuteCalls \ Made :
       /\ \A j \in MuteCalls \ Made : i <= j
       /\ req' = [req EXCEPT ![i] = [NoCall EXCEPT !.pc = "sent", !.seat = seat,
                                                   !.want = want, !.stamp = clock + 1]]
  /\ clock' = clock + 1
  /\ UNCHANGED <<capVars, recVars, sessVars, connVars>>

\* currentCommentary, under capMu; a call without a stamp is given one here.
Resolve(i) ==
  /\ req[i].pc = "sent" /\ ~capMu
  /\ req' = [req EXCEPT ![i].pc = IF cap = 0 THEN "done" ELSE "ready", ![i].cap = cap,
                        ![i].stamp = IF @ = 0 THEN clock + 1 ELSE @]
  /\ clock' = IF req[i].stamp = 0 THEN clock + 1 ELSE clock
  /\ UNCHANGED <<capVars, recVars, sessVars, connVars>>

\* Mutant: the stamps are not compared.
StaleNot(i) == FALSE
\* An older half of a keypress, within the window.
Stale(i) == req[i].stamp < rec.seq /\ rec.fresh

Enter(i) ==
  /\ req[i].pc = "ready" /\ applyMu = 0
  /\ IF Stale(i)
     THEN req' = [req EXCEPT ![i].pc = "done"] /\ UNCHANGED applyMu
     ELSE req' = [req EXCEPT ![i].pc = "write"] /\ applyMu' = i
  /\ UNCHANGED <<capVars, rec, clock, sessVars, connVars>>

\* CapturePipeline.SetCommentaryMute refuses once the pipeline is stopped.
Write(i) ==
  /\ req[i].pc = "write"
  /\ IF req[i].cap \in stopped
     THEN /\ req' = [req EXCEPT ![i].pc = "done"]
          /\ applyMu' = 0
          /\ UNCHANGED elem
     ELSE /\ req' = [req EXCEPT ![i].pc = "record"]
          /\ elem' = [elem EXCEPT ![req[i].cap] = req[i].want]
          /\ UNCHANGED applyMu
  /\ UNCHANGED <<cap, stopped, capMu, rebuild, sample, rec, clock, sessVars, connVars>>

Record(i) ==
  /\ req[i].pc = "record"
  /\ LET inForce == elem[req[i].cap]
     IN rec' = [muted |-> inForce, by |-> IF inForce THEN {req[i].seat} ELSE {},
                seq |-> req[i].stamp, fresh |-> TRUE]
  /\ applyMu' = 0
  /\ req' = [req EXCEPT ![i].pc = "done"]
  /\ UNCHANGED <<capVars, clock, sessVars, connVars>>

\* muteStaleWindow runs out.  The two halves of a keypress are milliseconds
\* apart, and the window is two seconds: a call that an applied one has overtaken
\* arrives within it.
WindowEnds ==
  /\ rec.fresh
  /\ \A i \in InFlight : req[i].stamp = 0 \/ req[i].stamp > rec.seq
  /\ rec' = [rec EXCEPT !.fresh = FALSE]
  /\ UNCHANGED <<capVars, applyMu, req, clock, sessVars, connVars>>

-----------------------------------------------------------------------------
(* What else writes the record.                                             *)

\* rebuildCaptureLocked, which a running session refuses: the latch is read
\* before the capture that has it goes.
RebuildStarts ==
  /\ rebuild = "idle" /\ ~session /\ ~capMu
  /\ \E c \in Caps : c > cap /\ c \notin stopped
  /\ capMu' = TRUE
  /\ sample' = rec.muted
  /\ rebuild' = IF cap = 0 THEN "build" ELSE "stop"
  /\ UNCHANGED <<cap, elem, stopped, recVars, req, clock, sessVars, connVars>>

StopOld ==
  /\ rebuild = "stop"
  /\ stopped' = stopped \cup {cap}
  /\ cap' = 0
  /\ rebuild' = "forget"
  /\ UNCHANGED <<elem, capMu, sample, recVars, req, clock, sessVars, connVars>>

forgetMute ==
  /\ rebuild = "forget"
  /\ rec' = NotMuted
  /\ rebuild' = "build"
  /\ UNCHANGED <<cap, elem, stopped, capMu, sample, applyMu, req, clock, sessVars, connVars>>

\* CaptureOpts.MuteCommentary
BuildNew ==
  /\ rebuild = "build"
  /\ \E c \in Caps \ stopped :
       /\ \A d \in Caps \ stopped : c <= d
       /\ cap' = c
       /\ elem' = [elem EXCEPT ![c] = sample]
  /\ rebuild' = "publish"
  /\ UNCHANGED <<stopped, capMu, sample, recVars, req, clock, sessVars, connVars>>

BuildFails ==
  /\ rebuild = "build"
  /\ rebuild' = "idle" /\ capMu' = FALSE
  /\ UNCHANGED <<cap, elem, stopped, sample, recVars, req, clock, sessVars, connVars>>

publishMuteForCapture ==
  /\ rebuild = "publish"
  /\ rec' = [NotMuted EXCEPT !.muted = elem[cap]]
  /\ rebuild' = "idle" /\ capMu' = FALSE
  /\ UNCHANGED <<cap, elem, stopped, sample, applyMu, req, clock, sessVars, connVars>>

\* Start and Stop: a session keeps the capture that it was started over, and Stop
\* waits for the forwarder.
SessionChanges ==
  /\ ~capMu /\ cap # 0 /\ seen = "none"
  /\ session' = ~session
  /\ UNCHANGED <<capVars, recVars, req, clock, seen, connVars>>

\* reconcileMute reads the element without a lock ...
ReconcileReads ==
  /\ session /\ seen = "none"
  /\ seen' = IF elem[cap] THEN "muted" ELSE "open"
  /\ UNCHANGED <<capVars, recVars, req, clock, session, connVars>>

\* ... and corrects the record under muteMu.
ReconcileRecords ==
  /\ seen # "none"
  /\ LET actual == seen = "muted"
     IN rec' = IF rec.muted = actual THEN rec
               ELSE [rec EXCEPT !.muted = actual, !.by = IF actual THEN @ ELSE {}]
  /\ seen' = "none"
  /\ UNCHANGED <<capVars, applyMu, req, clock, session, connVars>>

-----------------------------------------------------------------------------
(* The remote seats, and the poll of each listener.                         *)

Come(s) ==
  /\ listener # 0 /\ s \notin came
  /\ conn' = conn \cup {s} /\ came' = came \cup {s}
  /\ UNCHANGED <<capVars, recVars, req, clock, sessVars, listener, last, poll>>

Leave(s) ==
  /\ s \in conn
  /\ conn' = conn \ {s}
  /\ UNCHANGED <<capVars, recVars, req, clock, sessVars, listener, came, last, poll>>

\* SetRemoteListener, whether it restarts the listener or switches it off: the poll's
\* context is cancelled and every seat is dropped.
ListenerStops ==
  /\ listener # 0 /\ listener < MaxPolls /\ Spare
  /\ listener' = 0 /\ conn' = {}
  /\ UNCHANGED <<capVars, recVars, req, clock, sessVars, came, last, poll>>

\* The next one's poll has seen nobody yet, and knows nothing of the mute.
ListenerStarts ==
  /\ listener = 0
  /\ \E w \in Polls \ Begun :
       /\ \A v \in Polls \ Begun : w <= v
       /\ listener' = w
       /\ poll' = [poll EXCEPT ![w] = PollAt("idle")]
  /\ UNCHANGED <<capVars, recVars, req, clock, sessVars, conn, came, last>>

Clients(w) == IF w = listener THEN conn ELSE {}

\* watchRemoteClients looks at the mute only when the set of seats has changed; a
\* poll whose context is cancelled may tick once more before it sees that.
PollTick(w) ==
  /\ poll[w].pc = "idle" /\ Clients(w) # last[w]
  /\ last' = [last EXCEPT ![w] = Clients(w)]
  /\ poll' = [poll EXCEPT ![w] = PollAt("check")]
  /\ UNCHANGED <<capVars, recVars, req, clock, sessVars, listener, conn, came>>

PollEnds(w) ==
  /\ poll[w].pc = "idle" /\ w # listener
  /\ poll' = [poll EXCEPT ![w] = PollAt("ended")]
  /\ last' = [last EXCEPT ![w] = {}]
  /\ UNCHANGED <<capVars, recVars, req, clock, sessVars, listener, conn, came>>

\* Mutant: the poll takes the seats that it saw last for those that are gone.
HeldByGoneLate(w) == rec.muted /\ rec.by # {} /\ rec.by \subseteq last[w]
HeldByGone(w) == rec.muted /\ rec.by # {} /\ rec.by \subseteq Remote \ last[w]

\* releaseMuteHeldByGoneSeat: read under muteMu, acted upon as an ordinary call.
PollCheck(w) ==
  /\ poll[w].pc = "check"
  /\ IF HeldByGone(w)
     THEN \E i \in MuteCalls \ Made :
            /\ \A j \in MuteCalls \ Made : i <= j
            /\ req' = [req EXCEPT ![i] = [NoCall EXCEPT !.pc = "sent", !.seat = Desk]]
            /\ poll' = [poll EXCEPT ![w] = [pc |-> "wait", call |-> i]]
     ELSE poll' = [poll EXCEPT ![w] = PollAt("idle")] /\ UNCHANGED req
  /\ UNCHANGED <<capVars, recVars, clock, sessVars, listener, conn, came, last>>

PollReturns(w) ==
  /\ poll[w].pc = "wait" /\ req[poll[w].call].pc = "done"
  /\ poll' = [poll EXCEPT ![w] = PollAt("idle")]
  /\ UNCHANGED <<capVars, recVars, req, clock, sessVars, listener, conn, came, last>>

-----------------------------------------------------------------------------
CallStep(i) == Resolve(i) \/ Enter(i) \/ Write(i) \/ Record(i)
RebuildStep == StopOld \/ forgetMute \/ BuildNew \/ BuildFails \/ publishMuteForCapture
PollStep(w) == PollTick(w) \/ PollEnds(w) \/ PollCheck(w) \/ PollReturns(w)

MuteNext ==
  \/ \E s \in Keys, want \in BOOLEAN : Press(s, want)
  \/ \E i \in MuteCalls : CallStep(i)
  \/ WindowEnds
  \/ RebuildStarts \/ RebuildStep
  \/ SessionChanges \/ ReconcileReads \/ ReconcileRecords
  \/ \E s \in Remote : Come(s) \/ Leave(s)
  \/ ListenerStops \/ ListenerStarts
  \/ \E w \in Polls : PollStep(w)

\* Goroutines that can run do, and a poll's ticker ticks while its listener is up.
MuteFairness ==
  /\ \A i \in MuteCalls : WF_muteVars(CallStep(i))
  /\ WF_muteVars(RebuildStep) /\ WF_muteVars(ReconcileRecords)
  /\ \A w \in Polls : WF_muteVars(PollStep(w))

MuteSpec == MuteInit /\ [][MuteNext]_muteVars /\ MuteFairness

-----------------------------------------------------------------------------
\* With no call in flight, the last press of all by the clock of the keyboards has
\* had its way, if the capture it met is still the one that is open: a key-up that
\* overtook its key-down does not leave the microphone dead, whatever rebuilds,
\* reconciliations and releases come in between.
LastPressWins ==
  \A i \in Made :
    (/\ InFlight = {}
     /\ \A j \in Made : req[j].stamp <= req[i].stamp
     /\ req[i].cap # 0 /\ req[i].cap = cap)
    => elem[cap] = req[i].want

\* While a listener stays up, a mute that is recorded for a seat whose going its poll
\* has yet to notice is released, unless no capture is open to release it on: the
\* commentary does not stay silent for a laptop that has dropped off the network.  A
\* listener that is restarted or switched off before its poll has looked takes that
\* knowledge along, and then nobody releases the mute.
HeldMuteIsReleased ==
  \A s \in Remote, w \in Polls :
    LET held == rec.muted /\ rec.by = {s}
    IN (listener = w /\ s \in last[w] \ conn /\ held) ~> (~held \/ cap = 0 \/ listener # w)

\* No seat that has gone holds the mute for the rest of the match.
GoneSeatIsReleased ==
  \A s \in Remote :
    (s \in came \ conn /\ rec.muted /\ rec.by = {s}) ~> ~(rec.muted /\ rec.by = {s})
=============================================================================
