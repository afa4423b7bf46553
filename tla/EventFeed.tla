------------------------------- MODULE EventFeed -------------------------------
(***************************************************************************)
(* How an event reaches the pages: app.go's eventPump, the tee from its one *)
(* consumer to the remote server, and a seat's event queue                  *)
(* (internal/remote/session.go).                                            *)
(*                                                                         *)
(* Neither queue may ever block who writes to it.  Both try once, discard   *)
(* the oldest entry, try once more and give up.  The pump has a producer    *)
(* for every kind of event; the seat's queue has one, the pump.             *)
(*                                                                         *)
(* An event is its kind and a version that its producer counts.             *)
(***************************************************************************)
EXTENDS Naturals, Sequences

CONSTANTS
  Topics,       \* kinds of event, each sent by a goroutine of its own
  PumpDepth,    \* eventQueueDepth
  SeatDepth,    \* outboundEventDepth
  MaxEvents     \* bound: events of each kind

ASSUME FeedAssumption ==
  /\ PumpDepth \in Nat \ {0} /\ SeatDepth \in Nat \ {0}
  /\ MaxEvents \in Nat

VARIABLES
  newest,    \* the version each producer sent last
  sending,   \* where its send stands
  ch,        \* eventPump.ch
  deskPage,  \* what the page at the desk shows
  teeing,    \* the event the consumer is handing to the seat, and how far it got
  seq,       \* session.seq
  eventsCh,  \* session.eventsCh
  seatPage,  \* what the seat's page shows
  lastSeq    \* the number of the last frame that page received

feedVars == <<newest, sending, ch, deskPage, teeing, seq, eventsCh, seatPage, lastSeq>>
pumpVars == <<newest, sending>>
queueVars == <<seq, eventsCh>>

Event == [topic : Topics, version : 1 .. MaxEvents]
Nothing == <<>>
EventOf(t) == [topic |-> t, version |-> newest[t]]

FeedTypeOK ==
  /\ newest \in [Topics -> 0 .. MaxEvents]
  /\ sending \in [Topics -> {"idle", "try", "discard", "again"}]
  /\ ch \in Seq(Event) /\ Len(ch) <= PumpDepth
  /\ deskPage \in [Topics -> 0 .. MaxEvents] /\ seatPage \in [Topics -> 0 .. MaxEvents]
  /\ teeing.at \in {"idle", "try", "discard", "again"}
  /\ seq \in Nat /\ lastSeq \in 0 .. seq
  /\ Len(eventsCh) <= SeatDepth

FeedInit ==
  /\ newest = [t \in Topics |-> 0]
  /\ sending = [t \in Topics |-> "idle"]
  /\ ch = <<>> /\ deskPage = [t \in Topics |-> 0]
  /\ teeing = [at |-> "idle", event |-> Nothing]
  /\ seq = 0 /\ eventsCh = <<>>
  /\ seatPage = [t \in Topics |-> 0] /\ lastSeq = 0

-----------------------------------------------------------------------------
(* eventPump.send.                                                          *)

Send(t) ==
  /\ sending[t] = "idle" /\ newest[t] < MaxEvents
  /\ newest' = [newest EXCEPT ![t] = @ + 1]
  /\ sending' = [sending EXCEPT ![t] = "try"]
  /\ UNCHANGED <<ch, deskPage, teeing, queueVars, seatPage, lastSeq>>

Try(t) ==
  /\ sending[t] = "try"
  /\ IF Len(ch) < PumpDepth
     THEN ch' = Append(ch, EventOf(t)) /\ sending' = [sending EXCEPT ![t] = "idle"]
     ELSE sending' = [sending EXCEPT ![t] = "discard"] /\ UNCHANGED ch
  /\ UNCHANGED <<newest, deskPage, teeing, queueVars, seatPage, lastSeq>>

DiscardOldest(t) ==
  /\ sending[t] = "discard"
  /\ ch' = IF ch = <<>> THEN ch ELSE Tail(ch)
  /\ sending' = [sending EXCEPT ![t] = "again"]
  /\ UNCHANGED <<newest, deskPage, teeing, queueVars, seatPage, lastSeq>>

TryAgain(t) ==
  /\ sending[t] = "again"
  /\ ch' = IF Len(ch) < PumpDepth THEN Append(ch, EventOf(t)) ELSE ch
  /\ sending' = [sending EXCEPT ![t] = "idle"]
  /\ UNCHANGED <<newest, deskPage, teeing, queueVars, seatPage, lastSeq>>

-----------------------------------------------------------------------------
(* The consumer: EventsEmit, and then the tee.                              *)

Emit ==
  /\ teeing.at = "idle" /\ ch # <<>>
  /\ LET e == Head(ch) IN
       /\ deskPage' = [deskPage EXCEPT ![e.topic] = e.version]
       /\ teeing' = [at |-> "try", event |-> e]
  /\ ch' = Tail(ch)
  /\ UNCHANGED <<pumpVars, queueVars, seatPage, lastSeq>>

\* broadcastRemote and enqueueEvent: a number, and the same three steps.
TeeDone == teeing' = [at |-> "idle", event |-> Nothing]
Frame(n) == [seq |-> n, event |-> teeing.event]

TeeTry ==
  /\ teeing.at = "try"
  /\ seq' = seq + 1
  /\ IF Len(eventsCh) < SeatDepth
     THEN eventsCh' = Append(eventsCh, Frame(seq + 1)) /\ TeeDone
     ELSE teeing' = [teeing EXCEPT !.at = "discard"] /\ UNCHANGED eventsCh
  /\ UNCHANGED <<pumpVars, ch, deskPage, seatPage, lastSeq>>

\* Mutant: the queue keeps what it holds.
TeeDiscardNothing ==
  /\ teeing.at = "discard"
  /\ teeing' = [teeing EXCEPT !.at = "again"]
  /\ UNCHANGED <<pumpVars, ch, deskPage, queueVars, seatPage, lastSeq>>
TeeDiscards ==
  /\ teeing.at = "discard"
  /\ eventsCh' = IF eventsCh = <<>> THEN eventsCh ELSE Tail(eventsCh)
  /\ teeing' = [teeing EXCEPT !.at = "again"]
  /\ UNCHANGED <<pumpVars, ch, deskPage, seq, seatPage, lastSeq>>

TeeAgain ==
  /\ teeing.at = "again"
  /\ eventsCh' = IF Len(eventsCh) < SeatDepth THEN Append(eventsCh, Frame(seq)) ELSE eventsCh
  /\ TeeDone
  /\ UNCHANGED <<pumpVars, ch, deskPage, seq, seatPage, lastSeq>>

\* The seat's write pump.
WriteFrame ==
  /\ eventsCh # <<>>
  /\ LET f == Head(eventsCh) IN
       /\ seatPage' = [seatPage EXCEPT ![f.event.topic] = f.event.version]
       /\ lastSeq' = f.seq
  /\ eventsCh' = Tail(eventsCh)
  /\ UNCHANGED <<pumpVars, ch, deskPage, teeing, seq>>

FeedNext ==
  \/ \E t \in Topics : Send(t) \/ Try(t) \/ DiscardOldest(t) \/ TryAgain(t)
  \/ Emit \/ TeeTry \/ TeeDiscards \/ TeeAgain \/ WriteFrame

FeedSpec == FeedInit /\ [][FeedNext]_feedVars

-----------------------------------------------------------------------------

\* A gap in the numbers a seat receives is always seen: the last number that was
\* given is in its queue, on its page, or about to be queued, so whatever was
\* dropped is followed by a frame that shows it.
GapIsSeen ==
  teeing.at \in {"idle", "try"} =>
    \/ lastSeq = seq
    \/ eventsCh # <<>> /\ eventsCh[Len(eventsCh)].seq = seq

=============================================================================
