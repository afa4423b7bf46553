----------------------------- MODULE RemoteSession -----------------------------
(***************************************************************************)
(* internal/remote/session.go: one seat's connection, from its registration *)
(* to the moment that nothing of it is left, and Server.Close around it.    *)
(*                                                                         *)
(* A reader starts each call on a goroutine of its own and answers the ones *)
(* over the cap itself; a writer, the only one, sends results, events and   *)
(* pings under a deadline; either of them, or the server, closes.           *)
(*                                                                         *)
(* Events and pings are what else the writer may be writing: their queue is *)
(* EventFeed's.                                                             *)
(***************************************************************************)
EXTENDS Naturals, Sequences, FiniteSets

CONSTANTS
  MaxInFlight,  \* maxInFlightCalls, which is also the depth of results
  MaxSeatCalls      \* bound: calls the seat makes

ASSUME SeatAssumption == MaxInFlight \in Nat \ {0} /\ MaxSeatCalls \in Nat

SeatCalls == 1 .. MaxSeatCalls

VARIABLES
  reader,      \* "read", "refuse" (about to queue a refusal), "closing", "ended"
  refused,     \* the call it refuses
  writer,      \* "select", "write", "closing", "ended"
  frame,       \* what it writes: a call, or 0 for anything else
  callAt,      \* each call: "none", "running", "answered", "queued", "delivered", "lost"
  inFlight,
  results,     \* session.results
  done,        \* close has run: the socket is closed too
  ctx,         \* whether the session's context is cancelled
  peer,        \* the other end: "drains", "stalls", "gone"
  registered,  \* whether it is in Server.sessions
  server       \* Server.Close: "up", "cancelled", "waits", "closed"

seatEnds == <<reader, refused, writer, frame>>
seatCalls == <<callAt, inFlight, results>>
seatVars == <<seatEnds, seatCalls, done, ctx, peer, registered, server>>

SeatTypeOK ==
  /\ reader \in {"read", "refuse", "closing", "ended"} /\ refused \in 0 .. MaxSeatCalls
  /\ writer \in {"select", "write", "closing", "ended"} /\ frame \in 0 .. MaxSeatCalls
  /\ callAt \in [SeatCalls -> {"none", "running", "answered", "queued", "delivered", "lost"}]
  /\ inFlight \in 0 .. MaxInFlight
  /\ results \in Seq(SeatCalls) /\ Len(results) <= MaxInFlight
  /\ done \in BOOLEAN /\ ctx \in BOOLEAN /\ registered \in BOOLEAN
  /\ peer \in {"drains", "stalls", "gone"}
  /\ server \in {"up", "cancelled", "waits", "closed"}

SeatInit ==
  /\ reader = "read" /\ refused = 0 /\ writer = "select" /\ frame = 0
  /\ callAt = [c \in SeatCalls |-> "none"] /\ inFlight = 0 /\ results = <<>>
  /\ done = FALSE /\ ctx = FALSE /\ peer = "drains"
  /\ registered = FALSE /\ server = "up"

\* handleWS, after the hello.
Register ==
  /\ ~registered /\ reader = "read" /\ writer = "select"
  /\ registered' = TRUE
  /\ UNCHANGED <<seatEnds, seatCalls, done, ctx, peer, server>>

\* close, under closeOnce.
close == done' = TRUE /\ ctx' = TRUE

-----------------------------------------------------------------------------
(* The reader.                                                              *)

Reading == registered /\ reader = "read" /\ ~done

\* Mutant: the cap is compared with the calls before this one.
startCallPastTheCap(c) ==
  /\ Reading /\ peer # "gone" /\ callAt[c] = "none" /\ \A d \in SeatCalls : d < c => callAt[d] # "none"
  /\ IF inFlight > MaxInFlight
     THEN /\ reader' = "refuse" /\ refused' = c
          /\ callAt' = [callAt EXCEPT ![c] = "answered"]
          /\ UNCHANGED inFlight
     ELSE /\ inFlight' = inFlight + 1
          /\ callAt' = [callAt EXCEPT ![c] = "running"]
          /\ UNCHANGED <<reader, refused>>
  /\ UNCHANGED <<writer, frame, results, done, ctx, peer, registered, server>>
startCall(c) ==
  /\ Reading /\ peer # "gone" /\ callAt[c] = "none" /\ \A d \in SeatCalls : d < c => callAt[d] # "none"
  /\ IF inFlight + 1 > MaxInFlight
     THEN /\ reader' = "refuse" /\ refused' = c
          /\ callAt' = [callAt EXCEPT ![c] = "answered"]
          /\ UNCHANGED inFlight
     ELSE /\ inFlight' = inFlight + 1
          /\ callAt' = [callAt EXCEPT ![c] = "running"]
          /\ UNCHANGED <<reader, refused>>
  /\ UNCHANGED <<writer, frame, results, done, ctx, peer, registered, server>>

\* Mutant: a result that finds the queue full is dropped.
enqueueResultOrDrop(c) ==
  \/ /\ Len(results) < MaxInFlight
     /\ results' = Append(results, c)
     /\ callAt' = [callAt EXCEPT ![c] = "queued"]
  \/ /\ done \/ Len(results) = MaxInFlight
     /\ callAt' = [callAt EXCEPT ![c] = "lost"]
     /\ UNCHANGED results
\* enqueueResult waits for room or for the end of the session.
enqueueResult(c) ==
  \/ /\ Len(results) < MaxInFlight
     /\ results' = Append(results, c)
     /\ callAt' = [callAt EXCEPT ![c] = "queued"]
  \/ /\ done
     /\ callAt' = [callAt EXCEPT ![c] = "lost"]
     /\ UNCHANGED results

Refuse ==
  /\ reader = "refuse"
  /\ enqueueResult(refused)
  /\ reader' = "read" /\ refused' = 0
  /\ UNCHANGED <<writer, frame, inFlight, done, ctx, peer, registered, server>>

\* A frame that is no call, a socket that ends, a minute without a pong: all but
\* the first are sure to come once the peer or the socket is gone.
ReadFails ==
  /\ registered /\ reader = "read"
  /\ reader' = "closing"
  /\ UNCHANGED <<refused, writer, frame, seatCalls, done, ctx, peer, registered, server>>

ReaderCloses ==
  /\ reader = "closing"
  /\ reader' = "ended"
  /\ close
  /\ UNCHANGED <<refused, writer, frame, seatCalls, peer, registered, server>>

-----------------------------------------------------------------------------
(* SeatCalls, and the writer.                                                   *)

\* The dispatcher returns; it is given a context that ends with the session.
Answer(c) ==
  /\ callAt[c] = "running"
  /\ callAt' = [callAt EXCEPT ![c] = "answered"]
  /\ UNCHANGED <<seatEnds, inFlight, results, done, ctx, peer, registered, server>>

Enqueue(c) ==
  /\ callAt[c] = "answered" /\ c # refused
  /\ enqueueResult(c)
  /\ inFlight' = inFlight - 1
  /\ UNCHANGED <<seatEnds, done, ctx, peer, registered, server>>

WriterTakes ==
  /\ registered /\ writer = "select" /\ results # <<>>
  /\ writer' = "write" /\ frame' = Head(results)
  /\ results' = Tail(results)
  /\ UNCHANGED <<reader, refused, callAt, inFlight, done, ctx, peer, registered, server>>

\* An event, or a ping.
WriterTakesOther ==
  /\ registered /\ writer = "select"
  /\ writer' = "write" /\ frame' = 0
  /\ UNCHANGED <<reader, refused, seatCalls, done, ctx, peer, registered, server>>

Written ==
  /\ writer = "write" /\ ~done /\ peer = "drains"
  /\ writer' = "select" /\ frame' = 0
  /\ callAt' = [c \in SeatCalls |-> IF c = frame THEN "delivered" ELSE callAt[c]]
  /\ UNCHANGED <<reader, refused, inFlight, results, done, ctx, peer, registered, server>>

\* writeWait runs out on a peer that does not drain, or the socket is closed.
WriteFails ==
  /\ writer = "write" /\ (done \/ peer # "drains")
  /\ writer' = "closing" /\ frame' = 0
  /\ callAt' = [c \in SeatCalls |-> IF c = frame THEN "lost" ELSE callAt[c]]
  /\ UNCHANGED <<reader, refused, inFlight, results, done, ctx, peer, registered, server>>

WriterStops ==
  /\ registered /\ writer = "select" /\ (done \/ ctx)
  /\ writer' = "closing"
  /\ UNCHANGED <<reader, refused, frame, seatCalls, done, ctx, peer, registered, server>>

\* The writer closes on its way out: nobody else would wake a reader that is
\* queueing a refusal.
WriterCloses ==
  /\ writer = "closing"
  /\ writer' = "ended"
  /\ close
  /\ UNCHANGED <<reader, refused, frame, seatCalls, peer, registered, server>>

\* serve returns, and handleWS takes the seat out of the map.
Unregister ==
  /\ registered /\ reader = "ended" /\ writer = "ended"
  /\ registered' = FALSE
  /\ UNCHANGED <<seatEnds, seatCalls, done, ctx, peer, server>>

-----------------------------------------------------------------------------
(* The other end, and the server.                                           *)

PeerStalls ==
  /\ peer = "drains" /\ peer' \in {"stalls", "gone"}
  /\ UNCHANGED <<seatEnds, seatCalls, done, ctx, registered, server>>

PeerResumes ==
  /\ peer = "stalls" /\ peer' = "drains"
  /\ UNCHANGED <<seatEnds, seatCalls, done, ctx, registered, server>>

\* Server.Close cancels the context that every session's derives from ...
ServerCancels ==
  /\ server = "up" /\ server' = "cancelled"
  /\ ctx' = TRUE
  /\ UNCHANGED <<seatEnds, seatCalls, done, peer, registered>>

\* ... then closes the sessions that it finds in the map ...
ServerCloses ==
  /\ server = "cancelled" /\ server' = "waits"
  /\ done' = (done \/ registered)
  /\ UNCHANGED <<seatEnds, seatCalls, ctx, peer, registered>>

\* ... and waits for them, or for the budget to run out.
ServerClosed ==
  /\ server = "waits" /\ server' = "closed"
  /\ UNCHANGED <<seatEnds, seatCalls, done, ctx, peer, registered>>

-----------------------------------------------------------------------------
SeatSteps ==
  \/ Refuse \/ ReaderCloses \/ WriterTakes \/ Written \/ WriteFails
  \/ WriterStops \/ WriterCloses \/ Unregister
  \/ \E c \in SeatCalls : Answer(c) \/ Enqueue(c)
  \/ (done \/ peer = "gone") /\ ReadFails

SeatNext ==
  \/ Register \/ \E c \in SeatCalls : startCall(c)
  \/ SeatSteps \/ ReadFails \/ WriterTakesOther
  \/ PeerStalls \/ PeerResumes
  \/ ServerCancels \/ ServerCloses \/ ServerClosed

\* Goroutines that can run do; a dispatcher returns; a write to a peer that does
\* not drain meets its deadline; neither the writer's select nor the queue of
\* results passes over for ever what waits there.
SeatFairness ==
  /\ WF_seatVars(Refuse) /\ WF_seatVars(ReaderCloses)
  /\ WF_seatVars(Written \/ WriteFails) /\ WF_seatVars(WriterCloses)
  /\ SF_seatVars(WriterTakes \/ WriterStops \/ \E c \in SeatCalls : Enqueue(c))
  /\ WF_seatVars(Unregister)
  /\ WF_seatVars((done \/ peer = "gone") /\ ReadFails)
  /\ WF_seatVars(\E c \in SeatCalls : Answer(c))

SeatSpec == SeatInit /\ [][SeatNext]_seatVars /\ SeatFairness

-----------------------------------------------------------------------------
\* Every call that the seat makes is answered, once, or the session ends: no
\* promise of its page hangs on a session that stays up.
EveryCallIsAnswered ==
  \A c \in SeatCalls : callAt[c] \notin {"none", "lost"} ~> callAt[c] = "delivered" \/ done

\* Whoever notices first that a session is over, all of it ends: reader, writer
\* and calls, and the seat leaves the operator's screen.
NoPhantomSeat ==
  (registered /\ (done \/ ctx \/ peer = "gone" \/ reader = "closing" \/ writer = "closing")) ~>
    (~registered /\ reader = "ended" /\ writer = "ended" /\ inFlight = 0)

\* A seat is answered while it is there, and gone when it is not.
SeatIsServed == EveryCallIsAnswered /\ NoPhantomSeat

=============================================================================
