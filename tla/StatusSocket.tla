---------------------------- MODULE StatusSocket ----------------------------
(***************************************************************************)
(* The statusSocket of internal/m2lx/watcher.go: one WebSocket to the      *)
(* switcher, redialled on a ladder of waits, with one reader goroutine for *)
(* each connection it has had.  What a reader hands over is tagged with    *)
(* its connection's generation; here the newest generation's reader is cur *)
(* and one of those left behind, any one, is late: what it still hands     *)
(* over is thrown away, and so is the error it ends with.  All but the     *)
(* readers runs in the goroutine of StatusWatcher.                         *)
(*                                                                         *)
(* A frame carries whole nodes (path "/"), or a part of one (delta), or it *)
(* cannot be read; of our node it says a stream_state, or nothing.         *)
(***************************************************************************)
EXTENDS Naturals, Sequences

CONSTANTS
  States,   \* the values of stream_state
  Ladder    \* reconnectBackoff and its cap, in ticks
ASSUME LadderAssumption ==
  Ladder \in Seq(Nat \ {0}) /\ Ladder # <<>> /\ "none" \notin States

VARIABLES
  conn,     \* is there a connection?  s.conn # nil
  cur,      \* the newest reader: At "none", "read" or "err", or what it holds
  late,     \* is there a reader left behind?
  backoff,  \* backoffN, up to the ladder's cap
  wait      \* ticks until nextAttempt

socketVars == <<conn, cur, late, backoff, wait>>

NoState == "none"
At(kind) == [kind |-> kind, ours |-> NoState]
Frames == [kind : {"whole", "delta"}, ours : States \cup {NoState}] \cup {At("unreadable")}
Readers == {At("none"), At("read"), At("err")} \cup Frames

SocketTypeOK ==
  /\ conn \in BOOLEAN
  /\ cur \in Readers
  /\ late \in BOOLEAN
  /\ backoff \in 0 .. Len(Ladder)
  /\ wait \in Nat

SocketInit ==
  /\ conn = FALSE
  /\ cur = At("none")
  /\ late = FALSE
  /\ backoff = 0
  /\ wait = 0

\* The next rung, for an attempt that failed `elapsed` ticks after the time it
\* is counted from.
ClimbAfter(elapsed) ==
  LET rung == IF backoff < Len(Ladder) THEN backoff + 1 ELSE backoff IN
  /\ backoff' = rung
  /\ wait' = IF Ladder[rung] > elapsed THEN Ladder[rung] - elapsed ELSE 0

-----------------------------------------------------------------------------
(* The owner.                                                              *)

\* dial returns.  The reader of the connection before is left behind.
DialSucceeds ==
  /\ conn' = TRUE
  /\ cur' = At("read")
  /\ late' = (late \/ cur # At("none"))
  /\ backoff' = 0
  /\ UNCHANGED wait

DialFails(elapsed) ==
  /\ ClimbAfter(elapsed)
  /\ UNCHANGED <<conn, cur, late>>

\* fail: the newest connection's reader reports its end.
Fail ==
  /\ cur = At("err")
  /\ cur' = At("none")
  /\ conn' = FALSE
  /\ ClimbAfter(0)
  /\ UNCHANGED late

\* accept: a frame of the newest connection, also of one closed meanwhile.
Accept(f) ==
  /\ cur = f
  /\ cur' = At("read")
  /\ backoff' = 0
  /\ UNCHANGED <<conn, late, wait>>

\* The error of a superseded connection.
Discard ==
  /\ late
  /\ late' = FALSE
  /\ UNCHANGED <<conn, cur, backoff, wait>>

-----------------------------------------------------------------------------
(* The readers.                                                            *)

Read(f) ==
  /\ conn
  /\ cur = At("read")
  /\ cur' = f
  /\ UNCHANGED <<conn, late, backoff, wait>>

\* The connection breaks, or has been closed.
ReadFails ==
  /\ cur = At("read")
  /\ cur' = At("err")
  /\ UNCHANGED <<conn, late, backoff, wait>>
=============================================================================
