--------------------------- MODULE MixerController ---------------------------
(***************************************************************************)
(* internal/mixer/controller.go: the armed write path to the mixer.  Any    *)
(* number of goroutines Send batches of commands over the one connection,   *)
(* behind a window that Arm opens; a supervisor reads the connection and    *)
(* dials another when it is lost; Close may come at any moment.             *)
(*                                                                         *)
(* A batch is BatchLen commands; which command is which does not matter.    *)
(* The window's deadline passes by the action Disarm.                      *)
(***************************************************************************)
EXTENDS Naturals, Sequences, FiniteSets

CONSTANTS
  Senders,    \* goroutines that call Send, once each
  Impatient,  \* those whose context may end
  BatchLen,   \* commands in a batch
  Closers,    \* goroutines that call Close
  MaxDials,   \* bound: connections made in one behaviour
  Spare       \* bound: how many of them the network leaves alone

ASSUME MixerAssumption ==
  /\ Impatient \subseteq Senders
  /\ BatchLen \in Nat \ {0}
  /\ MaxDials \in Nat \ {0}
  /\ Spare \in Nat

Conns == 1 .. MaxDials
NoConn == 0

VARIABLES
  armed,     \* is the window open?
  closed,    \* c.closed
  cancelled, \* is c.ctx cancelled?
  conn,      \* c.conn, the published connection
  ready,     \* c.ready, as the number of that channel
  released,  \* the ready channels that have been closed
  dials,     \* connections made so far
  link,      \* what became of each; see Links
  sup,       \* where the supervisor stands
  supConn,   \* the connection it reads, NoConn for deadConn
  writer,    \* the holder of writeMu, as a set
  pc,        \* where each Send stands
  held,      \* the connection it acquired
  waitOn,    \* the ready channel it is parked on
  try,       \* its attempt at the present command, 1 or 2
  written,   \* commands it has written
  outcome,   \* how it returned
  expired,   \* senders whose context has ended
  closer,    \* where each Close stands
  taken,     \* the connection Close took out of c.conn
  wire       \* the writes that succeeded, <<sender, index>> in order

gateVars == <<armed, closed, cancelled, closer, taken>>
connVars == <<conn, ready, released, dials, link>>
supVars  == <<sup, supConn>>
sendVars == <<writer, pc, held, waitOn, try, written, outcome, expired, wire>>
vars     == <<gateVars, connVars, supVars, sendVars>>

\* "up"; "lost": the far end vanished without a word; "dead": it closed, so that
\* a read fails; "shut": Close was called on it here.
Links == {"none", "up", "lost", "dead", "shut"}

SendPCs == {"idle", "gate", "build", "lock", "acquire", "parked", "write",
            "drop", "shut", "failed", "done"}
Outcomes == {"none", "ok", "closed", "disarmed", "malformed", "context", "io"}
SupPCs == {"read", "clear", "check", "wait", "dial", "publish", "gone"}
ClosePCs == {"idle", "once", "mark", "cancel", "shut", "join", "done"}

TypeOK ==
  /\ armed \in BOOLEAN
  /\ closed \in BOOLEAN
  /\ cancelled \in BOOLEAN
  /\ conn \in Conns \cup {NoConn}
  /\ ready \in Nat
  /\ released \subseteq 0 .. ready
  /\ dials \in Conns
  /\ link \in [Conns -> Links]
  /\ sup \in SupPCs
  /\ supConn \in Conns \cup {NoConn}
  /\ writer \subseteq Senders
  /\ pc \in [Senders -> SendPCs]
  /\ held \in [Senders -> Conns \cup {NoConn}]
  /\ waitOn \in [Senders -> Nat]
  /\ try \in [Senders -> {1, 2}]
  /\ written \in [Senders -> 0 .. BatchLen]
  /\ outcome \in [Senders -> Outcomes]
  /\ expired \subseteq Senders
  /\ closer \in [Closers -> ClosePCs]
  /\ taken \in Conns \cup {NoConn}
  /\ wire \in Seq(Senders \X (1 .. BatchLen))

\* NewController has returned: its first dial succeeded and was published.
Init ==
  /\ armed = FALSE
  /\ closed = FALSE
  /\ cancelled = FALSE
  /\ conn = 1
  /\ ready = 0
  /\ released = {0}
  /\ dials = 1
  /\ link = [i \in Conns |-> IF i = 1 THEN "up" ELSE "none"]
  /\ sup = "read"
  /\ supConn = 1
  /\ writer = {}
  /\ pc = [s \in Senders |-> "idle"]
  /\ held = [s \in Senders |-> NoConn]
  /\ waitOn = [s \in Senders |-> 0]
  /\ try = [s \in Senders |-> 1]
  /\ written = [s \in Senders |-> 0]
  /\ outcome = [s \in Senders |-> "none"]
  /\ expired = {}
  /\ closer = [c \in Closers |-> "idle"]
  /\ taken = NoConn
  /\ wire = <<>>

-----------------------------------------------------------------------------
(* The window, and the network.                                            *)

Arm ==
  /\ armed' = TRUE
  /\ UNCHANGED <<closed, cancelled, closer, taken, connVars, supVars, sendVars>>

\* Disarm, or the deadline passing.
Disarm ==
  /\ armed' = FALSE
  /\ UNCHANGED <<closed, cancelled, closer, taken, connVars, supVars, sendVars>>

\* With Spare connections left for the Sends whose context has ended, which
\* retire up to two each, the bound on dials is never what keeps a Send waiting.
LoseLink(i, how) ==
  /\ dials + Spare < MaxDials
  /\ link[i] \in {"up", "lost"} \ {how}
  /\ link' = [link EXCEPT ![i] = how]
  /\ UNCHANGED <<gateVars, conn, ready, released, dials, supVars, sendVars>>

\* Before the lock is asked for, nothing looks at the context.
ContextEnds(s) ==
  /\ s \in Impatient
  /\ pc[s] \in {"lock", "acquire", "parked", "write", "drop", "shut"}
  /\ expired' = expired \cup {s}
  /\ UNCHANGED <<gateVars, connVars, supVars, writer, pc, held, waitOn, try,
                 written, outcome, wire>>

-----------------------------------------------------------------------------
(* Send.                                                                   *)

Goto(s, from, to) ==
  /\ pc[s] = from
  /\ pc' = [pc EXCEPT ![s] = to]

\* Refused before the write lock is asked for.
Refuse(s, from, why) ==
  /\ Goto(s, from, "done")
  /\ outcome' = [outcome EXCEPT ![s] = why]

\* c.closed is read under c.mu and let go.
CallSend(s) ==
  /\ \/ closed /\ Refuse(s, "idle", "closed")
     \/ ~ closed /\ Goto(s, "idle", "gate") /\ UNCHANGED outcome
  /\ UNCHANGED <<gateVars, connVars, supVars, writer, held, waitOn, try, written, expired, wire>>

CheckGate(s) ==
  /\ \/ armed /\ Goto(s, "gate", "build") /\ UNCHANGED outcome
     \/ ~ armed /\ Refuse(s, "gate", "disarmed")
  /\ UNCHANGED <<gateVars, connVars, supVars, writer, held, waitOn, try, written, expired, wire>>

\* Every envelope is built before any is written: one that does not validate
\* refuses them all.
Build(s) ==
  /\ \/ Refuse(s, "build", "malformed")
     \/ Goto(s, "build", "lock") /\ UNCHANGED outcome
  /\ UNCHANGED <<gateVars, connVars, supVars, writer, held, waitOn, try, written, expired, wire>>

\* Mutant: the lock is held for one command, not for the batch.
LockShared(s) ==
  /\ Goto(s, "lock", "acquire")
  /\ writer' = {s}
  /\ UNCHANGED <<gateVars, connVars, supVars, held, waitOn, try, written, outcome, expired, wire>>

\* A sync.Mutex: neither the context nor Close cuts this wait short.
Lock(s) ==
  /\ writer = {}
  /\ Goto(s, "lock", "acquire")
  /\ writer' = {s}
  /\ UNCHANGED <<gateVars, connVars, supVars, held, waitOn, try, written, outcome, expired, wire>>

\* Send returns, with the write lock.
Return(s, from, why) ==
  /\ Refuse(s, from, why)
  /\ writer' = {}
  /\ UNCHANGED <<held, try, written, expired, wire>>

Acquire(s) ==
  /\ \/ closed /\ Return(s, "acquire", "closed") /\ UNCHANGED waitOn
     \/ /\ ~ closed
        /\ conn # NoConn
        /\ Goto(s, "acquire", "write")
        /\ held' = [held EXCEPT ![s] = conn]
        /\ UNCHANGED <<writer, waitOn, try, written, outcome, expired, wire>>
     \/ /\ ~ closed
        /\ conn = NoConn
        /\ Goto(s, "acquire", "parked")
        /\ waitOn' = [waitOn EXCEPT ![s] = ready]
        /\ UNCHANGED <<writer, held, try, written, outcome, expired, wire>>
  /\ UNCHANGED <<gateVars, connVars, supVars>>

\* The select of acquire; of the cases that are ready, any may be taken.
Wake(s) ==
  /\ \/ /\ waitOn[s] \in released
        /\ Goto(s, "parked", "acquire")
        /\ UNCHANGED <<writer, held, try, written, outcome, expired, wire>>
     \/ s \in expired /\ Return(s, "parked", "context")
     \/ cancelled /\ Return(s, "parked", "closed")
  /\ waitOn' = [waitOn EXCEPT ![s] = 0]
  /\ UNCHANGED <<gateVars, connVars, supVars>>

\* A write the far end's silence has not stopped succeeds, in the socket's buffer
\* at least; a deadline that has passed fails it whatever the link.
WriteSucceeds(s) ==
  /\ pc[s] = "write"
  /\ s \notin expired
  /\ link[held[s]] # "shut"
  /\ written' = [written EXCEPT ![s] = @ + 1]
  /\ wire' = Append(wire, <<s, written[s] + 1>>)
  /\ try' = [try EXCEPT ![s] = 1]
  /\ held' = [held EXCEPT ![s] = NoConn]
  /\ IF written[s] + 1 = BatchLen
       THEN Refuse(s, "write", "ok") /\ writer' = {}
       ELSE Goto(s, "write", "acquire") /\ UNCHANGED <<outcome, writer>>
  /\ UNCHANGED <<gateVars, connVars, supVars, waitOn, expired>>

WriteFails(s) ==
  /\ pc[s] = "write"
  /\ s \in expired \/ link[held[s]] # "up"
  /\ Goto(s, "write", "drop")
  /\ UNCHANGED <<gateVars, connVars, supVars, writer, held, waitOn, try, written,
                 outcome, expired, wire>>

\* c.conn = nil, with a fresh ready channel unless the present one is still open.
RetireConn ==
  /\ conn' = NoConn
  /\ ready' = IF ready \in released THEN ready + 1 ELSE ready

\* dropConn unpublishes the connection if it is still the published one ...
DropConn(s) ==
  /\ IF conn = held[s] THEN RetireConn ELSE UNCHANGED <<conn, ready>>
  /\ Goto(s, "drop", "shut")
  /\ UNCHANGED <<gateVars, released, dials, link, supVars, writer, held, waitOn, try,
                 written, outcome, expired, wire>>

\* ... and closes it in any case, which wakes its reader.
ShutHeld(s) ==
  /\ pc[s] = "shut"
  /\ link' = [link EXCEPT ![held[s]] = "shut"]
  /\ held' = [held EXCEPT ![s] = NoConn]
  /\ \/ try[s] = 1 /\ try' = [try EXCEPT ![s] = 2] /\ Goto(s, "shut", "acquire")
     \/ try[s] = 2 /\ Goto(s, "shut", "failed") /\ UNCHANGED try
  /\ UNCHANGED <<gateVars, conn, ready, released, dials, supVars, writer, waitOn,
                 written, outcome, expired, wire>>

\* Mutant: the last error is forgotten.
GiveUpQuietly(s) ==
  /\ Return(s, "failed", "ok")
  /\ UNCHANGED <<waitOn, gateVars, connVars, supVars>>

\* Two writes of one command have failed: the batch stops where it is.
GiveUp(s) ==
  /\ Return(s, "failed", "io")
  /\ UNCHANGED <<waitOn, gateVars, connVars, supVars>>

-----------------------------------------------------------------------------
(* The supervisor.                                                         *)

SupGoto(from, to) == sup = from /\ sup' = to

\* readUntilError.  deadConn fails at once.
ReadFails ==
  /\ SupGoto("read", "clear")
  /\ supConn \notin {i \in Conns : link[i] \in {"up", "lost"}}
  /\ UNCHANGED <<gateVars, connVars, supConn, sendVars>>

ClearConn ==
  /\ SupGoto("clear", "check")
  /\ RetireConn
  /\ UNCHANGED <<gateVars, released, dials, link, supConn, sendVars>>

CheckContext ==
  /\ \/ cancelled /\ SupGoto("check", "gone")
     \/ ~ cancelled /\ SupGoto("check", "wait")
  /\ UNCHANGED <<gateVars, connVars, supConn, sendVars>>

\* The wait of the ladder, however long, or Close.
WaitEnds ==
  /\ \/ SupGoto("wait", "dial")
     \/ cancelled /\ SupGoto("wait", "gone")
  /\ UNCHANGED <<gateVars, connVars, supConn, sendVars>>

DialFails ==
  /\ SupGoto("dial", "read")
  /\ supConn' = NoConn
  /\ UNCHANGED <<gateVars, connVars, sendVars>>

DialSucceeds ==
  /\ ~ cancelled
  /\ dials < MaxDials
  /\ SupGoto("dial", "publish")
  /\ dials' = dials + 1
  /\ supConn' = dials + 1
  /\ link' = [link EXCEPT ![dials + 1] = "up"]
  /\ UNCHANGED <<gateVars, conn, ready, released, sendVars>>

\* Mutant: closed is not looked at again.
SetConnUnchecked ==
  /\ conn' = supConn
  /\ released' = released \cup {ready}
  /\ SupGoto("publish", "read")
  /\ UNCHANGED <<gateVars, ready, dials, link, supConn, sendVars>>

\* setConn: closed is read under the lock that publishes.
SetConn ==
  /\ sup = "publish"
  /\ \/ /\ ~ closed
        /\ conn' = supConn
        /\ released' = released \cup {ready}
        /\ SupGoto("publish", "read")
        /\ UNCHANGED link
     \/ /\ closed
        /\ link' = [link EXCEPT ![supConn] = "shut"]
        /\ SupGoto("publish", "gone")
        /\ UNCHANGED <<conn, released>>
  /\ UNCHANGED <<gateVars, ready, dials, supConn, sendVars>>

-----------------------------------------------------------------------------
(* Close.                                                                  *)

CloserGoto(c, from, to) ==
  /\ closer[c] = from
  /\ closer' = [closer EXCEPT ![c] = to]

\* The gate is shut first, outside the Once.
CallClose(c) ==
  /\ CloserGoto(c, "idle", "once")
  /\ armed' = FALSE
  /\ UNCHANGED <<closed, cancelled, taken, connVars, supVars, sendVars>>

\* sync.Once: the first call runs the body, the others wait for it to return.
EnterOnce(c) ==
  /\ \/ (\A d \in Closers : closer[d] \in {"idle", "once"}) /\ CloserGoto(c, "once", "mark")
     \/ (\E d \in Closers : closer[d] = "done") /\ CloserGoto(c, "once", "done")
  /\ UNCHANGED <<armed, closed, cancelled, taken, connVars, supVars, sendVars>>

MarkClosed(c) ==
  /\ CloserGoto(c, "mark", "cancel")
  /\ closed' = TRUE
  /\ taken' = conn
  /\ conn' = NoConn
  /\ UNCHANGED <<armed, cancelled, ready, released, dials, link, supVars, sendVars>>

Cancel(c) ==
  /\ CloserGoto(c, "cancel", "shut")
  /\ cancelled' = TRUE
  /\ UNCHANGED <<armed, closed, taken, connVars, supVars, sendVars>>

ShutTaken(c) ==
  /\ CloserGoto(c, "shut", "join")
  /\ link' = IF taken = NoConn THEN link ELSE [link EXCEPT ![taken] = "shut"]
  /\ UNCHANGED <<armed, closed, cancelled, taken, conn, ready, released, dials, supVars, sendVars>>

\* Mutant: Close does not wait for the supervisor.
JoinNot(c) ==
  /\ CloserGoto(c, "join", "done")
  /\ UNCHANGED <<armed, closed, cancelled, taken, connVars, supVars, sendVars>>

Join(c) ==
  /\ sup = "gone"
  /\ CloserGoto(c, "join", "done")
  /\ UNCHANGED <<armed, closed, cancelled, taken, connVars, supVars, sendVars>>

-----------------------------------------------------------------------------
SendStep(s) ==
  \/ CheckGate(s) \/ Build(s) \/ Lock(s) \/ Acquire(s) \/ Wake(s)
  \/ WriteSucceeds(s) \/ WriteFails(s) \/ DropConn(s) \/ ShutHeld(s) \/ GiveUp(s)

SupStep ==
  \/ ReadFails \/ ClearConn \/ CheckContext \/ WaitEnds
  \/ DialFails \/ DialSucceeds \/ SetConn

CloseStep(c) ==
  EnterOnce(c) \/ MarkClosed(c) \/ Cancel(c) \/ ShutTaken(c) \/ Join(c)

Environment ==
  \/ Arm \/ Disarm
  \/ \E i \in Conns, how \in {"lost", "dead"} : LoseLink(i, how)
  \/ \E s \in Senders : ContextEnds(s) \/ CallSend(s)
  \/ \E c \in Closers : CallClose(c)

Next ==
  \/ Environment
  \/ \E s \in Senders : SendStep(s)
  \/ SupStep
  \/ \E c \in Closers : CloseStep(c)

Spec == Init /\ [][Next]_vars

\* Goroutines run.  A waiting Lock gets the mutex in the end, since a sync.Mutex
\* hands itself to the longest waiter.  Nothing is said of the network: a dial
\* may fail for ever.
GoroutinesRun ==
  /\ \A s \in Senders :
       /\ SF_vars(Lock(s))
       /\ WF_vars(SendStep(s))
  /\ WF_vars(SupStep)
  /\ \A c \in Closers : WF_vars(CloseStep(c))

FairSpec == Spec /\ GoroutinesRun

\* A mixer that comes back: dialling again and again succeeds, and a connection
\* that has gone silent is found dead by TCP's keep-alive.
MixerComesBack ==
  /\ SF_vars(DialSucceeds)
  /\ \A i \in Conns : WF_vars(LoseLink(i, "dead") /\ link[i] = "lost")

-----------------------------------------------------------------------------
(* Properties.                                                             *)

\* Once a batch has put a command on the wire, no other batch writes until it
\* has returned: a correction is never split by somebody else's (controller.go:
\* 1317, held across the reconnects of sendOne).
BatchesDoNotInterleave ==
  \A i, k \in 1 .. Len(wire) :
    i < k /\ wire[i][1] = wire[k][1] => \A j \in i .. k : wire[j][1] = wire[i][1]

\* What Send reports is what was written: Written counts a prefix of the batch,
\* in order, each command once, through every loss and retry; success means all
\* of it; a batch refused for its window or its contents has written nothing.
WrittenIsWhatWasWritten ==
  /\ \A k \in 1 .. Len(wire) : wire[k][2] <= written[wire[k][1]]
  /\ \A s \in Senders : \A i \in 1 .. written[s] :
       \E k \in 1 .. Len(wire) : wire[k] = <<s, i>>
  /\ \A j, k \in 1 .. Len(wire) :
       j < k /\ wire[j][1] = wire[k][1] => wire[j][2] < wire[k][2]
  /\ \A s \in Senders :
       /\ outcome[s] = "ok" => written[s] = BatchLen
       /\ outcome[s] \in {"disarmed", "malformed"} => written[s] = 0

\* The published connection is always one the supervisor is reading: one it was
\* not reading could fail without anybody dialling another.
PublishedIsRead == conn # NoConn => supConn = conn /\ sup \in {"read", "clear"}

\* When Close has returned the supervisor is gone and no connection is left that
\* could carry a write, also when the close ran into a dial that succeeded.
CloseLeavesNothing ==
  (\E c \in Closers : closer[c] = "done") =>
    /\ sup = "gone"
    /\ conn = NoConn
    /\ \A i \in Conns : link[i] \in {"none", "dead", "shut"}

\* Nobody retires another's connection: it is unpublished by Close, by the
\* supervisor that saw it fail, or by a Send that failed on it.
RetiredByItsOwn ==
  [][conn # NoConn /\ conn' # conn =>
       \/ closed'
       \/ sup = "clear" /\ supConn = conn
       \/ \E s \in Senders : pc[s] = "drop" /\ held[s] = conn]_vars

\* Close returns, whatever the connection, the supervisor and the Sends are at;
\* and a Send whose mixer comes back returns: no channel it is parked on is
\* forgotten, and the connection it found broken is always replaced.
CallsReturn ==
  /\ \A c \in Closers : closer[c] = "once" ~> closer[c] = "done"
  /\ MixerComesBack => \A s \in Senders : pc[s] = "gate" ~> pc[s] = "done"

=============================================================================
