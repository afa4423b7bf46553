---------------------------- MODULE StatusWatcher ----------------------------
(***************************************************************************)
(* watcher.run in internal/m2lx/watcher.go with debounce.go and, of        *)
(* document.go, what it says of our one node: the loop behind the lamps    *)
(* that the switcher's WebSocket feeds.  Time passes in ticks of one       *)
(* second; the loop is at its select, or in a dial, which may take any     *)
(* time, and otherwise takes none.                                         *)
(*                                                                         *)
(* The formats that travel with stream_state are left out, and so is a     *)
(* node that is listed without being an input: it is absent.               *)
(***************************************************************************)
EXTENDS StatusSocket

CONSTANTS
  DebounceWindow,  \* 4 ticks in the code
  StaleAfter,      \* 15
  ResyncInterval   \* 30
ASSUME TimesAssumption ==
  /\ DebounceWindow \in Nat \ {0}
  /\ StaleAfter \in Nat \ {0}
  /\ ResyncInterval \in Nat \ {0}

VARIABLES
  pc,         \* "first", "resync" or "redial": in a dial; else "select"
  ticked,     \* the ticker's channel holds a tick
  due,        \* what was due when the tick's handler read the clock
  lag,        \* ticks since then
  sinceMsg,   \* since the last accepted frame, up to StaleAfter
  sinceSync,  \* since resyncAt was set, up to ResyncInterval
  fresh,      \* no frame of the newest connection has been accepted
  doc,        \* our node: "new" before a snapshot, else "none" or its state
  confirmed, pending, pendAge,    \* the debouncer
  lamps,      \* the raw state last emitted; "none" while not lampsKnown
  keyErr, keyAge,                 \* the standing report; since keyErrNext was set
  lamp, grey, \* what the consumer sees: last state not stale, and is it stale?
  device,     \* external: our node at the switcher, "none" if it has none
  raw, steady \* history: the state last observed, and for how long it has
              \*   been the last while it is not the confirmed one

timeVars == <<ticked, due, lag>>
debVars  == <<confirmed, pending, pendAge>>
keyVars  == <<keyErr, keyAge>>
seenVars == <<fresh, doc, lamps>>
outVars  == <<lamp, grey>>
history  == <<raw, steady>>
ageVars  == <<sinceMsg, sinceSync>>
vars == <<socketVars, pc, timeVars, ageVars, seenVars, debVars, keyVars,
          outVars, device, history>>

Dialling == {"first", "resync", "redial"}
MaybeState == States \cup {NoState}

\* Every variable keeps its type: the ages stop at their bounds, the ladder at its
\* cap, and only a known kind of work is ever due.
TypeOK ==
  /\ SocketTypeOK
  /\ pc \in Dialling \cup {"select"}
  /\ ticked \in BOOLEAN
  /\ due \subseteq {"commit", "stale", "report"}
  /\ lag \in 0 .. StaleAfter
  /\ sinceMsg \in 0 .. StaleAfter
  /\ sinceSync \in 0 .. ResyncInterval
  /\ fresh \in BOOLEAN
  /\ doc \in MaybeState \cup {"new"}
  /\ confirmed \in MaybeState /\ pending \in MaybeState
  /\ pendAge \in 0 .. DebounceWindow
  /\ lamps \in MaybeState
  /\ keyErr \in BOOLEAN /\ keyAge \in 0 .. StaleAfter
  /\ lamp \in MaybeState /\ grey \in BOOLEAN
  /\ device \in MaybeState
  /\ raw \in MaybeState /\ steady \in 0 .. DebounceWindow

Init ==
  /\ SocketInit
  /\ pc = "first"
  /\ ticked = FALSE /\ due = {} /\ lag = 0
  /\ sinceMsg = 0 /\ sinceSync = 0
  /\ fresh = TRUE /\ doc = "new" /\ lamps = NoState
  /\ confirmed = NoState /\ pending = NoState /\ pendAge = 0
  /\ keyErr = FALSE /\ keyAge = 0
  /\ lamp = NoState /\ grey = TRUE
  /\ device \in MaybeState
  /\ raw = NoState /\ steady = 0

Upto(n, bound) == IF n < bound THEN n + 1 ELSE n
-----------------------------------------------------------------------------
(* Time, and the switcher.                                                 *)

\* What a loop at its select has ready it handles within the second.
Idle == pc = "select" /\ ~ ticked /\ ~ late /\ cur \in {At("none"), At("read")}

\* A second passes.
Elapse ==
  /\ pc \in Dialling \/ Idle
  /\ ticked' = (pc # "first")
  /\ lag' = IF pc \in Dialling THEN Upto(lag, StaleAfter) ELSE 0
  /\ sinceMsg' = Upto(sinceMsg, StaleAfter)
  /\ sinceSync' = Upto(sinceSync, ResyncInterval)
  /\ pendAge' = IF pending # NoState THEN Upto(pendAge, DebounceWindow) ELSE 0
  /\ keyAge' = IF keyErr THEN Upto(keyAge, StaleAfter) ELSE 0
  /\ steady' = IF raw # confirmed THEN Upto(steady, DebounceWindow) ELSE 0
  /\ wait' = IF wait > 0 THEN wait - 1 ELSE 0
  /\ UNCHANGED <<conn, cur, late, backoff, pc, due, seenVars, confirmed, pending,
                 keyErr, outVars, device, raw>>

DeviceChanges ==
  /\ device' \in MaybeState \ {device}
  /\ UNCHANGED <<socketVars, pc, timeVars, ageVars, seenVars, debVars, keyVars,
                 outVars, history>>

\* The opening snapshot lists every node; any frame may follow, and none need
\* ever speak of our node again.
Receive ==
  /\ \/ Read([kind |-> "whole", ours |-> device]) \/ Read(At("unreadable"))
     \/ ~ fresh /\ \E s \in {NoState, device} : Read([kind |-> "delta", ours |-> s])
  /\ UNCHANGED <<pc, timeVars, ageVars, seenVars, debVars, keyVars, outVars,
                 device, history>>

Break ==
  /\ ReadFails
  /\ UNCHANGED <<pc, timeVars, ageVars, seenVars, debVars, keyVars, outVars,
                 device, history>>

-----------------------------------------------------------------------------
(* What the consumer is told.                                              *)

Show(s) == lamp' = s /\ grey' = FALSE
Grey    == grey' = TRUE /\ UNCHANGED lamp

-----------------------------------------------------------------------------
(* The tick.                                                               *)

\* Everything the handler compares with the clock, it compares with the time at
\* which it began, however long it then dials.
Due ==
  {d \in {"commit", "stale", "report"} :
     CASE d = "commit" -> pending # NoState /\ pendAge = DebounceWindow
       [] d = "stale"  -> sinceMsg = StaleAfter
       [] d = "report" -> keyErr /\ keyAge = StaleAfter}

\* Mutant: staleness is declared of a connection that is down, not of a silent one.
FinishConnectedIsAlive(what, elapsed) ==
  /\ pc' = "select" /\ due' = {} /\ lag' = 0
  /\ IF "commit" \in what
       THEN confirmed' = pending /\ pending' = NoState /\ pendAge' = 0
       ELSE UNCHANGED debVars
  /\ steady' = IF raw = confirmed' THEN 0 ELSE steady
  /\ lamp' = IF "commit" \in what THEN confirmed' ELSE lamp
  /\ IF "report" \in what \/ ("stale" \in what /\ ~ conn)
       THEN /\ grey' = TRUE
            /\ lamps' = NoState
            /\ keyAge' = IF keyErr THEN elapsed ELSE 0
       ELSE /\ grey' = (grey /\ "commit" \notin what)
            /\ UNCHANGED <<lamps, keyAge>>
  /\ UNCHANGED <<keyErr, raw>>

\* The tick ends.  A pending value that has stood long enough is confirmed and
\* shown; then what has been silent too long, or a report whose heartbeat is due,
\* is shown grey.
Finish(what, elapsed) ==
  /\ pc' = "select" /\ due' = {} /\ lag' = 0
  /\ IF "commit" \in what
       THEN confirmed' = pending /\ pending' = NoState /\ pendAge' = 0
       ELSE UNCHANGED debVars
  /\ steady' = IF raw = confirmed' THEN 0 ELSE steady
  /\ lamp' = IF "commit" \in what THEN confirmed' ELSE lamp
  /\ IF {"stale", "report"} \cap what # {}
       THEN /\ grey' = TRUE
            /\ lamps' = NoState
            /\ keyAge' = IF keyErr THEN elapsed ELSE 0
       ELSE /\ grey' = (grey /\ "commit" \notin what)
            /\ UNCHANGED <<lamps, keyAge>>
  /\ UNCHANGED <<keyErr, raw>>

Dial(which) ==
  /\ pc' = which /\ due' = Due
  /\ UNCHANGED <<lag, lamps, debVars, keyVars, outVars, history>>

\* A healthy connection is closed and replaced.
Resync == conn' = FALSE /\ Dial("resync")

\* A connection is dropped if the token in its URL has been rotated, which takes
\* longer than its first frame; and one is dialled if its time has come.
Maintain ==
  \E rotated \in BOOLEAN :
    /\ rotated => conn /\ ~ fresh
    /\ conn' = (conn /\ ~ rotated)
    /\ IF conn' \/ wait > 0 THEN Finish(Due, 0) ELSE Dial("redial")

\* Mutant: there is no resync.
TickWithoutResync ==
  /\ pc = "select"
  /\ ticked
  /\ ticked' = FALSE
  /\ Maintain
  /\ UNCHANGED <<cur, late, backoff, wait, ageVars, fresh, doc, device>>

Tick ==
  /\ pc = "select"
  /\ ticked
  /\ ticked' = FALSE
  /\ IF sinceSync = ResyncInterval
       THEN sinceSync' = 0 /\ IF conn THEN Resync ELSE Maintain
       ELSE Maintain /\ UNCHANGED sinceSync
  /\ UNCHANGED <<cur, late, backoff, wait, sinceMsg, fresh, doc, device>>

\* The first dial comes before the ticker.  One that resync made and that failed
\* is not made again in the same tick.
DialReturns ==
  /\ pc \in Dialling
  /\ \/ DialSucceeds /\ fresh' = TRUE
     \/ DialFails(lag) /\ UNCHANGED fresh
  /\ Finish(due, lag)
  /\ UNCHANGED <<ticked, ageVars, doc, device>>

-----------------------------------------------------------------------------
(* A frame.                                                                *)

\* What the document says of our node once f has been merged into it: a delta
\* needs a baseline, and a first frame starts a new document.
Merged(f) ==
  LET base == IF fresh THEN "new" ELSE doc IN
  CASE f.kind = "whole" /\ f.ours # NoState                    -> f.ours
    [] f.kind = "delta" /\ f.ours # NoState /\ base \in States -> f.ours
    [] f.kind = "whole" /\ f.ours = NoState /\ base = "new"    -> NoState
    [] OTHER                                                   -> base

\* A frame speaks of our node if it carries it whole, or a part of it that the
\* document could take.
Touches(f) == f.ours # NoState /\ (f.kind = "whole" \/ (~ fresh /\ doc \in States))

\* Mutant: a value that goes back leaves its rival pending.
ObserveKeepingPending(s) ==
  IF confirmed = NoState
  THEN confirmed' = s /\ UNCHANGED <<pending, pendAge>>
  ELSE IF s = confirmed
  THEN UNCHANGED debVars
  ELSE IF s # pending
  THEN pending' = s /\ pendAge' = 0 /\ UNCHANGED confirmed
  ELSE IF pendAge = DebounceWindow
  THEN confirmed' = s /\ pending' = NoState /\ pendAge' = 0
  ELSE UNCHANGED debVars

\* debouncer.Observe: the first value at once, any other when it has stood.
Observe(s) ==
  IF confirmed = NoState \/ s = confirmed \/ (s = pending /\ pendAge = DebounceWindow)
  THEN confirmed' = s /\ pending' = NoState /\ pendAge' = 0
  ELSE /\ pending' = s
       /\ pendAge' = IF s = pending THEN pendAge ELSE 0
       /\ UNCHANGED confirmed

\* Mutant: the gate does not look at what the debouncer has committed.
GateOnRaw(s, known) == s # known

\* The gate: a state that moved, or was confirmed just now, or follows grey.
Gate(s, known) == s # known \/ confirmed' # confirmed

\* Our node's state, read from the document, is observed and, unless nothing a
\* lamp shows has moved, shown.
Reading(f) ==
  LET s == Merged(f) IN
  /\ Touches(f)
  /\ Observe(s)
  /\ raw' = s
  /\ steady' = IF s # raw \/ s = confirmed' THEN 0 ELSE steady
  /\ IF Gate(s, IF fresh THEN NoState ELSE lamps)
       THEN lamps' = s /\ Show(confirmed')
       ELSE UNCHANGED <<lamps, outVars>>
  /\ keyErr' = FALSE /\ keyAge' = 0

\* Nothing is said of our node.  If the snapshot did not list it that is
\* reported, at once the first time and then on the heartbeat.
NoReading(f) ==
  /\ ~ Touches(f)
  /\ IF f.kind # "unreadable" /\ Merged(f) = NoState /\ ~ (keyErr /\ keyAge < StaleAfter)
       THEN keyErr' = TRUE /\ keyAge' = 0 /\ lamps' = NoState /\ Grey
       ELSE /\ lamps' = IF fresh THEN NoState ELSE lamps
            /\ UNCHANGED <<keyVars, outVars>>
  /\ UNCHANGED <<debVars, history>>

\* What every accepted frame does, whatever is in it.
Accepted ==
  /\ pc = "select"
  /\ fresh' = FALSE
  /\ sinceMsg' = 0
  /\ sinceSync' = IF fresh THEN 0 ELSE sinceSync
  /\ UNCHANGED <<pc, timeVars, device>>

\* A frame that cannot be read is a sign of life, and nothing else.
Frame ==
  \E f \in Frames :
    /\ Accepted
    /\ Accept(f)
    /\ doc' = Merged(f)
    /\ Reading(f) \/ NoReading(f)

Lost ==
  /\ pc = "select"
  /\ Fail
  /\ UNCHANGED <<pc, timeVars, ageVars, seenVars, debVars, keyVars, outVars,
                 device, history>>

Superseded ==
  /\ pc = "select"
  /\ Discard
  /\ UNCHANGED <<pc, timeVars, ageVars, seenVars, debVars, keyVars, outVars,
                 device, history>>

-----------------------------------------------------------------------------
Watch ==
  \/ Tick \/ DialReturns \/ Frame \/ Lost \/ Superseded

Next == Elapse \/ DeviceChanges \/ Receive \/ Break \/ Watch

Spec == Init /\ [][Next]_vars

\* Time passes; the loop runs, and its select, which takes any of what is ready,
\* neglects nothing for ever.  The network comes back: dialling again and again
\* succeeds, and a connection opened again and again delivers its snapshot.
\* Nothing obliges the switcher to push a change.
Opening == fresh /\ (cur.kind = "whole" \/ cur'.kind = "whole")

Fairness ==
  /\ SF_vars(Elapse) /\ WF_vars(Watch)
  /\ SF_vars(Tick) /\ SF_vars(Frame /\ Opening) /\ SF_vars(Lost) /\ SF_vars(Superseded)
  /\ SF_vars(DialReturns /\ DialSucceeds)
  /\ SF_vars(Receive /\ Opening)

FairSpec == Spec /\ Fairness

-----------------------------------------------------------------------------
(* Properties.                                                             *)

\* A lamp that is not grey shows the confirmed state, whichever of a frame and
\* a tick confirmed it, and however the gate saved events in between.
ShownIsConfirmed == ~ grey => lamp = confirmed

\* The confirmed state changes only to the one last observed, after that has
\* been the last for the whole window: a flap, and a flap back, shows nothing.
Debounced ==
  confirmed # NoState /\ confirmed' # confirmed
    => raw' = confirmed' /\ steady = DebounceWindow

\* Once the loop has handled its tick, a socket silent for StaleAfter is shown
\* grey, connected or not, whatever else that tick confirmed or dialled.
SilenceIsGrey ==
  pc = "select" /\ ~ ticked /\ sinceMsg = StaleAfter => grey

\* Every frame that speaks of our node leaves the lamp lit: what greyed it
\* before, on this connection or the last, does not keep it grey.
ReadingIsShown ==
  pc = "select" /\ cur' = At("read") /\ cur \in Frames /\ Touches(cur) => ~ grey'

\* A connection is closed because it is due or its token is gone, or because its
\* own reader failed: never for the late error of one it replaced.
ClosedForAReason ==
  conn /\ ~ conn' =>
    cur = At("err") \/ sinceSync = ResyncInterval \/ (ticked /\ ~ fresh)

\* What is confirmed, lit or closed is so for its reason, in every step.
StepsHaveReasons == [][Debounced /\ ReadingIsShown /\ ClosedForAReason]_vars

\* Though the switcher may push nothing but snapshots, what its node settles at
\* is shown in the end and stays shown: its state, or the report that the key
\* names nothing.
CatchesUp ==
  <>[][FALSE]_device
    => <>[](IF device = NoState THEN keyErr ELSE lamp = device /\ ~ keyErr)
=============================================================================
