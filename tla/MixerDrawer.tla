---------------------------- MODULE MixerDrawer ----------------------------
(***************************************************************************)
(* The page's mixer drawer (ui/mixer/drawer.js, model.js) and its host      *)
(* (ui/mixerhost.js) over the desk.  Each reading is a call of its own: the *)
(* opening's, the poll's and the click's may overlap and end in any order.  *)
(* A write replaces a strip's whole set of buses, so a click reads again    *)
(* and plans from that reading, of whatever age the screen is.              *)
(***************************************************************************)
EXTENDS MixerDesk

CONSTANTS
  Columns,   \* buses with a column: two, or all of them
  Openings   \* readings that openings of the drawer may have under way at once

ASSUME DrawerAssumption == Columns \subseteq AllBuses /\ "poll" \notin Openings

Readers == Openings \cup {"poll"}

VARIABLES
  open,      \* state.open
  unlocked,  \* state.armed
  fresh,     \* the last reading came within STALE_AFTER_MS
  shown,     \* state.snapshot, and the model made of it
  seen,      \* the desk at that reading
  reads,     \* of each reader: idle, asked, or come with a reading of some desk
  click      \* the gesture on a crosspoint that state.busy is for

drawerVars == <<open, unlocked, fresh, shown, seen, reads, click>>

AtRest == [at |-> "idle"]

DrawerTypeOK ==
  /\ {open, unlocked, fresh} \subseteq BOOLEAN
  /\ shown = Unread \/ shown.ok
  /\ \A r \in Readers : reads[r].at \in {"idle", "asked", "come"}
  /\ click.at \in {"idle", "reading", "read", "sending"}
  /\ click # AtRest => click.strip \in Strips /\ click.bus \in Columns /\ click.want \in BOOLEAN
-----------------------------------------------------------------------------
(* The drawer and its readings.                                            *)

Silent == Writes(Absent) /\ UNCHANGED device

\* A call that failed brings no snapshot, and leaves the screen as it is.
ApplySnapshot(snap, of) ==
  IF snap.ok THEN shown' = snap /\ seen' = of /\ fresh' = TRUE ELSE UNCHANGED <<shown, seen, fresh>>

Open ==
  /\ ~open /\ open' = TRUE
  /\ \E r \in Openings : reads[r] = AtRest /\ reads' = [reads EXCEPT ![r] = [at |-> "asked"]]
  /\ Silent /\ UNCHANGED <<unlocked, fresh, shown, seen, click, deskLeft>>

\* Closing locks; a click and the readings under way go on.
Close ==
  /\ open /\ open' = FALSE /\ unlocked' = FALSE
  /\ Silent /\ UNCHANGED <<fresh, shown, seen, reads, click, deskLeft>>

\* The operator; and the host, when the application could not be armed.
SetArmed ==
  /\ open \/ unlocked
  /\ unlocked' = ~unlocked
  /\ Silent /\ UNCHANGED <<open, fresh, shown, seen, reads, click, deskLeft>>

\* Bound: it counts among the things that go wrong.
GoesStale ==
  /\ fresh /\ fresh' = FALSE
  /\ deskLeft.faults > 0 /\ deskLeft' = [deskLeft EXCEPT !.faults = @ - 1]
  /\ Silent /\ UNCHANGED <<open, unlocked, shown, seen, reads, click>>

\* One poll at a time, and only of an open drawer.
PollMixer ==
  /\ open /\ reads["poll"] = AtRest
  /\ reads' = [reads EXCEPT !["poll"] = [at |-> "asked"]]
  /\ Silent /\ UNCHANGED <<open, unlocked, fresh, shown, seen, click, deskLeft>>

ReadIsTaken(r) ==
  /\ reads[r].at = "asked"
  /\ \E c \in Connections :
       /\ reads' = [reads EXCEPT ![r] = [at |-> "come", snap |-> GetMixerSnapshot(c), of |-> device]]
       /\ deskLeft' = [deskLeft EXCEPT !.faults = @ - c.faults]
  /\ Silent /\ UNCHANGED <<open, unlocked, fresh, shown, seen, click>>

\* Whether the drawer is still open or not, and whatever has been read since.
ReadReturns(r) ==
  /\ reads[r].at = "come"
  /\ ApplySnapshot(reads[r].snap, reads[r].of)
  /\ reads' = [reads EXCEPT ![r] = AtRest]
  /\ Silent /\ UNCHANGED <<open, unlocked, click, deskLeft>>
-----------------------------------------------------------------------------
(* The click: onCrosspoint and the gate behind it.                          *)

Rows(snap) == DOMAIN snap.strips

\* Locked, busy, a row that is gone, or stale: nothing is begun.  Of the screen only the
\* direction is taken.
Click(n, b) ==
  /\ open /\ unlocked /\ click = AtRest /\ shown.ok /\ n \in Rows(shown) /\ fresh
  /\ deskLeft.clicks > 0 /\ deskLeft' = [deskLeft EXCEPT !.clicks = @ - 1]
  /\ click' = [at |-> "reading", strip |-> n, bus |-> b, want |-> b \notin shown.strips[n].outputs]
  /\ Silent /\ UNCHANGED <<open, unlocked, fresh, shown, seen, reads>>

ClickIsRead ==
  /\ click.at = "reading"
  /\ \E c \in Connections :
       /\ click' = [at |-> "read", strip |-> click.strip, bus |-> click.bus, want |-> click.want,
                    snap |-> GetMixerSnapshot(c), of |-> device]
       /\ deskLeft' = [deskLeft EXCEPT !.faults = @ - c.faults]
  /\ Silent /\ UNCHANGED <<open, unlocked, fresh, shown, seen, reads>>

RoutingAfterToggle(outputs, b, want) == IF want THEN outputs \cup {b} ELSE outputs \ {b}

\* The list is in the order of ALL_BUSES; here, in some order.
RoutingCommand(n, outputs) ==
  [kind |-> "setRouting", args |-> [matrix |-> "output", input |-> n, outputs |-> SetToSeq(outputs)]]

\* Mutant: the row of the screen, as it was when the reading came.
RowOnScreen(snap, n) == shown.strips[n]

Row(snap, n) == snap.strips[n]

Desired == RoutingAfterToggle(Row(click.snap, click.strip).outputs, click.bus, click.want)

\* The reading is shown, and the command planned from it, in one turn of the page; the gate
\* asks for the lock again.
Plans ==
  /\ click.snap.ok /\ click.strip \in Rows(click.snap) /\ unlocked
  /\ Desired # Row(click.snap, click.strip).outputs

ClickPlans ==
  /\ click.at = "read"
  /\ ApplySnapshot(click.snap, click.of)
  /\ click' = IF Plans THEN [at |-> "sending", strip |-> click.strip, bus |-> click.bus, want |-> click.want,
                             of |-> click.of, msg |-> RoutingCommand(click.strip, Desired)]
              ELSE AtRest
  /\ Silent /\ UNCHANGED <<open, unlocked, reads, deskLeft>>

\* App.SendMixerCommands, once the controller lets it through; what comes back ends busy.
ClickSends ==
  /\ click.at = "sending" /\ Accepted(<<click.msg>>)
  /\ Writes([msg |-> click.msg, cmd |-> Decoded(click.msg)])
  /\ device' = Applied(device, click.msg.kind, Decoded(click.msg))
  /\ click' = AtRest
  /\ UNCHANGED <<open, unlocked, fresh, shown, seen, reads, deskLeft>>

\* Refused, disarmed or not written.
ClickFails ==
  /\ click.at = "sending" /\ click' = AtRest
  /\ Silent /\ UNCHANGED <<open, unlocked, fresh, shown, seen, reads, deskLeft>>
-----------------------------------------------------------------------------
DrawerInit ==
  /\ DeskInit
  /\ open = FALSE /\ unlocked = FALSE /\ fresh = FALSE /\ shown = Unread /\ seen = device
  /\ reads = [r \in Readers |-> AtRest] /\ click = AtRest

DrawerNext ==
  \/ (DeskMoves \/ SendMixerCommands) /\ UNCHANGED drawerVars
  \/ Open \/ Close \/ SetArmed \/ GoesStale \/ PollMixer
  \/ \E r \in Readers : ReadIsTaken(r) \/ ReadReturns(r)
  \/ \E n \in Strips, b \in Columns : Click(n, b)
  \/ ClickIsRead \/ ClickPlans \/ ClickSends \/ ClickFails

DrawerSpec == DrawerInit /\ [][DrawerNext]_<<deskVars, drawerVars>>
-----------------------------------------------------------------------------
(* Properties.                                                             *)

\* Nothing the drawer shows is a false claim of safety, whatever field of a frame was lost
\* and however: the rows are the desk's strips, each on the buses it is on, and none is shown
\* muted that is not (ParseWarning.Critical; model.js: buildMatrixModel).
ScreenIsTrue ==
  shown.ok =>
    /\ Rows(shown) = DOMAIN seen.route
    /\ \A n \in Rows(shown) : /\ shown.strips[n].outputs = seen.route[n]
                              /\ shown.strips[n].muted => seen.muted[n]

\* A click changes the crosspoint that was clicked and no other, and changes it the way the
\* operator saw it would (drawer.js, "ONE CLICK IS ONE WRITE"): what it is about to send is
\* accepted, and to the desk of the click's own reading it does that and nothing else,
\* however the screen, the desk and the other readings have moved in the meantime.
ClickIsMeant ==
  click.at = "sending" =>
    LET was == click.of.route[click.strip]
        cmd == Decoded(click.msg)
    IN /\ Accepted(<<click.msg>>) /\ click.strip \in DOMAIN click.of.route
       /\ click.want <=> click.bus \notin was
       /\ Applied(click.of, click.msg.kind, cmd) =
            [click.of EXCEPT !.route[click.strip] = IF click.want THEN was \cup {click.bus} ELSE was \ {click.bus}]

OneCrosspointChanges == ScreenIsTrue /\ ClickIsMeant
=============================================================================
