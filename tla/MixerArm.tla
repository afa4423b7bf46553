------------------------------ MODULE MixerArm ------------------------------
(***************************************************************************)
(* app_mixer.go: who may write to the mixer.  Several seats (the window at  *)
(* the desk, browsers on the network) share one controller, which ArmMixer  *)
(* dials and DisarmMixer, a preset and the shutdown close; mixMu guards the *)
(* controller and the seat that armed it last.                              *)
(*                                                                         *)
(* Of the controller (MixerController) there remains what these methods     *)
(* meet: the desk it was dialled to, its window, and whether it is closed.  *)
(***************************************************************************)
EXTENDS Naturals, FiniteSets

CONSTANTS
  Seats,    \* client ids
  MaxCtls   \* bound: controllers dialled in one behaviour

ASSUME ArmAssumption == MaxCtls \in Nat \ {0}

Ctls == 1 .. MaxCtls
NoCtl == 0
Desks == {"before", "after"}   \* of the preset that is applied
Callers == Seats \cup {"preset", "teardown"}   \* of closeMixerController

VARIABLES
  closing,   \* a.closing
  desk,      \* the host of the configuration
  mixCtl,    \* a.mixCtl
  mixArmedBy,\* a.mixArmedBy, as a set
  mixMu,     \* the seat that holds it across a dial, as a set
  ctlDesk,   \* the desk each controller dialled
  window,    \* controllers whose window is open
  shut,      \* controllers that have been closed
  arm,       \* where each seat's ArmMixer stands
  armHost,   \* the host it read
  send,      \* where each seat's SendMixerCommands stands
  sendCtl,   \* the controller it read
  drop,      \* where each closeMixerController stands
  dropCtl,   \* the controller it took
  preset,    \* ApplyPreset
  teardown   \* teardownOrdered

armVars  == <<arm, armHost, mixMu>>
sendVars == <<send, sendCtl>>
dropVars == <<drop, dropCtl>>
appVars  == <<closing, desk, preset, teardown>>
ctlVars  == <<mixCtl, mixArmedBy, ctlDesk, window, shut>>
vars     == <<armVars, sendVars, dropVars, appVars, ctlVars>>

Dialled == {n \in Ctls : ctlDesk[n] \in Desks}

TypeOK ==
  /\ closing \in BOOLEAN
  /\ desk \in Desks
  /\ mixCtl \in Ctls \cup {NoCtl}
  /\ mixArmedBy \subseteq Seats
  /\ mixMu \subseteq Seats
  /\ ctlDesk \in [Ctls -> Desks \cup {"none"}]
  /\ window \subseteq Dialled
  /\ shut \subseteq Dialled
  /\ arm \in [Seats -> {"idle", "lock", "dial"}]
  /\ armHost \in [Seats -> Desks \cup {"none"}]
  /\ send \in [Seats -> {"idle", "gate", "write"}]
  /\ sendCtl \in [Seats -> Ctls \cup {NoCtl}]
  /\ drop \in [Callers -> {"idle", "take", "disarm", "close", "done"}]
  /\ dropCtl \in [Callers -> Ctls \cup {NoCtl}]
  /\ preset \in {"idle", "merged", "disarm", "applied"}
  /\ teardown \in {"idle", "mixer", "over"}

Init ==
  /\ closing = FALSE
  /\ desk = "before"
  /\ mixCtl = NoCtl
  /\ mixArmedBy = {}
  /\ mixMu = {}
  /\ ctlDesk = [n \in Ctls |-> "none"]
  /\ window = {}
  /\ shut = {}
  /\ arm = [s \in Seats |-> "idle"]
  /\ armHost = [s \in Seats |-> "none"]
  /\ send = [s \in Seats |-> "idle"]
  /\ sendCtl = [s \in Seats |-> NoCtl]
  /\ drop = [c \in Callers |-> IF c \in Seats THEN "take" ELSE "idle"]
  /\ dropCtl = [c \in Callers |-> NoCtl]
  /\ preset = "idle"
  /\ teardown = "idle"

-----------------------------------------------------------------------------
(* ArmMixer.                                                               *)

ArmGoto(s, from, to) ==
  /\ arm[s] = from
  /\ arm' = [arm EXCEPT ![s] = to]

\* Refused while closing; the client, its token and the host are read before
\* mixMu is asked for.
CallArm(s) ==
  /\ ~ closing
  /\ ArmGoto(s, "idle", "lock")
  /\ armHost' = [armHost EXCEPT ![s] = desk]
  /\ UNCHANGED <<mixMu, sendVars, dropVars, appVars, ctlVars>>

\* The call returns.
ArmEnds(s, from) ==
  /\ ArmGoto(s, from, "idle")
  /\ mixMu' = {}
  /\ armHost' = [armHost EXCEPT ![s] = "none"]

\* Opens the window of controller n for seat s.
Own(s, n) ==
  /\ mixCtl' = n
  /\ mixArmedBy' = {s}
  /\ window' = window \cup {n}

\* With a controller there is nothing to wait for.
ArmExisting(s) ==
  /\ mixMu = {}
  /\ mixCtl # NoCtl
  /\ ArmEnds(s, "lock")
  /\ Own(s, mixCtl)
  /\ UNCHANGED <<sendVars, dropVars, appVars, ctlDesk, shut>>

\* Mutant: a controller that exists is not looked for.
LockToDialAlways(s) ==
  /\ mixMu = {}
  /\ ArmGoto(s, "lock", "dial")
  /\ mixMu' = {s}
  /\ UNCHANGED <<armHost, sendVars, dropVars, appVars, ctlVars>>

\* Without one, mixMu is held across the dial.
LockToDial(s) ==
  /\ mixMu = {}
  /\ mixCtl = NoCtl
  /\ ArmGoto(s, "lock", "dial")
  /\ mixMu' = {s}
  /\ UNCHANGED <<armHost, sendVars, dropVars, appVars, ctlVars>>

DialSucceeds(s) ==
  /\ ArmEnds(s, "dial")
  /\ \E n \in Ctls :
       /\ Dialled = 1 .. n - 1
       /\ ctlDesk' = [ctlDesk EXCEPT ![n] = armHost[s]]
       /\ Own(s, n)
  /\ UNCHANGED <<sendVars, dropVars, appVars, shut>>

DialFails(s) ==
  /\ ArmEnds(s, "dial")
  /\ UNCHANGED <<sendVars, dropVars, appVars, ctlVars>>

\* mixer.ArmWindow passes.
Expire(n) ==
  /\ n \in window
  /\ window' = window \ {n}
  /\ UNCHANGED <<armVars, sendVars, dropVars, appVars, mixCtl, mixArmedBy, ctlDesk, shut>>

-----------------------------------------------------------------------------
(* SendMixerCommands.                                                      *)

\* Refused, with nothing changed, unless the seat armed last.  mixMu is let go
\* with the controller in hand.
ReadController(s) ==
  /\ mixMu = {}
  /\ mixCtl # NoCtl
  /\ s \in mixArmedBy
  /\ send[s] = "idle"
  /\ send' = [send EXCEPT ![s] = "gate"]
  /\ sendCtl' = [sendCtl EXCEPT ![s] = mixCtl]
  /\ UNCHANGED <<armVars, dropVars, appVars, ctlVars>>

\* mixer.Controller.Send looks at closed and at the window, once.
Gate(s) ==
  /\ send[s] = "gate"
  /\ \/ /\ sendCtl[s] \in window \ shut
        /\ send' = [send EXCEPT ![s] = "write"]
        /\ UNCHANGED sendCtl
     \/ /\ sendCtl[s] \notin window \ shut
        /\ send' = [send EXCEPT ![s] = "idle"]
        /\ sendCtl' = [sendCtl EXCEPT ![s] = NoCtl]
  /\ UNCHANGED <<armVars, dropVars, appVars, ctlVars>>

\* The batch is written, or fails: a closed controller, a lost connection, the
\* ten seconds of mixerSendTimeout.
Write(s) ==
  /\ send[s] = "write"
  /\ send' = [send EXCEPT ![s] = "idle"]
  /\ sendCtl' = [sendCtl EXCEPT ![s] = NoCtl]
  /\ UNCHANGED <<armVars, dropVars, appVars, ctlVars>>

-----------------------------------------------------------------------------
(* closeMixerController, called by DisarmMixer, ApplyPreset and teardown.   *)

DropGoto(c, from, to) ==
  /\ drop[c] = from
  /\ drop' = [drop EXCEPT ![c] = to]

\* A seat may disarm at any time, whoever armed, and again.
Ended(c) == IF c \in Seats THEN "take" ELSE "done"

\* Without a controller there is nothing more to do.
Take(c) ==
  /\ mixMu = {}
  /\ IF mixCtl = NoCtl
       THEN DropGoto(c, "take", Ended(c)) /\ UNCHANGED dropCtl
       ELSE DropGoto(c, "take", "disarm") /\ dropCtl' = [dropCtl EXCEPT ![c] = mixCtl]
  /\ mixCtl' = NoCtl
  /\ mixArmedBy' = {}
  /\ UNCHANGED <<armVars, sendVars, appVars, ctlDesk, window, shut>>

DisarmTaken(c) ==
  /\ DropGoto(c, "disarm", "close")
  /\ window' = window \ {dropCtl[c]}
  /\ UNCHANGED <<dropCtl, armVars, sendVars, appVars, mixCtl, mixArmedBy, ctlDesk, shut>>

CloseTaken(c) ==
  /\ DropGoto(c, "close", Ended(c))
  /\ dropCtl' = [dropCtl EXCEPT ![c] = NoCtl]
  /\ shut' = shut \cup {dropCtl[c]}
  /\ window' = window \ {dropCtl[c]}
  /\ UNCHANGED <<armVars, sendVars, appVars, mixCtl, mixArmedBy, ctlDesk>>

-----------------------------------------------------------------------------
(* ApplyPreset and the shutdown, as far as they concern the controller.     *)

\* Step 5: the merged configuration becomes the live one.
ApplyPreset ==
  /\ preset = "idle"
  /\ ~ closing
  /\ preset' = "merged"
  /\ desk' = "after"
  /\ UNCHANGED <<closing, teardown, armVars, sendVars, dropVars, ctlVars>>

\* Step 7.
PresetDisarms ==
  /\ preset = "merged"
  /\ preset' = "disarm"
  /\ DropGoto("preset", "idle", "take")
  /\ UNCHANGED <<closing, desk, teardown, dropCtl, armVars, sendVars, ctlVars>>

PresetApplied ==
  /\ preset = "disarm"
  /\ drop["preset"] = "done"
  /\ preset' = "applied"
  /\ UNCHANGED <<closing, desk, teardown, armVars, sendVars, dropVars, ctlVars>>

Teardown ==
  /\ ~ closing
  /\ closing' = TRUE
  /\ teardown' = "mixer"
  /\ DropGoto("teardown", "idle", "take")
  /\ UNCHANGED <<desk, preset, dropCtl, armVars, sendVars, ctlVars>>

\* The step has finished, or is abandoned at the end of its second.
TeardownGoesOn ==
  /\ teardown = "mixer"
  /\ teardown' = "over"
  /\ UNCHANGED <<closing, desk, preset, armVars, sendVars, dropVars, ctlVars>>

-----------------------------------------------------------------------------
Next ==
  \/ \E s \in Seats :
       \/ CallArm(s) \/ ArmExisting(s) \/ LockToDial(s)
       \/ DialSucceeds(s) \/ DialFails(s)
       \/ ReadController(s) \/ Gate(s) \/ Write(s)
  \/ \E c \in Callers : Take(c) \/ DisarmTaken(c) \/ CloseTaken(c)
  \/ \E n \in Ctls : Expire(n)
  \/ ApplyPreset \/ PresetDisarms \/ PresetApplied
  \/ Teardown \/ TeardownGoesOn

Spec == Init /\ [][Next]_vars

-----------------------------------------------------------------------------
(* Properties.                                                             *)

\* No socket that could write to a desk is ever out of everybody's reach: it is
\* the published one or in the hands of the call that is closing it.
NoOrphanController ==
  \A n \in Dialled \ shut :
    n = mixCtl \/ \E c \in Callers : drop[c] \in {"disarm", "close"} /\ dropCtl[c] = n

\* What app_presets.go:325-327 says of a preset: no write gate is left open that
\* belongs to another desk than the one configured.
NoGateToTheOldDesk ==
  preset = "applied" /\ mixCtl # NoCtl => ctlDesk[mixCtl] = desk
=============================================================================
