---------------------------- MODULE CaptureSession ----------------------------
(***************************************************************************)
(* app.go: the capture layer that is live from launch to exit, the send     *)
(* sessions minted over it, and the shutdown that ends both.                *)
(*                                                                         *)
(* Start, Stop, RestartCapture, SelectCommentaryInput, SaveConfig and       *)
(* SetVideoSource run on goroutines of their own and meet at two locks:     *)
(* sessMu (is a session running?) and, under it, capMu (the capture set).   *)
(* A session's sender may end by itself; its forwarder and its reaper then  *)
(* clear up, racing with Stop and the next Start.  Teardown runs its steps  *)
(* under budgets and abandons the ones that overrun.                        *)
(*                                                                         *)
(* A capture pipeline is what capture_cgo.go lets the rest of the program   *)
(* see: whether it plays, whether a leg has failed, whether a send pipeline *)
(* has claimed its proxysinks, and the faults waiting in its channel.       *)
(***************************************************************************)
EXTENDS Naturals, Sequences, FiniteSets

CONSTANTS
  Seats,        \* goroutines that call bound methods
  Settings,     \* the configurations there are: records of video and audio
  Formats,      \* conform targets; the first of them is the fallback
  MaxPipes,     \* bound: capture pipelines built in one behaviour
  MaxSessions,  \* bound: sessions started
  Budgets       \* bounds: calls of bound methods, things that go wrong, and whether it quits

Sources == [video : {"card", "slate", "none"}, audio : {"card", "native"}]
ASSUME SessionAssumption ==
  /\ Settings \subseteq Sources /\ Settings # {}
  /\ Formats \in Nat \ {0}
  /\ MaxPipes \in Nat /\ MaxSessions \in Nat
  /\ Budgets \subseteq [calls : Nat, troubles : Nat, quits : BOOLEAN]
  /\ {"nobody", "launch", "tdStop", "tdCap"} \cap Seats = {}

Actors   == Seats \cup {"launch", "tdStop", "tdCap"}  \* domReady, and two teardown steps
Pipes    == 1 .. MaxPipes
Sessions == 1 .. MaxSessions
NoSet    == [picture |-> 0, commentary |-> 0]
Unsaid   == 0                                \* a conform target not known
Fallback == 1
NoLegs   == [picture |-> "none", commentary |-> "none"]

VARIABLES
  closing,    \* a.closing
  sessMu,     \* who holds it
  capMu,
  session,    \* a.session, 0 when nil
  sessionUp,  \* the lock-free record of a running session
  snd,        \* each session's sender: none, running, ended
  sndSet,     \* the capture set it was minted over
  fwd,        \* sessions whose forwarder runs
  reap,       \* sessions whose reaper waits
  disk,       \* the configuration on disk
  cfg,        \* a.cfg
  capSel,     \* SelectCommentaryInput's choice, "unset" when there is none
  conformTo,  \* what the switcher said last
  capSet,     \* a.capSet
  capConform, \* the target it was built to
  shown,      \* a.capState, leg by leg
  pipe,       \* every capture pipeline built so far
  drain,      \* pipelines whose fault drain runs
  paint,      \* the legs a drain is about to report as failed
  rootJoined,
  td,         \* where teardownOrdered stands
  abandoned,  \* whether a step of it was abandoned
  call,       \* each call: where it stands, its method, what it carries
  plan,       \* a rebuild: the legs still to build
  built,      \* and the set so far
  fellBack,   \* whether it is building the slate instead of the card
  target,     \* the conform target the rebuild read
  calls,      \* what is left of the bounds
  troubles,
  quits

locks    == <<sessMu, capMu>>
sessVars == <<session, sessionUp, snd, sndSet, fwd, reap>>
confVars == <<disk, cfg, capSel, conformTo>>
capVars  == <<capSet, capConform, shown, pipe, drain, paint>>
tdVars   == <<closing, rootJoined, td, abandoned>>
callVars == <<call, plan, built, fellBack, target>>
bounds   == <<calls, troubles, quits>>
vars     == <<locks, sessVars, confVars, capVars, tdVars, callVars, bounds>>

Unset  == [video |-> "unset", audio |-> "unset"]
Idle   == [pc |-> "idle", method |-> "none", cfg |-> Unset, session |-> 0, sel |-> "unset",
           set |-> NoSet, took |-> {}]
NoPipe == [legs |-> NoLegs, state |-> "none", dead |-> {}, claimed |-> FALSE, queue |-> 0]
Trouble == troubles > 0 /\ troubles' = troubles - 1
PipesOf(set) == {set.picture, set.commentary} \ {0}
\* A pipeline nobody knows any longer leaves its number to another one.
Free == {p \in Pipes : /\ pipe[p].state # "playing" /\ paint[p] = {}
                       /\ p \notin drain \cup PipesOf(capSet)}
FreeSessions == {n \in Sessions : snd[n] = "none"}
Least(S) == CHOOSE n \in S : \A m \in S : n <= m
Playing == {p \in Pipes : pipe[p].state = "playing"}
HasCard(legs) == "card" \in {legs.picture, legs.commentary}
LegsOf(p) == {l \in {"picture", "commentary"} : pipe[p].legs[l] # "none"}

TypeOK ==
  /\ closing \in BOOLEAN /\ rootJoined \in BOOLEAN /\ abandoned \in BOOLEAN
  /\ sessMu \in Actors \cup {"nobody"} /\ capMu \in Actors \cup {"nobody"}
  /\ session \in Sessions \cup {0}
  /\ sessionUp \in BOOLEAN
  /\ snd \in [Sessions -> {"none", "running", "ended"}]
  /\ sndSet \in [Sessions -> [picture : 0 .. MaxPipes, commentary : 0 .. MaxPipes]]
  /\ fwd \subseteq Sessions /\ reap \subseteq Sessions
  /\ {disk, cfg} \subseteq Sources
  /\ capSel \in {"unset", "card", "native"}
  /\ {conformTo, capConform} \subseteq 0 .. Formats
  /\ capSet \in [picture : 0 .. MaxPipes, commentary : 0 .. MaxPipes]
  /\ shown \in [{"picture", "commentary"} -> {"off", "opening", "live", "failed"}]
  /\ \A p \in Pipes : /\ pipe[p].state \in {"none", "playing", "stopped"}
                      /\ pipe[p].dead \subseteq LegsOf(p)
                      /\ pipe[p].claimed \in BOOLEAN
                      /\ pipe[p].queue \in Nat
  /\ drain \subseteq Pipes
  /\ paint \in [Pipes -> SUBSET {"picture", "commentary"}]
  /\ td \in {"none", "sender", "capture", "join", "exit"}
  /\ calls \in Nat /\ troubles \in Nat /\ quits \in BOOLEAN

Init ==
  /\ closing = FALSE
  /\ sessMu = "nobody" /\ capMu = "nobody"
  /\ session = 0 /\ sessionUp = FALSE
  /\ snd = [n \in Sessions |-> "none"]
  /\ sndSet = [n \in Sessions |-> NoSet]
  /\ fwd = {} /\ reap = {}
  /\ cfg \in Settings /\ disk = cfg
  /\ capSel = "unset"
  /\ conformTo = Unsaid
  /\ capSet = NoSet /\ capConform = Unsaid
  /\ shown = [l \in {"picture", "commentary"} |-> "off"]
  /\ pipe = [p \in Pipes |-> NoPipe]
  /\ drain = {}
  /\ paint = [p \in Pipes |-> {}]
  /\ rootJoined = FALSE /\ td = "none" /\ abandoned = FALSE
  /\ call = [a \in Actors |->   \* domReady opens the capture on a goroutine of its own
       IF a = "launch" THEN [Idle EXCEPT !.pc = "rebuild", !.method = "launch"] ELSE Idle]
  /\ plan = <<>> /\ built = NoSet /\ fellBack = FALSE /\ target = Unsaid
  /\ \E b \in Budgets : calls = b.calls /\ troubles = b.troubles /\ quits = b.quits

-----------------------------------------------------------------------------
(* The configuration a capture is built from, and the pipelines it takes.   *)

captureConfig == IF capSel = "unset" THEN cfg ELSE [cfg EXCEPT !.audio = capSel]

\* The card cannot be opened twice: both its legs go into one pipeline.
PlanCapture(c) ==
  IF c.video = "none" THEN <<[picture |-> "none", commentary |-> c.audio]>>
  ELSE IF c.video = "card" /\ c.audio = "card"
       THEN <<[picture |-> "card", commentary |-> "card"]>>
       ELSE <<[picture |-> c.video, commentary |-> "none"],
              [picture |-> "none", commentary |-> c.audio]>>

conformNow == IF conformTo = Unsaid THEN Fallback ELSE conformTo

\* publishCapture: the whole recorded state.
PublishAll(picture, commentary) ==
  shown' = [picture |-> picture, commentary |-> commentary]

\* CapturePipeline.Start: nothing claimed, nothing failed.
Opened(legs) == [NoPipe EXCEPT !.legs = legs, !.state = "playing"]

\* What every stop of pipelines leaves: no fault latched, and a closed channel for
\* the drain, if there is one, to empty.
Halt(S) == [p \in Pipes |-> IF p \notin S THEN pipe[p]
                            ELSE IF p \notin drain THEN NoPipe
                            ELSE [NoPipe EXCEPT !.state = "stopped", !.queue = pipe[p].queue]]

\* CapturePipeline.Stop refuses while a send pipeline holds the seam.
Refuses(p) == pipe[p].state = "playing" /\ pipe[p].claimed
StopsOf(set) == {p \in PipesOf(set) : pipe[p].state = "playing" /\ ~Refuses(p)}

Goto(a, label) ==
  call' = [call EXCEPT ![a] = IF label = "idle" THEN Idle ELSE [@ EXCEPT !.pc = label]]
Carry(a, label, field, value) ==
  call' = [call EXCEPT ![a] = [@ EXCEPT !.pc = label, ![field] = value]]
Release(a) == sessMu' = IF sessMu = a THEN "nobody" ELSE sessMu

-----------------------------------------------------------------------------
(* Calls.                                                                   *)

Call(a, method, label, c) ==
  /\ a \in Seats /\ call[a].pc = "idle" /\ calls > 0
  /\ calls' = calls - 1
  /\ call' = [call EXCEPT ![a] = IF label = "idle" THEN Idle
                                  ELSE [Idle EXCEPT !.pc = label, !.method = method, !.cfg = c]]

\* Start: what the switcher is configured for is asked before anything is locked.
CallStart(a) ==
  /\ Call(a, "start", "start", Unset)
  /\ conformTo' \in Unsaid .. Formats
  /\ UNCHANGED <<locks, sessVars, disk, cfg, capSel, capVars, tdVars, plan, built, fellBack,
                 target, troubles, quits>>

CallStop(a) ==
  /\ Call(a, "stop", "stop", Unset)
  /\ UNCHANGED <<locks, sessVars, confVars, capVars, tdVars, plan, built, fellBack, target,
                 troubles, quits>>

CallRestart(a) ==
  /\ Call(a, "restart", "rebuild", Unset)
  /\ UNCHANGED <<locks, sessVars, confVars, capVars, tdVars, plan, built, fellBack, target,
                 troubles, quits>>

CallSave(a, c) ==
  /\ Call(a, "save", "write", c)
  /\ UNCHANGED <<locks, sessVars, confVars, capVars, tdVars, plan, built, fellBack, target,
                 troubles, quits>>

\* SetVideoSource looks for a session, lets go of sessMu, and saves.
CallSetVideoSource(a, source) ==
  /\ sessMu = "nobody"
  /\ Call(a, "save", IF closing \/ session # 0 THEN "idle" ELSE "write",
          [cfg EXCEPT !.video = source])
  /\ UNCHANGED <<locks, sessVars, confVars, capVars, tdVars, plan, built, fellBack, target,
                 troubles, quits>>

\* SelectCommentaryInput keeps sessMu from the check to the end of the rebuild.
CallSelect(a, kind) ==
  /\ sessMu = "nobody" /\ capMu = "nobody"
  /\ IF closing \/ session # 0
     THEN Call(a, "select", "idle", Unset) /\ UNCHANGED <<sessMu, capSel>>
     ELSE Call(a, "select", "down", Unset) /\ sessMu' = a /\ capSel' = kind
  /\ UNCHANGED <<capMu, sessVars, disk, cfg, conformTo, capVars, tdVars, plan, built, fellBack,
                 target, troubles, quits>>

-----------------------------------------------------------------------------
(* saveConfigFrom: the file, then the copy in memory, then the capture.     *)

WriteDisk(a) ==
  /\ call[a].pc = "write"
  /\ disk' = call[a].cfg
  /\ Goto(a, "publish")
  /\ UNCHANGED <<locks, sessVars, cfg, capSel, conformTo, capVars, tdVars, plan, built,
                 fellBack, target, bounds>>

\* A disk that refuses the write leaves memory as it was.
WriteFails(a) ==
  /\ call[a].pc = "write" /\ Trouble
  /\ Goto(a, "idle")
  /\ UNCHANGED <<locks, sessVars, confVars, capVars, tdVars, plan,
                 built, fellBack, target, calls, quits>>

PublishConfig(a) ==
  /\ call[a].pc = "publish"
  /\ cfg' = call[a].cfg
  /\ Goto(a, IF call[a].cfg = cfg THEN "idle" ELSE "drop")
  /\ UNCHANGED <<locks, sessVars, disk, capSel, conformTo, capVars, tdVars, plan, built,
                 fellBack, target, bounds>>

DropSelection(a) ==
  /\ call[a].pc = "drop" /\ capMu = "nobody"
  /\ Carry(a, "rebuild", "sel", capSel)
  /\ capSel' = "unset"
  /\ UNCHANGED <<locks, sessVars, disk, cfg, conformTo, capVars, tdVars, plan, built, fellBack,
                 target, bounds>>

RestoreSelection(a) ==
  /\ call[a].pc = "restore" /\ capMu = "nobody"
  /\ capSel' = call[a].sel
  /\ Goto(a, "idle")
  /\ UNCHANGED <<locks, sessVars, disk, cfg, conformTo, capVars, tdVars, plan, built, fellBack,
                 target, bounds>>

-----------------------------------------------------------------------------
(* rebuildCapture: down first, always.                                      *)

Rebuild(a) ==
  /\ call[a].pc = "rebuild" /\ sessMu = "nobody"
  /\ IF closing \/ session # 0
     THEN /\ Goto(a, IF ~closing /\ call[a].method = "save" THEN "restore" ELSE "idle")
          /\ UNCHANGED sessMu
     ELSE Goto(a, "down") /\ sessMu' = a
  /\ UNCHANGED <<capMu, sessVars, confVars, capVars, tdVars, plan,
                 built, fellBack, target, bounds>>

\* Mutant: a rebuild that fails keeps capMu.
RebuildFailsLocked(a) ==
  /\ Goto(a, "idle")
  /\ Release(a)
  /\ capMu' = a
\* The end of a rebuild that did not produce a set: Start gives up with it.
RebuildFails(a) ==
  /\ Goto(a, "idle")
  /\ Release(a)
  /\ capMu' = "nobody"

\* teardownCaptureLocked: every pipeline is asked; one refusal keeps the set.
Down(a) ==
  /\ call[a].pc = "down" /\ capMu = "nobody"
  /\ pipe' = Halt(StopsOf(capSet))
  /\ IF \E p \in PipesOf(capSet) : Refuses(p)
     THEN /\ RebuildFails(a)
          /\ PublishAll("live", "live")
          /\ UNCHANGED <<capSet, capConform, target>>
     ELSE /\ Goto(a, "plan")
          /\ capMu' = a
          /\ target' = conformNow
          /\ capSet' = NoSet /\ capConform' = Unsaid
          /\ PublishAll("opening", "opening")
          /\ UNCHANGED sessMu
  /\ UNCHANGED <<sessVars, confVars, drain, paint, tdVars, plan,
                 built, fellBack, bounds>>

Plan(a) ==
  /\ call[a].pc = "plan"
  /\ plan' = PlanCapture(captureConfig)
  /\ built' = NoSet /\ fellBack' = FALSE
  /\ Goto(a, "build")
  /\ UNCHANGED <<locks, sessVars, confVars, capVars, tdVars, target, bounds>>

\* The device the configuration names is not on this machine.
PreflightFails(a) ==
  /\ call[a].pc = "plan" /\ Trouble
  /\ RebuildFails(a)
  /\ PublishAll("failed", "failed")
  /\ UNCHANGED <<sessVars, confVars, capSet, capConform, pipe, drain, paint, tdVars, plan,
                 built, fellBack, target, calls, quits>>

\* buildCaptureSet starts the pipelines one after the other.
BuildOne(a) ==
  /\ call[a].pc = "build" /\ plan # <<>> /\ Free # {}
  /\ LET p == Least(Free)  legs == Head(plan)
     IN /\ pipe' = [pipe EXCEPT ![p] = Opened(legs)]
        /\ built' = [built EXCEPT !.picture = IF legs.picture # "none" THEN p ELSE @,
                                  !.commentary = IF legs.commentary # "none" THEN p ELSE @]
  /\ plan' = Tail(plan)
  /\ UNCHANGED <<locks, sessVars, confVars, capSet, capConform, shown, drain, paint, tdVars,
                 call, fellBack, target, bounds>>

\* Mutant: the pipelines of the set that failed are left running.
DiscardNothing == UNCHANGED pipe
\* What was built of a set that failed is stopped before anything else is tried.
Discard == pipe' = Halt(PipesOf(built))

\* A picture card that will not open, beside a commentary that is not on a card,
\* leaves the slate to be tried.
BuildFails(a) ==
  /\ call[a].pc = "build" /\ plan # <<>> /\ Trouble
  /\ Discard
  /\ built' = NoSet
  /\ LET c == captureConfig
     IN IF c.video = "card" /\ c.audio # "card" /\ ~fellBack
        THEN /\ fellBack' = TRUE
             /\ plan' = PlanCapture([c EXCEPT !.video = "slate"])
             /\ UNCHANGED <<call, locks, shown>>
        ELSE /\ RebuildFails(a)
             /\ PublishAll("failed", "failed")
             /\ plan' = <<>>
             /\ UNCHANGED fellBack
  /\ UNCHANGED <<sessVars, confVars, capSet, capConform, drain, paint, tdVars, target, calls,
                 quits>>

\* adoptCaptureLocked; a set that comes up once the join has begun is stopped.
Adopt(a) ==
  /\ call[a].pc = "build" /\ plan = <<>>
  /\ capSet' = built /\ capConform' = target
  /\ IF rootJoined
     THEN /\ pipe' = Halt(PipesOf(built))
          /\ UNCHANGED drain
     ELSE drain' = drain \cup PipesOf(built) /\ UNCHANGED pipe
  /\ PublishAll(IF fellBack THEN "failed" ELSE "live", "live")
  /\ capMu' = "nobody"
  /\ Goto(a, IF call[a].method = "start" THEN "reread" ELSE "idle")
  /\ IF call[a].method = "start" THEN UNCHANGED sessMu ELSE Release(a)
  /\ built' = NoSet
  /\ UNCHANGED <<sessVars, confVars, paint, tdVars, plan, fellBack,
                 target, bounds>>

-----------------------------------------------------------------------------
(* startSession.                                                            *)

\* Everything Start refuses for before it looks at the capture.
StartLock(a) ==
  /\ call[a].pc = "start" /\ sessMu = "nobody"
  /\ \/ Goto(a, "idle") /\ (closing \/ session # 0) /\ UNCHANGED <<sessMu, troubles>>
     \/ Goto(a, "idle") /\ Trouble /\ UNCHANGED sessMu
     \/ ~closing /\ session = 0 /\ sessMu' = a /\ Goto(a, "capture") /\ UNCHANGED troubles
  /\ UNCHANGED <<capMu, sessVars, confVars, capVars, tdVars, plan,
                 built, fellBack, target, calls, quits>>

\* The send session's own copy of the set, with nothing of it claimed.
NewSeam(a) ==
  call' = [call EXCEPT ![a] = [@ EXCEPT !.pc = "claim", !.set = capSet, !.took = {}]]

\* captureForSessionLocked: the open capture is kept unless the switcher has
\* said that it wants another format.  What Start goes on with is its own copy of
\* a.capSet, read under capMu: the shutdown may empty the capture behind it.
StartCapture(a) ==
  /\ call[a].pc = "capture" /\ capMu = "nobody"
  /\ IF PipesOf(capSet) # {} /\ conformTo \in {Unsaid, capConform}
     THEN NewSeam(a)
     ELSE Goto(a, "down")
  /\ UNCHANGED <<locks, sessVars, confVars, capVars, tdVars, plan,
                 built, fellBack, target, bounds>>

\* A Start that had to build the capture takes capMu a second time to copy the set.
StartRereads(a) ==
  /\ call[a].pc = "reread" /\ capMu = "nobody" /\ PipesOf(capSet) # {}
  /\ NewSeam(a)
  /\ UNCHANGED <<locks, sessVars, confVars, capVars, tdVars, plan,
                 built, fellBack, target, bounds>>

Claim(q, held) == [p \in Pipes |-> IF p \in q THEN [pipe[p] EXCEPT !.claimed = held] ELSE pipe[p]]

\* NewSend takes the pipelines of its set in the order picture, commentary; 0 when
\* the set is empty, which it refuses.
NextClaim(a) ==
  IF call[a].set.picture \in call[a].took \cup {0} THEN call[a].set.commentary
  ELSE call[a].set.picture

\* A claim is a flag of the pipeline's own: neither capMu nor the pipeline's lock is
\* needed, and a stopped pipeline does not refuse it.
ClaimForSend(a) ==
  /\ call[a].pc = "claim"
  /\ NextClaim(a) # 0 /\ ~pipe[NextClaim(a)].claimed
  /\ pipe' = Claim({NextClaim(a)}, TRUE)
  /\ LET took == call[a].took \cup {NextClaim(a)}
     IN call' = [call EXCEPT ![a] =
                   [@ EXCEPT !.took = took,
                             !.pc = IF took = PipesOf(call[a].set) THEN "arm" ELSE "claim"]]
  /\ UNCHANGED <<locks, sessVars, confVars, capSet, capConform, shown, drain, paint, tdVars,
                 plan, built, fellBack, target, bounds>>

\* Mutant: the seam is armed whatever has become of the capture.
ArmableAlways(p) == TRUE
\* ArmForSend, and Bind after it, refuse a pipeline that is stopped or whose device
\* has failed.
Armable(p) == pipe[p].state = "playing" /\ pipe[p].dead = {}

\* The seam is armed and bound and sender.Start begins to dial.  What makes a
\* pipeline unarmable does not pass while it is claimed, so that one look at all of
\* them, at the last of the checks, refuses what their order would refuse.
Mint(a) ==
  /\ call[a].pc = "arm"
  /\ \A p \in call[a].took : Armable(p)
  /\ FreeSessions # {}
  /\ LET n == Least(FreeSessions) IN
       /\ snd' = [snd EXCEPT ![n] = "running"]
       /\ sndSet' = [sndSet EXCEPT ![n] = call[a].set]
       /\ fwd' = fwd \cup {n} /\ reap' = reap \cup {n}
       /\ session' = n
  /\ sessionUp' = TRUE
  /\ Release(a) /\ Goto(a, "idle")
  /\ UNCHANGED <<capMu, confVars, capVars, tdVars, plan, built, fellBack, target, bounds>>

\* There is no capture after all, or it cannot be claimed, or not armed.
Refused(a) ==
  \/ call[a].pc = "reread" /\ capMu = "nobody" /\ PipesOf(capSet) = {}
  \/ call[a].pc = "claim" /\ (NextClaim(a) = 0 \/ pipe[NextClaim(a)].claimed)
  \/ call[a].pc = "arm" /\ \E p \in call[a].took : ~Armable(p)

\* Start gives up: for that, or because the encoder, the pipeline or the sender's
\* options fail.  What had been claimed is let go of.
MintFails(a) ==
  /\ \/ Refused(a) /\ UNCHANGED troubles
     \/ call[a].pc = "arm" /\ Trouble
  /\ pipe' = Claim(call[a].took, FALSE)
  /\ Release(a) /\ Goto(a, "idle")
  /\ UNCHANGED <<capMu, sessVars, confVars, capSet, capConform, shown, drain, paint, tdVars,
                 plan, built, fellBack, target, calls, quits>>

-----------------------------------------------------------------------------
(* The end of a session.                                                    *)

\* The sender takes its pipeline down, lets go of the seam, closes its channel.
EndSender(n) ==
  /\ snd' = [snd EXCEPT ![n] = "ended"]
  /\ sndSet' = [sndSet EXCEPT ![n] = NoSet]
  /\ pipe' = Claim(PipesOf(sndSet[n]), FALSE)

\* It stops by itself when its pipeline is beyond repair.
SenderGivesUp(n) ==
  /\ snd[n] = "running" /\ Trouble
  /\ EndSender(n)
  /\ UNCHANGED <<locks, session, sessionUp, fwd, reap, confVars, capSet, capConform,
                 shown, drain, paint, tdVars, callVars, calls, quits>>

\* forwardSenderStates returns when the channel is closed.
ForwarderEnds(n) ==
  /\ n \in fwd /\ snd[n] = "ended"
  /\ sessionUp' = FALSE
  /\ fwd' = fwd \ {n}
  /\ UNCHANGED <<locks, session, snd, sndSet, reap, confVars, capVars, tdVars, callVars, bounds>>

\* Mutant: the reaper clears the session whoever it is.
ReapAny(n) ==
  /\ n \in reap \ fwd /\ sessMu = "nobody"
  /\ reap' = reap \ {n}
  /\ snd' = [snd EXCEPT ![n] = "none"]
  /\ session' = 0
  /\ UNCHANGED <<locks, sessionUp, sndSet, fwd, confVars, capVars, tdVars, callVars, bounds>>
\* The reaper clears a session that ended by itself, and only that one.
Reap(n) ==
  /\ n \in reap \ fwd /\ sessMu = "nobody"
  /\ reap' = reap \ {n}
  /\ snd' = [snd EXCEPT ![n] = "none"]
  /\ session' = IF session = n THEN 0 ELSE session
  /\ UNCHANGED <<locks, sessionUp, sndSet, fwd, confVars, capVars, tdVars, callVars, bounds>>

StopLock(a) ==
  /\ call[a].pc = "stop" /\ sessMu = "nobody"
  /\ IF session = 0
     THEN Goto(a, "idle") /\ UNCHANGED <<sessMu, session>>
     ELSE /\ sessMu' = a
          /\ session' = 0
          /\ Carry(a, "stopping", "session", session)
  /\ UNCHANGED <<capMu, sessionUp, snd, sndSet, fwd, reap, confVars, capVars, tdVars, plan,
                 built, fellBack, target, bounds>>

StopSender(a) ==
  /\ call[a].pc = "stopping"
  /\ IF snd[call[a].session] = "running" THEN EndSender(call[a].session)
     ELSE UNCHANGED <<snd, sndSet, pipe>>
  /\ Goto(a, "wait")
  /\ UNCHANGED <<locks, session, sessionUp, fwd, reap, confVars, capSet, capConform,
                 shown, drain, paint, tdVars, plan, built, fellBack,
                 target, bounds>>

\* sess.wg.Wait, with sessMu still held.
StopJoins(a) ==
  /\ call[a].pc = "wait" /\ call[a].session \notin fwd
  /\ Release(a) /\ Goto(a, "idle")
  /\ UNCHANGED <<capMu, sessVars, confVars, capVars, tdVars, plan,
                 built, fellBack, target, bounds>>

-----------------------------------------------------------------------------
(* A device that fails: onBusMessage latches it, a drain reports it.        *)

Fault(p, legs) ==
  /\ pipe[p].state = "playing" /\ Trouble
  /\ legs \subseteq LegsOf(p) /\ legs # {}
  /\ pipe' = [pipe EXCEPT ![p].dead = @ \cup legs, ![p].queue = @ + 1]
  /\ UNCHANGED <<locks, sessVars, confVars, capSet, capConform, shown, drain, paint, tdVars,
                 callVars, calls, quits>>

\* The drain takes a fault and asks which legs of the pipeline it has killed.
DrainTakes(p) ==
  /\ p \in drain /\ pipe[p].queue > 0 /\ paint[p] = {}
  /\ pipe' = [pipe EXCEPT ![p].queue = @ - 1]
  /\ paint' = [paint EXCEPT ![p] = pipe[p].dead]
  /\ UNCHANGED <<locks, sessVars, confVars, capSet, capConform, shown, drain, tdVars,
                 callVars, bounds>>

\* publishCaptureFault changes the failed legs and leaves the others.
DrainPaints(p) ==
  /\ paint[p] # {}
  /\ shown' = [l \in DOMAIN shown |-> IF l \in paint[p] THEN "failed" ELSE shown[l]]
  /\ paint' = [paint EXCEPT ![p] = {}]
  /\ UNCHANGED <<locks, sessVars, confVars, capSet, capConform, pipe, drain, tdVars,
                 callVars, bounds>>

DrainEnds(p) ==
  /\ p \in drain /\ pipe[p].state = "stopped" /\ pipe[p].queue = 0 /\ paint[p] = {}
  /\ drain' = drain \ {p}
  /\ pipe' = [pipe EXCEPT ![p] = [NoPipe EXCEPT !.claimed = pipe[p].claimed]]
  /\ UNCHANGED <<locks, sessVars, confVars, capSet, capConform, shown, paint, tdVars,
                 callVars, bounds>>

-----------------------------------------------------------------------------
(* teardownOrdered: each step on a goroutine of its own, under a budget.    *)

TdStep(from, to, label, a) ==
  /\ td = from /\ td' = to
  /\ Goto(a, label)
  /\ UNCHANGED <<locks, sessVars, confVars, capVars, rootJoined, plan, built, fellBack, target,
                 bounds>>

Teardown ==
  /\ quits /\ closing' = TRUE
  /\ TdStep("none", "sender", "stop", "tdStop")
  /\ UNCHANGED abandoned

\* A step that overruns its budget is abandoned; it goes on all the same.
SenderStepOver ==
  /\ TdStep("sender", "capture", "release", "tdCap")
  /\ abandoned' = (abandoned \/ call["tdStop"].pc # "idle")
  /\ UNCHANGED closing

\* stopCaptureForTeardown
CaptureRelease ==
  /\ call["tdCap"].pc = "release" /\ capMu = "nobody"
  /\ Goto("tdCap", "idle")
  /\ pipe' = Halt(StopsOf(capSet))
  /\ IF \E p \in PipesOf(capSet) : Refuses(p)
     THEN UNCHANGED <<capSet, capConform, shown>>
     ELSE capSet' = NoSet /\ capConform' = Unsaid /\ PublishAll("off", "off")
  /\ UNCHANGED <<locks, sessVars, confVars, drain, paint, tdVars, plan, built, fellBack,
                 target, bounds>>

CaptureStepOver ==
  /\ td = "capture" /\ td' = "join"
  /\ rootJoined' = TRUE
  /\ abandoned' = (abandoned \/ call["tdCap"].pc # "idle")
  /\ UNCHANGED <<locks, sessVars, confVars, capVars, closing, callVars, bounds>>

\* rootWG.Wait, and hardExit after it; it too is abandoned when it overruns.
Exit ==
  /\ td = "join" /\ td' = "exit"
  /\ abandoned' = (abandoned \/ drain # {})
  /\ UNCHANGED <<locks, sessVars, confVars, capVars, closing, rootJoined, callVars, bounds>>

-----------------------------------------------------------------------------
CallStep(a) ==
  \/ WriteDisk(a) \/ PublishConfig(a) \/ DropSelection(a) \/ RestoreSelection(a)
  \/ WriteFails(a)
  \/ Rebuild(a) \/ Down(a) \/ Plan(a) \/ PreflightFails(a)
  \/ BuildOne(a) \/ BuildFails(a) \/ Adopt(a)
  \/ StartLock(a) \/ StartCapture(a) \/ StartRereads(a) \/ ClaimForSend(a)
  \/ Mint(a) \/ MintFails(a)
  \/ StopLock(a) \/ StopSender(a) \/ StopJoins(a)

SessionEnds(n) == ForwarderEnds(n) \/ Reap(n)
DrainStep(p) == DrainTakes(p) \/ DrainPaints(p) \/ DrainEnds(p)

\* The process is gone once it has exited.
Next ==
  /\ td # "exit"
  /\ \/ \E a \in Seats :
          \/ CallStart(a) \/ CallStop(a) \/ CallRestart(a)
          \/ \E c \in Settings : CallSave(a, c) \/ CallSetVideoSource(a, c.video)
          \/ \E k \in {"card", "native"} : CallSelect(a, k)
     \/ \E a \in Actors : CallStep(a)
     \/ \E n \in Sessions : SenderGivesUp(n) \/ SessionEnds(n)
     \/ \E p \in Pipes : DrainStep(p) \/ \E legs \in SUBSET LegsOf(p) : Fault(p, legs)
     \/ Teardown \/ SenderStepOver \/ CaptureRelease \/ CaptureStepOver \/ Exit

Spec == Init /\ [][Next]_vars

-----------------------------------------------------------------------------
\* The feed is never cut at the seam: a sender that runs draws from one pipeline at
\* least, and every pipeline it draws from plays and is its own.  NULL underneath a bound
\* proxysrc is silent in every direction, whichever of Stop, a rebuild and an overrunning
\* shutdown does it.
SeamIsNeverCut ==
  \A n \in Sessions : snd[n] = "running" =>
    /\ PipesOf(sndSet[n]) # {}
    /\ \A p \in PipesOf(sndSet[n]) : pipe[p].state = "playing" /\ pipe[p].claimed

\* A shutdown none of whose steps was abandoned has left nothing running.
CleanExit ==
  (td = "exit" /\ ~abandoned) =>
    /\ Playing = {} /\ drain = {} /\ fwd = {}
    /\ \A n \in Sessions : snd[n] # "running"

\* Nothing that holds a device is out of reach: what plays is the capture set or
\* is being built by the holder of capMu, the card is held once, and a shutdown
\* none of whose steps was abandoned has left nothing running.
NothingForgotten ==
  /\ CleanExit
  /\ Playing \subseteq PipesOf(capSet) \cup PipesOf(built)
  /\ (built # NoSet => capMu # "nobody")
  /\ Cardinality({p \in Playing : HasCard(pipe[p].legs)}) <= 1

\* A feed that runs is the session Stop will find, over the capture the panels
\* describe: it is a.session unless somebody is stopping it, its set is a.capSet,
\* and the lock-free flag says that it runs, until it has ended.
FeedIsTheSession ==
  \A n \in Sessions :
    /\ snd[n] = "running" =>
         /\ session = n \/ \E a \in Actors : call[a].pc = "stopping" /\ call[a].session = n
         /\ sndSet[n] = capSet
    /\ n \in fwd => sessionUp

\* No order of Start, Stop, rebuilds, selections, saves and the steps of the
\* shutdown leaves them waiting for one another: while calls are under way, one
\* of them can go on.  A capture that had to wait for the lock that a drain, a
\* forwarder or a reaper needs would freeze the program with the feed up.
Blocked(a) ==
  \/ call[a].pc \in {"rebuild", "start", "stop"} /\ sessMu # "nobody"
  \/ call[a].pc \in {"down", "capture", "reread", "drop", "restore", "release"} /\ capMu # "nobody"
  \/ call[a].pc = "wait" /\ snd[call[a].session] = "running"

CallsGoOn ==
  LET busy == {a \in Actors : call[a].pc # "idle"} IN busy # {} => \E a \in busy : ~Blocked(a)
=============================================================================
