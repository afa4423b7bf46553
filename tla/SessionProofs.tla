----------------------------- MODULE SessionProofs -----------------------------
(***************************************************************************)
(* What is proved of the capture, the send sessions over it and the         *)
(* shutdown, for any number of calling goroutines, pipelines and sessions,  *)
(* and of the return monitor and the picture, for any number of callers and *)
(* sessions of either; and of the picture's catch-up, for any water marks,  *)
(* distance of keyframes and length of its queue.                           *)
(***************************************************************************)
EXTENDS CaptureSession, ReturnMonitor, PictureMonitor, PictureFeed,
        FiniteSetTheorems, SequenceTheorems, WellFoundedInduction, TLAPS

\* The places of a call at which it has sessMu, and capMu under it.
SessPcs == {"down", "plan", "build", "capture", "reread", "claim", "arm",
            "stopping", "wait"}
SeamPcs == {"claim", "arm"}
CapPcs  == {"plan", "build"}
FreePcs == {"idle", "write", "publish", "drop", "restore", "rebuild", "start", "stop", "release"}

Selections == {"unset", "card", "native"}
Methods == {"none", "launch", "start", "stop", "restart", "save", "select"}
Legs    == [picture : {"none", "card", "slate"}, commentary : {"none", "card", "native"}]
SetRec  == [picture : 0 .. MaxPipes, commentary : 0 .. MaxPipes]
CallRec == [pc : SessPcs \cup FreePcs, method : Methods, cfg : Sources \cup {Unset},
            session : 0 .. MaxSessions, sel : Selections, set : SetRec, took : SUBSET Pipes]
PipeRec == [legs : Legs, state : {"none", "playing", "stopped"},
            dead : SUBSET {"picture", "commentary"}, claimed : BOOLEAN, queue : Nat]

Types ==
  /\ closing \in BOOLEAN /\ abandoned \in BOOLEAN /\ sessionUp \in BOOLEAN
  /\ sessMu \in Actors \cup {"nobody"} /\ capMu \in Actors \cup {"nobody"}
  /\ session \in Sessions \cup {0}
  /\ snd \in [Sessions -> {"none", "running", "ended"}]
  /\ sndSet \in [Sessions -> SetRec]
  /\ fwd \subseteq Sessions
  /\ cfg \in Sources /\ capSel \in Selections
  /\ capSet \in SetRec /\ built \in SetRec
  /\ pipe \in [Pipes -> PipeRec]
  /\ call \in [Actors -> CallRec]
  /\ plan \in Seq(Legs)
  /\ td \in {"none", "sender", "capture", "join", "exit"}

\* A lock is held by the call that stands where it is held, and while sessMu is held
\* there is no session for Stop to find.
LockInv ==
  /\ \A a \in Actors : (sessMu = a <=> call[a].pc \in SessPcs) /\ (capMu = a <=> call[a].pc \in CapPcs)
  /\ sessMu # "nobody" => session = 0
  /\ \A a \in Actors : call[a].pc \in {"write", "publish"} => call[a].cfg \in Sources

\* What is built belongs to the call that builds it, and until it is adopted there is
\* no other set; what plays is in one or the other.
SetInv ==
  /\ capMu # "nobody" => capSet = NoSet
  /\ (\A a \in Actors : call[a].pc # "build") => built = NoSet /\ plan = <<>>
  /\ Playing \subseteq PipesOf(capSet) \cup PipesOf(built)

\* What is left of a plan wants what is not built yet, each leg and the card once.
PlanInv ==
  /\ \A i \in 1 .. Len(plan) :
       /\ plan[i] # NoLegs
       /\ plan[i].picture # "none" => built.picture = 0
       /\ plan[i].commentary # "none" => built.commentary = 0
       /\ HasCard(plan[i]) => \A p \in Playing : ~ HasCard(pipe[p].legs)
  /\ \A i, j \in 1 .. Len(plan) : i # j =>
       /\ ~ (HasCard(plan[i]) /\ HasCard(plan[j]))
       /\ plan[i].picture = "none" \/ plan[j].picture = "none"
       /\ plan[i].commentary = "none" \/ plan[j].commentary = "none"
  /\ \A p, q \in Playing : HasCard(pipe[p].legs) /\ HasCard(pipe[q].legs) => p = q

\* A session whose forwarder runs is a.session, or the one that somebody stops; its
\* sender draws from the capture set.
Stops(a, n) == call[a].pc \in {"stopping", "wait"} /\ call[a].session = n
SessInv ==
  /\ \A n \in Sessions : snd[n] = "running" => n \in fwd /\ sndSet[n] = capSet
  /\ \A n \in fwd : sessionUp /\ (session = n \/ \E a \in Actors : Stops(a, n))
  /\ \A a \in Actors : call[a].pc \in {"stopping", "wait"} => call[a].session \in Sessions
  /\ \A a \in Actors : call[a].pc = "wait" => snd[call[a].session] # "running"

\* A claim is held by a sender that runs or by the Start that took it; and when that
\* Start's copy of the capture set is out of date, nothing of it plays any longer.
Takes(a, p) == call[a].pc \in SeamPcs /\ p \in call[a].took
ClaimInv ==
  /\ \A p \in Pipes : pipe[p].claimed =>
       \/ \E n \in Sessions : snd[n] = "running" /\ p \in PipesOf(sndSet[n])
       \/ \E a \in Actors : Takes(a, p)
  /\ \A a \in Actors : \A p \in Pipes : Takes(a, p) => pipe[p].claimed
  /\ \A a \in Actors : call[a].pc \in SeamPcs => call[a].took \subseteq PipesOf(call[a].set)
  /\ \A a \in Actors : call[a].pc \in SeamPcs /\ call[a].set # capSet =>
       \A p \in PipesOf(call[a].set) : pipe[p].state # "playing"
  /\ \A a \in Actors : call[a].pc = "arm" =>
       call[a].took = PipesOf(call[a].set) /\ call[a].took # {}

\* Once the shutdown's stop is through there is no session and will be none; once its
\* release of the capture is through as well there is no set.
QuitInv ==
  /\ call["tdStop"].pc \in {"idle", "stop", "stopping", "wait"}
  /\ call["tdCap"].pc \in {"idle", "release"}
  /\ td = "none" => call["tdStop"].pc = "idle"
  /\ td \in {"none", "sender"} => call["tdCap"].pc = "idle"
  /\ td # "none" => closing
  /\ td # "none" /\ call["tdStop"].pc = "idle" => session = 0 /\ sessMu = "nobody"
  /\ td \in {"capture", "join", "exit"} /\ ~ abandoned =>
       /\ call["tdStop"].pc = "idle"
       /\ call["tdCap"].pc = "idle" => capSet = NoSet
  /\ td \in {"join", "exit"} /\ ~ abandoned => call["tdCap"].pc = "idle"
  /\ td = "exit" /\ ~ abandoned => drain = {}

CapInv == Types /\ LockInv /\ SetInv /\ PlanInv /\ SessInv /\ ClaimInv /\ QuitInv /\ SeamIsNeverCut

-----------------------------------------------------------------------------
(* What the helpers do.                                                    *)

\* One call moves, and takes along what it carries.
Moves(a, label) ==
  /\ call' \in [Actors -> CallRec]
  /\ call'[a].pc = label
  /\ \A b \in Actors : b # a => call'[b] = call[b]

\* What a step of one call, which may drop what it carries, leaves of the calls' types.
LEMMA CallMoves ==
  ASSUME Types, NEW a \in Actors, NEW label \in SessPcs \cup FreePcs
  PROVE  /\ Goto(a, label) =>
              /\ Moves(a, label)
              /\ label # "idle" => call'[a].session = call[a].session /\ call'[a].cfg = call[a].cfg
         /\ \A s \in Sessions \cup {0} : Carry(a, label, "session", s) =>
              Moves(a, label) /\ call'[a].session = s
         /\ \A s \in Selections : Carry(a, label, "sel", s) => Moves(a, label)
         /\ \A m \in Methods, c \in Sources \cup {Unset} : Call(a, m, label, c) =>
              Moves(a, label) /\ call[a].pc = "idle" /\ (label # "idle" => call'[a].cfg = c)
<1>1. Idle \in CallRec /\ Idle.pc = "idle"
  <2>1. "none" \in Methods /\ "unset" \in Selections /\ 0 \in 0 .. MaxSessions /\ "idle" \in FreePcs
        /\ NoSet \in SetRec /\ {} \in SUBSET Pipes
    BY SessionAssumption DEF Methods, Selections, FreePcs, NoSet, SetRec
  <2>2. QED
    BY <2>1 DEF Idle, CallRec
<1>2. call[a] \in CallRec
  BY DEF Types
<1>3. ASSUME NEW r \in CallRec, call' = [call EXCEPT ![a] = r], r.pc = label
      PROVE  Moves(a, label) /\ call'[a] = r
  BY <1>3 DEF Types, Moves
<1>4. ASSUME Goto(a, label)
      PROVE  /\ Moves(a, label)
             /\ label # "idle" => call'[a].session = call[a].session /\ call'[a].cfg = call[a].cfg
  <2> DEFINE r == IF label = "idle" THEN Idle ELSE [call[a] EXCEPT !.pc = label]
  <2>1. r \in CallRec /\ r.pc = label
    BY <1>1, <1>2 DEF CallRec
  <2>2. label # "idle" => r.session = call[a].session /\ r.cfg = call[a].cfg
    BY <1>2 DEF CallRec
  <2>3. call' = [call EXCEPT ![a] = r]
    BY <1>4 DEF Goto
  <2> HIDE DEF r
  <2>4. QED
    BY <1>3, <2>1, <2>2, <2>3
<1>5. ASSUME NEW s \in Sessions \cup {0}, Carry(a, label, "session", s)
      PROVE  Moves(a, label) /\ call'[a].session = s
  <2> DEFINE r == [call[a] EXCEPT !.pc = label, !["session"] = s]
  <2>1. s \in 0 .. MaxSessions
    BY SessionAssumption DEF Sessions
  <2>2. r \in CallRec /\ r.pc = label /\ r.session = s
    BY <1>2, <2>1 DEF CallRec
  <2>3. call' = [call EXCEPT ![a] = r]
    BY <1>5 DEF Carry
  <2> HIDE DEF r
  <2>4. QED
    BY <1>3, <2>2, <2>3
<1>6. ASSUME NEW s \in Selections, Carry(a, label, "sel", s)
      PROVE  Moves(a, label)
  <2> DEFINE r == [call[a] EXCEPT !.pc = label, !["sel"] = s]
  <2>1. r \in CallRec /\ r.pc = label
    BY <1>2 DEF CallRec
  <2>2. call' = [call EXCEPT ![a] = r]
    BY <1>6 DEF Carry
  <2> HIDE DEF r
  <2>3. QED
    BY <1>3, <2>1, <2>2
<1>7. ASSUME NEW m \in Methods, NEW c \in Sources \cup {Unset}, Call(a, m, label, c)
      PROVE  Moves(a, label) /\ call[a].pc = "idle" /\ (label # "idle" => call'[a].cfg = c)
  <2> DEFINE r == IF label = "idle" THEN Idle
                  ELSE [Idle EXCEPT !.pc = label, !.method = m, !.cfg = c]
  <2>1. r \in CallRec /\ r.pc = label /\ (label # "idle" => r.cfg = c)
    BY <1>1 DEF CallRec
  <2>2. call' = [call EXCEPT ![a] = r] /\ call[a].pc = "idle"
    BY <1>7 DEF Call
  <2> HIDE DEF r
  <2>3. QED
    BY <1>3, <2>1, <2>2
<1>8. QED
  BY <1>4, <1>5, <1>6, <1>7

\* Stopping pipelines, and claiming or letting go of them, leaves the others alone.
LEMMA PipesMove ==
  ASSUME Types, NEW S
  PROVE  /\ NoPipe \in PipeRec /\ ~ NoPipe.claimed
         /\ pipe' = Halt(S) =>
              /\ pipe' \in [Pipes -> PipeRec]
              /\ \A p \in Pipes : p \notin S => pipe'[p] = pipe[p]
              /\ \A p \in Pipes : p \in S => pipe'[p].state # "playing" /\ ~ pipe'[p].claimed
         /\ \A held \in BOOLEAN : pipe' = Claim(S, held) =>
              /\ pipe' \in [Pipes -> PipeRec]
              /\ \A p \in Pipes : p \notin S => pipe'[p] = pipe[p]
              /\ \A p \in Pipes : p \in S => pipe'[p].claimed = held
              /\ \A p \in Pipes : pipe'[p].state = pipe[p].state /\ pipe'[p].legs = pipe[p].legs
<1>1. NoPipe \in PipeRec /\ NoPipe.state = "none" /\ ~ NoPipe.claimed
  <2>1. NoLegs \in Legs
    BY DEF NoLegs, Legs
  <2>2. \A t \in BOOLEAN : [legs |-> NoLegs, state |-> "none", dead |-> {}, claimed |-> t, queue |-> 0] \in PipeRec
    BY <2>1 DEF PipeRec
  <2>3. NoPipe \in PipeRec
    BY <2>2, Zenon DEF NoPipe
  <2>4. QED
    BY <2>3 DEF NoPipe
<1>2. \A p \in Pipes : pipe[p] \in PipeRec
  BY DEF Types
<1>3. ASSUME pipe' = Halt(S)
      PROVE  /\ pipe' \in [Pipes -> PipeRec]
             /\ \A p \in Pipes : p \notin S => pipe'[p] = pipe[p]
             /\ \A p \in Pipes : p \in S => pipe'[p].state # "playing" /\ ~ pipe'[p].claimed
  <2>1. ASSUME NEW p \in Pipes
        PROVE  LET r == [NoPipe EXCEPT !.state = "stopped", !.queue = pipe[p].queue]
               IN  r \in PipeRec /\ r.state = "stopped" /\ ~ r.claimed
    <3>1. pipe[p].queue \in Nat
      BY <1>2 DEF PipeRec
    <3>2. QED
      BY <1>1, <3>1 DEF PipeRec
  <2>2. ASSUME NEW p \in Pipes
        PROVE  /\ Halt(S)[p] \in PipeRec
               /\ p \notin S => Halt(S)[p] = pipe[p]
               /\ p \in S => Halt(S)[p].state # "playing" /\ ~ Halt(S)[p].claimed
    <3>1. Halt(S)[p] = IF p \notin S THEN pipe[p]
                       ELSE IF p \notin drain THEN NoPipe
                       ELSE [NoPipe EXCEPT !.state = "stopped", !.queue = pipe[p].queue]
      BY DEF Halt
    <3>2. QED
      BY <1>1, <1>2, <2>1, <3>1
  <2>3. Halt(S) = [p \in Pipes |-> Halt(S)[p]]
    BY DEF Halt
  <2>4. QED
    BY <1>3, <2>2, <2>3
<1>4. ASSUME NEW held \in BOOLEAN, pipe' = Claim(S, held)
      PROVE  /\ pipe' \in [Pipes -> PipeRec]
             /\ \A p \in Pipes : p \notin S => pipe'[p] = pipe[p]
             /\ \A p \in Pipes : p \in S => pipe'[p].claimed = held
             /\ \A p \in Pipes : pipe'[p].state = pipe[p].state /\ pipe'[p].legs = pipe[p].legs
  <2>1. ASSUME NEW p \in Pipes
        PROVE  LET r == [pipe[p] EXCEPT !.claimed = held]
               IN  r \in PipeRec /\ r.claimed = held /\ r.state = pipe[p].state /\ r.legs = pipe[p].legs
    BY <1>2 DEF PipeRec
  <2>2. ASSUME NEW p \in Pipes
        PROVE  pipe'[p] = IF p \in S THEN [pipe[p] EXCEPT !.claimed = held] ELSE pipe[p]
    BY <1>4 DEF Claim
  <2>3. DOMAIN pipe' = Pipes /\ pipe' = [p \in Pipes |-> pipe'[p]]
    BY <1>4 DEF Claim
  <2>4. QED
    BY ZenonT(30), <1>2, <2>1, <2>2, <2>3
<1>5. QED
  BY <1>1, <1>3, <1>4

-----------------------------------------------------------------------------
(* Every step keeps the invariant.                                         *)

\* The invariant of the session, the capture set and their two locks, for any number of
\* calls, sessions and settings (app.go: startSession, Stop, rebuildCapture,
\* teardownOrdered; capture_cgo.go: ClaimForSend, Stop).
LEMMA CapInvariance == Spec => []CapInv
<1>CapStep.   ASSUME CapInv, [Next]_vars
              PROVE  CapInv'
            \* The least of some numbers is one of them.
  <2> USE <1>CapStep
  <2>LeastIsOne. ASSUME NEW S \in SUBSET Nat, S # {}
                 PROVE  Least(S) \in S
    <3> USE <2>LeastIsOne
    <3> DEFINE R == OpToRel(<, Nat)
    <3>1. PICK x \in S : \A y \in S : ~ (<<y, x>> \in R)
      BY NatLessThanWellFounded, WFMin
    <3>2. \A m, n \in Nat : <<m, n>> \in R <=> m < n
      BY DEF OpToRel
    <3> HIDE DEF R
    <3>3. \A y \in S : x <= y
      <4> TAKE y \in S
      <4>1. x \in Nat /\ y \in Nat
        OBVIOUS
      <4>2. ~ (y < x)
        BY <3>1, <3>2, <4>1
      <4>3. QED
        BY <4>1, <4>2
    <3>4. QED
      BY <3>3 DEF Least
  <2>1. /\ "tdStop" \in Actors /\ "tdCap" \in Actors /\ "launch" \in Actors /\ Seats \subseteq Actors
        /\ "nobody" \notin Actors /\ {"tdStop", "tdCap"} \cap (Seats \cup {"launch"}) = {}
        /\ 0 \notin Sessions /\ 0 \notin Pipes
        /\ \A a \in Actors : a \in Seats \cup {"launch"} \/ a = "tdStop" \/ a = "tdCap"
    BY SessionAssumption DEF Actors, Sessions, Pipes
  <2>2. \A a, b \in Actors : call[a].pc \in SessPcs /\ call[b].pc \in SessPcs => a = b
    BY DEF CapInv, LockInv
  <2>3. ASSUME NEW a \in Actors,
               call[a].pc \in {"down", "plan", "build", "capture", "reread"} \cup SeamPcs
        PROVE  /\ sessMu = a /\ session = 0 /\ fwd = {} /\ a \in Seats \cup {"launch"}
               /\ \A n \in Sessions : snd[n] # "running"
               /\ \A p \in Pipes : pipe[p].claimed => call[a].pc \in SeamPcs /\ p \in call[a].took
               /\ ~ (td # "none" /\ call["tdStop"].pc = "idle")
    <3>1. sessMu = a /\ session = 0
      BY <2>1, <2>3 DEF CapInv, LockInv, SessPcs, SeamPcs
    <3>2. \A b \in Actors : /\ call[b].pc \notin {"stopping", "wait"}
                            /\ b # a => call[b].pc \notin SeamPcs
      BY <2>2, <2>3 DEF SessPcs, SeamPcs
    <3>3. fwd = {}
      BY <2>1, <3>1, <3>2 DEF CapInv, Types, SessInv, Stops
    <3>4. \A n \in Sessions : snd[n] # "running"
      BY <3>3 DEF CapInv, SessInv
    <3>5. \A p \in Pipes : pipe[p].claimed => call[a].pc \in SeamPcs /\ p \in call[a].took
      BY <3>2, <3>4 DEF CapInv, ClaimInv, Takes
    <3>6. QED
      BY <2>1, <2>3, <3>1, <3>3, <3>4, <3>5 DEF CapInv, QuitInv, SeamPcs
  <2>4. ASSUME NEW a \in Actors, call[a].pc \in SessPcs \ {"build"}
        PROVE  built = NoSet /\ plan = <<>>
    BY <2>2, <2>4 DEF CapInv, SetInv, SessPcs
  <2>Seam. ASSUME \A p \in Pipes : /\ pipe'[p].claimed <=> pipe[p].claimed
                                   /\ pipe'[p].state = "playing" => pipe[p].state = "playing",
                  \A b \in Actors : /\ call'[b].pc \in SeamPcs <=> call[b].pc \in SeamPcs
                                    /\ call[b].pc \in SeamPcs => call'[b] = call[b],
                  \A n \in Sessions : snd[n] = "running" => snd'[n] = "running" /\ sndSet'[n] = sndSet[n],
                  \/ capSet' = capSet
                  \/ \A p \in PipesOf(capSet) : pipe'[p].state # "playing"
           PROVE  ClaimInv'
    <3>1. \A b \in Actors, p \in Pipes : Takes(b, p)' <=> Takes(b, p)
      BY <2>Seam DEF Takes, SeamPcs
    <3>2. \A p \in Pipes : pipe'[p].claimed =>
            \/ \E n \in Sessions : snd'[n] = "running" /\ p \in PipesOf(sndSet'[n])
            \/ \E b \in Actors : Takes(b, p)'
      BY <2>Seam, <3>1 DEF CapInv, ClaimInv, PipesOf
    <3>3. ASSUME NEW b \in Actors, call'[b].pc \in SeamPcs
          PROVE  /\ call[b].pc \in SeamPcs /\ call'[b] = call[b]
                 /\ call[b].set \in SetRec /\ PipesOf(call[b].set) \subseteq Pipes
      <4>1. call[b].pc \in SeamPcs /\ call'[b] = call[b]
        BY <2>Seam, <3>3 DEF SeamPcs
      <4>2. call[b].set \in SetRec
        BY DEF CapInv, Types, CallRec
      <4>3. QED
        BY <4>1, <4>2, SessionAssumption DEF PipesOf, SetRec, Pipes
    <3>4. \A b \in Actors : call'[b].pc \in SeamPcs /\ call'[b].set # capSet' =>
            \A p \in PipesOf(call'[b].set) : pipe'[p].state # "playing"
      BY <2>Seam, <3>3 DEF CapInv, ClaimInv, PipesOf
    <3>5. \A b \in Actors : /\ call'[b].pc \in SeamPcs => call'[b].took \subseteq PipesOf(call'[b].set)
                            /\ call'[b].pc = "arm" =>
                                 call'[b].took = PipesOf(call'[b].set) /\ call'[b].took # {}
      BY <3>3 DEF CapInv, ClaimInv, SeamPcs
    <3>6. QED
      BY <2>Seam, <3>1, <3>2, <3>4, <3>5 DEF CapInv, ClaimInv, SeamPcs, PipesOf
  <2>5. ASSUME NEW a \in Seats \cup {"launch"}, NEW label \in FreePcs, Moves(a, label),
               call[a].pc \in FreePcs, label \in {"write", "publish"} => call'[a].cfg \in Sources,
               cfg' \in Sources, capSel' \in Selections,
               UNCHANGED <<closing, abandoned, sessionUp, sessMu, capMu, session, snd, sndSet,
                           fwd, capSet, built, pipe, plan, td, drain>>
        PROVE  CapInv'
    <3>1. a \in Actors /\ a # "tdStop" /\ a # "tdCap"
      BY <2>1
    <3>2. \A b \in Actors : /\ b # a => call'[b] = call[b]
                            /\ call[b].pc \in SessPcs <=> call'[b].pc \in SessPcs
                            /\ call[b].pc \in CapPcs <=> call'[b].pc \in CapPcs
                            /\ call[b].pc = "build" <=> call'[b].pc = "build"
                            /\ call[b].pc \in {"stopping", "wait"} <=> call'[b].pc \in {"stopping", "wait"}
                            /\ call'[b].pc \in SessPcs => call'[b] = call[b]
      BY <2>5 DEF Moves, SessPcs, CapPcs, FreePcs
    <3>3. Types'
      BY <2>5 DEF CapInv, Types, Moves
    <3>4. LockInv'
      BY <2>5, <3>2 DEF CapInv, LockInv, Moves
    <3>5. SetInv'
      BY <2>5, <3>2 DEF CapInv, SetInv, Playing
    <3>6. PlanInv'
      BY <2>5 DEF CapInv, PlanInv, Playing
    <3>7. SessInv'
      BY <2>5, <3>2 DEF CapInv, SessInv, Stops, SessPcs
    <3>8. QuitInv'
      BY <2>1, <2>5, <3>1, <3>2 DEF CapInv, QuitInv
    <3>9. SeamIsNeverCut'
      BY <2>5 DEF CapInv, SeamIsNeverCut
    <3>Claims. ClaimInv'
      <4>1. \A b \in Actors : /\ call'[b].pc \in SeamPcs <=> call[b].pc \in SeamPcs
                              /\ call[b].pc \in SeamPcs => call'[b] = call[b]
        BY <2>5, <3>2 DEF Moves, SessPcs, SeamPcs, FreePcs
      <4>2. QED
        BY <2>5, <3>2, <4>1, <2>Seam DEF CapInv, Types
    <3>10. QED
      BY <3>3, <3>4, <3>5, <3>6, <3>7, <3>8, <3>9, <3>Claims DEF CapInv
  <2>6. ASSUME NEW a \in Seats, NEW c \in Settings, NEW k \in {"card", "native"},
               \/ CallStart(a) \/ CallStop(a) \/ CallRestart(a) \/ CallSave(a, c)
               \/ CallSetVideoSource(a, c.video)
        PROVE  CapInv'
    <3>1. /\ UNCHANGED <<cfg, capSel, closing, abandoned, sessionUp, sessMu, capMu, session,
                         snd, sndSet, fwd, capSet, built, pipe, plan, td, drain>>
          /\ \E label \in FreePcs, m \in Methods, d \in Sources \cup {Unset} :
               /\ Call(a, m, label, d)
               /\ label \in {"write", "publish"} => d \in Sources
      <4>1. c \in Sources /\ [cfg EXCEPT !.video = c.video] \in Sources
        BY SessionAssumption DEF Sources, CapInv, Types
      <4>2. {"start", "stop", "rebuild", "write", "idle"} \subseteq FreePcs
            /\ {"start", "stop", "restart", "save"} \subseteq Methods
        BY DEF FreePcs, Methods
      <4>3. CASE CallStart(a)
        BY <4>2, <4>3
           DEF CallStart, locks, sessVars, confVars, capVars, tdVars, callVars, bounds
      <4>4. CASE CallStop(a)
        BY <4>2, <4>4 DEF CallStop, locks, sessVars, confVars, capVars, tdVars, callVars, bounds
      <4>5. CASE CallRestart(a)
        BY <4>2, <4>5
           DEF CallRestart, locks, sessVars, confVars, capVars, tdVars, callVars, bounds
      <4>6. CASE CallSave(a, c)
        BY <4>1, <4>2, <4>6
           DEF CallSave, locks, sessVars, confVars, capVars, tdVars, callVars, bounds
      <4>7. CASE CallSetVideoSource(a, c.video)
        BY <4>1, <4>2, <4>7
           DEF CallSetVideoSource, locks, sessVars, confVars, capVars, tdVars, callVars, bounds
      <4>8. QED
        BY <2>6, <4>3, <4>4, <4>5, <4>6, <4>7
    <3>2. PICK label \in FreePcs, m \in Methods, d \in Sources \cup {Unset} :
            /\ Call(a, m, label, d)
            /\ label \in {"write", "publish"} => d \in Sources
      BY <3>1
    <3>3. a \in Actors /\ Moves(a, label) /\ call[a].pc = "idle" /\ (label # "idle" => call'[a].cfg = d)
      BY <2>1, <3>2, CallMoves DEF CapInv
    <3>4. QED
      BY <2>5, <3>1, <3>2, <3>3 DEF CapInv, Types, FreePcs
  <2>7. ASSUME NEW a \in Actors,
               WriteDisk(a) \/ WriteFails(a) \/ PublishConfig(a) \/ DropSelection(a) \/ RestoreSelection(a)
        PROVE  CapInv'
    <3>1. /\ call[a].pc \in {"write", "publish", "drop", "restore"}
          /\ cfg' \in Sources /\ capSel' \in Selections
          /\ UNCHANGED <<closing, abandoned, sessionUp, sessMu, capMu, session, snd, sndSet,
                         fwd, capSet, built, pipe, plan, td, drain>>
      <4>1. call[a].sel \in Selections
        BY DEF CapInv, Types, CallRec
      <4>2. call[a].pc = "publish" => call[a].cfg \in Sources
        BY DEF CapInv, LockInv
      <4>3. QED
       BY <2>7, <4>1, <4>2
      DEF WriteDisk, WriteFails, PublishConfig, DropSelection, RestoreSelection, CapInv, Types,
          Selections, locks, sessVars, confVars, capVars, tdVars, callVars, bounds
    <3>2. \E label \in {"publish", "idle", "drop", "rebuild"} :
            Moves(a, label) /\ (label = "publish" => call[a].pc = "write" /\ call'[a].cfg = call[a].cfg)
      <4>1. CASE WriteDisk(a)
        BY <4>1, CallMoves DEF WriteDisk, CapInv, FreePcs
      <4>2. CASE WriteFails(a)
        BY <4>2, CallMoves DEF WriteFails, CapInv, FreePcs
      <4>3. CASE PublishConfig(a)
        BY <4>3, CallMoves DEF PublishConfig, CapInv, FreePcs
      <4>4. CASE DropSelection(a)
        BY <4>4, CallMoves DEF DropSelection, CapInv, Types, FreePcs
      <4>5. CASE RestoreSelection(a)
        BY <4>5, CallMoves DEF RestoreSelection, CapInv, FreePcs
      <4>6. QED
        BY <2>7, <4>1, <4>2, <4>3, <4>4, <4>5
    <3>3. a \in Seats \cup {"launch"}
      BY <2>1, <3>1 DEF CapInv, QuitInv
    <3>4. PICK label \in {"publish", "idle", "drop", "rebuild"} :
            Moves(a, label) /\ (label = "publish" => call[a].pc = "write" /\ call'[a].cfg = call[a].cfg)
      BY <3>2
    <3>5. label \in FreePcs /\ call[a].pc \in FreePcs
          /\ (label \in {"write", "publish"} => call'[a].cfg \in Sources)
      BY <3>1, <3>3, <3>4, <2>1 DEF FreePcs, CapInv, LockInv
    <3>6. QED
      BY <2>5, <3>1, <3>3, <3>4, <3>5
  <2>8. ASSUME NEW a \in Seats \cup {"launch"}, NEW label \in {"down", "capture"}, Moves(a, label),
               call[a].pc \in FreePcs, sessMu = "nobody", session = 0, ~ closing,
               sessMu' = a, capSel' \in Selections,
               UNCHANGED <<closing, abandoned, sessionUp, capMu, session, snd, sndSet, fwd,
                           cfg, capSet, built, pipe, plan, td, drain>>
        PROVE  CapInv'
    <3>1. a \in Actors /\ a # "tdStop" /\ a # "tdCap" /\ a # "nobody"
      BY <2>1
    <3>2. \A b \in Actors : b # a => call'[b] = call[b] /\ call[b].pc \notin SessPcs
      BY <2>1, <2>8 DEF Moves, CapInv, LockInv
    <3>3. Types'
      BY <2>8, <3>1 DEF CapInv, Types, Moves
    <3>4. LockInv'
      BY <2>8, <2>1, <3>1, <3>2 DEF CapInv, LockInv, Moves, SessPcs, CapPcs, FreePcs
    <3>5. SetInv'
      BY <2>8, <3>2 DEF CapInv, SetInv, Playing, Moves, FreePcs
    <3>6. PlanInv'
      BY <2>8 DEF CapInv, PlanInv, Playing
    <3>7. SessInv'
      BY <2>8, <3>1, <3>2 DEF CapInv, SessInv, Stops, SessPcs, FreePcs, Moves
    <3>8. QuitInv'
      BY <2>8, <2>1, <3>1, <3>2 DEF CapInv, QuitInv, Moves
    <3>9. SeamIsNeverCut'
      BY <2>8 DEF CapInv, SeamIsNeverCut
    <3>Claims. ClaimInv'
      <4>1. \A b \in Actors : /\ call'[b].pc \in SeamPcs <=> call[b].pc \in SeamPcs
                              /\ call[b].pc \in SeamPcs => call'[b] = call[b]
        BY <2>8, <3>2 DEF Moves, SessPcs, SeamPcs, FreePcs
      <4>2. QED
        BY <2>8, <3>2, <4>1, <2>Seam DEF CapInv, Types
    <3>10. QED
      BY <3>3, <3>4, <3>5, <3>6, <3>7, <3>8, <3>9, <3>Claims DEF CapInv
  <2>9. ASSUME NEW a \in Seats, NEW k \in {"card", "native"}, CallSelect(a, k)
        PROVE  CapInv'
    <3>1. /\ sessMu = "nobody" /\ capSel' \in Selections /\ a \in Actors
          /\ UNCHANGED <<closing, abandoned, sessionUp, capMu, session, snd, sndSet, fwd, cfg,
                         capSet, built, pipe, plan, td, drain>>
      BY <2>9, <2>1
         DEF CallSelect, CapInv, Types, Selections, locks, sessVars, confVars, capVars, tdVars,
             callVars, bounds
    <3>2. Unset \in Sources \cup {Unset} /\ "select" \in Methods /\ {"idle", "down"} \subseteq SessPcs \cup FreePcs
      BY DEF Methods, SessPcs, FreePcs
    <3>3. CASE closing \/ session # 0
      <4>1. Call(a, "select", "idle", Unset) /\ sessMu' = sessMu
        BY <2>9, <3>3 DEF CallSelect
      <4>2. Moves(a, "idle") /\ call[a].pc = "idle"
        BY <3>1, <3>2, <4>1, CallMoves DEF CapInv
      <4>3. QED
        BY <2>5, <3>1, <4>1, <4>2 DEF FreePcs, CapInv, Types
    <3>4. CASE ~ (closing \/ session # 0)
      <4>1. Call(a, "select", "down", Unset) /\ sessMu' = a
        BY <2>9, <3>4 DEF CallSelect
      <4>2. Moves(a, "down") /\ call[a].pc = "idle"
        BY <3>1, <3>2, <4>1, CallMoves DEF CapInv
      <4>3. QED
        BY <2>8, <3>1, <3>4, <4>1, <4>2 DEF FreePcs
    <3>5. QED
      BY <3>3, <3>4
  <2>10. ASSUME NEW a \in Actors, Rebuild(a) \/ StartLock(a)
         PROVE  CapInv'
    <3>1. /\ sessMu = "nobody" /\ call[a].pc \in {"rebuild", "start"}
          /\ UNCHANGED <<closing, abandoned, sessionUp, capMu, session, snd, sndSet, fwd, cfg,
                         capSel, capSet, built, pipe, plan, td, drain>>
          /\ \/ /\ sessMu' = sessMu
                /\ \E label \in {"restore", "idle"} : Goto(a, label)
             \/ /\ sessMu' = a /\ ~ closing /\ session = 0
                /\ \E label \in {"down", "capture"} : Goto(a, label)
      BY <2>10
         DEF Rebuild, StartLock, locks, sessVars, confVars, capVars, tdVars, callVars, bounds
    <3>2. a \in Seats \cup {"launch"}
      BY <2>1, <3>1 DEF CapInv, QuitInv
    <3>3. ASSUME NEW label \in {"restore", "idle"}, Goto(a, label), sessMu' = sessMu
          PROVE  CapInv'
      <4>1. Moves(a, label)
        BY <3>3, CallMoves DEF CapInv, FreePcs
      <4>2. QED
        BY <2>5, <3>1, <3>2, <3>3, <4>1 DEF FreePcs, CapInv, Types
    <3>4. ASSUME NEW label \in {"down", "capture"}, Goto(a, label), sessMu' = a, ~ closing, session = 0
          PROVE  CapInv'
      <4>1. Moves(a, label)
        BY <3>4, CallMoves DEF CapInv, SessPcs
      <4>2. QED
        BY <2>8, <3>1, <3>2, <3>4, <4>1 DEF FreePcs, CapInv, Types
    <3>5. QED
      BY <3>1, <3>3, <3>4
  <2>11. ASSUME NEW a \in Actors, NEW label \in {"idle", "down", "plan", "build", "capture", "reread"},
                call[a].pc \in {"down", "plan", "build", "capture", "reread"}, Moves(a, label),
                sessMu' = IF label = "idle" THEN "nobody" ELSE a,
                capMu' = IF label \in CapPcs THEN a ELSE "nobody",
                capSet' \in SetRec, built' \in SetRec, plan' \in Seq(Legs), pipe' \in [Pipes -> PipeRec],
                label \in CapPcs => capSet' = NoSet,
                label # "build" => built' = NoSet /\ plan' = <<>>,
                Playing' \subseteq PipesOf(capSet') \cup PipesOf(built'),
                PlanInv', \A p \in Pipes : ~ pipe'[p].claimed,
                UNCHANGED <<closing, abandoned, sessionUp, session, snd, sndSet, fwd, cfg,
                            capSel, td>>
         PROVE  CapInv'
    <3>1. /\ sessMu = a /\ session = 0 /\ fwd = {} /\ a \in Seats \cup {"launch"}
          /\ \A m \in Sessions : snd[m] # "running"
          /\ ~ (td # "none" /\ call["tdStop"].pc = "idle")
      BY <2>11, <2>3
    <3>2. \A b \in Actors : b # a => call'[b] = call[b] /\ call[b].pc \notin SessPcs
      BY <2>11, <2>2 DEF Moves, SessPcs
    <3>3. call'[a].pc = label /\ a # "tdStop" /\ a # "tdCap" /\ a # "nobody"
      BY <2>11, <2>1, <3>1 DEF Moves
    <3>4. Types'
      BY <2>11 DEF CapInv, Types, Moves
    <3>5. LockInv'
      BY <2>11, <2>1, <3>1, <3>2, <3>3 DEF CapInv, LockInv, SessPcs, CapPcs
    <3>6. SetInv'
      BY <2>11, <3>2, <3>3 DEF SetInv, CapPcs
    <3>7. SessInv'
      BY <2>11, <3>1, <3>2, <3>3 DEF CapInv, SessInv, Stops, SessPcs
    <3>8. QuitInv'
      BY <2>11, <2>1, <3>1, <3>2, <3>3 DEF CapInv, QuitInv
    <3>9. SeamIsNeverCut'
      BY <2>11, <3>1 DEF SeamIsNeverCut
    <3>Claims. ClaimInv'
      <4>1. \A b \in Actors : call'[b].pc \notin SeamPcs
        BY <2>11, <3>2, <3>3 DEF SessPcs, SeamPcs
      <4>2. QED
        BY <2>11, <4>1 DEF ClaimInv, Takes, SeamPcs
    <3>10. QED
      BY <2>11, <3>4, <3>5, <3>6, <3>7, <3>8, <3>9, <3>Claims DEF CapInv
  <2>12. ASSUME NEW c \in Sources
         PROVE  LET P == PlanCapture(c) IN
                /\ P \in Seq(Legs)
                /\ \A i \in 1 .. Len(P) : P[i] # NoLegs
                /\ \A i, j \in 1 .. Len(P) : i # j =>
                     /\ ~ (HasCard(P[i]) /\ HasCard(P[j]))
                     /\ P[i].picture = "none" \/ P[j].picture = "none"
                     /\ P[i].commentary = "none" \/ P[j].commentary = "none"
    <3>1. c.video \in {"card", "slate", "none"} /\ c.audio \in {"card", "native"}
      BY DEF Sources
    <3> DEFINE one(x, y) == [picture |-> x, commentary |-> y]
    <3>2. ASSUME NEW x \in {"card", "slate", "none"}, NEW y \in {"none", "card", "native"}
          PROVE  one(x, y) \in Legs /\ one(x, y).picture = x /\ one(x, y).commentary = y
      BY DEF Legs
    <3>3. CASE c.video = "none"
      BY <3>1, <3>2, <3>3 DEF PlanCapture, NoLegs
    <3>4. CASE c.video = "card" /\ c.audio = "card"
      BY <3>1, <3>2, <3>4 DEF PlanCapture, NoLegs
    <3>5. CASE c.video # "none" /\ ~ (c.video = "card" /\ c.audio = "card")
      BY <3>1, <3>2, <3>5 DEF PlanCapture, NoLegs, HasCard
    <3>6. QED
      BY <3>3, <3>4, <3>5
  <2>13. /\ captureConfig \in Sources /\ PipesOf(NoSet) = {} /\ NoSet \in SetRec /\ <<>> \in Seq(Legs)
         /\ \A s \in SetRec : PipesOf(s) \subseteq Pipes /\ (PipesOf(s) = {} => s = NoSet)
    <3>1. captureConfig \in Sources
      BY DEF captureConfig, CapInv, Types, Selections, Sources
    <3>2. ASSUME NEW s \in SetRec
          PROVE  PipesOf(s) \subseteq Pipes /\ (PipesOf(s) = {} => s = NoSet)
      <4>1. s.picture \in 0 .. MaxPipes /\ s.commentary \in 0 .. MaxPipes
            /\ s = [picture |-> s.picture, commentary |-> s.commentary]
        BY DEF SetRec
      <4>2. \A p \in 0 .. MaxPipes : p # 0 => p \in Pipes
        BY SessionAssumption DEF Pipes
      <4>3. QED
        BY <4>1, <4>2 DEF PipesOf, NoSet
    <3>3. QED
      BY <3>1, <3>2, SessionAssumption DEF PipesOf, NoSet, SetRec
  <2>14. ASSUME plan' \in Seq(Legs), Playing' = {}, built' = NoSet,
                 \A i \in 1 .. Len(plan') : plan'[i] # NoLegs,
                 \A i, j \in 1 .. Len(plan') : i # j =>
                   /\ ~ (HasCard(plan'[i]) /\ HasCard(plan'[j]))
                   /\ plan'[i].picture = "none" \/ plan'[j].picture = "none"
                   /\ plan'[i].commentary = "none" \/ plan'[j].commentary = "none"
         PROVE  PlanInv'
    BY <2>14 DEF PlanInv, NoSet
  <2>15. ASSUME NEW a \in Actors, Down(a)
         PROVE  CapInv'
    <3>1. /\ call[a].pc = "down" /\ capMu = "nobody"
          /\ sessMu = a /\ session = 0
          /\ \A p \in Pipes : ~ pipe[p].claimed
          /\ built = NoSet /\ plan = <<>>
      BY <2>15, <2>3, <2>4 DEF Down, SessPcs, SeamPcs
    <3>2. ~ \E p \in PipesOf(capSet) : Refuses(p)
      BY <3>1 DEF Refuses, PipesOf, CapInv, Types, SetRec, Pipes
    <3>3. /\ Goto(a, "plan") /\ capMu' = a /\ sessMu' = sessMu /\ capSet' = NoSet
          /\ pipe' = Halt(StopsOf(capSet))
          /\ UNCHANGED <<closing, abandoned, sessionUp, sessMu, session, snd, sndSet, fwd, cfg,
                         capSel, built, plan, td, drain>>
      BY <2>15, <3>2 DEF Down, locks, sessVars, confVars, capVars, tdVars, callVars, bounds
    <3>4. Moves(a, "plan")
      BY <3>3, CallMoves DEF CapInv, SessPcs
    <3>5. /\ pipe' \in [Pipes -> PipeRec]
          /\ \A p \in Pipes : p \notin StopsOf(capSet) => pipe'[p] = pipe[p]
          /\ \A p \in Pipes : p \in StopsOf(capSet) => pipe'[p].state # "playing" /\ ~ pipe'[p].claimed
      BY <3>3, PipesMove DEF CapInv
    <3>6. Playing' = {}
      BY <3>1, <3>2, <3>5, <2>13 DEF Playing, CapInv, SetInv, StopsOf
    <3>7. PlanInv'
      BY <3>1, <3>3, <3>6, <2>13, <2>14
    <3>8. QED
      BY <2>11, <2>13, <3>1, <3>3, <3>4, <3>5, <3>6, <3>7 DEF CapPcs
  <2>16. ASSUME NEW a \in Actors, Plan(a)
         PROVE  CapInv'
    <3>1. /\ call[a].pc = "plan" /\ Goto(a, "build")
          /\ plan' = PlanCapture(captureConfig) /\ built' = NoSet
          /\ UNCHANGED <<closing, abandoned, sessionUp, sessMu, capMu, session, snd, sndSet,
                         fwd, cfg, capSel, capSet, pipe, td, drain>>
      BY <2>16 DEF Plan, locks, sessVars, confVars, capVars, tdVars, callVars, bounds
    <3>2. sessMu = a /\ capMu = a /\ capSet = NoSet /\ built = NoSet /\ \A p \in Pipes : ~ pipe[p].claimed
      BY <3>1, <2>1, <2>3, <2>4 DEF CapInv, LockInv, SetInv, CapPcs, SessPcs, SeamPcs
    <3>3. Moves(a, "build")
      BY <3>1, CallMoves DEF CapInv, SessPcs
    <3>4. Playing' = {}
      BY <3>1, <3>2, <2>13 DEF Playing, CapInv, SetInv
    <3>5. plan' \in Seq(Legs) /\ PlanInv'
      BY <3>1, <3>4, <2>12, <2>13, <2>14
    <3>6. QED
      BY <2>11, <2>13, <3>1, <3>2, <3>3, <3>4, <3>5 DEF CapPcs, CapInv, Types
  <2>17. ASSUME NEW a \in Actors, PreflightFails(a)
         PROVE  CapInv'
    <3>1. /\ call[a].pc = "plan" /\ Goto(a, "idle") /\ Release(a)
          /\ capMu' = "nobody"
          /\ UNCHANGED <<closing, abandoned, sessionUp, session, snd, sndSet, fwd, cfg, capSel,
                         capSet, built, pipe, plan, td, drain>>
      BY <2>17
         DEF PreflightFails, RebuildFails, locks, sessVars, confVars, capVars, tdVars, callVars, bounds
    <3>2. /\ sessMu = a /\ built = NoSet /\ plan = <<>>
          /\ \A p \in Pipes : ~ pipe[p].claimed
      BY <3>1, <2>3, <2>4 DEF SessPcs, SeamPcs
    <3>3. sessMu' = "nobody"
      BY <3>1, <3>2 DEF Release
    <3>4. Moves(a, "idle")
      BY <3>1, CallMoves DEF CapInv, FreePcs
    <3>5. PlanInv' /\ Playing' \subseteq PipesOf(capSet') \cup PipesOf(built')
      BY <3>1 DEF CapInv, PlanInv, SetInv, Playing
    <3>6. QED
      BY <2>11, <3>1, <3>2, <3>3, <3>4, <3>5 DEF CapPcs, CapInv, Types
  <2>Start. ASSUME NEW a \in Actors, NEW label \in {"idle"} \cup SeamPcs,
                   call[a].pc \in {"capture", "reread"} \cup SeamPcs, Moves(a, label),
                   sessMu' = IF label = "idle" THEN "nobody" ELSE a,
                   pipe' \in [Pipes -> PipeRec], ClaimInv',
                   \A p \in Pipes : pipe'[p].state = pipe[p].state /\ pipe'[p].legs = pipe[p].legs,
                   UNCHANGED <<closing, abandoned, sessionUp, capMu, session, snd, sndSet, fwd,
                               cfg, capSel, capSet, built, plan, td>>
            PROVE  CapInv'
    <3>1. /\ sessMu = a /\ session = 0 /\ fwd = {} /\ a \in Seats \cup {"launch"}
          /\ \A m \in Sessions : snd[m] # "running"
          /\ ~ (td # "none" /\ call["tdStop"].pc = "idle")
      BY <2>Start, <2>3
    <3>2. \A b \in Actors : b # a => call'[b] = call[b] /\ call[b].pc \notin SessPcs
      BY <2>Start, <2>2 DEF Moves, SessPcs, SeamPcs
    <3>3. /\ call'[a].pc = label /\ a # "tdStop" /\ a # "tdCap" /\ a # "nobody"
          /\ call[a].pc \notin CapPcs /\ label \notin CapPcs /\ label # "build"
          /\ call[a].pc # "build" /\ label \notin {"stopping", "wait", "write", "publish"}
          /\ label \in SessPcs <=> label # "idle"
      BY <2>Start, <2>1, <3>1 DEF Moves, CapPcs, SeamPcs, SessPcs
    <3>4. Types'
      BY <2>Start, <2>1, <3>1 DEF CapInv, Types, Moves
    <3>5. LockInv'
      <4>1. capMu # a
        BY <2>Start, <3>3 DEF CapInv, LockInv
      <4>2. QED
        BY <2>Start, <2>1, <3>1, <3>2, <3>3, <4>1 DEF CapInv, LockInv
    <3>6. Playing' = Playing
      BY <2>Start DEF Playing
    <3>7. SetInv'
      BY <2>Start, <3>2, <3>3, <3>6 DEF CapInv, SetInv
    <3>8. PlanInv'
      <4>1. \A p \in Playing : pipe'[p].legs = pipe[p].legs
        BY <2>Start DEF Playing
      <4>2. QED
        BY <2>Start, <3>6, <4>1 DEF CapInv, PlanInv
    <3>9. SessInv'
      BY <2>Start, <3>1, <3>2, <3>3 DEF CapInv, SessInv, SessPcs
    <3>10. QuitInv' /\ SeamIsNeverCut'
      BY <2>Start, <2>1, <3>1, <3>2, <3>3 DEF CapInv, QuitInv, SeamIsNeverCut
    <3>11. QED
      BY <2>Start, <3>4, <3>5, <3>7, <3>8, <3>9, <3>10 DEF CapInv
  <2>Seamless. ASSUME NEW a \in Actors, NewSeam(a), call[a].pc \in {"capture", "reread"},
                      PipesOf(capSet) # {},
                      UNCHANGED <<closing, abandoned, sessionUp, sessMu, capMu, session, snd,
                                  sndSet, fwd, cfg, capSel, capSet, built, pipe, plan, td>>
               PROVE  CapInv'
    <3>1. /\ Moves(a, "claim") /\ call'[a].took = {} /\ call'[a].set = capSet
      <4> DEFINE r == [call[a] EXCEPT !.pc = "claim", !.set = capSet, !.took = {}]
      <4>1. r \in CallRec /\ r.pc = "claim" /\ r.took = {} /\ r.set = capSet
        BY DEF CapInv, Types, CallRec, SessPcs
      <4>2. call' = [call EXCEPT ![a] = r]
        BY <2>Seamless DEF NewSeam
      <4> HIDE DEF r
      <4>3. QED
        BY <4>1, <4>2 DEF Moves, CapInv, Types
    <3>2. \A p \in Pipes : ~ pipe[p].claimed
      BY <2>Seamless, <2>3 DEF SeamPcs
    <3>3. \A b \in Actors : call'[b].pc \in SeamPcs => b = a
      BY <2>Seamless, <2>2, <3>1 DEF Moves, SessPcs, SeamPcs
    <3>4. ClaimInv'
      BY <2>Seamless, <3>1, <3>2, <3>3 DEF ClaimInv, Takes, Moves, SeamPcs, PipesOf
    <3>5. sessMu' = a
      BY <2>Seamless, <2>3
    <3>6. QED
      BY <2>Seamless, <2>Start, <3>1, <3>4, <3>5 DEF CapInv, Types, SeamPcs
  <2>18. ASSUME NEW a \in Actors, StartCapture(a)
         PROVE  CapInv'
    <3>1. /\ call[a].pc = "capture" /\ capMu = "nobody"
          /\ UNCHANGED <<closing, abandoned, sessionUp, sessMu, capMu, session, snd, sndSet,
                         fwd, cfg, capSel, capSet, built, pipe, plan, td, drain>>
          /\ \/ NewSeam(a) /\ PipesOf(capSet) # {}
             \/ Goto(a, "down")
      BY <2>18 DEF StartCapture, locks, sessVars, confVars, capVars, tdVars, callVars, bounds
    <3>2. CASE NewSeam(a) /\ PipesOf(capSet) # {}
      BY <2>Seamless, <3>1, <3>2
    <3>3. CASE Goto(a, "down")
      <4>1. /\ sessMu = a /\ built = NoSet /\ plan = <<>>
            /\ \A p \in Pipes : ~ pipe[p].claimed
        BY <3>1, <2>3, <2>4 DEF SessPcs, SeamPcs
      <4>2. Moves(a, "down")
        BY <3>3, CallMoves DEF CapInv, SessPcs
      <4>3. PlanInv' /\ Playing' \subseteq PipesOf(capSet') \cup PipesOf(built')
        BY <3>1 DEF CapInv, PlanInv, SetInv, Playing
      <4>4. QED
        BY <2>11, <3>1, <4>1, <4>2, <4>3 DEF CapPcs, CapInv, Types
    <3>4. QED
      BY <3>1, <3>2, <3>3
  <2>rereads. ASSUME NEW a \in Actors, StartRereads(a)
              PROVE  CapInv'
    <3>1. /\ call[a].pc = "reread" /\ NewSeam(a) /\ PipesOf(capSet) # {}
          /\ UNCHANGED <<closing, abandoned, sessionUp, sessMu, capMu, session, snd, sndSet,
                         fwd, cfg, capSel, capSet, built, pipe, plan, td>>
      BY <2>rereads DEF StartRereads, locks, sessVars, confVars, capVars, tdVars, callVars, bounds
    <3>2. QED
      BY <2>Seamless, <3>1
  <2>claims. ASSUME NEW a \in Actors, ClaimForSend(a)
             PROVE  CapInv'
    <3> DEFINE p    == NextClaim(a)
               q    == call[a].set
               took == call[a].took \cup {p}
               r    == [call[a] EXCEPT !.took = took,
                                       !.pc = IF took = PipesOf(q) THEN "arm" ELSE "claim"]
    <3>1. /\ call[a].pc = "claim" /\ p # 0 /\ pipe' = Claim({p}, TRUE)
          /\ call' = [call EXCEPT ![a] = r]
          /\ UNCHANGED <<closing, abandoned, sessionUp, sessMu, capMu, session, snd, sndSet,
                         fwd, cfg, capSel, capSet, built, plan, td>>
      BY <2>claims DEF ClaimForSend, locks, sessVars, confVars, capVars, tdVars, callVars, bounds
    <3>2. q \in SetRec /\ PipesOf(q) \subseteq Pipes /\ call[a].took \subseteq PipesOf(q)
      BY <2>13, <3>1 DEF CapInv, Types, CallRec, ClaimInv, SeamPcs
    <3>3. p \in PipesOf(q) /\ p \in Pipes /\ took \subseteq PipesOf(q) /\ took # {}
      BY <3>1, <3>2 DEF NextClaim, PipesOf
    <3> HIDE DEF p, took
    <3>4. /\ r \in CallRec /\ r.took = took /\ r.set = q
          /\ r.pc = (IF took = PipesOf(q) THEN "arm" ELSE "claim")
      <4>1. took \in SUBSET Pipes
        BY <3>2, <3>3
      <4>2. call[a] \in CallRec
        BY DEF CapInv, Types
      <4>3. QED
        BY <4>1, <4>2 DEF CallRec, SessPcs
    <3> HIDE DEF r
    <3>5. Moves(a, r.pc) /\ call'[a] = r /\ r.pc \in SeamPcs
      BY <3>1, <3>4 DEF Moves, CapInv, Types, SeamPcs
    <3>6. /\ pipe' \in [Pipes -> PipeRec]
          /\ \A x \in Pipes : x # p => pipe'[x] = pipe[x]
          /\ pipe'[p].claimed
          /\ \A x \in Pipes : pipe'[x].state = pipe[x].state /\ pipe'[x].legs = pipe[x].legs
      <4>1. pipe' = Claim({p}, TRUE) /\ Types
        BY <3>1 DEF CapInv
      <4>2. /\ pipe' \in [Pipes -> PipeRec]
            /\ \A x \in Pipes : x \notin {p} => pipe'[x] = pipe[x]
            /\ \A x \in Pipes : x \in {p} => pipe'[x].claimed = TRUE
            /\ \A x \in Pipes : pipe'[x].state = pipe[x].state /\ pipe'[x].legs = pipe[x].legs
        BY <4>1, PipesMove
      <4>3. QED
        BY <3>3, <4>2
    <3>7. \A b \in Actors : call'[b].pc \in SeamPcs => b = a
      BY <3>1, <3>5, <2>2 DEF Moves, SessPcs, SeamPcs
    <3>8. \A x \in Pipes : pipe[x].claimed <=> x \in call[a].took
      BY <3>1, <2>3 DEF SeamPcs, CapInv, ClaimInv, Takes
    <3>9. p \in took /\ call[a].took \subseteq took /\ \A x \in took : x = p \/ x \in call[a].took
      BY DEF took
    <3>10. ClaimInv'
      <4>1. \A x \in Pipes : pipe'[x].claimed <=> x \in took
        BY <3>6, <3>8, <3>9
      <4>2. \A b \in Actors, x \in Pipes : Takes(b, x)' <=> b = a /\ x \in took
        BY <3>4, <3>5, <3>7 DEF Takes, SeamPcs
      <4>3. q # capSet => \A x \in PipesOf(q) : pipe[x].state # "playing"
        BY <3>1 DEF CapInv, ClaimInv, SeamPcs
      <4>4. \A b \in Actors : call'[b].pc \in SeamPcs =>
              /\ b = a /\ call'[b].took = took /\ call'[b].set = q /\ call'[b].pc = r.pc
        BY <3>4, <3>5, <3>7
      <4>5. \A x \in PipesOf(q) : x \in Pipes /\ pipe'[x].state = pipe[x].state
        BY <3>2, <3>6
      <4>6. \A x \in Pipes : pipe'[x].claimed => \E b \in Actors : Takes(b, x)'
        BY <4>1, <4>2
      <4>7. \A b \in Actors : \A x \in Pipes : Takes(b, x)' => pipe'[x].claimed
        BY <4>1, <4>2
      <4>8. \A b \in Actors : call'[b].pc \in SeamPcs => call'[b].took \subseteq PipesOf(call'[b].set)
        BY <3>3, <4>4
      <4>9. \A b \in Actors : call'[b].pc \in SeamPcs /\ call'[b].set # capSet' =>
              \A x \in PipesOf(call'[b].set) : pipe'[x].state # "playing"
        BY <3>1, <4>3, <4>4, <4>5
      <4>10. \A b \in Actors : call'[b].pc = "arm" =>
               call'[b].took = PipesOf(call'[b].set) /\ call'[b].took # {}
        BY <3>3, <3>4, <4>4 DEF SeamPcs
      <4>11. QED
        BY <4>6, <4>7, <4>8, <4>9, <4>10 DEF ClaimInv, SeamPcs, PipesOf
    <3>11. sessMu' = a
      BY <3>1, <2>3 DEF SeamPcs
    <3>12. QED
      BY <2>Start, <3>1, <3>5, <3>6, <3>10, <3>11 DEF SeamPcs
  <2>refused. ASSUME NEW a \in Actors, MintFails(a)
              PROVE  CapInv'
    <3>1. /\ call[a].pc \in {"reread"} \cup SeamPcs /\ Goto(a, "idle") /\ Release(a)
          /\ pipe' = Claim(call[a].took, FALSE)
          /\ UNCHANGED <<closing, abandoned, sessionUp, capMu, session, snd, sndSet, fwd, cfg,
                         capSel, capSet, built, plan, td>>
      BY <2>refused
         DEF MintFails, Refused, SeamPcs, locks, sessVars, confVars, capVars, tdVars, callVars, bounds
    <3>2. Moves(a, "idle") /\ sessMu' = "nobody"
      BY <3>1, <2>3, CallMoves DEF CapInv, FreePcs, Release, SeamPcs
    <3>3. /\ pipe' \in [Pipes -> PipeRec]
          /\ \A p \in Pipes : p \notin call[a].took => pipe'[p] = pipe[p]
          /\ \A p \in Pipes : p \in call[a].took => pipe'[p].claimed = FALSE
          /\ \A p \in Pipes : pipe'[p].state = pipe[p].state /\ pipe'[p].legs = pipe[p].legs
      BY <3>1, PipesMove DEF CapInv
    <3>4. \A p \in Pipes : ~ pipe'[p].claimed
      BY <3>1, <3>3, <2>3
    <3>5. \A b \in Actors : call'[b].pc \notin SeamPcs
      BY <3>1, <3>2, <2>2 DEF Moves, SessPcs, SeamPcs
    <3>6. ClaimInv'
      BY <3>4, <3>5 DEF ClaimInv, Takes, SeamPcs
    <3>7. QED
      BY <2>Start, <3>1, <3>2, <3>3, <3>6
  <2>19. ASSUME NEW a \in Actors, BuildOne(a)
         PROVE  CapInv'
    <3>1. call[a].pc = "build"
      BY <2>19 DEF BuildOne, BuildFails, Adopt
    <3>2. /\ sessMu = a /\ capMu = a /\ capSet = NoSet
          /\ \A p \in Pipes : ~ pipe[p].claimed
          /\ Playing \subseteq PipesOf(built)
      BY <3>1, <2>1, <2>3, <2>13 DEF CapInv, LockInv, SetInv, CapPcs, SeamPcs
    <3> DEFINE p  == Least(Free)
               l  == Head(plan)
    <3>3. p \in Free /\ p \in Pipes /\ p \notin Playing /\ p # 0
      <4>1. Free \in SUBSET Nat /\ Free # {} /\ Free \subseteq Pipes
        BY <2>19 DEF BuildOne, Free, Pipes
      <4>2. p \in Free
        BY <4>1, <2>LeastIsOne
      <4>3. QED
        BY <2>1, <4>1, <4>2 DEF Free, Playing
    <3>4. /\ plan \in Seq(Legs) /\ plan # <<>> /\ Len(plan) \in Nat /\ Len(plan) >= 1
          /\ l = plan[1] /\ l \in Legs /\ Tail(plan) \in Seq(Legs) /\ Len(Tail(plan)) = Len(plan) - 1
          /\ \A i \in 1 .. Len(plan) - 1 : Tail(plan)[i] = plan[i + 1]
      BY <2>19, EmptySeq, HeadTailProperties DEF BuildOne, CapInv, Types
    <3>5. /\ pipe' = [pipe EXCEPT ![p] = Opened(l)] /\ plan' = Tail(plan) /\ call' = call
          /\ built' = [built EXCEPT !.picture = IF l.picture # "none" THEN p ELSE built.picture,
                                    !.commentary = IF l.commentary # "none" THEN p ELSE built.commentary]
          /\ UNCHANGED <<closing, abandoned, sessionUp, sessMu, capMu, session, snd, sndSet,
                         fwd, cfg, capSel, capSet, call, td, drain>>
      BY <2>19 DEF BuildOne, locks, sessVars, confVars, capVars, tdVars, callVars, bounds
    <3> HIDE DEF p, l
    <3>6. Opened(l) \in PipeRec /\ Opened(l).state = "playing" /\ Opened(l).legs = l /\ ~ Opened(l).claimed
      <4>1. NoPipe \in PipeRec /\ ~ NoPipe.claimed
        BY PipesMove DEF CapInv
      <4>2. QED
        BY <3>4, <4>1 DEF Opened, PipeRec
    <3>7. /\ pipe' \in [Pipes -> PipeRec]
          /\ pipe'[p] = Opened(l)
          /\ \A q \in Pipes : q # p => pipe'[q] = pipe[q]
      BY <3>3, <3>5, <3>6 DEF CapInv, Types
    <3>8. /\ built' \in SetRec
          /\ built'.picture = (IF l.picture # "none" THEN p ELSE built.picture)
          /\ built'.commentary = (IF l.commentary # "none" THEN p ELSE built.commentary)
      <4>1. built \in SetRec /\ p \in 0 .. MaxPipes
        BY <3>3, SessionAssumption DEF CapInv, Types, Pipes
      <4>2. QED
        BY <3>5, <4>1 DEF SetRec
    <3>9. Playing' = Playing \cup {p}
      BY <3>3, <3>6, <3>7 DEF Playing
    <3>10. Playing' \subseteq PipesOf(capSet') \cup PipesOf(built')
      <4>1. ASSUME NEW q \in Playing
            PROVE  q \in PipesOf(built')
        BY <3>2, <3>4, <3>8 DEF CapInv, PlanInv, PipesOf
      <4>2. p \in PipesOf(built')
        <5>1. l.picture # "none" \/ l.commentary # "none"
          BY <3>4 DEF CapInv, PlanInv, NoLegs, Legs
        <5>2. QED
          BY <3>3, <3>8, <5>1 DEF PipesOf
      <4>3. QED
        BY <3>9, <4>1, <4>2
    <3>11. PlanInv'
      <4>1. ASSUME NEW i \in 1 .. Len(plan')
            PROVE  /\ i + 1 \in 1 .. Len(plan) /\ i + 1 # 1 /\ plan'[i] = plan[i + 1]
        BY <3>4, <3>5
      <4>2. 1 \in 1 .. Len(plan)
        BY <3>4
      <4>3. ASSUME NEW i \in 1 .. Len(plan')
            PROVE  /\ plan'[i] # NoLegs
                   /\ plan'[i].picture # "none" => built'.picture = 0
                   /\ plan'[i].commentary # "none" => built'.commentary = 0
                   /\ HasCard(plan'[i]) => \A q \in Playing' : ~ HasCard(pipe'[q].legs)
        <5>1. /\ plan[i + 1] # NoLegs
              /\ plan[i + 1].picture # "none" => built'.picture = 0
              /\ plan[i + 1].commentary # "none" => built'.commentary = 0
          BY <3>4, <3>8, <4>1, <4>2 DEF CapInv, PlanInv
        <5>2. HasCard(plan[i + 1]) => ~ HasCard(l) /\ \A q \in Playing : ~ HasCard(pipe[q].legs)
          BY <3>4, <4>1, <4>2 DEF CapInv, PlanInv
        <5>3. QED
          BY <3>6, <3>7, <3>9, <3>3, <4>1, <5>1, <5>2 DEF Playing
      <4>4. \A i, j \in 1 .. Len(plan') : i # j =>
              /\ ~ (HasCard(plan'[i]) /\ HasCard(plan'[j]))
              /\ plan'[i].picture = "none" \/ plan'[j].picture = "none"
              /\ plan'[i].commentary = "none" \/ plan'[j].commentary = "none"
        <5> TAKE i, j \in 1 .. Len(plan')
        <5>1. /\ i + 1 \in 1 .. Len(plan) /\ plan'[i] = plan[i + 1]
              /\ j + 1 \in 1 .. Len(plan) /\ plan'[j] = plan[j + 1] /\ (i # j => i + 1 # j + 1)
          BY <4>1
        <5>2. QED
          BY <5>1 DEF CapInv, PlanInv
      <4>5. \A q, r \in Playing' : HasCard(pipe'[q].legs) /\ HasCard(pipe'[r].legs) => q = r
        <5>1. HasCard(l) => \A q \in Playing : ~ HasCard(pipe[q].legs)
          BY <3>4, <4>2 DEF CapInv, PlanInv
        <5>2. QED
          BY <3>3, <3>6, <3>7, <3>9, <5>1 DEF CapInv, PlanInv, Playing
      <4>6. QED
        BY <4>3, <4>4, <4>5 DEF PlanInv
    <3>12. Moves(a, "build")
      BY <3>1, <3>5 DEF Moves, CapInv, Types
    <3>13. QED
      BY <2>11, <3>1, <3>2, <3>4, <3>5, <3>6, <3>7, <3>8, <3>10, <3>11, <3>12
         DEF CapPcs, CapInv, Types
  <2>20. ASSUME NEW a \in Actors, BuildFails(a)
         PROVE  CapInv'
    <3>1. call[a].pc = "build"
      BY <2>20 DEF BuildOne, BuildFails, Adopt
    <3>2. /\ sessMu = a /\ capMu = a /\ capSet = NoSet
          /\ \A p \in Pipes : ~ pipe[p].claimed
          /\ Playing \subseteq PipesOf(built)
      BY <3>1, <2>1, <2>3, <2>13 DEF CapInv, LockInv, SetInv, CapPcs, SeamPcs
    <3>3. /\ pipe' = Halt(PipesOf(built)) /\ built' = NoSet
          /\ UNCHANGED <<closing, abandoned, sessionUp, session, snd, sndSet, fwd, cfg, capSel,
                         capSet, td, drain>>
          /\ \/ \E c \in Sources : plan' = PlanCapture(c) /\ UNCHANGED <<call, sessMu, capMu>>
             \/ plan' = <<>> /\ Goto(a, "idle") /\ Release(a) /\ capMu' = "nobody"
      <4>1. [captureConfig EXCEPT !.video = "slate"] \in Sources
        BY <2>13 DEF Sources
      <4>2. QED
        BY <2>20, <4>1
           DEF BuildFails, Discard, RebuildFails, locks, sessVars, confVars, capVars, tdVars,
               callVars, bounds
    <3>4. /\ pipe' \in [Pipes -> PipeRec]
          /\ \A p \in Pipes : p \notin PipesOf(built) => pipe'[p] = pipe[p]
          /\ \A p \in Pipes : p \in PipesOf(built) => pipe'[p].state # "playing" /\ ~ pipe'[p].claimed
      BY <3>3, PipesMove DEF CapInv
    <3>5. Playing' = {} /\ \A p \in Pipes : ~ pipe'[p].claimed
      BY <3>2, <3>4 DEF Playing
    <3>6. ASSUME NEW c \in Sources, plan' = PlanCapture(c), UNCHANGED <<call, sessMu, capMu>>
          PROVE  CapInv'
      <4>1. plan' \in Seq(Legs) /\ PlanInv'
        BY <3>3, <3>5, <3>6, <2>12, <2>14
      <4>2. Moves(a, "build")
        BY <3>1, <3>6 DEF Moves, CapInv, Types
      <4>3. QED
        BY <2>11, <2>13, <3>1, <3>2, <3>3, <3>4, <3>5, <3>6, <4>1, <4>2 DEF CapPcs
    <3>7. ASSUME plan' = <<>>, Goto(a, "idle"), Release(a), capMu' = "nobody"
          PROVE  CapInv'
      <4>1. PlanInv'
        BY <3>3, <3>5, <3>7, <2>13, <2>14
      <4>2. Moves(a, "idle") /\ sessMu' = "nobody"
        BY <3>2, <3>7, CallMoves DEF CapInv, FreePcs, Release
      <4>3. QED
        BY <2>11, <2>13, <3>1, <3>2, <3>3, <3>4, <3>5, <3>7, <4>1, <4>2
           DEF CapPcs, CapInv, Types
    <3>8. QED
      BY <3>3, <3>6, <3>7
  <2>21. ASSUME NEW a \in Actors, Adopt(a)
         PROVE  CapInv'
    <3>1. call[a].pc = "build"
      BY <2>21 DEF BuildOne, BuildFails, Adopt
    <3>2. /\ sessMu = a /\ capMu = a /\ capSet = NoSet
          /\ \A p \in Pipes : ~ pipe[p].claimed
          /\ Playing \subseteq PipesOf(built)
      BY <3>1, <2>1, <2>3, <2>13 DEF CapInv, LockInv, SetInv, CapPcs, SeamPcs
    <3>3. /\ plan = <<>> /\ capSet' = built /\ capMu' = "nobody" /\ built' = NoSet
          /\ pipe' = Halt(PipesOf(built)) \/ pipe' = pipe
          /\ UNCHANGED <<closing, abandoned, sessionUp, session, snd, sndSet, fwd, cfg, capSel,
                         plan, td>>
          /\ \/ Goto(a, "reread") /\ sessMu' = sessMu
             \/ Goto(a, "idle") /\ Release(a)
      BY <2>21 DEF Adopt, locks, sessVars, confVars, capVars, tdVars, callVars, bounds
    <3>4. /\ pipe' \in [Pipes -> PipeRec]
          /\ \A p \in Pipes : ~ pipe'[p].claimed
          /\ Playing' \subseteq Playing
          /\ \A p \in Playing' : pipe'[p] = pipe[p]
      <4>1. CASE pipe' = pipe
        BY <3>2, <4>1 DEF Playing, CapInv, Types
      <4>2. CASE pipe' = Halt(PipesOf(built))
        <5>1. /\ pipe' \in [Pipes -> PipeRec]
              /\ \A p \in Pipes : p \notin PipesOf(built) => pipe'[p] = pipe[p]
              /\ \A p \in Pipes : p \in PipesOf(built) => pipe'[p].state # "playing" /\ ~ pipe'[p].claimed
          BY <4>2, PipesMove DEF CapInv
        <5>2. QED
          BY <3>2, <5>1 DEF Playing
      <4>3. QED
        BY <3>3, <4>1, <4>2
    <3>5. PlanInv'
      BY <3>3, <3>4 DEF CapInv, PlanInv
    <3>6. PICK label \in {"reread", "idle"} : /\ Moves(a, label)
                                              /\ sessMu' = IF label = "idle" THEN "nobody" ELSE a
      BY <3>2, <3>3, CallMoves DEF CapInv, FreePcs, SessPcs, Release
    <3>7. QED
      BY <2>11, <2>13, <3>1, <3>2, <3>3, <3>4, <3>5, <3>6 DEF CapPcs, CapInv, Types
  <2>22. /\ \A m, k \in fwd : m = k
         /\ sessMu = "nobody" => \A a \in Actors : call[a].pc \notin SessPcs
         /\ \A a, b \in Actors : call[a].pc \in CapPcs => call[b].pc \notin SessPcs \ CapPcs
         /\ sessMu = "nobody" => \A m \in fwd : session = m
    <3>1. sessMu = "nobody" => \A a \in Actors : call[a].pc \notin SessPcs
      BY <2>1 DEF CapInv, LockInv
    <3>2. ASSUME NEW m \in fwd
          PROVE  /\ m \in Sessions /\ m # 0
                 /\ session # 0 => session = m
                 /\ session = 0 => \E a \in Actors : Stops(a, m)
      BY <2>1, <3>1 DEF CapInv, Types, LockInv, SessInv, Stops, SessPcs
    <3>3. ASSUME NEW m \in fwd, NEW k \in fwd
          PROVE  m = k
      BY <2>2, <3>2, <3>3 DEF Stops, SessPcs
    <3>4. sessMu = "nobody" => \A m \in fwd : session = m
      BY <3>1, <3>2 DEF Stops, SessPcs
    <3>5. \A a, b \in Actors : call[a].pc \in CapPcs => call[b].pc \notin SessPcs \ CapPcs
      BY <2>2 DEF SessPcs, CapPcs
    <3>6. QED
      BY <3>1, <3>3, <3>4, <3>5
  <2>23. ASSUME NEW a \in Actors, Mint(a)
         PROVE  CapInv'
    <3>1. /\ call[a].pc = "arm" /\ sessMu = a /\ capMu = "nobody" /\ session = 0 /\ fwd = {} /\ a \in Seats \cup {"launch"}
          /\ \A m \in Sessions : snd[m] # "running"
          /\ ~ (td # "none" /\ call["tdStop"].pc = "idle")
          /\ Moves(a, "idle") /\ sessMu' = "nobody" /\ sessionUp'
          /\ \E k \in Sessions : /\ session' = k /\ fwd' = {k}
                                 /\ snd' = [snd EXCEPT ![k] = "running"]
                                 /\ sndSet' = [sndSet EXCEPT ![k] = capSet]
          /\ \A p \in Pipes : pipe[p].claimed <=> p \in PipesOf(capSet)
          /\ \A p \in PipesOf(capSet) : p \in Pipes /\ pipe[p].state = "playing"
          /\ PipesOf(capSet) # {}
          /\ UNCHANGED <<closing, abandoned, capMu, cfg, capSel, capSet, built, pipe, plan, td,
                         drain>>
      <4>1. /\ call[a].pc = "arm" /\ Goto(a, "idle") /\ Release(a) /\ sessionUp' = TRUE
            /\ \A p \in call[a].took : Armable(p)
            /\ UNCHANGED <<closing, abandoned, capMu, cfg, capSel, capSet, built, pipe, plan,
                           td, drain>>
        BY <2>23 DEF Mint, locks, sessVars, confVars, capVars, tdVars, callVars, bounds
      <4>2. /\ call[a].took = PipesOf(call[a].set) /\ call[a].took # {}
            /\ call[a].set # capSet => \A p \in PipesOf(call[a].set) : pipe[p].state # "playing"
        BY <4>1 DEF CapInv, ClaimInv, SeamPcs
      <4>3. call[a].set = capSet /\ call[a].took = PipesOf(capSet)
        BY <4>1, <4>2 DEF Armable
      <4>4. PICK s \in Sessions : /\ session' = s /\ fwd' = fwd \cup {s}
                                  /\ snd' = [snd EXCEPT ![s] = "running"]
                                  /\ sndSet' = [sndSet EXCEPT ![s] = capSet]
        <5>1. FreeSessions # {} /\ FreeSessions \in SUBSET Nat /\ FreeSessions \subseteq Sessions
          BY <2>23 DEF Mint, FreeSessions, Sessions
        <5>2. Least(FreeSessions) \in Sessions
          BY <5>1, <2>LeastIsOne
        <5>3. QED
          BY <2>23, <4>3, <5>2 DEF Mint
      <4>5. /\ sessMu = a /\ session = 0 /\ fwd = {} /\ a \in Seats \cup {"launch"}
            /\ \A m \in Sessions : snd[m] # "running"
            /\ \A p \in Pipes : pipe[p].claimed => p \in call[a].took
            /\ ~ (td # "none" /\ call["tdStop"].pc = "idle")
        BY <4>1, <2>3 DEF SeamPcs
      <4>6. capMu = "nobody"
        BY <2>2, <4>1 DEF CapInv, Types, LockInv, SessPcs, CapPcs
      <4>7. Moves(a, "idle") /\ sessMu' = "nobody"
        BY <4>1, <4>5, CallMoves DEF CapInv, FreePcs, Release
      <4>8. \A p \in PipesOf(capSet) : p \in Pipes /\ pipe[p].state = "playing"
        BY <2>13, <4>1, <4>3 DEF Armable, CapInv, Types
      <4>9. \A p \in Pipes : pipe[p].claimed <=> p \in PipesOf(capSet)
        BY <4>1, <4>3, <4>5 DEF CapInv, ClaimInv, Takes, SeamPcs
      <4>10. PipesOf(capSet) # {}
        BY <4>2, <4>3
      <4>11. \E k \in Sessions : /\ session' = k /\ fwd' = {k}
                                 /\ snd' = [snd EXCEPT ![k] = "running"]
                                 /\ sndSet' = [sndSet EXCEPT ![k] = capSet]
        BY <4>4, <4>5
      <4>12. QED
        BY <4>1, <4>5, <4>6, <4>7, <4>8, <4>9, <4>10, <4>11
    <3>2. Types'
      BY <3>1 DEF CapInv, Types, Moves
    <3>3. LockInv'
      BY <3>1, <2>2 DEF CapInv, Types, LockInv, SessPcs, CapPcs, FreePcs, Moves
    <3>4. SetInv'
      BY <3>1, <2>4 DEF CapInv, Types, SetInv, Playing, Moves, SessPcs
    <3>5. PlanInv'
      <4>1. Playing' = Playing /\ UNCHANGED <<plan, built>>
        BY <3>1 DEF Playing
      <4>2. \A p \in Playing : pipe'[p].legs = pipe[p].legs
        BY <3>1 DEF Playing
      <4>3. QED
        BY <4>1, <4>2 DEF CapInv, PlanInv
    <3>6. SessInv'
      BY SMTT(30), <3>1, <2>2, <2>3, <2>1
      DEF CapInv, Types, LockInv, SessInv, Stops, SessPcs, Moves, PipesOf
    <3>7. QuitInv'
      BY <3>1, <2>1 DEF CapInv, Types, LockInv, QuitInv, SessPcs, Moves
    <3>8. SeamIsNeverCut'
      BY <3>1, <2>3 DEF CapInv, SeamIsNeverCut, Types
    <3>Claims. ClaimInv'
      <4>1. \A b \in Actors : call'[b].pc \notin SeamPcs
        BY <3>1, <2>2 DEF Moves, SessPcs, SeamPcs
      <4>2. \A p \in Pipes : pipe'[p].claimed => snd'[session'] = "running" /\ p \in PipesOf(sndSet'[session'])
        BY <3>1 DEF CapInv, Types
      <4>3. QED
        BY <3>1, <4>1, <4>2 DEF ClaimInv, Takes, SeamPcs
    <3>9. QED
      BY <3>2, <3>3, <3>4, <3>5, <3>6, <3>7, <3>8, <3>Claims DEF CapInv
  <2>24. ASSUME NEW m \in Sessions, snd[m] = "running", EndSender(m), NEW a \in Actors,
               \/ call' = call
               \/ call[a].pc = "stopping" /\ Moves(a, "wait") /\ call'[a].session = call[a].session
                  /\ call[a].session = m,
               UNCHANGED <<closing, abandoned, sessionUp, sessMu, capMu, session, fwd, cfg,
                           capSel, capSet, built, plan, td, drain>>
         PROVE  CapInv'
    <3>1. /\ call' \in [Actors -> CallRec]
          /\ \A b \in Actors : call'[b] = call[b] \/ (b = a /\ call[b].pc = "stopping" /\ call'[b].pc = "wait" /\ call'[b].session = call[b].session)
          /\ snd' \in [Sessions -> {"none", "running", "ended"}] /\ sndSet' \in [Sessions -> SetRec]
          /\ \A k \in Sessions : snd'[k] # "running"
          /\ pipe' \in [Pipes -> PipeRec]
          /\ \A p \in Pipes : pipe'[p].state = pipe[p].state /\ pipe'[p].legs = pipe[p].legs
          /\ \A p \in Pipes : ~ pipe'[p].claimed
          /\ UNCHANGED <<closing, abandoned, sessionUp, sessMu, capMu, session, fwd, cfg,
                         capSel, capSet, built, plan, td, drain>>
      <4>1. \A k \in Sessions : snd[k] = "running" => k = m
        BY <2>24, <2>22 DEF CapInv, SessInv
      <4>2. /\ snd' = [snd EXCEPT ![m] = "ended"] /\ sndSet' = [sndSet EXCEPT ![m] = NoSet]
            /\ pipe' = Claim(PipesOf(sndSet[m]), FALSE)
        BY <2>24 DEF EndSender
      <4>3. /\ pipe' \in [Pipes -> PipeRec]
            /\ \A p \in Pipes : p \notin PipesOf(sndSet[m]) => pipe'[p] = pipe[p]
            /\ \A p \in Pipes : p \in PipesOf(sndSet[m]) => pipe'[p].claimed = FALSE
            /\ \A p \in Pipes : pipe'[p].state = pipe[p].state /\ pipe'[p].legs = pipe[p].legs
        BY <4>2, PipesMove DEF CapInv
      <4>4. \A p \in Pipes : ~ pipe'[p].claimed
        <5>1. \A b \in Actors : call[b].pc \notin SeamPcs
          BY <2>3, <2>24
        <5>2. \A p \in Pipes : pipe[p].claimed => p \in PipesOf(sndSet[m])
          BY <4>1, <5>1 DEF CapInv, ClaimInv, Takes
        <5>3. QED
          BY <4>3, <5>2
      <4>5. /\ snd' \in [Sessions -> {"none", "running", "ended"}] /\ sndSet' \in [Sessions -> SetRec]
            /\ \A k \in Sessions : snd'[k] # "running"
        BY <4>1, <4>2, <2>13 DEF CapInv, Types
      <4>6. /\ call' \in [Actors -> CallRec]
            /\ \A b \in Actors : \/ call'[b] = call[b]
                                 \/ /\ b = a /\ call[b].pc = "stopping" /\ call'[b].pc = "wait"
                                    /\ call'[b].session = call[b].session
        BY <2>24 DEF Moves, CapInv, Types
      <4>7. QED
        BY <2>24, <4>3, <4>4, <4>5, <4>6
    <3>2. Types'
      BY <3>1 DEF CapInv, Types, Moves
    <3>3. LockInv'
      BY <3>1, <2>2 DEF CapInv, Types, LockInv, SessPcs, CapPcs, FreePcs, Moves
    <3>4. SetInv'
      BY <3>1 DEF CapInv, Types, SetInv, Playing, Moves
    <3>5. PlanInv'
      <4>1. Playing' = Playing /\ UNCHANGED <<plan, built>>
        BY <3>1 DEF Playing
      <4>2. \A p \in Playing : pipe'[p].legs = pipe[p].legs
        BY <3>1 DEF Playing
      <4>3. QED
        BY <4>1, <4>2 DEF CapInv, PlanInv
    <3>6. SessInv'
      BY <3>1, <2>2, <2>3 DEF CapInv, Types, LockInv, SessInv, Stops, SessPcs, Moves
    <3>7. QuitInv'
      BY <3>1, <2>1 DEF CapInv, Types, LockInv, QuitInv, SessPcs, Moves
    <3>8. SeamIsNeverCut'
      BY <3>1, <2>3 DEF CapInv, SeamIsNeverCut
    <3>Claims. ClaimInv'
      <4>1. \A b \in Actors : call[b].pc \notin SeamPcs
        BY <2>3, <2>24
      <4>2. \A b \in Actors : call'[b].pc \notin SeamPcs
        BY <3>1, <4>1 DEF SeamPcs
      <4>3. QED
        BY <3>1, <4>2 DEF ClaimInv, Takes, SeamPcs
    <3>9. QED
      BY <3>2, <3>3, <3>4, <3>5, <3>6, <3>7, <3>8, <3>Claims DEF CapInv
  <2>25. ASSUME NEW k \in Sessions, SenderGivesUp(k)
         PROVE  CapInv'
    <3>1. /\ snd[k] = "running" /\ EndSender(k)
          /\ UNCHANGED <<closing, abandoned, sessionUp, sessMu, capMu, session, fwd, cfg,
                         capSel, capSet, built, call, plan, td, drain>>
      BY <2>25 DEF SenderGivesUp, locks, sessVars, confVars, capVars, tdVars, callVars, bounds
    <3>2. QED
      BY <2>1, <2>24, <3>1
  <2>26. ASSUME NEW k \in Sessions, ForwarderEnds(k)
         PROVE  CapInv'
    <3>1. /\ fwd' = {} /\ \A j \in Sessions : snd[j] # "running"
          /\ sessionUp' \in BOOLEAN
          /\ UNCHANGED <<closing, abandoned, sessMu, capMu, session, snd, sndSet, cfg, capSel,
                         capSet, built, pipe, call, plan, td, drain>>
      <4>1. /\ k \in fwd /\ snd[k] = "ended" /\ fwd' = fwd \ {k}
            /\ UNCHANGED <<closing, abandoned, sessMu, capMu, session, snd, sndSet, cfg,
                           capSel, capSet, built, pipe, call, plan, td, drain>>
        BY <2>26 DEF ForwarderEnds, locks, sessVars, confVars, capVars, tdVars, callVars, bounds
      <4>2. sessionUp' \in BOOLEAN
        BY <2>26, Zenon DEF ForwarderEnds
      <4>3. QED
        BY <4>1, <4>2, <2>22 DEF CapInv, SessInv
    <3>2. Types'
      BY <3>1 DEF CapInv, Types, Moves
    <3>3. LockInv'
      BY <3>1, <2>2 DEF CapInv, Types, LockInv, SessPcs, CapPcs, FreePcs, Moves
    <3>4. SetInv'
      BY <3>1 DEF CapInv, Types, SetInv, Playing, Moves
    <3>5. PlanInv'
      BY <3>1 DEF CapInv, PlanInv, Playing
    <3>6. SessInv'
      BY <3>1, <2>2, <2>3 DEF CapInv, Types, LockInv, SessInv, Stops, SessPcs, Moves
    <3>7. QuitInv'
      BY <3>1, <2>1 DEF CapInv, Types, LockInv, QuitInv, SessPcs, Moves
    <3>8. SeamIsNeverCut'
      BY <3>1, <2>3 DEF CapInv, SeamIsNeverCut
    <3>Claims. ClaimInv'
      <4>1. \A b \in Actors : /\ call'[b].pc \in SeamPcs <=> call[b].pc \in SeamPcs
                              /\ call[b].pc \in SeamPcs => call'[b] = call[b]
        BY <3>1 DEF SeamPcs
      <4>2. QED
        BY <3>1, <4>1, <2>Seam DEF CapInv, Types
    <3>9. QED
      BY <3>2, <3>3, <3>4, <3>5, <3>6, <3>7, <3>8, <3>Claims DEF CapInv
  <2>27. ASSUME NEW k \in Sessions, Reap(k)
         PROVE  CapInv'
    <3>1. /\ k \notin fwd /\ sessMu = "nobody" /\ snd[k] # "running"
          /\ snd' = [snd EXCEPT ![k] = "none"] /\ session' \in {0, session} /\ (session # k => session' = session)
          /\ UNCHANGED <<closing, abandoned, sessionUp, sessMu, capMu, sndSet, fwd, cfg,
                         capSel, capSet, built, pipe, call, plan, td, drain>>
      BY <2>27
         DEF Reap, CapInv, SessInv, locks, sessVars, confVars, capVars, tdVars, callVars, bounds
    <3>2. Types'
      BY <3>1 DEF CapInv, Types, Moves
    <3>3. LockInv'
      BY <3>1, <2>2 DEF CapInv, Types, LockInv, SessPcs, CapPcs, FreePcs, Moves
    <3>4. SetInv'
      BY <3>1 DEF CapInv, Types, SetInv, Playing, Moves
    <3>5. PlanInv'
      BY <3>1 DEF CapInv, PlanInv, Playing
    <3>6. SessInv'
      BY <3>1, <2>2, <2>3 DEF CapInv, Types, LockInv, SessInv, Stops, SessPcs, Moves
    <3>7. QuitInv'
      BY <3>1, <2>1 DEF CapInv, Types, LockInv, QuitInv, SessPcs, Moves
    <3>8. SeamIsNeverCut'
      BY <3>1, <2>3 DEF CapInv, SeamIsNeverCut
    <3>Claims. ClaimInv'
      <4>1. \A b \in Actors : /\ call'[b].pc \in SeamPcs <=> call[b].pc \in SeamPcs
                              /\ call[b].pc \in SeamPcs => call'[b] = call[b]
        BY <3>1 DEF SeamPcs, CapInv, Types
      <4>2. QED
        BY <3>1, <4>1, <2>Seam DEF CapInv, Types
    <3>9. QED
      BY <3>2, <3>3, <3>4, <3>5, <3>6, <3>7, <3>8, <3>Claims DEF CapInv
  <2>28. ASSUME NEW a \in Actors, StopLock(a)
         PROVE  CapInv'
    <3>1. /\ call[a].pc = "stop" /\ sessMu = "nobody"
          /\ UNCHANGED <<closing, abandoned, sessionUp, capMu, snd, sndSet, fwd, cfg, capSel,
                         capSet, built, pipe, plan, td, drain>>
          /\ \/ session = 0 /\ Goto(a, "idle") /\ UNCHANGED <<sessMu, session>>
             \/ session # 0 /\ sessMu' = a /\ session' = 0 /\ Carry(a, "stopping", "session", session)
      BY <2>28 DEF StopLock, locks, sessVars, confVars, capVars, tdVars, callVars, bounds
    <3>2. \A b \in Actors : call[b].pc \notin SessPcs /\ call[b].pc \notin CapPcs /\ call[b].pc # "build"
      BY <3>1, <2>22 DEF SessPcs, CapPcs
    <3>3. PICK label \in {"idle", "stopping"} :
            /\ Moves(a, label)
            /\ label = "idle" => session = 0 /\ UNCHANGED <<sessMu, session>>
            /\ label = "stopping" => session # 0 /\ sessMu' = a /\ session' = 0 /\ call'[a].session = session
      BY <3>1, CallMoves DEF CapInv, Types, FreePcs, SessPcs
    <3>4. \A b \in Actors : /\ b # a => call'[b] = call[b]
                            /\ call'[b].pc \in SessPcs <=> b = a /\ label = "stopping"
                            /\ call'[b].pc \notin CapPcs /\ call'[b].pc # "build"
                            /\ call'[b].pc \in {"stopping", "wait"} <=> b = a /\ label = "stopping"
                            /\ call'[b].pc # "wait"
                            /\ call'[b].pc \in {"write", "publish"} => b # a
      BY <3>2, <3>3 DEF Moves, SessPcs, CapPcs
    <3>5. Types'
      BY <3>1, <3>3 DEF CapInv, Types, Moves
    <3>6. LockInv'
      BY <2>1, <3>1, <3>2, <3>3, <3>4 DEF CapInv, LockInv
    <3>7. SetInv' /\ PlanInv'
      BY <3>1, <3>2 DEF CapInv, SetInv, PlanInv, Playing
    <3>8. SessInv'
      <4>1. /\ sessionUp' = sessionUp /\ fwd' = fwd /\ snd' = snd /\ sndSet' = sndSet /\ capSet' = capSet
            /\ pipe' = pipe /\ \A m \in fwd : session = m
        BY <2>22, <3>1
      <4>2. \A n \in fwd : sessionUp' /\ (session' = n \/ \E b \in Actors : Stops(b, n)')
        <5>1. \A n \in fwd : n \in Sessions /\ sessionUp
          BY DEF CapInv, Types, SessInv
        <5>2. 0 \notin Sessions
          BY DEF Sessions
        <5>3. CASE label = "idle"
          BY <3>3, <4>1, <5>1, <5>2, <5>3
        <5>4. CASE label = "stopping"
          BY <3>3, <3>4, <4>1, <5>1, <5>4, <2>28 DEF Stops
        <5>5. QED
          BY <5>3, <5>4
      <4>3. \A b \in Actors : call'[b].pc \in {"stopping", "wait"} => call'[b].session \in Sessions
        BY <3>3, <3>4 DEF CapInv, Types
      <4>4. \A b \in Actors : call'[b].pc # "wait"
        BY <3>4
      <4>5. QED
        BY <4>1, <4>2, <4>3, <4>4 DEF CapInv, SessInv
    <3>9. QuitInv'
      BY <2>1, <3>1, <3>3, <3>4 DEF CapInv, QuitInv, Moves
    <3>10. SeamIsNeverCut'
      BY <3>1 DEF CapInv, SeamIsNeverCut
    <3>Claims. ClaimInv'
      <4>1. \A b \in Actors : /\ call'[b].pc \in SeamPcs <=> call[b].pc \in SeamPcs
                              /\ call[b].pc \in SeamPcs => call'[b] = call[b]
        BY <3>1, <3>2, <3>4 DEF SessPcs, SeamPcs
      <4>2. QED
        BY <3>1, <3>2, <3>4, <4>1, <2>Seam DEF CapInv, Types
    <3>11. QED
      BY <3>5, <3>6, <3>7, <3>8, <3>9, <3>10, <3>Claims DEF CapInv
  <2>29. ASSUME NEW a \in Actors, call[a].pc = "stopping", snd[call[a].session] # "running", Goto(a, "wait"),
               UNCHANGED <<closing, abandoned, sessionUp, sessMu, capMu, session, snd, sndSet,
                           fwd, cfg, capSel, capSet, built, pipe, plan, td, drain>>
         PROVE  CapInv'
    <3>1. /\ Moves(a, "wait") /\ call'[a].session = call[a].session
          /\ UNCHANGED <<closing, abandoned, sessionUp, sessMu, capMu, session, snd, sndSet,
                         fwd, cfg, capSel, capSet, built, pipe, plan, td, drain>>
      BY <2>29, CallMoves DEF CapInv, SessPcs
    <3>2. Types'
      BY <3>1, <2>29 DEF CapInv, Types, Moves
    <3>3. LockInv'
      BY SMTT(30), <3>1, <2>2, <2>29 DEF CapInv, Types, LockInv, SessPcs, CapPcs, FreePcs, Moves
    <3>4. SetInv'
      BY <3>1, <2>29 DEF CapInv, Types, SetInv, Playing, Moves
    <3>5. PlanInv'
      BY <3>1, <2>29 DEF CapInv, PlanInv, Playing
    <3>6. SessInv'
      BY <3>1, <2>2, <2>3, <2>29 DEF CapInv, Types, LockInv, SessInv, Stops, SessPcs, Moves
    <3>7. QuitInv'
      BY <3>1, <2>1, <2>29, <2>1 DEF CapInv, Types, LockInv, QuitInv, SessPcs, Moves
    <3>8. SeamIsNeverCut'
      BY <3>1, <2>3, <2>29 DEF CapInv, SeamIsNeverCut
    <3>Claims. ClaimInv'
      <4>1. \A b \in Actors : /\ call'[b].pc \in SeamPcs <=> call[b].pc \in SeamPcs
                              /\ call[b].pc \in SeamPcs => call'[b] = call[b]
        BY <3>1, <2>29 DEF Moves, SeamPcs
      <4>2. QED
        BY <3>1, <2>29, <4>1, <2>Seam DEF CapInv, Types
    <3>9. QED
      BY <3>2, <3>3, <3>4, <3>5, <3>6, <3>7, <3>8, <3>Claims DEF CapInv
  <2>30. ASSUME NEW a \in Actors, StopSender(a)
         PROVE  CapInv'
    <3>1. /\ call[a].pc = "stopping" /\ Goto(a, "wait") /\ call[a].session \in Sessions
          /\ UNCHANGED <<closing, abandoned, sessionUp, sessMu, capMu, session, fwd, cfg,
                         capSel, capSet, built, plan, td, drain>>
          /\ IF snd[call[a].session] = "running" THEN EndSender(call[a].session)
             ELSE UNCHANGED <<snd, sndSet, pipe>>
      BY <2>30
         DEF StopSender, CapInv, SessInv, locks, sessVars, confVars, capVars, tdVars, callVars,
             bounds
    <3>2. Moves(a, "wait") /\ call'[a].session = call[a].session
      BY <3>1, CallMoves DEF CapInv, SessPcs
    <3>3. QED
      BY <2>24, <2>29, <3>1, <3>2
  <2>31. ASSUME NEW a \in Actors, StopJoins(a)
         PROVE  CapInv'
    <3>1. /\ call[a].pc = "wait" /\ sessMu = a /\ session = 0 /\ fwd = {} /\ Moves(a, "idle") /\ sessMu' = "nobody"
          /\ UNCHANGED <<closing, abandoned, sessionUp, capMu, session, snd, sndSet, fwd, cfg,
                         capSel, capSet, built, pipe, plan, td, drain>>
      <4>1. /\ call[a].pc = "wait" /\ call[a].session \notin fwd /\ Goto(a, "idle") /\ Release(a)
            /\ UNCHANGED <<closing, abandoned, sessionUp, capMu, session, snd, sndSet, fwd,
                           cfg, capSel, capSet, built, pipe, plan, td, drain>>
        BY <2>31 DEF StopJoins, locks, sessVars, confVars, capVars, tdVars, callVars, bounds
      <4>2. sessMu = a /\ session = 0
        BY <4>1, <2>1 DEF CapInv, LockInv, SessPcs
      <4>3. fwd = {}
        BY <2>1, <2>2, <4>1, <4>2 DEF CapInv, Types, SessInv, Stops, SessPcs
      <4>4. Moves(a, "idle") /\ sessMu' = "nobody"
        BY <4>1, <4>2, CallMoves DEF CapInv, FreePcs, Release
      <4>5. QED
        BY <4>1, <4>2, <4>3, <4>4
    <3>2. Types'
      BY <3>1 DEF CapInv, Types, Moves
    <3>3. LockInv'
      BY <3>1, <2>2, <2>1 DEF CapInv, Types, LockInv, SessPcs, CapPcs, FreePcs, Moves
    <3>4. SetInv'
      BY <3>1 DEF CapInv, Types, SetInv, Playing, Moves
    <3>5. PlanInv'
      BY <3>1 DEF CapInv, PlanInv, Playing
    <3>6. SessInv'
      BY <3>1, <2>2, <2>3 DEF CapInv, Types, LockInv, SessInv, Stops, SessPcs, Moves
    <3>7. QuitInv'
      BY <3>1, <2>1 DEF CapInv, Types, LockInv, QuitInv, SessPcs, Moves
    <3>8. SeamIsNeverCut'
      BY <3>1, <2>3 DEF CapInv, SeamIsNeverCut
    <3>Claims. ClaimInv'
      <4>1. \A b \in Actors : /\ call'[b].pc \in SeamPcs <=> call[b].pc \in SeamPcs
                              /\ call[b].pc \in SeamPcs => call'[b] = call[b]
        BY <3>1 DEF Moves, SeamPcs
      <4>2. QED
        BY <3>1, <4>1, <2>Seam DEF CapInv, Types
    <3>9. QED
      BY <3>2, <3>3, <3>4, <3>5, <3>6, <3>7, <3>8, <3>Claims DEF CapInv
  <2>32. ASSUME NEW p \in Pipes, NEW r \in PipeRec, pipe' = [pipe EXCEPT ![p] = r],
               r.state = "playing" <=> pipe[p].state = "playing", r.claimed <=> pipe[p].claimed,
               pipe[p].state = "playing" => r.legs = pipe[p].legs,
               drain' \subseteq drain,
               UNCHANGED <<closing, abandoned, sessionUp, sessMu, capMu, session, snd, sndSet,
                           fwd, cfg, capSel, capSet, built, call, plan, td>>
         PROVE  CapInv'
    <3>1. /\ pipe' \in [Pipes -> PipeRec] /\ drain' \subseteq drain
          /\ \A q \in Pipes : pipe'[q].state = "playing" <=> pipe[q].state = "playing"
          /\ \A q \in Pipes : pipe'[q].claimed <=> pipe[q].claimed
          /\ \A q \in Playing : pipe'[q].legs = pipe[q].legs
          /\ UNCHANGED <<closing, abandoned, sessionUp, sessMu, capMu, session, snd, sndSet,
                         fwd, cfg, capSel, capSet, built, call, plan, td>>
      BY <2>32 DEF CapInv, Types, Playing
    <3>2. Types'
      BY <3>1 DEF CapInv, Types, Moves
    <3>3. LockInv'
      BY <3>1, <2>2 DEF CapInv, Types, LockInv, SessPcs, CapPcs, FreePcs, Moves
    <3>4. SetInv'
      BY <3>1 DEF CapInv, Types, SetInv, Playing, Moves
    <3>5. PlanInv'
      <4>1. Playing' = Playing /\ UNCHANGED <<plan, built>>
        BY <3>1 DEF Playing
      <4>2. \A q \in Playing : pipe'[q].legs = pipe[q].legs
        BY <3>1
      <4>3. QED
        BY <4>1, <4>2 DEF CapInv, PlanInv
    <3>6. SessInv'
      BY <3>1, <2>2, <2>3 DEF CapInv, Types, LockInv, SessInv, Stops, SessPcs, Moves
    <3>7. QuitInv'
      BY <3>1, <2>1 DEF CapInv, Types, LockInv, QuitInv, SessPcs, Moves
    <3>8. SeamIsNeverCut'
      BY <3>1, <2>3, <2>13 DEF CapInv, SeamIsNeverCut, Types
    <3>Claims. ClaimInv'
      <4>1. \A b \in Actors : /\ call'[b].pc \in SeamPcs <=> call[b].pc \in SeamPcs
                              /\ call[b].pc \in SeamPcs => call'[b] = call[b]
        BY <3>1 DEF SeamPcs
      <4>2. QED
        BY <3>1, <4>1, <2>Seam DEF CapInv, Types
    <3>9. QED
      BY <3>2, <3>3, <3>4, <3>5, <3>6, <3>7, <3>8, <3>Claims DEF CapInv
  <2>33. ASSUME NEW p \in Pipes, NEW l \in SUBSET LegsOf(p), Fault(p, l)
         PROVE  CapInv'
    <3> DEFINE r == [pipe[p] EXCEPT !.dead = pipe[p].dead \cup l, !.queue = pipe[p].queue + 1]
    <3>1. pipe[p] \in PipeRec /\ l \subseteq {"picture", "commentary"}
      BY DEF CapInv, Types, LegsOf
    <3>2. /\ r \in PipeRec /\ r.state = pipe[p].state /\ r.claimed = pipe[p].claimed
          /\ r.legs = pipe[p].legs
      <4>1. pipe[p].dead \subseteq {"picture", "commentary"} /\ pipe[p].queue \in Nat
        BY <3>1 DEF PipeRec
      <4>2. pipe[p].dead \cup l \in SUBSET {"picture", "commentary"} /\ pipe[p].queue + 1 \in Nat
        <5>1. \A D, E, X : D \subseteq X /\ E \subseteq X => D \cup E \in SUBSET X
          OBVIOUS
        <5>2. pipe[p].dead \cup l \in SUBSET {"picture", "commentary"}
          BY <3>1, <4>1, <5>1, Zenon
        <5>3. QED
          BY <4>1, <5>2
      <4>3. QED
        BY <3>1, <4>2 DEF PipeRec
    <3>3. pipe' = [pipe EXCEPT ![p] = r] /\ UNCHANGED <<closing, abandoned, sessionUp, sessMu,
                                                        capMu, session, snd, sndSet, fwd, cfg,
                                                        capSel, capSet, built, call, plan, td,
                                                        drain>>
      BY <2>33 DEF Fault, locks, sessVars, confVars, capVars, tdVars, callVars, bounds
    <3> HIDE DEF r
    <3>4. QED
      BY <2>32, <3>2, <3>3
  <2>34. ASSUME NEW p \in Pipes, DrainTakes(p)
         PROVE  CapInv'
    <3> DEFINE r == [pipe[p] EXCEPT !.queue = pipe[p].queue - 1]
    <3>1. pipe[p] \in PipeRec /\ pipe[p].queue > 0
      BY <2>34 DEF DrainTakes, CapInv, Types
    <3>2. /\ r \in PipeRec /\ r.state = pipe[p].state /\ r.claimed = pipe[p].claimed
          /\ r.legs = pipe[p].legs
      BY <3>1 DEF PipeRec
    <3>3. pipe' = [pipe EXCEPT ![p] = r] /\ UNCHANGED <<closing, abandoned, sessionUp, sessMu,
                                                        capMu, session, snd, sndSet, fwd, cfg,
                                                        capSel, capSet, built, call, plan, td,
                                                        drain>>
      BY <2>34 DEF DrainTakes, locks, sessVars, confVars, capVars, tdVars, callVars, bounds
    <3> HIDE DEF r
    <3>4. QED
      BY <2>32, <3>2, <3>3
  <2>35. ASSUME NEW p \in Pipes, DrainEnds(p)
         PROVE  CapInv'
    <3> DEFINE r == [NoPipe EXCEPT !.claimed = pipe[p].claimed]
    <3>1. /\ pipe' = [pipe EXCEPT ![p] = r] /\ pipe[p].state = "stopped" /\ drain' \subseteq drain
          /\ UNCHANGED <<closing, abandoned, sessionUp, sessMu, capMu, session, snd, sndSet,
                         fwd, cfg, capSel, capSet, built, call, plan, td>>
      BY <2>35 DEF DrainEnds, locks, sessVars, confVars, capVars, tdVars, callVars, bounds
    <3>2. r \in PipeRec /\ r.claimed = pipe[p].claimed /\ r.state = "none"
      <4>1. NoPipe \in PipeRec /\ NoPipe.state = "none"
        BY PipesMove DEF CapInv, NoPipe
      <4>2. pipe[p].claimed \in BOOLEAN
        BY DEF CapInv, Types, PipeRec
      <4>3. QED
        BY <4>1, <4>2 DEF PipeRec
    <3> HIDE DEF r
    <3>3. QED
      BY <2>32, <3>1, <3>2
  <2>36. ASSUME Teardown
         PROVE  CapInv'
    <3>1. /\ td = "none" /\ td' = "sender" /\ closing' /\ closing' \in BOOLEAN
          /\ Moves("tdStop", "stop") /\ call["tdStop"].pc = "idle"
          /\ UNCHANGED <<abandoned, sessionUp, sessMu, capMu, session, snd, sndSet, fwd, cfg,
                         capSel, capSet, built, pipe, plan, drain>>
      <4>1. closing' \in BOOLEAN
        BY <2>36, Zenon DEF Teardown
      <4>2. Moves("tdStop", "stop")
        BY <2>36, <2>1, CallMoves DEF Teardown, TdStep, CapInv, FreePcs
      <4>3. call["tdStop"].pc = "idle"
        BY <2>36 DEF Teardown, TdStep, CapInv, QuitInv
      <4>4. QED
        BY <2>36, <4>1, <4>2, <4>3
           DEF Teardown, TdStep, locks, sessVars, confVars, capVars, tdVars, callVars, bounds
    <3>2. Types'
      BY <3>1 DEF CapInv, Types, Moves
    <3>3. LockInv'
      BY <3>1, <2>2, <2>1 DEF CapInv, Types, LockInv, SessPcs, CapPcs, FreePcs, Moves
    <3>4. SetInv'
      BY <3>1, <2>1 DEF CapInv, Types, SetInv, Playing, Moves
    <3>5. PlanInv'
      BY <3>1 DEF CapInv, PlanInv, Playing
    <3>6. SessInv'
      BY SMTT(30), <3>1, <2>2, <2>3, <2>1
         DEF CapInv, Types, LockInv, SessInv, Stops, SessPcs, Moves
    <3>7. QuitInv'
      BY <3>1, <2>1 DEF CapInv, Types, LockInv, QuitInv, SessPcs, Moves
    <3>8. SeamIsNeverCut'
      BY <3>1, <2>3 DEF CapInv, SeamIsNeverCut
    <3>Claims. ClaimInv'
      <4>1. \A b \in Actors : /\ call'[b].pc \in SeamPcs <=> call[b].pc \in SeamPcs
                              /\ call[b].pc \in SeamPcs => call'[b] = call[b]
        BY <3>1 DEF Moves, SeamPcs
      <4>2. QED
        BY <3>1, <4>1, <2>Seam DEF CapInv, Types
    <3>9. QED
      BY <3>2, <3>3, <3>4, <3>5, <3>6, <3>7, <3>8, <3>Claims DEF CapInv
  <2>37. ASSUME SenderStepOver
         PROVE  CapInv'
    <3>1. /\ td = "sender" /\ td' = "capture" /\ abandoned' \in BOOLEAN
          /\ ~ abandoned' => ~ abandoned /\ call["tdStop"].pc = "idle"
          /\ Moves("tdCap", "release") /\ call["tdCap"].pc = "idle"
          /\ UNCHANGED <<closing, sessionUp, sessMu, capMu, session, snd, sndSet, fwd, cfg,
                         capSel, capSet, built, pipe, plan, drain>>
      <4>1. abandoned' \in BOOLEAN
        BY <2>37, Zenon DEF SenderStepOver
      <4>2. Moves("tdCap", "release")
        BY <2>37, <2>1, CallMoves DEF SenderStepOver, TdStep, CapInv, FreePcs
      <4>3. call["tdCap"].pc = "idle"
        BY <2>37 DEF SenderStepOver, TdStep, CapInv, QuitInv
      <4>4. QED
        BY <2>37, <4>1, <4>2, <4>3
           DEF SenderStepOver, TdStep, locks, sessVars, confVars, capVars, tdVars, callVars,
               bounds
    <3>2. Types'
      BY <3>1 DEF CapInv, Types, Moves
    <3>3. LockInv'
      BY <3>1, <2>2, <2>1 DEF CapInv, Types, LockInv, SessPcs, CapPcs, FreePcs, Moves
    <3>4. SetInv'
      BY <3>1, <2>1 DEF CapInv, Types, SetInv, Playing, Moves
    <3>5. PlanInv'
      BY <3>1 DEF CapInv, PlanInv, Playing
    <3>6. SessInv'
      BY SMTT(30), <3>1, <2>2, <2>3, <2>1
         DEF CapInv, Types, LockInv, SessInv, Stops, SessPcs, Moves
    <3>7. QuitInv'
      BY <3>1, <2>1 DEF CapInv, Types, LockInv, QuitInv, SessPcs, Moves
    <3>8. SeamIsNeverCut'
      BY <3>1, <2>3 DEF CapInv, SeamIsNeverCut
    <3>Claims. ClaimInv'
      <4>1. \A b \in Actors : /\ call'[b].pc \in SeamPcs <=> call[b].pc \in SeamPcs
                              /\ call[b].pc \in SeamPcs => call'[b] = call[b]
        BY <3>1 DEF Moves, SeamPcs
      <4>2. QED
        BY <3>1, <4>1, <2>Seam DEF CapInv, Types
    <3>9. QED
      BY <3>2, <3>3, <3>4, <3>5, <3>6, <3>7, <3>8, <3>Claims DEF CapInv
  <2>38. ASSUME CaptureRelease
         PROVE  CapInv'
    <3>1. /\ call["tdCap"].pc = "release" /\ capMu = "nobody" /\ Goto("tdCap", "idle")
          /\ pipe' = Halt(StopsOf(capSet))
          /\ UNCHANGED <<closing, abandoned, sessionUp, sessMu, capMu, session, snd, sndSet,
                         fwd, cfg, capSel, built, plan, td, drain>>
          /\ IF \E p \in PipesOf(capSet) : Refuses(p) THEN capSet' = capSet ELSE capSet' = NoSet
      BY <2>38 DEF CaptureRelease, locks, sessVars, confVars, capVars, tdVars, callVars, bounds
    <3>2. Moves("tdCap", "idle")
      BY <3>1, <2>1, CallMoves DEF CapInv, FreePcs
    <3>3. /\ pipe' \in [Pipes -> PipeRec]
          /\ \A p \in Pipes : p \notin StopsOf(capSet) => pipe'[p] = pipe[p]
          /\ \A p \in Pipes : p \in StopsOf(capSet) => pipe'[p].state # "playing" /\ ~ pipe'[p].claimed
      BY <3>1, PipesMove DEF CapInv
    <3>4. Playing' \subseteq Playing /\ \A p \in Playing' : pipe'[p] = pipe[p] /\ p \notin StopsOf(capSet)
      BY <3>3 DEF Playing
    <3>5. PipesOf(capSet) \subseteq Pipes /\ (PipesOf(capSet) = {} => capSet = NoSet)
      BY <2>13 DEF CapInv, Types
    <3>6. ASSUME ~ \E p \in PipesOf(capSet) : Refuses(p)
          PROVE  /\ capSet' = NoSet
                 /\ Playing' \cap PipesOf(capSet) = {}
                 /\ \A m \in Sessions : snd[m] = "running" => capSet = NoSet
      <4>1. capSet' = NoSet
        BY <3>1, <3>6
      <4>2. Playing' \cap PipesOf(capSet) = {}
        BY <3>4, <3>6 DEF StopsOf, Playing
      <4>3. \A m \in Sessions : snd[m] = "running" => capSet = NoSet
        BY <3>5, <3>6 DEF CapInv, SessInv, SeamIsNeverCut, Refuses
      <4>4. QED
        BY <4>1, <4>2, <4>3
    <3>7. Types'
      BY <3>1, <3>2, <3>3, <3>6, <2>13 DEF CapInv, Types, Moves
    <3>8. LockInv'
      BY <3>1, <3>2, <2>1 DEF CapInv, LockInv, Moves, SessPcs, CapPcs
    <3>9. SetInv'
      <4>1. \A a \in Actors : call'[a].pc = "build" <=> call[a].pc = "build"
        BY <3>1, <3>2, <2>1 DEF Moves
      <4>2. Playing' \subseteq PipesOf(capSet') \cup PipesOf(built')
        BY <3>1, <3>4, <3>6 DEF CapInv, SetInv
      <4>3. QED
        BY <3>1, <4>1, <4>2 DEF CapInv, SetInv
    <3>10. PlanInv'
      BY <3>1, <3>4 DEF CapInv, PlanInv
    <3>11. SessInv'
      <4>1. \A p \in Pipes : pipe'[p].claimed => pipe[p].claimed
        BY <3>3
      <4>2. \A m \in Sessions : snd[m] = "running" => capSet' = capSet
        BY <3>1, <3>6
      <4>3. \A a \in Actors, m \in Sessions : Stops(a, m)' <=> Stops(a, m)
        BY <3>1, <3>2, <2>1 DEF Stops, Moves
      <4>4. \A a \in Actors : call'[a].pc \in {"stopping", "wait"} => call'[a] = call[a]
        BY <3>1, <3>2, <2>1 DEF Moves
      <4>5. QED
        BY <3>1, <4>1, <4>2, <4>3, <4>4 DEF CapInv, Types, SessInv
    <3>12. QuitInv'
      <4>1. ASSUME td \in {"capture", "join", "exit"}, ~ abandoned
            PROVE  capSet' = NoSet
        <5>1. session = 0 /\ sessMu = "nobody"
          BY <4>1 DEF CapInv, QuitInv
        <5>2. fwd = {}
          BY <5>1, <2>1, <2>22 DEF CapInv, Types
        <5>3. \A a \in Actors : call[a].pc \notin SeamPcs
          BY <2>22, <5>1 DEF SessPcs, SeamPcs
        <5>4. ~ \E p \in PipesOf(capSet) : Refuses(p)
          BY <3>5, <5>2, <5>3 DEF CapInv, SessInv, ClaimInv, Takes, Refuses
        <5>5. QED
          BY <3>6, <5>4
      <4>2. QED
        BY <2>1, <3>1, <3>2, <4>1 DEF CapInv, QuitInv, Moves
    <3>13. SeamIsNeverCut'
      BY <3>1, <3>3, <3>5 DEF CapInv, SessInv, SeamIsNeverCut, StopsOf, Refuses
    <3>Claims. ClaimInv'
      <4>1. \A p \in Pipes : /\ pipe'[p].claimed <=> pipe[p].claimed
                             /\ pipe'[p].state = "playing" => pipe[p].state = "playing"
        BY <3>3 DEF StopsOf, Refuses
      <4>2. \A b \in Actors : /\ call'[b].pc \in SeamPcs <=> call[b].pc \in SeamPcs
                              /\ call[b].pc \in SeamPcs => call'[b] = call[b]
        BY <3>1, <3>2, <2>1 DEF Moves, SeamPcs
      <4>3. capSet' = capSet \/ \A p \in PipesOf(capSet) : pipe'[p].state # "playing"
        BY <3>1, <3>5, <3>6 DEF Playing
      <4>4. QED
        BY <3>1, <4>1, <4>2, <4>3, <2>Seam
    <3>14. QED
      BY <3>7, <3>8, <3>9, <3>10, <3>11, <3>12, <3>13, <3>Claims DEF CapInv
  <2>39. ASSUME CaptureStepOver \/ (Exit /\ td # "exit")
         PROVE  CapInv'
    <3>1. /\ \/ td = "capture" /\ td' = "join" /\ (~ abandoned' => call["tdCap"].pc = "idle")
             \/ td = "join" /\ td' = "exit" /\ (~ abandoned' => drain = {})
          /\ abandoned' \in BOOLEAN /\ (~ abandoned' => ~ abandoned)
          /\ UNCHANGED <<closing, sessionUp, sessMu, capMu, session, snd, sndSet, fwd, cfg,
                         capSel, capSet, built, pipe, call, plan, drain>>
      <4>1. abandoned' \in BOOLEAN
        BY <2>39, Zenon DEF CaptureStepOver, Exit
      <4>2. QED
        BY <2>39, <4>1
           DEF CaptureStepOver, Exit, locks, sessVars, confVars, capVars, tdVars, callVars,
               bounds
    <3>2. Types'
      BY <3>1 DEF CapInv, Types, Moves
    <3>3. LockInv'
      BY <3>1, <2>2 DEF CapInv, Types, LockInv, SessPcs, CapPcs, FreePcs, Moves
    <3>4. SetInv'
      BY <3>1 DEF CapInv, Types, SetInv, Playing, Moves
    <3>5. PlanInv'
      BY <3>1 DEF CapInv, PlanInv, Playing
    <3>6. SessInv'
      BY <3>1, <2>2, <2>3 DEF CapInv, Types, LockInv, SessInv, Stops, SessPcs, Moves
    <3>7. QuitInv'
      BY <3>1, <2>1 DEF CapInv, Types, LockInv, QuitInv, SessPcs, Moves
    <3>8. SeamIsNeverCut'
      BY <3>1, <2>3 DEF CapInv, SeamIsNeverCut
    <3>Claims. ClaimInv'
      <4>1. \A b \in Actors : /\ call'[b].pc \in SeamPcs <=> call[b].pc \in SeamPcs
                              /\ call[b].pc \in SeamPcs => call'[b] = call[b]
        BY <3>1 DEF SeamPcs
      <4>2. QED
        BY <3>1, <4>1, <2>Seam DEF CapInv, Types
    <3>9. QED
      BY <3>2, <3>3, <3>4, <3>5, <3>6, <3>7, <3>8, <3>Claims DEF CapInv
  <2>40. ASSUME UNCHANGED <<closing, abandoned, sessionUp, sessMu, capMu, session, snd, sndSet,
                            fwd, cfg, capSel, capSet, built, pipe, call, plan, td, drain>>
         PROVE  CapInv'
    <3>1. /\ UNCHANGED <<closing, abandoned, sessionUp, sessMu, capMu, session, snd, sndSet,
                         fwd, cfg, capSel, capSet, built, pipe, call, plan, td, drain>>
      BY <2>40
    <3>2. Types'
      BY <3>1 DEF CapInv, Types, Moves
    <3>3. LockInv'
      BY <3>1, <2>2 DEF CapInv, Types, LockInv, SessPcs, CapPcs, FreePcs, Moves
    <3>4. SetInv'
      BY <3>1 DEF CapInv, Types, SetInv, Playing, Moves
    <3>5. PlanInv'
      BY <3>1 DEF CapInv, PlanInv, Playing
    <3>6. SessInv'
      BY <3>1, <2>2, <2>3 DEF CapInv, Types, LockInv, SessInv, Stops, SessPcs, Moves
    <3>7. QuitInv'
      BY <3>1, <2>1 DEF CapInv, Types, LockInv, QuitInv, SessPcs, Moves
    <3>8. SeamIsNeverCut'
      BY <3>1, <2>3 DEF CapInv, SeamIsNeverCut
    <3>Claims. ClaimInv'
      <4>1. \A b \in Actors : /\ call'[b].pc \in SeamPcs <=> call[b].pc \in SeamPcs
                              /\ call[b].pc \in SeamPcs => call'[b] = call[b]
        BY <3>1 DEF SeamPcs
      <4>2. QED
        BY <3>1, <4>1, <2>Seam DEF CapInv, Types
    <3>9. QED
      BY <3>2, <3>3, <3>4, <3>5, <3>6, <3>7, <3>8, <3>Claims DEF CapInv
  <2>41. ASSUME NEW p \in Pipes, DrainPaints(p)
         PROVE  CapInv'
    BY <2>41, <2>40
       DEF DrainPaints, locks, sessVars, confVars, capVars, tdVars, callVars, bounds
  <2>42. CASE UNCHANGED vars
    BY <2>42, <2>40 DEF vars, locks, sessVars, confVars, capVars, tdVars, callVars, bounds
  <2>43. ASSUME NEW a \in Actors, CallStep(a)
         PROVE  CapInv'
    BY <2>43, <2>6, <2>7, <2>9, <2>10, <2>15, <2>16, <2>17, <2>18, <2>19, <2>20, <2>21, <2>23,
       <2>rereads, <2>claims, <2>refused, <2>25, <2>26, <2>27, <2>28, <2>30, <2>31, <2>33, <2>34, <2>35, <2>36, <2>37, <2>38,
       <2>39, <2>41 DEF CallStep
  <2>44. CASE Next
    <3>1. Settings # {}
      BY SessionAssumption
    <3>2. ASSUME NEW a \in Seats,
                 \/ CallStart(a) \/ CallStop(a) \/ CallRestart(a)
                 \/ \E c \in Settings : CallSave(a, c) \/ CallSetVideoSource(a, c.video)
                 \/ \E k \in {"card", "native"} : CallSelect(a, k)
          PROVE  CapInv'
      BY <3>1, <3>2, <2>6, <2>9
    <3>3. ASSUME NEW k \in Sessions, SenderGivesUp(k) \/ SessionEnds(k)
          PROVE  CapInv'
      BY <3>3, <2>25, <2>26, <2>27 DEF SessionEnds
    <3>4. ASSUME NEW p \in Pipes, DrainStep(p) \/ \E l \in SUBSET LegsOf(p) : Fault(p, l)
          PROVE  CapInv'
      BY <3>4, <2>33, <2>34, <2>35, <2>41 DEF DrainStep
    <3>5. CASE Teardown \/ SenderStepOver \/ CaptureRelease \/ CaptureStepOver \/ (Exit /\ td # "exit")
      BY <3>5, <2>36, <2>37, <2>38, <2>39
    <3>6. QED
      BY <2>44, <2>43, <3>2, <3>3, <3>4, <3>5 DEF Next
  <2>45. QED
    BY <2>42, <2>44
<1>1. Init => CapInv
  <2> SUFFICES ASSUME Init PROVE CapInv
    OBVIOUS
  <2>1. NoSet \in SetRec /\ NoPipe \in PipeRec /\ ~ NoPipe.claimed /\ NoPipe.state # "playing"
    <3>1. NoLegs \in Legs
      BY DEF NoLegs, Legs
    <3>2. \A t \in BOOLEAN : [legs |-> NoLegs, state |-> "none", dead |-> {}, claimed |-> t, queue |-> 0] \in PipeRec
      BY <3>1 DEF PipeRec
    <3>3. NoPipe \in PipeRec
      BY <3>2, Zenon DEF NoPipe
    <3>4. NoSet \in SetRec
      BY SessionAssumption DEF NoSet, SetRec
    <3>5. QED
      BY <3>3, <3>4 DEF NoPipe
  <2>2. ASSUME NEW a \in Actors
        PROVE  /\ call[a] \in CallRec
               /\ call[a].pc = (IF a = "launch" THEN "rebuild" ELSE "idle")
    <3>1. 0 \in 0 .. MaxSessions /\ NoSet \in SetRec /\ {} \in SUBSET Pipes
      BY <2>1, SessionAssumption
    <3>2. Idle \in CallRec /\ Idle.pc = "idle"
      BY <3>1 DEF Idle, CallRec, FreePcs, Methods, Selections
    <3>3. [Idle EXCEPT !.pc = "rebuild", !.method = "launch"] \in CallRec
      BY <3>2 DEF CallRec, FreePcs, Methods
    <3>4. [Idle EXCEPT !.pc = "rebuild", !.method = "launch"].pc = "rebuild"
      BY <3>2 DEF CallRec
    <3>5. call[a] = IF a = "launch" THEN [Idle EXCEPT !.pc = "rebuild", !.method = "launch"] ELSE Idle
      BY DEF Init
    <3>6. QED
      BY <3>2, <3>3, <3>4, <3>5
  <2>3. Types
    <3>1. closing \in BOOLEAN /\ abandoned \in BOOLEAN /\ sessionUp \in BOOLEAN
      BY Zenon DEF Init
    <3>2. call \in [Actors -> CallRec]
      BY <2>2 DEF Init
    <3>3. cfg \in Sources
      BY SessionAssumption DEF Init
    <3>4. QED
      BY <2>1, <3>1, <3>2, <3>3 DEF Init, Types, Selections
  <2>4. \A p \in Pipes : ~ pipe[p].claimed /\ pipe[p].state # "playing"
    BY <2>1 DEF Init
  <2>5. \A a \in Actors : call[a].pc \in {"idle", "rebuild"}
    BY <2>2
  <2>6. sessMu \notin Actors /\ capMu \notin Actors /\ "tdStop" \in Actors /\ "tdCap" \in Actors
    BY SessionAssumption DEF Init, Actors
  <2>7. LockInv
    BY <2>5, <2>6 DEF Init, LockInv, SessPcs, CapPcs
  <2>8. SetInv /\ PlanInv
    BY <2>4, <2>5 DEF Init, SetInv, PlanInv, Playing
  <2>9. SessInv /\ ClaimInv /\ SeamIsNeverCut
    BY <2>4, <2>5 DEF Init, SessInv, ClaimInv, Takes, SeamPcs, SeamIsNeverCut
  <2>10. QuitInv
    BY <2>2, <2>6 DEF Init, QuitInv
  <2>11. QED
    BY <2>3, <2>7, <2>8, <2>9, <2>10 DEF CapInv
<1>2. CapInv /\ [Next]_vars => CapInv'
  BY <1>CapStep
<1>3. QED
  BY <1>1, <1>2, PTL DEF Spec

\* The rest of the types: what the switcher said, what the panels show, what is drained and
\* painted, what is left of the bounds; and a leg has failed only where there is one.
RestInv ==
  /\ rootJoined \in BOOLEAN /\ quits \in BOOLEAN /\ calls \in Nat /\ troubles \in Nat
  /\ disk \in Sources /\ reap \subseteq Sessions /\ drain \subseteq Pipes
  /\ {conformTo, capConform, target} \subseteq 0 .. Formats
  /\ shown \in [{"picture", "commentary"} -> {"off", "opening", "live", "failed"}]
  /\ paint \in [Pipes -> SUBSET {"picture", "commentary"}]
  /\ \A p \in Pipes : pipe[p].dead \subseteq LegsOf(p)

\* While a sender runs, every pipeline it draws from plays, and is its own: no order of
\* Stop, rebuilds, selections, faults and an overrunning shutdown takes the proxysinks
\* from under it (capture_cgo.go: Stop's refusal; app.go: teardownCaptureLocked); and
\* every variable of the sessions and the captures is of its type.
THEOREM NobodyCutsTheSeam == Spec => [](TypeOK /\ SeamIsNeverCut)
<1> USE DEF NoSet
<1>1. Formats \in Nat /\ Formats >= 1 /\ 0 \in 0 .. Formats /\ Fallback \in 0 .. Formats
  BY SessionAssumption DEF Fallback
<1>2. Init => RestInv
  <2> SUFFICES ASSUME Init PROVE RestInv
    OBVIOUS
  <2>1. calls \in Nat /\ troubles \in Nat /\ quits \in BOOLEAN /\ disk \in Sources
    BY SessionAssumption DEF Init
  <2>2. \A p \in Pipes : pipe[p].dead \subseteq LegsOf(p)
    BY DEF Init, NoPipe
  <2>3. QED
    BY <1>1, <2>1, <2>2 DEF Init, RestInv, Unsaid
<1>3. CapInv /\ CapInv' /\ RestInv /\ [Next]_vars => RestInv'
  <2> SUFFICES ASSUME CapInv, CapInv', RestInv, [Next]_vars PROVE RestInv'
    OBVIOUS
  <2> DEFINE Lit(l) == [picture |-> l, commentary |-> l]
             Rest == <<rootJoined, quits, calls, troubles, disk, reap, drain, conformTo, capConform, target,
                       shown, paint>>
             Sound(p) == pipe'[p].dead \subseteq {l \in {"picture", "commentary"} : pipe'[p].legs[l] # "none"}
  <2>1. /\ pipe \in [Pipes -> PipeRec] /\ pipe' \in [Pipes -> PipeRec] /\ built \in SetRec /\ capSet \in SetRec
        /\ fwd' \subseteq Sessions /\ plan \in Seq(Legs) /\ call \in [Actors -> CallRec]
        /\ \A a \in Actors : call[a].pc = "write" => call[a].cfg \in Sources
        /\ \A p \in Pipes : pipe[p].dead \subseteq {l \in {"picture", "commentary"} : pipe[p].legs[l] # "none"}
    BY DEF CapInv, Types, LockInv, RestInv, LegsOf
  <2>2. (\A p \in Pipes : Sound(p)) => \A p \in Pipes : (pipe[p].dead \subseteq LegsOf(p))'
    BY DEF LegsOf
  <2>3. ASSUME UNCHANGED pipe PROVE \A p \in Pipes : Sound(p)
    BY <2>1, <2>3
  <2>4. ASSUME NEW S, pipe' = Halt(S) PROVE \A p \in Pipes : Sound(p)
    BY <2>1, <2>4 DEF Halt, NoPipe
  <2>5. ASSUME NEW S, NEW held \in BOOLEAN, pipe' = Claim(S, held) PROVE \A p \in Pipes : Sound(p)
    <3>1. ASSUME NEW p \in Pipes PROVE pipe'[p].dead = pipe[p].dead /\ pipe'[p].legs = pipe[p].legs
      BY <2>1, <2>5 DEF Claim, PipeRec
    <3>2. QED
      BY <2>1, <3>1
  <2>6. ASSUME NEW p \in Pipes, \A q \in Pipes : q # p => pipe'[q] = pipe[q], Sound(p)
        PROVE  \A q \in Pipes : Sound(q)
    BY <2>1, <2>6
  <2>7. \A s \in {"off", "opening", "live", "failed"}, t \in {"off", "opening", "live", "failed"} :
          PublishAll(s, t) => shown' \in [{"picture", "commentary"} -> {"off", "opening", "live", "failed"}]
    BY DEF PublishAll
  <2>8. PipesOf(built) \subseteq Pipes /\ PipesOf(capSet) \subseteq Pipes
    BY <2>1 DEF PipesOf, SetRec, Pipes
  <2>9. conformNow \in 0 .. Formats
    BY <1>1 DEF conformNow, RestInv
  <2>10. ASSUME NEW a \in Seats, NEW m, NEW l, NEW c, Call(a, m, l, c) PROVE calls' \in Nat
    BY <2>10 DEF Call, RestInv
  <2>11. Trouble => troubles' \in Nat
    BY DEF Trouble, RestInv
  <2> HIDE DEF Sound
  <2>12. ASSUME \A p \in Pipes : Sound(p), UNCHANGED Rest PROVE RestInv'
    BY <2>2, <2>12 DEF RestInv
  <2>13. ASSUME NEW a \in Seats,
                \/ CallStart(a) \/ CallStop(a) \/ CallRestart(a)
                \/ \E c \in Settings : CallSave(a, c) \/ CallSetVideoSource(a, c.video)
                \/ \E k \in {"card", "native"} : CallSelect(a, k)
         PROVE  RestInv'
    <3>1. UNCHANGED <<pipe, rootJoined, quits, troubles, disk, reap, drain, capConform, target, shown, paint>>
      BY <2>13 DEF CallStart, CallStop, CallRestart, CallSave, CallSetVideoSource, CallSelect,
                   sessVars, confVars, capVars, tdVars
    <3>2. calls' \in Nat
      BY <2>10, <2>13 DEF CallStart, CallStop, CallRestart, CallSave, CallSetVideoSource, CallSelect
    <3>3. conformTo' \in 0 .. Formats
      BY <2>13 DEF CallStart, CallStop, CallRestart, CallSave, CallSetVideoSource, CallSelect,
                   confVars, RestInv, Unsaid
    <3>4. QED
      BY <2>2, <2>3, <3>1, <3>2, <3>3 DEF RestInv
  <2>14. ASSUME NEW a \in Actors, WriteDisk(a) PROVE RestInv'
    BY <2>1, <2>2, <2>3, <2>14 DEF WriteDisk, RestInv, sessVars, capVars, tdVars, bounds
  <2>15. ASSUME NEW a \in Actors,
                \/ PublishConfig(a) \/ DropSelection(a) \/ RestoreSelection(a) \/ Rebuild(a)
                \/ StartCapture(a) \/ StartRereads(a) \/ StopJoins(a) \/ Plan(a)
         PROVE  RestInv'
    BY <2>3, <2>12, <2>15 DEF PublishConfig, DropSelection, RestoreSelection, Rebuild, StartCapture,
                   StartRereads, StopJoins, Plan, sessVars, confVars, capVars, tdVars, bounds
  <2>16. ASSUME NEW a \in Actors, WriteFails(a) \/ StartLock(a) PROVE RestInv'
    <3>1. UNCHANGED <<pipe, rootJoined, quits, calls, disk, reap, drain, conformTo, capConform, target, shown, paint>>
      BY <2>16 DEF WriteFails, StartLock, sessVars, confVars, capVars, tdVars
    <3>2. troubles' \in Nat
      BY <2>11, <2>16 DEF WriteFails, StartLock, RestInv
    <3>3. QED
      BY <2>2, <2>3, <3>1, <3>2 DEF RestInv
  <2>17. ASSUME NEW a \in Actors, Down(a) PROVE RestInv'
    <3>1. /\ UNCHANGED <<rootJoined, quits, calls, troubles, disk, reap, drain, conformTo, paint>>
          /\ \A p \in Pipes : Sound(p)
          /\ shown' \in [{"picture", "commentary"} -> {"off", "opening", "live", "failed"}]
          /\ {capConform', target'} \subseteq 0 .. Formats
      BY <1>1, <2>4, <2>7, <2>9, <2>17 DEF Down, sessVars, confVars, tdVars, bounds, RestInv, Unsaid
    <3>2. QED
      BY <2>2, <3>1 DEF RestInv
  <2>18. ASSUME NEW a \in Actors, PreflightFails(a) PROVE RestInv'
    <3>1. /\ UNCHANGED <<pipe, rootJoined, quits, calls, disk, reap, drain, conformTo, capConform, target, paint>>
          /\ troubles' \in Nat /\ PublishAll("failed", "failed")
      BY <2>11, <2>18 DEF PreflightFails, sessVars, confVars, tdVars
    <3>2. QED
      BY <2>2, <2>3, <2>7, <3>1 DEF RestInv
  <2>19. ASSUME NEW a \in Actors, BuildOne(a) PROVE RestInv'
    <3>1. UNCHANGED Rest
      BY <2>19 DEF BuildOne, sessVars, confVars, tdVars, bounds
    <3>2. ASSUME NEW q \in Pipes PROVE Sound(q)
      <4>1. PICK p, legs : pipe' = [pipe EXCEPT ![p] = Opened(legs)]
        BY <2>19 DEF BuildOne
      <4>2. pipe'[q] = pipe[q] \/ pipe'[q] = Opened(legs)
        BY <2>1, <4>1
      <4>3. QED
        BY <2>1, <4>2 DEF Opened, NoPipe, Sound
    <3>3. QED
      BY <2>12, <3>1, <3>2
  <2>20. ASSUME NEW a \in Actors, BuildFails(a) PROVE RestInv'
    <3>1. /\ UNCHANGED <<rootJoined, quits, calls, disk, reap, drain, conformTo, capConform, target, paint>>
          /\ troubles' \in Nat /\ (shown' = shown \/ PublishAll("failed", "failed"))
          /\ pipe' = Halt(PipesOf(built))
      BY <2>11, <2>20 DEF BuildFails, Discard, sessVars, confVars, tdVars
    <3>2. QED
      BY <2>2, <2>4, <2>7, <3>1 DEF RestInv
  <2>21. ASSUME NEW a \in Actors, Adopt(a) PROVE RestInv'
    <3>1. /\ UNCHANGED <<rootJoined, quits, calls, troubles, disk, reap, conformTo, target, paint>>
          /\ capConform' = target /\ (drain' = drain \/ drain' = drain \cup PipesOf(built))
          /\ PublishAll("failed", "live") \/ PublishAll("live", "live")
          /\ UNCHANGED pipe \/ pipe' = Halt(PipesOf(built))
      BY <2>21 DEF Adopt, sessVars, confVars, tdVars, bounds
    <3>2. \A p \in Pipes : Sound(p)
      BY <2>3, <2>4, <3>1
    <3>3. QED
      BY <2>2, <2>7, <2>8, <3>1, <3>2 DEF RestInv
  <2>22. ASSUME NEW a \in Actors, Mint(a) PROVE RestInv'
    <3>1. PICK n : fwd' = fwd \cup {n} /\ reap' = reap \cup {n}
      BY <2>22 DEF Mint
    <3>2. /\ UNCHANGED <<rootJoined, quits, calls, troubles, disk, drain, conformTo, capConform, target, shown, paint>>
          /\ UNCHANGED pipe
      BY <2>22 DEF Mint, confVars, capVars, tdVars, bounds
    <3>3. QED
      BY <2>1, <2>2, <2>3, <3>1, <3>2 DEF RestInv
  <2>claims. ASSUME NEW a \in Actors, ClaimForSend(a) PROVE RestInv'
    BY <2>5, <2>12, <2>claims DEF ClaimForSend, sessVars, confVars, tdVars, bounds
  <2>refused. ASSUME NEW a \in Actors, MintFails(a) PROVE RestInv'
    <3>1. UNCHANGED <<rootJoined, quits, calls, disk, reap, drain, conformTo, capConform, target, shown, paint>>
      BY <2>refused DEF MintFails, sessVars, confVars, tdVars
    <3>2. troubles' \in Nat /\ \A p \in Pipes : Sound(p)
      BY <2>5, <2>11, <2>refused DEF MintFails, RestInv
    <3>3. QED
      BY <2>2, <3>1, <3>2 DEF RestInv
  <2>23. ASSUME NEW a \in Actors, StopLock(a) PROVE RestInv'
    BY <2>3, <2>12, <2>23 DEF StopLock, confVars, capVars, tdVars, bounds
  <2>24. ASSUME NEW a \in Actors, StopSender(a) PROVE RestInv'
    <3>1. UNCHANGED Rest
      BY <2>24 DEF StopSender, confVars, tdVars, bounds
    <3>2. \A p \in Pipes : Sound(p)
      BY <2>3, <2>5, <2>24 DEF StopSender, EndSender
    <3>3. QED
      BY <2>12, <3>1, <3>2
  <2>25. ASSUME NEW n \in Sessions, SenderGivesUp(n) PROVE RestInv'
    <3>1. UNCHANGED <<rootJoined, quits, calls, disk, reap, drain, conformTo, capConform, target, shown, paint>>
      BY <2>25 DEF SenderGivesUp, confVars, tdVars, callVars
    <3>2. troubles' \in Nat /\ \A p \in Pipes : Sound(p)
      BY <2>5, <2>11, <2>25 DEF SenderGivesUp, EndSender
    <3>3. QED
      BY <2>2, <3>1, <3>2 DEF RestInv
  <2>26. ASSUME NEW n \in Sessions, SessionEnds(n) PROVE RestInv'
    BY <2>2, <2>3, <2>26 DEF SessionEnds, ForwarderEnds, Reap, RestInv, confVars, capVars, tdVars, callVars, bounds
  <2>27. ASSUME NEW p \in Pipes, NEW legs \in SUBSET LegsOf(p), Fault(p, legs) PROVE RestInv'
    <3>1. /\ UNCHANGED <<rootJoined, quits, calls, disk, reap, drain, conformTo, capConform, target, shown, paint>>
          /\ troubles' \in Nat
      BY <2>11, <2>27 DEF Fault, sessVars, confVars, tdVars, callVars
    <3>2. /\ \A q \in Pipes : q # p => pipe'[q] = pipe[q]
          /\ pipe'[p].legs = pipe[p].legs /\ pipe'[p].dead = pipe[p].dead \cup legs
      BY <2>1, <2>27 DEF Fault, PipeRec
    <3>3. Sound(p)
      BY <2>1, <2>27, <3>2 DEF LegsOf, Sound
    <3>4. QED
      BY <2>2, <2>6, <3>1, <3>2, <3>3 DEF RestInv
  <2>28. ASSUME NEW p \in Pipes, DrainTakes(p) PROVE RestInv'
    <3>1. /\ UNCHANGED <<rootJoined, quits, calls, troubles, disk, reap, drain, conformTo, capConform, target, shown>>
          /\ paint' = [paint EXCEPT ![p] = pipe[p].dead]
      BY <2>28 DEF DrainTakes, sessVars, confVars, tdVars, callVars, bounds
    <3>2. /\ \A q \in Pipes : q # p => pipe'[q] = pipe[q]
          /\ pipe'[p].legs = pipe[p].legs /\ pipe'[p].dead = pipe[p].dead
      BY <2>1, <2>28 DEF DrainTakes, PipeRec
    <3>3. Sound(p)
      BY <2>1, <3>2 DEF Sound
    <3>4. paint' \in [Pipes -> SUBSET {"picture", "commentary"}]
      BY <2>1, <3>1 DEF RestInv, PipeRec
    <3>5. QED
      BY <2>2, <2>6, <3>1, <3>2, <3>3, <3>4 DEF RestInv
  <2>29. ASSUME NEW p \in Pipes, DrainPaints(p) PROVE RestInv'
    <3>1. UNCHANGED <<pipe, rootJoined, quits, calls, troubles, disk, reap, drain, conformTo, capConform, target>>
      BY <2>29 DEF DrainPaints, sessVars, confVars, tdVars, callVars, bounds
    <3>2. /\ shown' \in [{"picture", "commentary"} -> {"off", "opening", "live", "failed"}]
          /\ paint' \in [Pipes -> SUBSET {"picture", "commentary"}]
      BY <2>29 DEF DrainPaints, RestInv
    <3>3. QED
      BY <2>2, <2>3, <3>1, <3>2 DEF RestInv
  <2>30. ASSUME NEW p \in Pipes, DrainEnds(p) PROVE RestInv'
    <3>1. /\ UNCHANGED <<rootJoined, quits, calls, troubles, disk, reap, conformTo, capConform, target, shown, paint>>
          /\ drain' = drain \ {p}
          /\ pipe' = [pipe EXCEPT ![p] = [NoPipe EXCEPT !.claimed = pipe[p].claimed]]
      BY <2>30 DEF DrainEnds, sessVars, confVars, tdVars, callVars, bounds
    <3>2. (\A q \in Pipes : q # p => pipe'[q] = pipe[q]) /\ Sound(p)
      BY <2>1, <3>1 DEF NoPipe, Sound
    <3>3. QED
      BY <2>2, <2>6, <3>1, <3>2 DEF RestInv
  <2>31. ASSUME Teardown \/ SenderStepOver \/ Exit PROVE RestInv'
    BY <2>3, <2>12, <2>31 DEF Teardown, SenderStepOver, Exit, TdStep, sessVars, confVars, capVars, callVars, bounds
  <2>32. ASSUME CaptureStepOver PROVE RestInv'
    BY <2>2, <2>3, <2>32 DEF CaptureStepOver, RestInv, sessVars, confVars, capVars, callVars, bounds
  <2>33. ASSUME CaptureRelease PROVE RestInv'
    <3>1. /\ UNCHANGED <<rootJoined, quits, calls, troubles, disk, reap, drain, conformTo, target, paint>>
          /\ \A p \in Pipes : Sound(p)
          /\ shown' \in [{"picture", "commentary"} -> {"off", "opening", "live", "failed"}]
          /\ capConform' \in 0 .. Formats
      BY <1>1, <2>4, <2>7, <2>33 DEF CaptureRelease, sessVars, confVars, tdVars, bounds, RestInv, Unsaid
    <3>2. QED
      BY <2>2, <3>1 DEF RestInv
  <2>34. ASSUME UNCHANGED vars PROVE RestInv'
    BY <2>3, <2>12, <2>34 DEF vars, sessVars, confVars, capVars, tdVars, callVars, bounds
  <2>35. QED
    BY <2>13, <2>14, <2>15, <2>16, <2>17, <2>18, <2>19, <2>20, <2>21, <2>22, <2>23, <2>24, <2>25, <2>26,
       <2>claims, <2>refused, <2>27, <2>28, <2>29, <2>30, <2>31, <2>32, <2>33, <2>34 DEF Next, CallStep, DrainStep
<1>4. CapInv /\ RestInv => TypeOK
  BY DEF CapInv, Types, RestInv, TypeOK, PipeRec, SetRec, Selections
<1>5. CapInv => SeamIsNeverCut
  BY DEF CapInv
<1>6. QED
  BY <1>2, <1>3, <1>4, <1>5, CapInvariance, PTL DEF Spec

\* The feed that runs is the one Stop will find, over the capture that the panels
\* describe, and its forwarder keeps the lock-free flag up (app.go: startSession,
\* Stop), for any number of goroutines that call.
THEOREM StopFindsTheFeed == Spec => []FeedIsTheSession
<1>1. CapInv => FeedIsTheSession
  <2> SUFFICES ASSUME CapInv, NEW n \in Sessions
               PROVE  /\ snd[n] = "running" =>
                           /\ session = n \/ \E a \in Actors : call[a].pc = "stopping" /\ call[a].session = n
                           /\ sndSet[n] = capSet
                      /\ n \in fwd => sessionUp
    BY DEF FeedIsTheSession
  <2>1. QED
    BY DEF CapInv, SessInv, Stops
<1>2. QED
  BY <1>1, CapInvariance, PTL

\* What plays is the capture set or is being built, the card is opened once, and a
\* shutdown no step of which was abandoned leaves nothing running (app.go:
\* rebuildCapture, buildCaptureSet, stopCaptureForTeardown, teardownOrdered).
THEOREM NoDeviceIsForgotten == Spec => []NothingForgotten
<1>1. CapInv => NothingForgotten
  <2> SUFFICES ASSUME CapInv PROVE NothingForgotten
    OBVIOUS
  <2>1. "nobody" \notin Actors /\ 0 \notin Sessions /\ PipesOf(NoSet) = {}
    BY SessionAssumption DEF Actors, Sessions, PipesOf, NoSet
  <2>2. (built # NoSet => capMu # "nobody") /\ (capMu = "nobody" => built = NoSet)
    BY <2>1 DEF CapInv, LockInv, SetInv, CapPcs
  <2>3. Playing \subseteq PipesOf(capSet) \cup PipesOf(built)
    BY DEF CapInv, SetInv
  <2>4. CleanExit
    <3> SUFFICES ASSUME td = "exit", ~ abandoned
                 PROVE  /\ Playing = {} /\ drain = {} /\ fwd = {}
                        /\ \A n \in Sessions : snd[n] # "running"
      BY DEF CleanExit
    <3>1. session = 0 /\ sessMu = "nobody" /\ capSet = NoSet /\ drain = {}
      BY DEF CapInv, QuitInv
    <3>2. \A a \in Actors : call[a].pc \notin SessPcs
      BY <2>1, <3>1 DEF CapInv, LockInv
    <3>3. fwd = {}
      BY <2>1, <3>1, <3>2 DEF CapInv, Types, SessInv, Stops, SessPcs
    <3>4. \A n \in Sessions : snd[n] # "running"
      BY <3>3 DEF CapInv, SessInv
    <3>5. built = NoSet
      BY <3>2 DEF CapInv, SetInv, SessPcs
    <3>6. QED
      BY <2>1, <2>3, <3>1, <3>3, <3>4, <3>5
  <2>5. Cardinality({p \in Playing : HasCard(pipe[p].legs)}) <= 1
    <3> DEFINE S == {p \in Playing : HasCard(pipe[p].legs)}
    <3>1. \A p, q \in S : p = q
      BY DEF CapInv, PlanInv
    <3> HIDE DEF S
    <3>2. CASE S = {}
      BY <3>2, FS_EmptySet DEF S
    <3>3. CASE S # {}
      <4>1. PICK p \in S : TRUE
        BY <3>3
      <4>2. S = {p}
        BY <3>1, <4>1
      <4>3. Cardinality(S) = 1
        BY <4>2, FS_Singleton
      <4>4. QED
        BY <4>3 DEF S
    <3>4. QED
      BY <3>2, <3>3
  <2>6. QED
    BY <2>2, <2>3, <2>4, <2>5 DEF NothingForgotten
<1>2. QED
  BY <1>1, CapInvariance, PTL

\* Calls never wait for one another in a circle: the one that has sessMu does not wait
\* for it, has capMu or finds it free, and when it waits for a forwarder, the sender has
\* ended (app.go: the order of sessMu and capMu, and what Stop waits for).
THEOREM NoCallsWaitInACircle == Spec => []CallsGoOn
<1>1. CapInv => CallsGoOn
  <2> SUFFICES ASSUME CapInv, NEW a \in Actors, call[a].pc # "idle"
               PROVE  \E b \in Actors : call[b].pc # "idle" /\ ~ Blocked(b)
    BY DEF CallsGoOn
  <2>1. ASSUME NEW b \in Actors, call[b].pc \in CapPcs
        PROVE  call[b].pc # "idle" /\ ~ Blocked(b)
    BY <2>1 DEF Blocked, CapPcs
  <2>2. ASSUME NEW b \in Actors, call[b].pc \in SessPcs
        PROVE  \E c \in Actors : call[c].pc # "idle" /\ ~ Blocked(c)
    <3>1. CASE capMu = "nobody"
      BY <2>2, <3>1 DEF Blocked, SessPcs, CapInv, SessInv
    <3>2. CASE capMu # "nobody"
      BY <2>1, <3>2 DEF CapInv, Types, LockInv
    <3>3. QED
      BY <3>1, <3>2
  <2>3. CASE sessMu # "nobody"
    BY <2>2, <2>3 DEF CapInv, Types, LockInv
  <2>4. CASE sessMu = "nobody"
    <3>1. capMu = "nobody" /\ \A b \in Actors : call[b].pc \notin SessPcs
      BY <2>4, SessionAssumption DEF CapInv, Types, LockInv, CapPcs, SessPcs, Actors
    <3>2. QED
      BY <2>4, <3>1 DEF Blocked, SessPcs
  <2>5. QED
    BY <2>3, <2>4
<1>2. QED
  BY <1>1, CapInvariance, PTL

-----------------------------------------------------------------------------
(* ReturnMonitor.                                                          *)

\* What the variables of the return are, but for the bounds.
Diagnostics == [outage : Nat, fails : Nat, why : Nat]
RetTypes ==
  /\ lost \subseteq Returns /\ said \subseteq Returns /\ ready \subseteq Returns
  /\ loop \in [Returns -> Loops]
  /\ retPipe \in [Returns -> RetPipes]
  /\ try \in [Returns -> Nat] /\ linked \in [Returns -> Nat] /\ verdict \in [Returns -> Nat]
  /\ fails \in [Returns -> Nat] /\ failures \in [Returns -> Nat]
  /\ outage \in [Returns -> Nat] /\ reason \in [Returns -> Nat]
  /\ tries \in Nat
  /\ errs \in [Returns -> Seq(Nat)]
  /\ states \in [Returns -> Seq(Announced)]
  /\ retFwd \in [Returns -> {"none", "range", "speak", "done"}]
  /\ spoken \in [Returns -> Diagnostics]

\* The calls: a session to stop, or being stopped, is the last one begun, and whoever
\* stops one has retMu.
CallsInv ==
  /\ retBegun \in 0 .. MaxReturns /\ retLeft \in RetBudgets
  /\ ret \in {NoReturn, retBegun} /\ retCall \in {NoReturn, retBegun}
  /\ ret = NoReturn \/ retCall = NoReturn
  /\ retMu = Nobody <=> retCall = NoReturn
  /\ retQuit = "gone" => ret = NoReturn

\* A session that is not over, with its forwarder, is the one to stop or being stopped.
\* It has a pipeline only while it deals with one.
RunOf(g) ==
  /\ IF g > retBegun THEN loop[g] = "none" /\ retFwd[g] = "none"
     ELSE /\ loop[g] # "none" /\ retFwd[g] # "none"
          /\ retFwd[g] = "done" => loop[g] = "done" /\ states[g] = <<>>
          /\ retFwd[g] # "done" => g \in {ret, retCall}
  /\ retPipe[g] \in {"built", "playing"} => loop[g] \in {"dial", "await", "live", "close", "shut"}

\* What is queued, and what feeds the headphones, is of the address being dialled.
DialledOf(g) ==
  /\ loop[g] \in {"await", "live"} =>
       /\ \A k \in 1 .. Len(errs[g]) : errs[g][k] = try[g]
       /\ g \in ready => linked[g] = try[g]
  /\ loop[g] = "live" => g \in ready
  /\ loop[g] \in {"close", "report"} => verdict[g] = try[g]

\* A failure that is queued has its reason stored already.
ReasonOf(g) ==
  /\ reason[g] <= outage[g]
  /\ loop[g] = "backoff" => reason[g] = outage[g]
  /\ \A k \in 1 .. Len(states[g]) :
       states[g][k].state = "BACKOFF" => states[g][k].outage <= reason[g]
  /\ (IF retFwd[g] = "speak" THEN reason[g] ELSE spoken[g].why) >= spoken[g].outage

\* What the forwarder counts is what the loop had counted when it announced it.
After(s, n) == IF s = "BACKOFF" THEN n + 1 ELSE IF s = "RECEIVING" THEN 0 ELSE n
CountOf(g) ==
  /\ g \notin said => failures[g] < DiagnoseAfter
  /\ g \notin lost =>
       /\ \A k \in 1 .. Len(states[g]) :
            states[g][k].fails =
              After(states[g][k].state, IF k = 1 THEN failures[g] ELSE states[g][k - 1].fails)
       /\ fails[g] = IF states[g] = <<>> THEN failures[g] ELSE states[g][Len(states[g])].fails
       /\ \/ spoken[g].fails = DiagnoseAfter
          \/ spoken[g] = Unspoken /\ retFwd[g] # "speak"

\* The lamp will say STOPPED: the end of the last session is queued, or forwarded.
LampInv ==
  lost = {} =>
    IF retBegun = NoReturn THEN lamp = "STOPPED"
    ELSE loop[retBegun] = "done" =>
           IF states[retBegun] = <<>> THEN lamp = "STOPPED"
           ELSE states[retBegun][Len(states[retBegun])].state = "STOPPED"

OwnInv(g) == RunOf(g) /\ DialledOf(g) /\ ReasonOf(g) /\ CountOf(g)
RetInv == RetTypes /\ CallsInv /\ LampInv /\ \A g \in Returns : OwnInv(g)

\* A step that leaves a session alone.
Same(h) ==
  /\ loop'[h] = loop[h] /\ retPipe'[h] = retPipe[h] /\ try'[h] = try[h]
  /\ linked'[h] = linked[h] /\ verdict'[h] = verdict[h] /\ errs'[h] = errs[h]
  /\ fails'[h] = fails[h] /\ outage'[h] = outage[h] /\ reason'[h] = reason[h]
  /\ states'[h] = states[h] /\ retFwd'[h] = retFwd[h] /\ failures'[h] = failures[h]
  /\ spoken'[h] = spoken[h]
  /\ h \in ready' <=> h \in ready
  /\ h \in said' <=> h \in said
  /\ h \in lost' <=> h \in lost

\* The return's invariant holds throughout, for any number of sessions, addresses and
\* depths of the channels (return.go: loop, emit; return_cgo.go: awaitAudio, onPadAdded;
\* app_return.go: StartReturn, StopReturn, forwardReturnStates).
LEMMA RetInvariance == RetSpec => []RetInv
<1>1. /\ MaxReturns \in Nat /\ DiagnoseAfter \in Nat /\ DiagnoseAfter >= 1 /\ Addresses \in Nat
      /\ Returns \subseteq Nat /\ 0 \notin Returns /\ \A g \in Returns : g >= 1 /\ g <= MaxReturns
      /\ \A b \in RetBudgets : b.returns \in 0 .. MaxReturns
  <2>1. /\ MaxReturns \in {Addresses, RetStates, RetErrors, DiagnoseAfter, MaxReturns}
        /\ DiagnoseAfter \in {Addresses, RetStates, RetErrors, DiagnoseAfter, MaxReturns}
        /\ Addresses \in {Addresses, RetStates, RetErrors, DiagnoseAfter, MaxReturns}
    OBVIOUS
  <2>2. MaxReturns \in Nat \ {0} /\ DiagnoseAfter \in Nat \ {0} /\ Addresses \in Nat \ {0}
    BY <2>1, ReturnAssumption
  <2>3. \A b \in RetBudgets : b.returns \in 0 .. MaxReturns /\ b.tries \in 0 .. MaxTries
    BY ReturnAssumption
  <2>4. QED
    BY <2>2, <2>3 DEF Returns
<1>2. RetInit => RetInv
  <2> SUFFICES ASSUME RetInit PROVE RetInv
    OBVIOUS
  <2>1. Unspoken \in Diagnostics /\ Unspoken.why = 0 /\ Unspoken.outage = 0
    BY DEF Unspoken, Diagnostics
  <2>2. <<>> \in Seq(Nat) /\ <<>> \in Seq(Announced) /\ Len(<<>>) = 0
    OBVIOUS
  <2>3. RetTypes
    BY <2>1, <2>2 DEF RetInit, RetTypes, Loops, RetPipes
  <2>4. ASSUME NEW g \in Returns PROVE OwnInv(g)
    BY <1>1, <2>1, <2>2, <2>4 DEF RetInit, OwnInv, RunOf, DialledOf, ReasonOf, CountOf
  <2>5. QED
    BY <1>1, <2>3, <2>4 DEF RetInit, RetInv, CallsInv, LampInv, NoReturn, Nobody
<1>3. RetInv /\ [RetNext]_retVars => RetInv'
  <2> SUFFICES ASSUME RetInv, [RetNext]_retVars PROVE RetInv'
    OBVIOUS
  <2>1. ASSUME NEW h \in Returns, Same(h), UNCHANGED <<ret, retCall, retBegun>> PROVE OwnInv(h)'
    <3>1. RunOf(h)'
      BY <2>1 DEF RetInv, OwnInv, RunOf, Same
    <3>2. DialledOf(h)'
      BY <2>1 DEF RetInv, OwnInv, DialledOf, Same
    <3>3. ReasonOf(h)'
      BY <2>1 DEF RetInv, OwnInv, ReasonOf, Same
    <3>4. CountOf(h)'
      BY <2>1 DEF RetInv, OwnInv, CountOf, Same
    <3>5. QED
      BY <3>1, <3>2, <3>3, <3>4 DEF OwnInv
  <2>2. ASSUME NEW g \in Returns, RetTypes', UNCHANGED appVars, \A h \in Returns : h # g => Same(h),
               OwnInv(g)', LampInv'
        PROVE  RetInv'
    <3>1. CallsInv'
      BY <2>2 DEF RetInv, CallsInv, appVars
    <3>2. \A h \in Returns : OwnInv(h)'
      BY <2>2, <2>1 DEF appVars
    <3>3. QED
      BY <2>2, <3>1, <3>2 DEF RetInv
  <2>3. ASSUME NEW g \in Returns, loop[g] \notin {"none", "done"} \/ retFwd[g] \in {"range", "speak"}
        PROVE  g = retBegun /\ retFwd[g] \in {"range", "speak"} /\ loop[g] # "none"
    BY <2>3, <1>1 DEF RetInv, RetTypes, CallsInv, OwnInv, RunOf, NoReturn
  <2>4. ASSUME NEW g \in Returns, loop[g] \notin {"none", "done"}, loop'[g] # "done",
               UNCHANGED <<appVars, lamp>>, lost \subseteq lost'
        PROVE  LampInv'
    BY <2>4, <2>3, <1>1 DEF LampInv, appVars, NoReturn, RetInv
  <2>5. ASSUME NEW g \in Returns, NEW s \in Lamps, Emit(g, s), fails' \in [Returns -> Nat]
        PROVE  /\ states' \in [Returns -> Seq(Announced)] /\ lost' \subseteq Returns /\ lost \subseteq lost'
               /\ \A h \in Returns : h # g => states'[h] = states[h] /\ (h \in lost' <=> h \in lost)
               /\ \/ g \in lost' /\ states'[g] = states[g]
                  \/ /\ lost' = lost /\ states'[g] # <<>>
                     /\ Len(states[g]) \in Nat /\ Len(states'[g]) = Len(states[g]) + 1
                     /\ \A k \in 1 .. Len(states[g]) : states'[g][k] = states[g][k]
                     /\ states'[g][Len(states[g]) + 1] = [state |-> s, outage |-> outage[g], fails |-> fails'[g]]
    <3> DEFINE e == [state |-> s, outage |-> outage[g], fails |-> fails'[g]]
    <3>1. e \in Announced /\ states[g] \in Seq(Announced) /\ states \in [Returns -> Seq(Announced)]
          /\ lost \subseteq Returns
      BY <2>5 DEF RetInv, RetTypes, Announced
    <3>2. CASE Len(states[g]) < RetStates
      <4>1. states' = [states EXCEPT ![g] = Append(states[g], e)] /\ lost' = lost
        BY <2>5, <3>2 DEF Emit
      <4> HIDE DEF e
      <4>2. /\ Append(states[g], e) \in Seq(Announced) /\ Append(states[g], e) # <<>>
            /\ Len(states[g]) \in Nat /\ Len(Append(states[g], e)) = Len(states[g]) + 1
            /\ \A k \in 1 .. Len(states[g]) : Append(states[g], e)[k] = states[g][k]
            /\ Append(states[g], e)[Len(states[g]) + 1] = e
        BY <3>1, AppendProperties, LenProperties
      <4>3. states'[g] = Append(states[g], e) /\ \A h \in Returns : h # g => states'[h] = states[h]
        BY <3>1, <4>1
      <4>4. states' \in [Returns -> Seq(Announced)]
        BY <3>1, <4>1, <4>2
      <4>5. QED
        BY <3>1, <4>1, <4>2, <4>3, <4>4 DEF e
    <3>3. CASE ~ (Len(states[g]) < RetStates)
      BY <2>5, <3>1, <3>3 DEF Emit
    <3>4. QED
      BY <3>2, <3>3
  <2>6. ASSUME NEW g \in Returns
        PROVE  /\ RunOf(g) /\ DialledOf(g) /\ ReasonOf(g) /\ CountOf(g)
               /\ errs[g] \in Seq(Nat) /\ states[g] \in Seq(Announced)
               /\ Len(states[g]) \in Nat /\ Len(errs[g]) \in Nat
               /\ try[g] \in Nat /\ fails[g] \in Nat /\ outage[g] \in Nat
               /\ reason[g] \in Nat /\ failures[g] \in Nat /\ spoken[g] \in Diagnostics
               /\ \A k \in 1 .. Len(states[g]) : states[g][k] \in Announced
    <3>1. /\ errs[g] \in Seq(Nat) /\ states[g] \in Seq(Announced)
          /\ try[g] \in Nat /\ fails[g] \in Nat /\ outage[g] \in Nat
          /\ reason[g] \in Nat /\ failures[g] \in Nat /\ spoken[g] \in Diagnostics
      BY <2>6 DEF RetInv, RetTypes
    <3>2. /\ Len(states[g]) \in Nat /\ Len(errs[g]) \in Nat
          /\ \A k \in 1 .. Len(states[g]) : states[g][k] \in Announced
      BY <3>1, LenProperties, ElementOfSeq
    <3>3. QED
      BY <2>6, <3>1, <3>2 DEF RetInv, OwnInv
  <2>7. ASSUME NEW g \in Returns, errs[g] # <<>>
        PROVE  /\ Head(errs[g]) = errs[g][1] /\ Head(errs[g]) \in Nat /\ Tail(errs[g]) \in Seq(Nat)
               /\ Len(errs[g]) >= 1 /\ Len(Tail(errs[g])) = Len(errs[g]) - 1
               /\ \A k \in 1 .. Len(errs[g]) - 1 : Tail(errs[g])[k] = errs[g][k + 1]
    BY <2>6, <2>7, EmptySeq, HeadTailProperties
  <2>8. ASSUME NEW g \in Returns, NEW s \in Lamps, Emit(g, s), fails' \in [Returns -> Nat],
               fails'[g] = After(s, fails[g]), s = "BACKOFF" => outage[g] <= reason[g],
               reason' = reason, fwdVars' = fwdVars
        PROVE  /\ CountOf(g)'
               /\ \A k \in 1 .. Len(states'[g]) :
                    states'[g][k].state = "BACKOFF" => states'[g][k].outage <= reason'[g]
    <3>1. failures' = failures /\ spoken' = spoken /\ retFwd' = retFwd /\ said' = said
      BY <2>8 DEF fwdVars
    <3>2. CASE g \in lost' /\ states'[g] = states[g]
      BY <2>6, <2>8, <3>1, <3>2 DEF CountOf, ReasonOf
    <3>3. CASE /\ lost' = lost /\ states'[g] # <<>>
               /\ Len(states[g]) \in Nat /\ Len(states'[g]) = Len(states[g]) + 1
               /\ \A k \in 1 .. Len(states[g]) : states'[g][k] = states[g][k]
               /\ states'[g][Len(states[g]) + 1] = [state |-> s, outage |-> outage[g], fails |-> fails'[g]]
      <4>1. states[g] = <<>> <=> Len(states[g]) = 0
        BY <2>6, EmptySeq
      <4>2. \A k \in 1 .. Len(states'[g]) : k \in 1 .. Len(states[g]) \/ k = Len(states[g]) + 1
        BY <3>3
      <4>3. \A k \in 1 .. Len(states'[g]) :
               states'[g][k].state = "BACKOFF" => states'[g][k].outage <= reason'[g]
        <5> SUFFICES ASSUME NEW k \in 1 .. Len(states'[g]), states'[g][k].state = "BACKOFF"
                     PROVE  states'[g][k].outage <= reason'[g]
          OBVIOUS
        <5>1. CASE k \in 1 .. Len(states[g])
          BY <2>6, <2>8, <3>3, <5>1 DEF ReasonOf
        <5>2. CASE k = Len(states[g]) + 1
          BY <2>8, <3>3, <5>2
        <5>3. QED
          BY <4>2, <5>1, <5>2
      <4>4. g \notin lost =>
              /\ \A k \in 1 .. Len(states'[g]) :
                   states'[g][k].fails =
                     After(states'[g][k].state, IF k = 1 THEN failures[g] ELSE states'[g][k - 1].fails)
              /\ fails'[g] = states'[g][Len(states'[g])].fails
        <5> SUFFICES ASSUME g \notin lost, NEW k \in 1 .. Len(states'[g])
                     PROVE  /\ states'[g][k].fails =
                                 After(states'[g][k].state, IF k = 1 THEN failures[g] ELSE states'[g][k - 1].fails)
                            /\ fails'[g] = states'[g][Len(states'[g])].fails
          BY <3>3
        <5>1. CASE k \in 1 .. Len(states[g])
          <6>1. states[g][k].fails =
                  After(states[g][k].state, IF k = 1 THEN failures[g] ELSE states[g][k - 1].fails)
            BY <2>6, <5>1 DEF CountOf
          <6>2. /\ states'[g][k] = states[g][k]
                /\ k # 1 => states'[g][k - 1] = states[g][k - 1]
            BY <3>3, <5>1
          <6>3. QED
            BY <3>3, <6>1, <6>2
        <5>2. CASE k = Len(states[g]) + 1
          <6>1. fails[g] = IF k = 1 THEN failures[g] ELSE states'[g][k - 1].fails
            BY <2>6, <3>3, <5>2, <4>1 DEF CountOf
          <6>2. QED
            BY <2>8, <3>3, <5>2, <6>1
        <5>3. QED
          BY <4>2, <5>1, <5>2
      <4>5. QED
        BY <2>6, <3>1, <3>3, <4>3, <4>4 DEF CountOf
    <3>4. QED
      BY <2>5, <2>8, <3>2, <3>3
  <2>9. ASSUME NEW g \in Returns, UNCHANGED <<states, fails, fwdVars, lost>> PROVE CountOf(g)'
    BY <2>6, <2>9 DEF CountOf, fwdVars
  <2>10. ASSUME NEW g \in Returns, UNCHANGED <<states, outage, reason, fwdVars>>,
                                               loop'[g] # "backoff"
         PROVE  ReasonOf(g)'
    BY <2>6, <2>10 DEF ReasonOf, fwdVars
  <2>11. ASSUME NEW g \in Returns, RetTypes', UNCHANGED <<appVars, fwdVars>>,
                                                          lost \subseteq lost',
                \A h \in Returns : h # g => Same(h),
                loop[g] \notin {"none", "done"}, loop'[g] \notin {"none", "done"},
                retPipe'[g] \in {"built", "playing"} =>
                  loop'[g] \in {"dial", "await", "live", "close", "shut"},
                DialledOf(g)', ReasonOf(g)', CountOf(g)'
         PROVE  RetInv'
    <3>1. RunOf(g)'
      BY <2>11, <2>6, <2>3 DEF RunOf, appVars, fwdVars
    <3>2. LampInv'
      BY <2>11, <2>4 DEF fwdVars
    <3>3. QED
      BY <2>11, <2>2, <3>1, <3>2 DEF OwnInv
  <2>12. ASSUME NEW g \in Returns, NEW from \in Loops \ {"none", "done"}, NEW to \in Loops, Step(g, from, to)
         PROVE  /\ loop' \in [Returns -> Loops] /\ loop[g] = from /\ loop'[g] = to
                /\ \A h \in Returns : h # g => loop'[h] = loop[h]
    BY <2>12 DEF Step, RetInv, RetTypes
  <2>13. ASSUME NEW g \in Returns, NEW from \in {"top", "live", "backoff", "wait"}, NEW to \in {"stop", "shut", "top"},
                Step(g, from, to), to = "shut" => from = "live",
                from = "live" => to = "shut",
                UNCHANGED <<appVars, pipeVars, verdict, fails, outage, reason, fwdVars, states,
                            lost>>
         PROVE  RetInv'
    <3>1. from \in Loops \ {"none", "done"} /\ to \in Loops
      BY DEF Loops
    <3>2. /\ loop' \in [Returns -> Loops] /\ loop[g] = from /\ loop'[g] = to
          /\ \A h \in Returns : h # g => loop'[h] = loop[h]
      BY <2>12, <2>13, <3>1
    <3>3. RetTypes'
      BY <2>13, <3>2 DEF RetInv, RetTypes, pipeVars, fwdVars
    <3>4. \A h \in Returns : h # g => Same(h)
      BY <2>13, <3>2 DEF Same, pipeVars, fwdVars
    <3>5. DialledOf(g)' /\ ReasonOf(g)' /\ CountOf(g)'
      BY <2>9, <2>10, <2>13, <3>2 DEF DialledOf
    <3>6. retPipe'[g] \in {"built", "playing"} => loop'[g] \in {"dial", "await", "live", "close", "shut"}
      BY <2>6, <2>13, <3>2 DEF RunOf, pipeVars
    <3>7. QED
      BY <2>11, <2>13, <3>2, <3>3, <3>4, <3>5, <3>6
  <2>14. ASSUME NEW g \in Returns, NewPipe(g) PROVE RetInv'
    <3>1. CASE Step(g, "new", "dial") /\ retPipe' = [retPipe EXCEPT ![g] = "built"] /\ errs' = [errs EXCEPT ![g] = <<>>]
               /\ UNCHANGED <<verdict, tries>>
        <4>1. /\ loop' \in [Returns -> Loops] /\ loop[g] = "new" /\ loop'[g] = "dial"
              /\ \A h \in Returns : h # g => loop'[h] = loop[h]
          BY <2>14, <3>1, <2>12 DEF NewPipe, Loops
        <4>2. /\ retPipe' \in [Returns -> RetPipes] /\ retPipe'[g] = "built"
              /\ \A h \in Returns : h # g => retPipe'[h] = retPipe[h]
          BY <2>14, <3>1, <2>6, <1>1 DEF NewPipe, RetInv, RetTypes, RetPipes
        <4>3. /\ errs' \in [Returns -> Seq(Nat)] /\ errs'[g] = <<>>
              /\ \A h \in Returns : h # g => errs'[h] = errs[h]
          BY <2>14, <3>1, <2>6, <1>1 DEF NewPipe, RetInv, RetTypes, RetPipes
        <4>4. /\ linked' \in [Returns -> Nat] /\ linked'[g] = 0
              /\ \A h \in Returns : h # g => linked'[h] = linked[h]
          BY <2>14, <3>1, <2>6, <1>1 DEF NewPipe, RetInv, RetTypes, RetPipes
        <4>5. UNCHANGED <<appVars, fwdVars, tries, verdict, try, ready, fails, outage, reason,
                          states, lost>>
          BY <2>14, <3>1 DEF NewPipe, RetInv, RetTypes
        <4>6. RetTypes' /\ \A h \in Returns : h # g => Same(h)
          BY <4>1, <4>2, <4>3, <4>4, <4>5 DEF RetInv, RetTypes, Same, fwdVars
        <4>7. DialledOf(g)'
          BY <4>1, <4>2, <4>3, <4>4, <4>5, <2>6 DEF DialledOf
        <4>8. ReasonOf(g)'
          BY <4>1, <4>2, <4>3, <4>4, <4>5, <2>10
        <4>9. /\ CountOf(g)'
              /\ retPipe'[g] \in {"built", "playing"} => loop'[g] \in {"dial", "await", "live", "close", "shut"}
          BY <4>1, <4>2, <4>3, <4>4, <4>5, <2>9, <2>6 DEF RunOf
        <4>10. UNCHANGED <<appVars, fwdVars>> /\ lost' = lost
          BY <4>5
        <4>11. QED
          BY <4>1, <4>10, <4>6, <4>7, <4>8, <4>9, <2>14, <2>11
    <3>2. CASE Step(g, "new", "report") /\ tries' = tries + 1 /\ verdict' = [verdict EXCEPT ![g] = try[g]]
               /\ UNCHANGED <<retPipe, errs>>
        <4>1. /\ loop' \in [Returns -> Loops] /\ loop[g] = "new" /\ loop'[g] = "report"
              /\ \A h \in Returns : h # g => loop'[h] = loop[h]
          BY <2>14, <3>2, <2>12 DEF NewPipe, Loops
        <4>2. /\ verdict' \in [Returns -> Nat] /\ verdict'[g] = try[g]
              /\ \A h \in Returns : h # g => verdict'[h] = verdict[h]
          BY <2>14, <3>2, <2>6, <1>1 DEF NewPipe, RetInv, RetTypes, RetPipes
        <4>3. /\ linked' \in [Returns -> Nat] /\ linked'[g] = 0
              /\ \A h \in Returns : h # g => linked'[h] = linked[h]
          BY <2>14, <3>2, <2>6, <1>1 DEF NewPipe, RetInv, RetTypes, RetPipes
        <4>4. UNCHANGED <<appVars, fwdVars, retPipe, errs, try, ready, fails, outage, reason,
                          states, lost>> /\ tries' \in Nat
          BY <2>14, <3>2 DEF NewPipe, RetInv, RetTypes
        <4>5. RetTypes' /\ \A h \in Returns : h # g => Same(h)
          BY <4>1, <4>2, <4>3, <4>4 DEF RetInv, RetTypes, Same, fwdVars
        <4>6. DialledOf(g)'
          BY <4>1, <4>2, <4>3, <4>4, <2>6 DEF DialledOf
        <4>7. ReasonOf(g)'
          BY <4>1, <4>2, <4>3, <4>4, <2>10
        <4>8. /\ CountOf(g)'
              /\ retPipe'[g] \in {"built", "playing"} => loop'[g] \in {"dial", "await", "live", "close", "shut"}
          BY <4>1, <4>2, <4>3, <4>4, <2>9, <2>6 DEF RunOf
        <4>9. UNCHANGED <<appVars, fwdVars>> /\ lost' = lost
          BY <4>4
        <4>10. QED
          BY <4>1, <4>9, <4>5, <4>6, <4>7, <4>8, <2>14, <2>11
    <3>3. QED
      BY <2>14, <3>1, <3>2 DEF NewPipe
  <2>15. ASSUME NEW g \in Returns, DialAddress(g) PROVE RetInv'
      <3>1. /\ loop' \in [Returns -> Loops] /\ loop[g] = "dial" /\ loop'[g] = "await"
            /\ \A h \in Returns : h # g => loop'[h] = loop[h]
        BY <2>15, <2>12 DEF DialAddress, GoPlaying, Loops
      <3>2. /\ retPipe' \in [Returns -> RetPipes] /\ retPipe'[g] = "playing"
            /\ \A h \in Returns : h # g => retPipe'[h] = retPipe[h]
        BY <2>15, <2>6, <1>1 DEF DialAddress, GoPlaying, RetInv, RetTypes, RetPipes
      <3>3. /\ errs' \in [Returns -> Seq(Nat)] /\ errs'[g] = <<>>
            /\ \A h \in Returns : h # g => errs'[h] = errs[h]
        BY <2>15, <2>6, <1>1 DEF DialAddress, GoPlaying, RetInv, RetTypes, RetPipes
      <3>4. /\ linked' \in [Returns -> Nat] /\ linked'[g] = 0
            /\ \A h \in Returns : h # g => linked'[h] = linked[h]
        BY <2>15, <2>6, <1>1 DEF DialAddress, GoPlaying, RetInv, RetTypes, RetPipes
      <3>5. /\ try' \in [Returns -> Nat] /\ try'[g] = tries'
            /\ \A h \in Returns : h # g => try'[h] = try[h]
        BY <2>15, <2>6, <1>1 DEF DialAddress, GoPlaying, RetInv, RetTypes, RetPipes
      <3>6. UNCHANGED <<appVars, fwdVars, verdict, fails, outage, reason, states,
                        lost>> /\ ready' = ready \ {g} /\ tries' \in Nat
        BY <2>15 DEF DialAddress, GoPlaying, RetInv, RetTypes
      <3>7. RetTypes' /\ \A h \in Returns : h # g => Same(h)
        BY <3>1, <3>2, <3>3, <3>4, <3>5, <3>6 DEF RetInv, RetTypes, Same, fwdVars
      <3>8. DialledOf(g)'
        BY <3>1, <3>2, <3>3, <3>4, <3>5, <3>6, <2>6 DEF DialledOf
      <3>9. ReasonOf(g)'
        BY <3>1, <3>2, <3>3, <3>4, <3>5, <3>6, <2>10
      <3>10. /\ CountOf(g)'
             /\ retPipe'[g] \in {"built", "playing"} => loop'[g] \in {"dial", "await", "live", "close", "shut"}
        BY <3>1, <3>2, <3>3, <3>4, <3>5, <3>6, <2>9, <2>6 DEF RunOf
      <3>11. UNCHANGED <<appVars, fwdVars>> /\ lost' = lost
        BY <3>6
      <3>12. QED
        BY <3>1, <3>11, <3>7, <3>8, <3>9, <3>10, <2>15, <2>11
  <2>16. ASSUME NEW g \in Returns, Live(g) PROVE RetInv'
    <3>1. CASE Step(g, "live", "shut") /\ UNCHANGED <<verdict, errs>>
      BY <2>16, <3>1, <2>13 DEF Live, pipeVars
    <3>2. CASE /\ errs[g] # <<>> /\ Step(g, "live", "close")
               /\ verdict' = [verdict EXCEPT ![g] = Head(errs[g])]
               /\ errs' = [errs EXCEPT ![g] = Tail(@)]
        <4>1. /\ loop' \in [Returns -> Loops] /\ loop[g] = "live" /\ loop'[g] = "close"
              /\ \A h \in Returns : h # g => loop'[h] = loop[h]
          BY <2>16, <3>2, <2>7, <2>12 DEF Live, Loops
        <4>2. /\ verdict' \in [Returns -> Nat] /\ verdict'[g] = Head(errs[g])
              /\ \A h \in Returns : h # g => verdict'[h] = verdict[h]
          BY <2>16, <3>2, <2>7, <2>6, <1>1 DEF Live, RetInv, RetTypes, RetPipes
        <4>3. /\ errs' \in [Returns -> Seq(Nat)] /\ errs'[g] = Tail(errs[g])
              /\ \A h \in Returns : h # g => errs'[h] = errs[h]
          BY <2>16, <3>2, <2>7, <2>6, <1>1 DEF Live, RetInv, RetTypes, RetPipes
        <4>4. UNCHANGED <<appVars, fwdVars, retPipe, try, tries, ready, linked, fails, outage,
                          reason, states, lost>>
          BY <2>16, <3>2, <2>7 DEF Live, RetInv, RetTypes
        <4>5. RetTypes' /\ \A h \in Returns : h # g => Same(h)
          BY <4>1, <4>2, <4>3, <4>4 DEF RetInv, RetTypes, Same, fwdVars
        <4>6. DialledOf(g)'
          BY <4>1, <4>2, <4>3, <4>4, <2>6, <2>7, <3>2 DEF DialledOf
        <4>7. ReasonOf(g)'
          BY <4>1, <4>2, <4>3, <4>4, <2>10
        <4>8. /\ CountOf(g)'
              /\ retPipe'[g] \in {"built", "playing"} => loop'[g] \in {"dial", "await", "live", "close", "shut"}
          BY <4>1, <4>2, <4>3, <4>4, <2>9, <2>6 DEF RunOf
        <4>9. UNCHANGED <<appVars, fwdVars>> /\ lost' = lost
          BY <4>4
        <4>10. QED
          BY <4>1, <4>9, <4>5, <4>6, <4>7, <4>8, <2>16, <2>11
    <3>3. QED
      BY <2>16, <3>1, <3>2 DEF Live
  <2>17. ASSUME NEW g \in Returns, ClosePipe(g) PROVE RetInv'
    <3>1. CASE Step(g, "close", "report")
        <4>1. /\ loop' \in [Returns -> Loops] /\ loop[g] = "close" /\ loop'[g] = "report"
              /\ \A h \in Returns : h # g => loop'[h] = loop[h]
          BY <2>17, <3>1, <2>12 DEF ClosePipe, TearDown, Loops
        <4>2. /\ retPipe' \in [Returns -> RetPipes] /\ retPipe'[g] \in {"null", "stuck"}
              /\ \A h \in Returns : h # g => retPipe'[h] = retPipe[h]
          BY <2>17, <3>1, <2>6, <1>1 DEF ClosePipe, TearDown, RetInv, RetTypes, RetPipes
        <4>3. /\ errs' \in [Returns -> Seq(Nat)] /\ errs'[g] = <<>>
              /\ \A h \in Returns : h # g => errs'[h] = errs[h]
          BY <2>17, <3>1, <2>6, <1>1 DEF ClosePipe, TearDown, RetInv, RetTypes, RetPipes
        <4>4. /\ linked' \in [Returns -> Nat] /\ linked'[g] = 0
              /\ \A h \in Returns : h # g => linked'[h] = linked[h]
          BY <2>17, <3>1, <2>6, <1>1 DEF ClosePipe, TearDown, RetInv, RetTypes, RetPipes
        <4>5. UNCHANGED <<appVars, fwdVars, try, tries, verdict, fails, outage, reason, states,
                          lost>> /\ ready' = ready \ {g}
          BY <2>17, <3>1 DEF ClosePipe, TearDown, RetInv, RetTypes
        <4>6. RetTypes' /\ \A h \in Returns : h # g => Same(h)
          BY <4>1, <4>2, <4>3, <4>4, <4>5 DEF RetInv, RetTypes, Same, fwdVars
        <4>7. DialledOf(g)'
          BY <4>1, <4>2, <4>3, <4>4, <4>5, <2>6 DEF DialledOf
        <4>8. ReasonOf(g)'
          BY <4>1, <4>2, <4>3, <4>4, <4>5, <2>10
        <4>9. /\ CountOf(g)'
              /\ retPipe'[g] \in {"built", "playing"} => loop'[g] \in {"dial", "await", "live", "close", "shut"}
          BY <4>1, <4>2, <4>3, <4>4, <4>5, <2>9, <2>6 DEF RunOf
        <4>10. UNCHANGED <<appVars, fwdVars>> /\ lost' = lost
          BY <4>5
        <4>11. QED
          BY <4>1, <4>10, <4>6, <4>7, <4>8, <4>9, <2>17, <2>11
    <3>2. CASE Step(g, "shut", "stop")
        <4>1. /\ loop' \in [Returns -> Loops] /\ loop[g] = "shut" /\ loop'[g] = "stop"
              /\ \A h \in Returns : h # g => loop'[h] = loop[h]
          BY <2>17, <3>2, <2>12 DEF ClosePipe, TearDown, Loops
        <4>2. /\ retPipe' \in [Returns -> RetPipes] /\ retPipe'[g] \in {"null", "stuck"}
              /\ \A h \in Returns : h # g => retPipe'[h] = retPipe[h]
          BY <2>17, <3>2, <2>6, <1>1 DEF ClosePipe, TearDown, RetInv, RetTypes, RetPipes
        <4>3. /\ errs' \in [Returns -> Seq(Nat)] /\ errs'[g] = <<>>
              /\ \A h \in Returns : h # g => errs'[h] = errs[h]
          BY <2>17, <3>2, <2>6, <1>1 DEF ClosePipe, TearDown, RetInv, RetTypes, RetPipes
        <4>4. /\ linked' \in [Returns -> Nat] /\ linked'[g] = 0
              /\ \A h \in Returns : h # g => linked'[h] = linked[h]
          BY <2>17, <3>2, <2>6, <1>1 DEF ClosePipe, TearDown, RetInv, RetTypes, RetPipes
        <4>5. UNCHANGED <<appVars, fwdVars, try, tries, verdict, fails, outage, reason, states,
                          lost>> /\ ready' = ready \ {g}
          BY <2>17, <3>2 DEF ClosePipe, TearDown, RetInv, RetTypes
        <4>6. RetTypes' /\ \A h \in Returns : h # g => Same(h)
          BY <4>1, <4>2, <4>3, <4>4, <4>5 DEF RetInv, RetTypes, Same, fwdVars
        <4>7. DialledOf(g)'
          BY <4>1, <4>2, <4>3, <4>4, <4>5, <2>6 DEF DialledOf
        <4>8. ReasonOf(g)'
          BY <4>1, <4>2, <4>3, <4>4, <4>5, <2>10
        <4>9. /\ CountOf(g)'
              /\ retPipe'[g] \in {"built", "playing"} => loop'[g] \in {"dial", "await", "live", "close", "shut"}
          BY <4>1, <4>2, <4>3, <4>4, <4>5, <2>9, <2>6 DEF RunOf
        <4>10. UNCHANGED <<appVars, fwdVars>> /\ lost' = lost
          BY <4>5
        <4>11. QED
          BY <4>1, <4>10, <4>6, <4>7, <4>8, <4>9, <2>17, <2>11
    <3>3. QED
      BY <2>17, <3>1, <3>2 DEF ClosePipe
  <2>18. ASSUME NEW g \in Returns, Report(g) PROVE RetInv'
      <3>1. /\ loop' \in [Returns -> Loops] /\ loop[g] = "report" /\ loop'[g] = "backoff"
            /\ \A h \in Returns : h # g => loop'[h] = loop[h]
        BY <2>18, <2>12 DEF Report, pipeVars, Loops
      <3>2. /\ reason' \in [Returns -> Nat] /\ reason'[g] = outage[g]
            /\ \A h \in Returns : h # g => reason'[h] = reason[h]
        BY <2>18, <2>6, <1>1 DEF Report, pipeVars, RetInv, RetTypes, RetPipes
      <3>3. UNCHANGED <<appVars, fwdVars, retPipe, tries, errs, linked, verdict, try, ready,
                        fails, outage, states, lost>>
        BY <2>18 DEF Report, pipeVars, RetInv, RetTypes
      <3>4. RetTypes' /\ \A h \in Returns : h # g => Same(h)
        BY <3>1, <3>2, <3>3 DEF RetInv, RetTypes, Same, fwdVars
      <3>5. DialledOf(g)'
        BY <3>1, <3>2, <3>3, <2>6 DEF DialledOf
      <3>6. ReasonOf(g)'
        <4>1. /\ outage[g] \in Nat /\ reason[g] \in Nat /\ spoken[g].outage \in Nat /\ reason[g] <= outage[g]
              /\ \A k \in 1 .. Len(states[g]) : states[g][k].outage \in Nat
          BY <2>18, <2>6 DEF ReasonOf, Diagnostics, Announced
        <4>2. \A k \in 1 .. Len(states[g]) : states[g][k].state = "BACKOFF" => states[g][k].outage <= outage[g]
          BY <2>18, <2>6, <4>1 DEF ReasonOf
        <4>3. UNCHANGED <<spoken, retFwd>>
          BY <3>3 DEF fwdVars
        <4>4. (IF retFwd[g] = "speak" THEN outage[g] ELSE spoken[g].why) >= spoken[g].outage
          BY <2>18, <2>6, <4>1 DEF ReasonOf
        <4>5. QED
          BY <3>1, <3>2, <3>3, <4>1, <4>2, <4>3, <4>4 DEF ReasonOf
      <3>7. /\ CountOf(g)'
            /\ retPipe'[g] \in {"built", "playing"} => loop'[g] \in {"dial", "await", "live", "close", "shut"}
        BY <3>1, <3>2, <3>3, <2>9, <2>6 DEF RunOf
      <3>8. UNCHANGED <<appVars, fwdVars>> /\ lost' = lost
        BY <3>3
      <3>9. QED
        BY <3>1, <3>8, <3>4, <3>5, <3>6, <3>7, <2>18, <2>11
  <2>19. ASSUME NEW g \in Returns, Sleep(g) PROVE RetInv'
    BY <2>19, <2>13 DEF Sleep
  <2>20. ASSUME NEW g \in Returns, Top(g) PROVE RetInv'
    <3>1. CASE Step(g, "top", "stop") /\ UNCHANGED <<fails, states, lost>>
      BY <2>20, <3>1, <2>13 DEF Top
    <3>2. CASE Step(g, "top", "new") /\ UNCHANGED fails /\ Emit(g, "CONNECTING")
        <4>1. /\ loop' \in [Returns -> Loops] /\ loop[g] = "top" /\ loop'[g] = "new"
              /\ \A h \in Returns : h # g => loop'[h] = loop[h]
          BY <2>20, <3>2, <2>12 DEF Top, Loops
        <4>2. UNCHANGED <<appVars, fwdVars, pipeVars, verdict, outage, reason,
                          fails>> /\ Emit(g, "CONNECTING") /\ "CONNECTING" \in Lamps
          BY <2>20, <3>2 DEF Top, Lamps
        <4>3. fails' \in [Returns -> Nat]
          BY <4>1, <4>2 DEF RetInv, RetTypes
        <4>4. /\ states' \in [Returns -> Seq(Announced)] /\ lost' \subseteq Returns /\ lost \subseteq lost'
              /\ \A h \in Returns : h # g => states'[h] = states[h] /\ (h \in lost' <=> h \in lost)
          BY <4>2, <4>3, <2>5
        <4>5. RetTypes' /\ \A h \in Returns : h # g => Same(h)
          BY <4>1, <4>2, <4>3, <4>4 DEF RetInv, RetTypes, Same, fwdVars, pipeVars
        <4>6. fails'[g] = After("CONNECTING", fails[g]) /\ ("CONNECTING" = "BACKOFF" => outage[g] <= reason[g])
          BY <4>1, <4>2, <2>6 DEF After, ReasonOf
        <4>7. /\ CountOf(g)'
              /\ \A k \in 1 .. Len(states'[g]) :
                   states'[g][k].state = "BACKOFF" => states'[g][k].outage <= reason'[g]
          BY <4>2, <4>3, <4>6, <2>8
        <4>8. ReasonOf(g)'
          BY <4>1, <4>2, <4>7, <2>6 DEF ReasonOf, fwdVars
        <4>9. /\ DialledOf(g)'
              /\ retPipe'[g] \in {"built", "playing"} => loop'[g] \in {"dial", "await", "live", "close", "shut"}
          BY <4>1, <4>2, <2>6 DEF DialledOf, RunOf, pipeVars
        <4>10. UNCHANGED <<appVars, fwdVars>>
          BY <4>2
        <4>11. QED
          BY <4>1, <4>10, <4>4, <4>5, <4>7, <4>8, <4>9, <2>20, <2>11
    <3>3. QED
      BY <2>20, <3>1, <3>2 DEF Top
  <2>21. ASSUME NEW g \in Returns, BackOff(g) PROVE RetInv'
    <3>1. CASE Step(g, "backoff", "stop") /\ UNCHANGED <<fails, states, lost>>
      BY <2>21, <3>1, <2>13 DEF BackOff
    <3>2. CASE Step(g, "backoff", "wait") /\ fails' = [fails EXCEPT ![g] = @ + 1] /\ Emit(g, "BACKOFF")
        <4>1. /\ loop' \in [Returns -> Loops] /\ loop[g] = "backoff" /\ loop'[g] = "wait"
              /\ \A h \in Returns : h # g => loop'[h] = loop[h]
          BY <2>21, <3>2, <2>12 DEF BackOff, Loops
        <4>2. fails' \in [Returns -> Nat] /\ fails'[g] = fails[g] + 1 /\ \A h \in Returns : h # g => fails'[h] = fails[h]
          BY <2>21, <3>2, <2>6 DEF BackOff, RetInv, RetTypes
        <4>3. UNCHANGED <<appVars, fwdVars, pipeVars, verdict, outage, reason>> /\ Emit(g,
                          "BACKOFF") /\ "BACKOFF" \in Lamps
          BY <2>21, <3>2 DEF BackOff, Lamps
        <4>4. fails' \in [Returns -> Nat]
          BY <4>1, <4>2, <4>3 DEF RetInv, RetTypes
        <4>5. /\ states' \in [Returns -> Seq(Announced)] /\ lost' \subseteq Returns /\ lost \subseteq lost'
              /\ \A h \in Returns : h # g => states'[h] = states[h] /\ (h \in lost' <=> h \in lost)
          BY <4>3, <4>4, <2>5
        <4>6. RetTypes' /\ \A h \in Returns : h # g => Same(h)
          BY <4>1, <4>2, <4>3, <4>4, <4>5 DEF RetInv, RetTypes, Same, fwdVars, pipeVars
        <4>7. fails'[g] = After("BACKOFF", fails[g]) /\ ("BACKOFF" = "BACKOFF" => outage[g] <= reason[g])
          BY <4>1, <4>2, <4>3, <2>6 DEF After, ReasonOf
        <4>8. /\ CountOf(g)'
              /\ \A k \in 1 .. Len(states'[g]) :
                   states'[g][k].state = "BACKOFF" => states'[g][k].outage <= reason'[g]
          BY <4>3, <4>4, <4>7, <2>8
        <4>9. ReasonOf(g)'
          BY <4>1, <4>2, <4>3, <4>8, <2>6 DEF ReasonOf, fwdVars
        <4>10. /\ DialledOf(g)'
               /\ retPipe'[g] \in {"built", "playing"} => loop'[g] \in {"dial", "await", "live", "close", "shut"}
          BY <4>1, <4>2, <4>3, <2>6 DEF DialledOf, RunOf, pipeVars
        <4>11. UNCHANGED <<appVars, fwdVars>>
          BY <4>3
        <4>12. QED
          BY <4>1, <4>11, <4>5, <4>6, <4>8, <4>9, <4>10, <2>21, <2>11
    <3>3. QED
      BY <2>21, <3>1, <3>2 DEF BackOff
  <2>22. ASSUME NEW g \in Returns, AwaitAudio(g) PROVE RetInv'
    <3>1. CASE /\ g \in ready /\ Step(g, "await", "live") /\ fails' = [fails EXCEPT ![g] = 0]
               /\ outage' = [outage EXCEPT ![g] = @ + 1] /\ Emit(g, "RECEIVING")
               /\ UNCHANGED <<appVars, pipeVars, quit, verdict, reason, fwdVars>>
        <4>1. /\ loop' \in [Returns -> Loops] /\ loop[g] = "await" /\ loop'[g] = "live"
              /\ \A h \in Returns : h # g => loop'[h] = loop[h]
          BY <3>1, <2>12 DEF AwaitAudio, Loops
        <4>2. fails' \in [Returns -> Nat] /\ fails'[g] = 0 /\ \A h \in Returns : h # g => fails'[h] = fails[h]
          BY <3>1, <2>6 DEF AwaitAudio, RetInv, RetTypes
        <4>3. outage' \in [Returns -> Nat] /\ outage'[g] = outage[g] + 1 /\ \A h \in Returns : h # g => outage'[h] = outage[h]
          BY <3>1, <2>6 DEF AwaitAudio, RetInv, RetTypes
        <4>4. UNCHANGED <<appVars, fwdVars, pipeVars, verdict, reason>> /\ Emit(g,
                          "RECEIVING") /\ "RECEIVING" \in Lamps
          BY <3>1 DEF AwaitAudio, Lamps
        <4>5. fails' \in [Returns -> Nat]
          BY <4>1, <4>2, <4>3, <4>4 DEF RetInv, RetTypes
        <4>6. /\ states' \in [Returns -> Seq(Announced)] /\ lost' \subseteq Returns /\ lost \subseteq lost'
              /\ \A h \in Returns : h # g => states'[h] = states[h] /\ (h \in lost' <=> h \in lost)
          BY <4>4, <4>5, <2>5
        <4>7. RetTypes' /\ \A h \in Returns : h # g => Same(h)
          BY <4>1, <4>2, <4>3, <4>4, <4>5, <4>6 DEF RetInv, RetTypes, Same, fwdVars, pipeVars
        <4>8. fails'[g] = After("RECEIVING", fails[g]) /\ ("RECEIVING" = "BACKOFF" => outage[g] <= reason[g])
          BY <4>1, <4>2, <4>3, <4>4, <2>6 DEF After, ReasonOf
        <4>9. /\ CountOf(g)'
              /\ \A k \in 1 .. Len(states'[g]) :
                   states'[g][k].state = "BACKOFF" => states'[g][k].outage <= reason'[g]
          BY <4>4, <4>5, <4>8, <2>8
        <4>10. ReasonOf(g)'
          BY <4>1, <4>2, <4>3, <4>4, <4>9, <2>6 DEF ReasonOf, fwdVars
        <4>11. /\ DialledOf(g)'
               /\ retPipe'[g] \in {"built", "playing"} => loop'[g] \in {"dial", "await", "live", "close", "shut"}
          BY <4>1, <4>2, <4>3, <4>4, <2>6, <3>1 DEF DialledOf, RunOf, pipeVars
        <4>12. UNCHANGED <<appVars, fwdVars>>
          BY <4>4
        <4>13. QED
          BY <4>1, <4>12, <4>6, <4>7, <4>9, <4>10, <4>11, <2>22, <2>11
    <3>2. ASSUME NEW err \in Nat, NEW q \in Seq(Nat), NextAddress(g, err), err = try[g],
                 errs' = [errs EXCEPT ![g] = q]
          PROVE  RetInv'
      <4>1. CASE Step(g, "await", "dial") /\ retPipe' = [retPipe EXCEPT ![g] = "built"]
          <5>1. /\ loop' \in [Returns -> Loops] /\ loop[g] = "await" /\ loop'[g] = "dial"
                /\ \A h \in Returns : h # g => loop'[h] = loop[h]
            BY <3>2, <4>1, <2>12 DEF NextAddress, Loops
          <5>2. /\ retPipe' \in [Returns -> RetPipes] /\ retPipe'[g] = "built"
                /\ \A h \in Returns : h # g => retPipe'[h] = retPipe[h]
            BY <3>2, <4>1, <2>6, <1>1 DEF NextAddress, RetInv, RetTypes, RetPipes
          <5>3. /\ verdict' \in [Returns -> Nat] /\ verdict'[g] = try[g]
                /\ \A h \in Returns : h # g => verdict'[h] = verdict[h]
            BY <3>2, <4>1, <2>6, <1>1 DEF NextAddress, RetInv, RetTypes, RetPipes
          <5>4. /\ errs' \in [Returns -> Seq(Nat)] /\ errs'[g] = q
                /\ \A h \in Returns : h # g => errs'[h] = errs[h]
            BY <3>2, <4>1, <2>6, <1>1 DEF NextAddress, RetInv, RetTypes, RetPipes
          <5>5. UNCHANGED <<appVars, fwdVars, try, tries, ready, linked, fails, outage, reason,
                            states, lost>>
            BY <3>2, <4>1 DEF NextAddress, RetInv, RetTypes
          <5>6. RetTypes' /\ \A h \in Returns : h # g => Same(h)
            BY <5>1, <5>2, <5>3, <5>4, <5>5 DEF RetInv, RetTypes, Same, fwdVars
          <5>7. DialledOf(g)'
            BY <5>1, <5>2, <5>3, <5>4, <5>5, <2>6 DEF DialledOf
          <5>8. ReasonOf(g)'
            BY <5>1, <5>2, <5>3, <5>4, <5>5, <2>10
          <5>9. /\ CountOf(g)'
                /\ retPipe'[g] \in {"built", "playing"} => loop'[g] \in {"dial", "await", "live", "close", "shut"}
            BY <5>1, <5>2, <5>3, <5>4, <5>5, <2>9, <2>6 DEF RunOf
          <5>10. UNCHANGED <<appVars, fwdVars>> /\ lost' = lost
            BY <5>5
          <5>11. QED
            BY <5>1, <5>10, <5>6, <5>7, <5>8, <5>9, <2>22, <2>11
      <4>2. CASE Step(g, "await", "close") /\ UNCHANGED retPipe
          <5>1. /\ loop' \in [Returns -> Loops] /\ loop[g] = "await" /\ loop'[g] = "close"
                /\ \A h \in Returns : h # g => loop'[h] = loop[h]
            BY <3>2, <4>2, <2>12 DEF NextAddress, Loops
          <5>2. /\ verdict' \in [Returns -> Nat] /\ verdict'[g] = try[g]
                /\ \A h \in Returns : h # g => verdict'[h] = verdict[h]
            BY <3>2, <4>2, <2>6, <1>1 DEF NextAddress, RetInv, RetTypes, RetPipes
          <5>3. /\ errs' \in [Returns -> Seq(Nat)] /\ errs'[g] = q
                /\ \A h \in Returns : h # g => errs'[h] = errs[h]
            BY <3>2, <4>2, <2>6, <1>1 DEF NextAddress, RetInv, RetTypes, RetPipes
          <5>4. UNCHANGED <<appVars, fwdVars, retPipe, try, tries, ready, linked, fails,
                            outage, reason, states, lost>>
            BY <3>2, <4>2 DEF NextAddress, RetInv, RetTypes
          <5>5. RetTypes' /\ \A h \in Returns : h # g => Same(h)
            BY <5>1, <5>2, <5>3, <5>4 DEF RetInv, RetTypes, Same, fwdVars
          <5>6. DialledOf(g)'
            BY <5>1, <5>2, <5>3, <5>4, <2>6 DEF DialledOf
          <5>7. ReasonOf(g)'
            BY <5>1, <5>2, <5>3, <5>4, <2>10
          <5>8. /\ CountOf(g)'
                /\ retPipe'[g] \in {"built", "playing"} => loop'[g] \in {"dial", "await", "live", "close", "shut"}
            BY <5>1, <5>2, <5>3, <5>4, <2>9, <2>6 DEF RunOf
          <5>9. UNCHANGED <<appVars, fwdVars>> /\ lost' = lost
            BY <5>4
          <5>10. QED
            BY <5>1, <5>9, <5>5, <5>6, <5>7, <5>8, <2>22, <2>11
      <4>3. QED
        BY <3>2, <4>1, <4>2 DEF NextAddress
    <3>3. CASE errs[g] # <<>> /\ errs' = [errs EXCEPT ![g] = Tail(@)] /\ NextAddress(g, Head(errs[g]))
      <4>1. loop[g] = "await"
        BY <3>3 DEF NextAddress, Step
      <4> DEFINE e == Head(errs[g])
                 rest == Tail(errs[g])
      <4>2. e = try[g] /\ rest \in Seq(Nat) /\ try[g] \in Nat
        BY <2>22, <3>3, <4>1, <2>6, <2>7 DEF DialledOf
      <4>3. errs' = [errs EXCEPT ![g] = rest] /\ NextAddress(g, e)
        BY <3>3
      <4> HIDE DEF e, rest
      <4>4. QED
        BY <2>22, <3>2, <4>2, <4>3
    <3>4. CASE NextAddress(g, try[g]) /\ UNCHANGED errs
      <4>1. errs' = [errs EXCEPT ![g] = errs[g]] /\ errs[g] \in Seq(Nat) /\ try[g] \in Nat
        BY <3>4, <2>6 DEF RetInv, RetTypes
      <4>2. QED
        BY <3>2, <3>4, <4>1
    <3>5. QED
      BY <2>22, <3>1, <3>3, <3>4 DEF AwaitAudio
  <2>23. ASSUME NEW g \in Returns, Finish(g) PROVE RetInv'
    <3>1. loop[g] = "stop" /\ UNCHANGED <<appVars, fwdVars, pipeVars, verdict, outage, reason,
                                          fails>>
      BY <2>23 DEF Finish, Step
    <3>2. loop' \in [Returns -> Loops] /\ loop'[g] = "done" /\ \A h \in Returns : h # g => loop'[h] = loop[h]
      BY <2>23, <2>12 DEF Finish, Loops
    <3>3. fails' \in [Returns -> Nat] /\ Emit(g, "STOPPED") /\ "STOPPED" \in Lamps
      BY <2>23, <3>1 DEF Finish, Lamps, RetInv, RetTypes
    <3>4. /\ states' \in [Returns -> Seq(Announced)] /\ lost' \subseteq Returns
          /\ \A h \in Returns : h # g => states'[h] = states[h] /\ (h \in lost' <=> h \in lost)
          /\ \/ g \in lost'
             \/ states'[g] # <<>> /\ states'[g][Len(states'[g])].state = "STOPPED"
      <4>1. /\ states' \in [Returns -> Seq(Announced)] /\ lost' \subseteq Returns
            /\ \A h \in Returns : h # g => states'[h] = states[h] /\ (h \in lost' <=> h \in lost)
            /\ \/ g \in lost'
               \/ /\ states'[g] # <<>> /\ Len(states'[g]) = Len(states[g]) + 1
                  /\ states'[g][Len(states[g]) + 1] =
                       [state |-> "STOPPED", outage |-> outage[g], fails |-> fails'[g]]
        BY <3>3, <2>5, <2>23
      <4>2. QED
        BY <4>1
    <3>5. RetTypes' /\ \A h \in Returns : h # g => Same(h)
      BY <3>1, <3>2, <3>3, <3>4 DEF RetInv, RetTypes, Same, fwdVars, pipeVars
    <3>6. fails'[g] = After("STOPPED", fails[g]) /\ "STOPPED" # "BACKOFF"
      BY <3>1 DEF After
    <3>7. /\ CountOf(g)'
          /\ \A k \in 1 .. Len(states'[g]) :
               states'[g][k].state = "BACKOFF" => states'[g][k].outage <= reason'[g]
      BY <3>1, <3>3, <3>6, <2>8, <2>23
    <3>8. ReasonOf(g)'
      BY <3>1, <3>2, <3>7, <2>6, <2>23 DEF ReasonOf, fwdVars
    <3>9. g = retBegun /\ retFwd[g] \in {"range", "speak"}
      BY <3>1, <2>3, <2>23
    <3>10. RunOf(g)' /\ DialledOf(g)'
      BY <3>1, <3>2, <3>9, <2>6, <2>23 DEF RunOf, DialledOf, pipeVars, fwdVars, appVars
    <3>11. LampInv'
      BY <3>1, <3>4, <3>9, <1>1 DEF LampInv, appVars, NoReturn
    <3>12. QED
      BY <3>1, <3>5, <3>7, <3>8, <3>10, <3>11, <2>2, <2>23 DEF OwnInv
  <2>24. ASSUME NEW g \in Returns, retPipe[g] = "playing", Deliver(g) \/ UNCHANGED errs,
                linked' \in [Returns -> Nat], ready' \subseteq Returns,
                \/ UNCHANGED <<linked, ready>>
                \/ linked'[g] = try[g] /\ ready' = ready \cup {g} /\ \A h \in Returns : h # g => linked'[h] = linked[h],
                UNCHANGED <<appVars, retPipe, try, tries, loopVars, fwdVars, states, lost>>
         PROVE  RetInv'
    <3>1. /\ errs' \in [Returns -> Seq(Nat)]
          /\ \A h \in Returns : h # g => errs'[h] = errs[h]
          /\ (\A k \in 1 .. Len(errs[g]) : errs[g][k] = try[g]) =>
               \A k \in 1 .. Len(errs'[g]) : errs'[g][k] = try[g]
      <4>1. errs \in [Returns -> Seq(Nat)] /\ errs[g] \in Seq(Nat) /\ try[g] \in Nat
        BY <2>24 DEF RetInv, RetTypes
      <4>2. CASE UNCHANGED errs
        BY <4>1, <4>2
      <4>3. CASE errs' = [errs EXCEPT ![g] = Append(errs[g], try[g])]
        <5>1. /\ Append(errs[g], try[g]) \in Seq(Nat) /\ Len(errs[g]) \in Nat
              /\ Len(Append(errs[g], try[g])) = Len(errs[g]) + 1
              /\ \A k \in 1 .. Len(errs[g]) : Append(errs[g], try[g])[k] = errs[g][k]
              /\ Append(errs[g], try[g])[Len(errs[g]) + 1] = try[g]
          BY <4>1, AppendProperties, LenProperties
        <5>2. errs'[g] = Append(errs[g], try[g]) /\ \A h \in Returns : h # g => errs'[h] = errs[h]
          BY <2>24, <4>1, <4>3
        <5>3. errs' \in [Returns -> Seq(Nat)]
          BY <4>1, <4>3, <5>1
        <5>4. QED
          BY <5>1, <5>2, <5>3
      <4>4. QED
        BY <2>24, <4>1, <4>2, <4>3 DEF Deliver
    <3>2. /\ UNCHANGED <<loop, verdict, fails, outage, reason>> /\ loop[g] \notin {"none",
                         "done", "report", "backoff"}
          /\ retPipe[g] = "playing"
      BY <2>24, <2>6 DEF loopVars, RunOf
    <3>3. RetTypes' /\ \A h \in Returns : h # g => Same(h)
      BY <2>24, <3>1, <3>2 DEF RetInv, RetTypes, Same, fwdVars
    <3>4. DialledOf(g)'
      BY <2>24, <3>1, <3>2, <2>6 DEF DialledOf
    <3>5. ReasonOf(g)' /\ CountOf(g)'
      BY <2>24, <3>2, <2>9, <2>10
    <3>6. retPipe'[g] \in {"built", "playing"} => loop'[g] \in {"dial", "await", "live", "close", "shut"}
      BY <2>24, <3>2, <2>6 DEF RunOf
    <3>7. UNCHANGED <<appVars, fwdVars>> /\ lost' = lost
      BY <2>24
    <3>8. QED
      BY <2>24, <2>11, <3>2, <3>3, <3>4, <3>5, <3>6, <3>7
  <2>25. ASSUME NEW g \in Returns, OnBusMessage(g) \/ OnPadAdded(g) PROVE RetInv'
    <3>1. linked \in [Returns -> Nat] /\ ready \subseteq Returns /\ try[g] \in Nat
      BY <2>25 DEF RetInv, RetTypes
    <3>2. CASE OnBusMessage(g)
      BY <2>25, <2>24, <3>1, <3>2 DEF OnBusMessage
    <3>3. CASE OnPadAdded(g)
      <4>1. CASE linked' = [linked EXCEPT ![g] = try[g]] /\ ready' = ready \cup {g} /\ UNCHANGED errs
        <5>1. /\ linked' \in [Returns -> Nat] /\ ready' \subseteq Returns /\ linked'[g] = try[g]
              /\ \A h \in Returns : h # g => linked'[h] = linked[h]
          BY <2>25, <3>1, <4>1
        <5>2. QED
          BY <2>25, <2>24, <3>3, <4>1, <5>1 DEF OnPadAdded
      <4>2. CASE Deliver(g) /\ UNCHANGED <<linked, ready>>
        BY <2>25, <2>24, <3>1, <3>3, <4>2 DEF OnPadAdded
      <4>3. QED
        BY <3>3, <4>1, <4>2 DEF OnPadAdded
    <3>4. QED
      BY <2>25, <3>2, <3>3
  <2>26. ASSUME NEW g \in Returns, Forward(g) PROVE RetInv'
    <3> DEFINE s == Head(states[g])
               rest == Tail(states[g])
               m == Counted(g)
    <3>1. /\ retFwd[g] = "range" /\ states[g] # <<>> /\ UNCHANGED <<appVars, pipeVars,
                                                                    loopVars, lost>>
          /\ states' = [states EXCEPT ![g] = rest] /\ lamp' = s.state /\ failures' = [failures EXCEPT ![g] = m]
      BY <2>26 DEF Forward
    <3>2. UNCHANGED <<loop, verdict, fails, outage, reason, retPipe, try, tries, errs, ready,
                      linked, retBegun, ret, retCall>>
      BY <3>1 DEF appVars, pipeVars, loopVars
    <3>3. /\ s = states[g][1] /\ s \in Announced /\ rest \in Seq(Announced)
          /\ Len(states[g]) \in Nat /\ Len(states[g]) >= 1 /\ Len(rest) = Len(states[g]) - 1
          /\ (rest = <<>> <=> Len(rest) = 0)
          /\ \A k \in 1 .. Len(states[g]) - 1 : rest[k] = states[g][k + 1]
      <4>1. /\ states[g] \in Seq(Announced) /\ Len(states[g]) \in Nat
            /\ \A k \in 1 .. Len(states[g]) : states[g][k] \in Announced
        BY <2>26, <2>6
      <4>2. /\ s = states[g][1] /\ rest \in Seq(Announced) /\ Len(states[g]) >= 1
            /\ Len(rest) = Len(states[g]) - 1
            /\ \A k \in 1 .. Len(states[g]) - 1 : rest[k] = states[g][k + 1]
        BY <3>1, <4>1, EmptySeq, HeadTailProperties
      <4>3. rest = <<>> <=> Len(rest) = 0
        <5> HIDE DEF rest
        <5>1. QED
          BY <4>2, EmptySeq
      <4>4. QED
        BY <4>1, <4>2, <4>3
    <3>4. rest = <<>> <=> Len(states[g]) = 1
      BY <3>3
    <3>5. /\ m = After(s.state, failures[g]) /\ m \in Nat /\ failures[g] \in Nat
          /\ s.outage \in Nat /\ s.fails \in Nat /\ s.state \in Lamps
      BY <2>26, <2>6, <3>3 DEF Counted, After, Announced, Lamps
    <3>6. /\ states'[g] = rest /\ states' \in [Returns -> Seq(Announced)]
          /\ failures'[g] = m /\ failures' \in [Returns -> Nat]
          /\ \A h \in Returns : h # g => states'[h] = states[h] /\ failures'[h] = failures[h]
      <4> HIDE DEF s, rest, m
      <4>1. QED
        BY <2>26, <3>1, <3>3, <3>5 DEF RetInv, RetTypes
    <3>7. /\ said' \subseteq Returns /\ retFwd' \in [Returns -> {"none", "range", "speak", "done"}]
          /\ spoken' \in [Returns -> Diagnostics]
          /\ \A h \in Returns : h # g => /\ retFwd'[h] = retFwd[h] /\ spoken'[h] = spoken[h]
                                         /\ (h \in said' <=> h \in said)
          /\ \/ /\ g \in said' /\ retFwd'[g] = "speak" /\ s.state = "BACKOFF" /\ m = DiagnoseAfter
                /\ spoken'[g].outage = s.outage /\ spoken'[g].fails = s.fails
             \/ /\ g \notin said' => m < DiagnoseAfter
                /\ retFwd'[g] = retFwd[g] /\ spoken'[g] = spoken[g]
      <4> DEFINE quiet == IF s.state = "RECEIVING" THEN said \ {g} ELSE said
      <4>1. said \subseteq Returns /\ retFwd \in [Returns -> {"none", "range", "speak", "done"}]
            /\ spoken \in [Returns -> Diagnostics]
        BY DEF RetInv, RetTypes
      <4>2. CASE g \notin quiet /\ m >= DiagnoseAfter
        <5>1. /\ said' = quiet \cup {g} /\ retFwd' = [retFwd EXCEPT ![g] = "speak"]
              /\ spoken' = [spoken EXCEPT ![g] = Diagnostic(s, 0)]
          BY <2>26, <4>2 DEF Forward
        <5>2. Diagnostic(s, 0) \in Diagnostics /\ Diagnostic(s, 0).outage = s.outage /\ Diagnostic(s, 0).fails = s.fails
          BY <3>5 DEF Diagnostic, Diagnostics
        <5>3. s.state = "BACKOFF" /\ m = DiagnoseAfter
          BY <2>26, <2>6, <3>5, <4>2, <1>1 DEF After, CountOf
        <5>4. \A h \in Returns : h # g => (h \in said' <=> h \in said)
          BY <5>1, <5>3
        <5> HIDE DEF s, m, quiet
        <5>5. said' \subseteq Returns /\ g \in said'
          BY <2>26, <4>1, <5>1, <5>3 DEF quiet
        <5>6. QED
          BY <2>26, <4>1, <5>1, <5>2, <5>3, <5>4, <5>5
      <4>3. CASE ~ (g \notin quiet /\ m >= DiagnoseAfter)
        <5>1. said' = quiet /\ UNCHANGED <<retFwd, spoken>>
          BY <2>26, <4>3 DEF Forward
        <5>2. g \notin quiet => m < DiagnoseAfter
          <6> HIDE DEF m, quiet
          <6>1. QED
            BY <3>5, <4>3, <1>1
        <5>3. quiet \subseteq said /\ said \ {g} \subseteq quiet
          OBVIOUS
        <5> HIDE DEF s, m, quiet
        <5>4. said' \subseteq Returns /\ \A h \in Returns : h # g => (h \in said' <=> h \in said)
          BY <4>1, <5>1, <5>3
        <5>5. QED
          BY <2>26, <4>1, <5>1, <5>2, <5>4
      <4>4. QED
        BY <4>2, <4>3
    <3> HIDE DEF s, rest, m
    <3>8. RetTypes' /\ \A h \in Returns : h # g => Same(h)
      BY <3>1, <3>2, <3>6, <3>7 DEF RetInv, RetTypes, Same
    <3>9. g = retBegun
      BY <2>26, <2>3, <3>1
    <3>10. RunOf(g)' /\ DialledOf(g)'
      BY <2>26, <2>6, <3>1, <3>2, <3>7 DEF RunOf, DialledOf
    <3>11. ReasonOf(g)'
      <4>1. \A k \in 1 .. Len(rest) : k + 1 \in 1 .. Len(states[g]) /\ rest[k] = states[g][k + 1]
        BY <3>3
      <4>2. \A k \in 1 .. Len(rest) : rest[k].state = "BACKOFF" => rest[k].outage <= reason[g]
        BY <2>26, <2>6, <4>1 DEF ReasonOf
      <4>3. s.state = "BACKOFF" => s.outage <= reason[g]
        BY <2>26, <2>6, <3>3 DEF ReasonOf
      <4>4. QED
        BY <2>26, <2>6, <3>1, <3>2, <3>6, <3>7, <3>5, <4>2, <4>3 DEF ReasonOf
    <3>12. CountOf(g)'
      <4>1. CASE g \in lost
        BY <2>26, <2>6, <3>1, <3>6, <3>7, <4>1, <1>1 DEF CountOf
      <4>2. CASE g \notin lost
        <5>1. s.fails = m
          BY <2>26, <2>6, <3>3, <3>5, <4>2 DEF CountOf
        <5>2. ASSUME NEW k \in 1 .. Len(rest)
              PROVE  rest[k].fails = After(rest[k].state, IF k = 1 THEN m ELSE rest[k - 1].fails)
          <6>1. /\ k + 1 \in 1 .. Len(states[g]) /\ k + 1 # 1 /\ rest[k] = states[g][k + 1]
                /\ k # 1 => rest[k - 1] = states[g][k]
            <7>1. k \in Nat /\ k >= 1 /\ k <= Len(states[g]) - 1
              BY <3>3
            <7>2. k # 1 => k - 1 \in 1 .. Len(states[g]) - 1 /\ (k - 1) + 1 = k
              BY <3>3, <7>1
            <7>3. k + 1 \in 1 .. Len(states[g]) /\ k + 1 # 1 /\ k \in 1 .. Len(states[g]) - 1
              BY <3>3, <7>1
            <7>4. QED
              BY <3>3, <7>2, <7>3
          <6>2. rest[k].fails = After(rest[k].state, states[g][k].fails)
            <7>1. \A j \in 1 .. Len(states[g]) :
                    states[g][j].fails =
                      After(states[g][j].state, IF j = 1 THEN failures[g] ELSE states[g][j - 1].fails)
              BY <2>26, <2>6, <4>2 DEF CountOf
            <7>2. k \in Nat /\ (k + 1) - 1 = k
              BY <3>3
            <7>3. QED
              BY <6>1, <7>1, <7>2
          <6>3. QED
            BY <3>3, <5>1, <6>1, <6>2
        <5>3. fails[g] = IF rest = <<>> THEN m ELSE rest[Len(rest)].fails
          BY <2>26, <2>6, <3>1, <3>3, <3>4, <4>2, <5>1 DEF CountOf
        <5>4. spoken'[g].fails = DiagnoseAfter \/ (spoken'[g] = Unspoken /\ retFwd'[g] # "speak")
          <6>1. spoken[g].fails = DiagnoseAfter \/ (spoken[g] = Unspoken /\ retFwd[g] # "speak")
            <7>1. CountOf(g)
              BY <2>26, <2>6
            <7>2. QED
              BY <4>2, <7>1 DEF CountOf
          <6>2. CASE retFwd'[g] = "speak" /\ m = DiagnoseAfter /\ spoken'[g].fails = s.fails
            BY <5>1, <6>2
          <6>3. CASE retFwd'[g] = retFwd[g] /\ spoken'[g] = spoken[g]
            BY <6>1, <6>3
          <6>4. QED
            BY <3>7, <6>2, <6>3
        <5>5. g \notin said' => m < DiagnoseAfter
          BY <3>7
        <5>6. QED
          BY <3>2, <3>6, <5>2, <5>3, <5>4, <5>5 DEF CountOf
      <4>3. QED
        BY <4>1, <4>2
    <3>13. LampInv'
      <4> SUFFICES ASSUME lost = {}, loop[g] = "done"
                   PROVE  IF rest = <<>> THEN s.state = "STOPPED" ELSE rest[Len(rest)].state = "STOPPED"
        BY <3>1, <3>2, <3>6, <3>9, <2>26, <1>1 DEF LampInv, NoReturn
      <4>1. states[g][Len(states[g])].state = "STOPPED"
        BY <3>1, <3>9, <2>26, <1>1 DEF RetInv, LampInv, NoReturn
      <4>2. QED
        BY <3>3, <3>4, <4>1
    <3>14. QED
      BY <2>26, <2>2, <3>1, <3>8, <3>10, <3>11, <3>12, <3>13 DEF OwnInv
  <2>27. ASSUME NEW g \in Returns, Speak(g) PROVE RetInv'
    <3>1. /\ retFwd[g] = "speak" /\ retFwd'[g] = "range" /\ spoken'[g] = [spoken[g] EXCEPT !.why = reason[g]]
          /\ UNCHANGED <<appVars, pipeVars, loopVars, lamp, failures, said, states, lost>>
          /\ \A h \in Returns : h # g => retFwd'[h] = retFwd[h] /\ spoken'[h] = spoken[h]
          /\ retFwd' \in [Returns -> {"none", "range", "speak", "done"}]
      BY <2>27 DEF Speak, RetInv, RetTypes
    <3>2. [spoken[g] EXCEPT !.why = reason[g]] \in Diagnostics
      BY <2>27, <2>6 DEF Diagnostics
    <3>3. spoken' \in [Returns -> Diagnostics]
      BY <2>27, <3>2 DEF Speak, RetInv, RetTypes
    <3>4. spoken'[g].why = reason[g] /\ spoken'[g].outage = spoken[g].outage /\ spoken'[g].fails = spoken[g].fails
      BY <2>27, <2>6, <3>1 DEF Diagnostics
    <3>5. UNCHANGED <<loop, verdict, fails, outage, reason, retPipe, try, tries, errs, ready,
                      linked, retBegun, ret, retCall>>
      BY <3>1 DEF appVars, pipeVars, loopVars
    <3>6. RetTypes' /\ \A h \in Returns : h # g => Same(h)
      BY <3>1, <3>3, <3>5 DEF RetInv, RetTypes, Same
    <3>7. RunOf(g)' /\ DialledOf(g)'
      BY <2>27, <2>6, <3>1, <3>5 DEF RunOf, DialledOf
    <3>8. ReasonOf(g)'
      BY <2>27, <2>6, <3>1, <3>4, <3>5 DEF ReasonOf
    <3>9. CountOf(g)'
      BY <2>27, <2>6, <3>1, <3>4, <3>5 DEF CountOf
    <3>10. LampInv'
      BY <3>1, <3>5 DEF RetInv, LampInv
    <3>11. QED
      BY <2>27, <2>2, <3>1, <3>6, <3>7, <3>8, <3>9, <3>10 DEF OwnInv
  <2>28. ASSUME NEW g \in Returns, Ranged(g) PROVE RetInv'
    <3>1. /\ retFwd[g] = "range" /\ retFwd'[g] = "done" /\ states[g] = <<>> /\ loop[g] = "done"
          /\ UNCHANGED <<appVars, pipeVars, loopVars, lamp, failures, said, spoken, states,
                         lost>>
          /\ \A h \in Returns : h # g => retFwd'[h] = retFwd[h]
          /\ retFwd' \in [Returns -> {"none", "range", "speak", "done"}]
      BY <2>28 DEF Ranged, RetInv, RetTypes
    <3>2. UNCHANGED <<loop, verdict, fails, outage, reason, retPipe, try, tries, errs, ready,
                      linked, retBegun, ret, retCall>>
      BY <3>1 DEF appVars, pipeVars, loopVars
    <3>3. RetTypes' /\ \A h \in Returns : h # g => Same(h)
      BY <3>1, <3>2 DEF RetInv, RetTypes, Same
    <3>4. RunOf(g)' /\ DialledOf(g)'
      BY <2>28, <2>6, <3>1, <3>2 DEF RunOf, DialledOf
    <3>5. ReasonOf(g)'
      BY <2>28, <2>6, <3>1, <3>2 DEF ReasonOf
    <3>6. CountOf(g)'
      BY <2>28, <2>6, <3>1, <3>2 DEF CountOf
    <3>7. LampInv'
      BY <3>1, <3>2 DEF RetInv, LampInv
    <3>8. QED
      BY <2>28, <2>2, <3>1, <3>3, <3>4, <3>5, <3>6, <3>7 DEF OwnInv
  <2>29. ASSUME NEW c \in RetCallers, StartReturn(c) PROVE RetInv'
    <3> DEFINE g == retBegun + 1
    <3>1. /\ retBegun' = g /\ ret' = g /\ loop' = [loop EXCEPT ![g] = "top"]
          /\ retFwd' = [retFwd EXCEPT ![g] = "range"] /\ retQuit = "no" /\ retMu = Nobody /\ ret = NoReturn
          /\ retBegun < retLeft.returns
          /\ UNCHANGED <<retMu, retCall, retQuit, retLeft, retPipe, try, tries, errs, ready,
                         linked, verdict, fails,
                         outage, reason, lamp, failures, said, spoken, states, lost>>
      BY <2>29 DEF StartReturn, pipeVars
    <3>2. g \in Returns /\ g \in Nat /\ retBegun \in Nat /\ g # 0 /\ retBegun # g
      BY <3>1, <1>1 DEF RetInv, CallsInv, Returns
    <3> HIDE DEF g
    <3>3. /\ loop' \in [Returns -> Loops] /\ retFwd' \in [Returns -> {"none", "range", "speak", "done"}]
          /\ loop'[g] = "top" /\ retFwd'[g] = "range"
          /\ \A h \in Returns : h # g => loop'[h] = loop[h] /\ retFwd'[h] = retFwd[h]
      BY <3>1, <3>2 DEF RetInv, RetTypes, Loops
    <3>4. RetTypes'
      BY <3>1, <3>3 DEF RetInv, RetTypes
    <3>5. CallsInv'
      BY <3>1, <3>2, <1>1 DEF RetInv, CallsInv, NoReturn, g, Returns
    <3>6. LampInv'
      BY <3>1, <3>2, <3>3 DEF LampInv, NoReturn
    <3>7. retCall = NoReturn /\ loop[g] = "none"
      BY <3>1, <3>2, <2>6 DEF RetInv, CallsInv, RunOf, g
    <3>8. ASSUME NEW h \in Returns PROVE OwnInv(h)'
      <4>1. CASE h = g
        <5>1. RunOf(h)'
          BY <3>1, <3>2, <3>3, <3>7, <2>6, <3>8, <4>1 DEF RunOf
        <5>2. DialledOf(h)' /\ ReasonOf(h)' /\ CountOf(h)'
          <6>1. retFwd[g] = "none"
            BY <3>2, <2>6 DEF RunOf, g
          <6>2. QED
            BY <3>1, <3>2, <3>3, <2>6, <3>8, <4>1, <6>1 DEF DialledOf, ReasonOf, CountOf
        <5>3. QED
          BY <5>1, <5>2 DEF OwnInv
      <4>2. CASE h # g
        <5>1. RunOf(h)'
          <6>1. h > g <=> h > retBegun
            BY <3>2, <3>8, <4>2, <1>1 DEF g
          <6>2. RunOf(h) /\ 0 \notin Returns
            BY <2>6, <3>8, <1>1
          <6>3. h \notin {ret, retCall}
            BY <3>1, <3>7, <3>8, <6>2 DEF NoReturn
          <6>4. QED
            BY <3>1, <3>3, <3>8, <4>2, <6>1, <6>2, <6>3 DEF RunOf
        <5>2. DialledOf(h)' /\ ReasonOf(h)' /\ CountOf(h)'
          BY <3>1, <3>3, <2>6, <3>8, <4>2 DEF DialledOf, ReasonOf, CountOf
        <5>3. QED
          BY <5>1, <5>2 DEF OwnInv
      <4>3. QED
        BY <4>1, <4>2
    <3>9. QED
      BY <3>4, <3>5, <3>6, <3>8 DEF RetInv
  <2>30. ASSUME UNCHANGED <<retBegun, retLeft, pipeVars, fwdVars, states, lost>>,
                UNCHANGED <<loop, verdict, fails, outage, reason>>, CallsInv',
                \A g \in Returns : retFwd[g] # "done" /\ g \in {ret, retCall} => g \in {ret', retCall'}
         PROVE  RetInv'
    <3>1. UNCHANGED <<retPipe, try, tries, errs, ready, linked, lamp, retFwd, failures, said,
                      spoken>>
      BY <2>30 DEF pipeVars, fwdVars
    <3>2. RetTypes' /\ LampInv'
      BY <2>30, <3>1 DEF RetInv, RetTypes, LampInv
    <3>3. ASSUME NEW h \in Returns PROVE OwnInv(h)'
      <4>1. RunOf(h)'
        BY <2>30, <2>6, <3>1, <3>3 DEF RunOf
      <4>2. DialledOf(h)' /\ ReasonOf(h)' /\ CountOf(h)'
        BY <2>30, <2>6, <3>1, <3>3 DEF DialledOf, ReasonOf, CountOf
      <4>3. QED
        BY <4>1, <4>2 DEF OwnInv
    <3>4. QED
      BY <2>30, <3>2, <3>3 DEF RetInv
  <2>31. ASSUME NEW c \in RetCallers \cup {Quitter}, StopReturn(c) PROVE RetInv'
    <3>1. /\ retMu = Nobody /\ ret # NoReturn /\ retMu' = c /\ retCall' = ret /\ ret' = NoReturn
          /\ UNCHANGED <<retQuit, retBegun, retLeft, pipeVars, loop, verdict, fails, outage,
                         reason, fwdVars, states, lost>>
      BY <2>31 DEF StopReturn
    <3>2. c # Nobody
      BY <2>31, ReturnAssumption DEF Nobody
    <3>3. CallsInv'
      BY <3>1, <3>2 DEF RetInv, CallsInv
    <3>4. \A g \in Returns : g \in {ret, retCall} => g \in {ret', retCall'}
      BY <3>1, <1>1 DEF RetInv, CallsInv, NoReturn
    <3>5. QED
      BY <2>30, <3>1, <3>3, <3>4
  <2>32. CASE Joined
    <3>1. /\ retCall # NoReturn /\ retFwd[retCall] = "done" /\ retMu' = Nobody /\ retCall' = NoReturn
          /\ retQuit' = IF retMu = Quitter THEN "gone" ELSE retQuit
          /\ UNCHANGED <<ret, retBegun, retLeft, pipeVars, loopVars, fwdVars, states, lost>>
      BY <2>32 DEF Joined, ReleaseReturn
    <3>2. CallsInv'
      BY <3>1 DEF RetInv, CallsInv
    <3>3. UNCHANGED <<loop, verdict, fails, outage, reason>>
      BY <3>1 DEF loopVars
    <3>4. QED
      BY <2>30, <3>1, <3>2, <3>3
  <2>33. CASE Closing \/ ShutdownReturn
    <3>1. CASE UNCHANGED <<retMu, retCall, ret, retBegun, retLeft, pipeVars, loopVars, fwdVars,
                           states, lost>>
               /\ (retQuit' = "gone" => ret = NoReturn)
      <4>1. CallsInv'
        BY <3>1 DEF RetInv, CallsInv
      <4>2. UNCHANGED <<loop, verdict, fails, outage, reason>>
        BY <3>1 DEF loopVars
      <4>3. QED
        BY <2>30, <3>1, <4>1, <4>2
    <3>2. CASE StopReturn(Quitter)
      BY <2>31, <3>2
    <3>3. QED
      BY <2>33, <3>1, <3>2 DEF Closing, ShutdownReturn
  <2>34. CASE UNCHANGED retVars
    <3>1. CallsInv' /\ UNCHANGED <<loop, verdict, fails, outage, reason, appVars, pipeVars,
                                   fwdVars, states, lost>>
      BY <2>34 DEF RetInv, CallsInv, retVars, loopVars, appVars
    <3>2. QED
      BY <2>30, <3>1 DEF appVars
  <2>35. QED
    BY <2>14, <2>15, <2>16, <2>17, <2>18, <2>19, <2>20, <2>21, <2>22, <2>23, <2>25, <2>26,
       <2>27, <2>28, <2>29, <2>31, <2>32, <2>33, <2>34 DEF RetNext, LoopStep
<1>4. QED
  BY <1>2, <1>3, PTL DEF RetSpec

\* No more addresses are dialled than there may be: what the one session that dials has
\* yet to dial is left over; and what a verdict or an error is about has been dialled.
TryOf(g) ==
  /\ try[g] <= tries /\ linked[g] <= tries /\ verdict[g] <= tries
  /\ loop[g] \in {"dial", "await"} => tries + left[g] <= retLeft.tries
  /\ loop[g] = "dial" => left[g] > 0
  /\ retPipe[g] = "playing" => try[g] >= 1
  /\ Len(errs[g]) <= RetErrors /\ \A k \in 1 .. Len(errs[g]) : errs[g][k] \in 1 .. tries
  /\ Len(states[g]) <= RetStates
BoundInv ==
  /\ tries <= retLeft.tries /\ left \in [Returns -> 0 .. Addresses]
  /\ retMu \in RetCallers \cup {Quitter, Nobody} /\ retQuit \in {"no", "closing", "gone"}
  /\ lamp \in Lamps /\ quit \subseteq Returns
  /\ \A g \in Returns : TryOf(g)

\* The headphone endpoint and the SRT socket are held by one pipeline at most, that of the
\* session that runs or is being stopped (app_return.go: a.ret under retMu; return.go: one
\* pipeline per attempt), and the shutdown leaves no session.  What fails an address is an
\* error about it, RECEIVING is announced for its own audio, the lamp says STOPPED once
\* StopReturn has returned unless a state found the channel full, and a diagnostic has the
\* reason of its outage (return.go: awaitAudio, emit; app_return.go: forwardReturnStates).
\* Every variable of the return is of its type, its channels and counts within their bounds.
THEOREM TheReturnIsHonest == RetSpec => [](RetTypeOK /\ ReturnIsHonest)
<1>1. /\ MaxReturns \in Nat /\ Addresses \in Nat /\ Addresses > 0 /\ RetErrors \in Nat
      /\ RetStates \in Nat /\ MaxTries \in Nat
      /\ \A b \in RetBudgets : b.tries \in 0 .. MaxTries
  <2>1. \A n \in {Addresses, RetStates, RetErrors, DiagnoseAfter, MaxReturns} : n \in Nat \ {0}
    BY ReturnAssumption
  <2>2. /\ MaxReturns \in Nat \ {0} /\ Addresses \in Nat \ {0} /\ RetErrors \in Nat \ {0}
        /\ RetStates \in Nat \ {0}
    BY <2>1
  <2>3. MaxTries \in Nat /\ \A b \in RetBudgets : b.tries \in 0 .. MaxTries
    BY ReturnAssumption
  <2>4. QED
    BY <2>2, <2>3
<1>2. RetInit => BoundInv
  <2> SUFFICES ASSUME RetInit PROVE BoundInv
    OBVIOUS
  <2>1. Len(<<>>) = 0
    OBVIOUS
  <2>2. ASSUME NEW g \in Returns PROVE TryOf(g)
    BY <1>1, <2>1, <2>2 DEF RetInit, TryOf
  <2>3. QED
    BY <1>1, <2>2 DEF RetInit, BoundInv, Lamps
<1>3. RetInv /\ BoundInv /\ [RetNext]_retVars => BoundInv'
  <2> SUFFICES ASSUME RetInv, BoundInv, [RetNext]_retVars PROVE BoundInv'
    OBVIOUS
  <2>1. /\ tries \in Nat /\ retLeft.tries \in Nat /\ retLeft.tries <= MaxTries
        /\ left \in [Returns -> 0 .. Addresses]
        /\ try \in [Returns -> Nat] /\ linked \in [Returns -> Nat] /\ verdict \in [Returns -> Nat]
        /\ errs \in [Returns -> Seq(Nat)] /\ loop \in [Returns -> Loops] /\ retPipe \in [Returns -> RetPipes]
        /\ states \in [Returns -> Seq(Announced)]
    BY <1>1 DEF RetInv, RetTypes, CallsInv, BoundInv
  <2>2. ASSUME NEW g \in Returns, NEW h \in Returns, loop[g] \notin {"none", "done"},
               loop[h] \notin {"none", "done"}
        PROVE  g = h
    <3>1. ASSUME NEW k \in Returns, loop[k] \notin {"none", "done"} PROVE k = retBegun
      BY <3>1, <1>1 DEF RetInv, CallsInv, OwnInv, RunOf, NoReturn, Returns
    <3>2. QED
      BY <2>2, <3>1
  <2>3. ASSUME NEW g \in Returns, errs[g] # <<>>
        PROVE  /\ Head(errs[g]) \in 1 .. tries
               /\ Len(Tail(errs[g])) <= RetErrors
               /\ \A k \in 1 .. Len(Tail(errs[g])) : Tail(errs[g])[k] \in 1 .. tries
    <3>1. errs[g] \in Seq(Nat) /\ Len(errs[g]) \in Nat
      BY <2>1, LenProperties
    <3>2. /\ Head(errs[g]) = errs[g][1] /\ Len(errs[g]) >= 1 /\ Len(Tail(errs[g])) = Len(errs[g]) - 1
          /\ \A k \in 1 .. Len(errs[g]) - 1 : Tail(errs[g])[k] = errs[g][k + 1]
      BY <2>3, <3>1, EmptySeq, HeadTailProperties
    <3>3. TryOf(g)
      BY DEF BoundInv
    <3>4. QED
      BY <1>1, <3>1, <3>2, <3>3 DEF TryOf
  <2>4. ASSUME NEW g \in Returns, NEW s \in Lamps, Emit(g, s)
        PROVE  \A h \in Returns : Len(states'[h]) <= RetStates
    <3>1. \A h \in Returns : Len(states[h]) <= RetStates /\ Len(states[h]) \in Nat
      BY <2>1, LenProperties DEF BoundInv, TryOf
    <3>2. CASE UNCHANGED states
      BY <3>1, <3>2
    <3>3. CASE Len(states[g]) < RetStates
      <4> DEFINE e == [state |-> s, outage |-> outage[g], fails |-> fails'[g]]
      <4>1. states' = [states EXCEPT ![g] = Append(states[g], e)]
        BY <2>4, <3>3 DEF Emit
      <4>2. Len(Append(states[g], e)) = Len(states[g]) + 1
        BY <2>1
      <4> HIDE DEF e
      <4>3. QED
        BY <1>1, <2>1, <3>1, <3>3, <4>1, <4>2
    <3>4. QED
      BY <2>4, <3>2, <3>3 DEF Emit
  <2>5. ASSUME NEW h \in Returns, tries' = tries + 1, loop[h] \notin {"dial", "await"},
                left'[h] = left[h], states'[h] = states[h], retLeft' = retLeft,
                loop'[h] = loop[h], retPipe'[h] = retPipe[h], try'[h] = try[h], linked'[h] = linked[h],
                verdict'[h] = verdict[h], errs'[h] = errs[h]
         PROVE  TryOf(h)'
    <3>1. TryOf(h)
      BY DEF BoundInv
    <3>2. \A k \in 1 .. Len(errs[h]) : errs[h][k] \in 1 .. tries'
      BY <2>1, <2>5, <3>1 DEF TryOf
    <3>3. try[h] <= tries' /\ linked[h] <= tries' /\ verdict[h] <= tries'
      BY <2>1, <2>5, <3>1 DEF TryOf
    <3>4. QED
      BY <2>5, <3>1, <3>2, <3>3 DEF TryOf
  <2>6. ASSUME UNCHANGED <<appVars, quit, tries, left, lamp>>, \A g \in Returns : TryOf(g)' PROVE BoundInv'
    BY <2>6 DEF BoundInv, appVars
  <2>7. ASSUME NEW c \in RetCallers, StartReturn(c) PROVE BoundInv'
    <3>1. retBegun \in Nat /\ retLeft.returns <= MaxReturns /\ retLeft.returns \in Nat
      BY <1>1, ReturnAssumption DEF RetInv, CallsInv
    <3>2. QED
      BY <2>1, <2>7 DEF StartReturn, BoundInv, TryOf, pipeVars
  <2>8. ASSUME NEW c \in RetCallers \cup {Quitter}, StopReturn(c) PROVE BoundInv'
    <3>1. ret \in Returns
      BY <1>1, <2>8 DEF StopReturn, RetInv, CallsInv, NoReturn, Returns
    <3>2. QED
      BY <2>8, <3>1 DEF StopReturn, BoundInv, TryOf, pipeVars, fwdVars
  <2>9. ASSUME Joined \/ Closing PROVE BoundInv'
    BY <2>9 DEF Joined, ReleaseReturn, Closing, BoundInv, TryOf, pipeVars, loopVars, fwdVars
  <2>10. ASSUME ShutdownReturn PROVE BoundInv'
    <3>1. CASE StopReturn(Quitter)
      BY <2>8, <3>1
    <3>2. CASE ~ StopReturn(Quitter)
      BY <2>10, <3>2 DEF ShutdownReturn, BoundInv, TryOf, pipeVars, loopVars, fwdVars
    <3>3. QED
      BY <3>1, <3>2
  <2>11. ASSUME NEW g \in Returns, Top(g) \/ BackOff(g) \/ Finish(g) PROVE BoundInv'
    <3>1. /\ \A h \in Returns : Len(states'[h]) <= RetStates
          /\ loop' = [loop EXCEPT ![g] = loop'[g]] /\ loop'[g] \notin {"dial", "await"}
          /\ UNCHANGED <<appVars, pipeVars, quit, verdict, lamp>>
      <4>1. UNCHANGED states => \A h \in Returns : Len(states'[h]) <= RetStates
        BY DEF BoundInv, TryOf
      <4>2. QED
        BY <2>1, <2>4, <2>11, <4>1 DEF Top, BackOff, Finish, Step, Lamps, fwdVars
    <3>2. QED
      BY <2>1, <3>1 DEF BoundInv, TryOf, pipeVars, appVars
  <2>12. ASSUME NEW g \in Returns, NewPipe(g) PROVE BoundInv'
    <3>1. loop[g] = "new" /\ \A h \in Returns : h # g => loop[h] \notin {"dial", "await"}
      BY <2>1, <2>2, <2>12 DEF NewPipe, Step
    <3>2. tries + Addresses <= retLeft.tries /\ UNCHANGED <<appVars, quit, lamp, states, try>>
          /\ linked' = [linked EXCEPT ![g] = 0]
      BY <2>12 DEF NewPipe, fwdVars
    <3>3. CASE /\ Step(g, "new", "dial") /\ retPipe' = [retPipe EXCEPT ![g] = "built"]
               /\ left' = [left EXCEPT ![g] = Addresses] /\ errs' = [errs EXCEPT ![g] = <<>>]
               /\ UNCHANGED <<verdict, tries>>
      <4>1. Len(<<>>) = 0
        OBVIOUS
      <4>2. ASSUME NEW h \in Returns PROVE TryOf(h)'
        BY <1>1, <2>1, <3>1, <3>2, <3>3, <4>1, <4>2 DEF BoundInv, TryOf, Step, appVars
      <4>3. left' \in [Returns -> 0 .. Addresses]
        BY <1>1, <2>1, <3>3
      <4>4. QED
        BY <3>2, <3>3, <4>2, <4>3 DEF BoundInv, appVars
    <3>4. CASE /\ Step(g, "new", "report") /\ tries' = tries + 1
               /\ verdict' = [verdict EXCEPT ![g] = try[g]] /\ UNCHANGED <<retPipe, left, errs>>
      <4>1. ASSUME NEW h \in Returns PROVE TryOf(h)'
        <5>1. CASE h = g
          <6>1. TryOf(g) /\ loop'[g] = "report" /\ verdict'[g] = try[g]
            BY <2>1, <3>4 DEF BoundInv, Step
          <6>2. \A k \in 1 .. Len(errs[g]) : errs[g][k] \in 1 .. tries'
            <7>1. tries \in Nat /\ tries' = tries + 1
              BY <2>1, <3>4
            <7>2. \A n \in 1 .. tries : n \in 1 .. tries'
              BY <7>1
            <7>3. QED
              BY <6>1, <7>2 DEF TryOf
          <6>3. try[g] <= tries' /\ linked'[g] <= tries'
            BY <2>1, <3>2, <3>4, <6>1 DEF TryOf
          <6>4. QED
            BY <3>2, <3>4, <5>1, <6>1, <6>2, <6>3 DEF TryOf
        <5>2. CASE h # g
          BY <2>1, <2>5, <3>1, <3>2, <3>4, <5>2 DEF Step, appVars
        <5>3. QED
          BY <5>1, <5>2
      <4>2. QED
        BY <1>1, <2>1, <3>2, <3>4, <4>1 DEF BoundInv, appVars
    <3>5. QED
      BY <2>12, <3>3, <3>4 DEF NewPipe
  <2>13. ASSUME NEW g \in Returns, DialAddress(g) PROVE BoundInv'
    <3>1. /\ loop[g] = "dial" /\ left[g] > 0 /\ tries + left[g] <= retLeft.tries
          /\ \A h \in Returns : h # g => loop[h] \notin {"dial", "await"}
      BY <2>1, <2>2, <2>13 DEF DialAddress, GoPlaying, Step, BoundInv, TryOf
    <3>2. /\ loop' = [loop EXCEPT ![g] = "await"] /\ retPipe' = [retPipe EXCEPT ![g] = "playing"]
          /\ tries' = tries + 1 /\ try' = [try EXCEPT ![g] = tries'] /\ left' = [left EXCEPT ![g] = left[g] - 1]
          /\ errs' = [errs EXCEPT ![g] = <<>>] /\ linked' = [linked EXCEPT ![g] = 0]
          /\ UNCHANGED <<appVars, quit, verdict, states, lamp>>
      BY <2>13 DEF DialAddress, GoPlaying, Step, fwdVars
    <3>3. Len(<<>>) = 0 /\ left[g] \in 0 .. Addresses
      BY <2>1
    <3>4. ASSUME NEW h \in Returns PROVE TryOf(h)'
      <4>1. CASE h = g
        BY <1>1, <2>1, <3>1, <3>2, <3>3, <4>1 DEF BoundInv, TryOf, appVars
      <4>2. CASE h # g
        BY <2>1, <2>5, <3>1, <3>2, <4>2 DEF appVars
      <4>3. QED
        BY <4>1, <4>2
    <3>5. left' \in [Returns -> 0 .. Addresses]
      BY <1>1, <2>1, <3>1, <3>2, <3>3
    <3>6. QED
      BY <1>1, <2>1, <3>1, <3>2, <3>3, <3>4, <3>5 DEF BoundInv, appVars
  <2>14. ASSUME NEW g \in Returns, NEW err, err <= tries, err \in Nat, NextAddress(g, err),
                UNCHANGED errs \/ (errs[g] # <<>> /\ errs' = [errs EXCEPT ![g] = Tail(@)])
         PROVE  BoundInv'
    <3>1. /\ loop[g] = "await" /\ loop' = [loop EXCEPT ![g] = loop'[g]] /\ verdict' = [verdict EXCEPT ![g] = err]
          /\ loop'[g] = "dial" => left[g] > 0
          /\ \A h \in Returns : retPipe'[h] = "playing" => retPipe[h] = "playing"
          /\ UNCHANGED <<appVars, quit, try, tries, left, linked, states, lamp>>
      BY <2>1, <2>14 DEF NextAddress, Step, fwdVars
    <3>2. \A h \in Returns : Len(errs'[h]) <= RetErrors /\ \A k \in 1 .. Len(errs'[h]) : errs'[h][k] \in 1 .. tries
      <4>1. ASSUME NEW h \in Returns, errs'[h] = errs[h]
            PROVE  Len(errs'[h]) <= RetErrors /\ \A k \in 1 .. Len(errs'[h]) : errs'[h][k] \in 1 .. tries
        BY <4>1 DEF BoundInv, TryOf
      <4>2. \A h \in Returns : errs'[h] = errs[h] \/ (h = g /\ errs[g] # <<>> /\ errs'[g] = Tail(errs[g]))
        BY <2>1, <2>14
      <4>3. QED
        BY <2>3, <4>1, <4>2
    <3>3. ASSUME NEW h \in Returns PROVE TryOf(h)'
      <4>1. TryOf(h) /\ verdict'[h] <= tries
        BY <2>1, <2>14, <3>1 DEF BoundInv, TryOf
      <4>2. QED
        BY <2>1, <3>1, <3>2, <3>3, <4>1 DEF TryOf, appVars
    <3>4. QED
      BY <2>6, <3>1, <3>3
  <2>15. ASSUME NEW g \in Returns, AwaitAudio(g) PROVE BoundInv'
    <3>1. TryOf(g) /\ try[g] \in Nat
      BY <2>1 DEF BoundInv
    <3>2. CASE NextAddress(g, try[g]) /\ UNCHANGED errs
      BY <2>14, <3>1, <3>2 DEF TryOf
    <3>3. CASE errs[g] # <<>> /\ errs' = [errs EXCEPT ![g] = Tail(@)] /\ NextAddress(g, Head(errs[g]))
      <4>1. Head(errs[g]) \in Nat /\ Head(errs[g]) <= tries
        BY <2>1, <2>3, <3>3
      <4>2. QED
        BY <2>14, <3>3, <4>1
    <3>4. CASE /\ Step(g, "await", "live") /\ Emit(g, "RECEIVING")
               /\ UNCHANGED <<appVars, pipeVars, quit, verdict, reason, fwdVars>>
      <4>1. \A h \in Returns : Len(states'[h]) <= RetStates
        BY <2>4, <3>4 DEF Lamps
      <4>2. QED
        BY <2>1, <3>4, <4>1 DEF BoundInv, TryOf, pipeVars, appVars, fwdVars, Step
    <3>5. QED
      BY <2>15, <3>2, <3>3, <3>4 DEF AwaitAudio
  <2>16. ASSUME NEW g \in Returns, Live(g) PROVE BoundInv'
    <3>1. /\ loop' = [loop EXCEPT ![g] = loop'[g]] /\ loop'[g] \notin {"dial", "await"}
          /\ UNCHANGED <<appVars, retPipe, try, tries, left, linked, quit, states, lamp>>
      BY <2>1, <2>16 DEF Live, Step, fwdVars
    <3>2. CASE UNCHANGED <<verdict, errs>>
      BY <2>1, <3>1, <3>2 DEF BoundInv, TryOf, appVars
    <3>3. CASE errs[g] # <<>> /\ verdict' = [verdict EXCEPT ![g] = Head(errs[g])] /\ errs' = [errs EXCEPT ![g] = Tail(@)]
      <4>1. ASSUME NEW h \in Returns PROVE TryOf(h)'
        <5>1. CASE h = g
          BY <2>1, <2>3, <3>1, <3>3, <5>1 DEF BoundInv, TryOf, appVars
        <5>2. CASE h # g
          BY <2>1, <3>1, <3>3, <4>1, <5>2 DEF BoundInv, TryOf, appVars
        <5>3. QED
          BY <5>1, <5>2
      <4>2. QED
        BY <2>6, <3>1, <4>1
    <3>4. QED
      BY <2>16, <3>2, <3>3 DEF Live
  <2>17. ASSUME NEW g \in Returns, ClosePipe(g) PROVE BoundInv'
    <3>1. /\ loop' = [loop EXCEPT ![g] = loop'[g]] /\ loop'[g] \notin {"dial", "await"}
          /\ retPipe' = [retPipe EXCEPT ![g] = retPipe'[g]] /\ retPipe'[g] # "playing"
          /\ errs' = [errs EXCEPT ![g] = <<>>] /\ linked' = [linked EXCEPT ![g] = 0]
          /\ UNCHANGED <<appVars, try, tries, left, quit, verdict, states, lamp>>
      BY <2>1, <2>17 DEF ClosePipe, TearDown, Step, fwdVars
    <3>2. ASSUME NEW h \in Returns PROVE TryOf(h)'
      <4>1. CASE h = g
        <5>1. Len(<<>>) = 0
          OBVIOUS
        <5>2. QED
          BY <1>1, <2>1, <3>1, <4>1, <5>1 DEF BoundInv, TryOf, appVars
      <4>2. CASE h # g
        BY <2>1, <3>1, <3>2, <4>2 DEF BoundInv, TryOf, appVars
      <4>3. QED
        BY <4>1, <4>2
    <3>3. QED
      BY <2>6, <3>1, <3>2
  <2>18. ASSUME NEW g \in Returns, Report(g) \/ Sleep(g) PROVE BoundInv'
    <3>1. /\ loop' = [loop EXCEPT ![g] = loop'[g]] /\ loop'[g] \notin {"dial", "await"}
          /\ UNCHANGED <<appVars, pipeVars, quit, verdict, states, lamp>>
      BY <2>1, <2>18 DEF Report, Sleep, Step, fwdVars
    <3>2. QED
      BY <2>1, <3>1 DEF BoundInv, TryOf, appVars, pipeVars
  <2>19. ASSUME NEW g \in Returns, retPipe[g] = "playing", Deliver(g), linked'[g] \in {linked[g], try[g]},
                \A h \in Returns : h # g => linked'[h] = linked[h],
                UNCHANGED <<appVars, retPipe, try, tries, left, loopVars, fwdVars, states>> 
         PROVE  BoundInv'
    <3>1. try[g] \in 1 .. tries /\ errs[g] \in Seq(Nat)
      BY <2>1, <2>19 DEF BoundInv, TryOf
    <3>2. /\ \A h \in Returns : h # g => errs'[h] = errs[h]
          /\ Len(errs'[g]) <= RetErrors /\ \A k \in 1 .. Len(errs'[g]) : errs'[g][k] \in 1 .. tries
      <4>1. CASE Len(errs[g]) < RetErrors
        <5>1. /\ Append(errs[g], try[g]) \in Seq(Nat) /\ Len(errs[g]) \in Nat
              /\ Len(Append(errs[g], try[g])) = Len(errs[g]) + 1
              /\ \A k \in 1 .. Len(errs[g]) : Append(errs[g], try[g])[k] = errs[g][k]
              /\ Append(errs[g], try[g])[Len(errs[g]) + 1] = try[g]
          BY <3>1, AppendProperties, LenProperties
        <5>2. errs' = [errs EXCEPT ![g] = Append(errs[g], try[g])]
          BY <2>19, <4>1 DEF Deliver
        <5>3. QED
          BY <1>1, <2>1, <3>1, <4>1, <5>1, <5>2 DEF BoundInv, TryOf
      <4>2. CASE ~ (Len(errs[g]) < RetErrors)
        BY <2>19, <4>2 DEF Deliver, BoundInv, TryOf
      <4>3. QED
        BY <4>1, <4>2
    <3>3. ASSUME NEW h \in Returns PROVE TryOf(h)'
      BY <2>1, <2>19, <3>1, <3>2, <3>3 DEF BoundInv, TryOf, appVars, loopVars
    <3>4. QED
      BY <2>6, <2>19, <3>3 DEF loopVars, fwdVars
  <2>20. ASSUME NEW g \in Returns, OnBusMessage(g) PROVE BoundInv'
    BY <2>19, <2>20 DEF OnBusMessage
  <2>21. ASSUME NEW g \in Returns, OnPadAdded(g) PROVE BoundInv'
    <3>1. CASE Deliver(g) /\ UNCHANGED <<linked, ready>>
      BY <2>19, <2>21, <3>1 DEF OnPadAdded
    <3>2. CASE linked' = [linked EXCEPT ![g] = try[g]] /\ UNCHANGED errs
      BY <2>1, <2>21, <3>2 DEF OnPadAdded, BoundInv, TryOf, appVars, loopVars, fwdVars
    <3>3. QED
      BY <2>21, <3>1, <3>2 DEF OnPadAdded
  <2>22. ASSUME NEW g \in Returns, Forward(g) PROVE BoundInv'
    <3>1. states[g] \in Seq(Announced) /\ states[g] # <<>> /\ Len(states[g]) \in Nat
      BY <2>1, <2>22, LenProperties DEF Forward
    <3>2. Head(states[g]).state \in Lamps /\ Len(Tail(states[g])) <= Len(states[g])
      <4>1. Head(states[g]) \in Announced /\ Len(Tail(states[g])) = Len(states[g]) - 1
        BY <3>1, HeadTailProperties
      <4>2. QED
        BY <3>1, <4>1 DEF Announced
    <3>3. /\ states' = [states EXCEPT ![g] = Tail(states[g])] /\ lamp' = Head(states[g]).state
          /\ UNCHANGED <<appVars, pipeVars, loopVars>>
      BY <2>22 DEF Forward
    <3>4. \A h \in Returns : Len(states'[h]) <= RetStates
      BY <1>1, <2>1, <3>1, <3>2, <3>3 DEF BoundInv, TryOf
    <3>5. QED
      BY <2>1, <3>2, <3>3, <3>4 DEF BoundInv, TryOf, appVars, pipeVars, loopVars
  <2>23. ASSUME NEW g \in Returns, Speak(g) \/ Ranged(g) PROVE BoundInv'
    BY <2>23 DEF Speak, Ranged, BoundInv, TryOf, appVars, pipeVars, loopVars
  <2>24. ASSUME UNCHANGED retVars PROVE BoundInv'
    BY <2>24 DEF retVars, BoundInv, TryOf, appVars, pipeVars, loopVars, fwdVars
  <2>25. QED
    BY <2>7, <2>8, <2>9, <2>10, <2>11, <2>12, <2>13, <2>15, <2>16, <2>17, <2>18, <2>20, <2>21,
       <2>22, <2>23, <2>24 DEF RetNext, LoopStep
<1>4. RetInv /\ BoundInv => RetTypeOK
  <2> SUFFICES ASSUME RetInv, BoundInv PROVE RetTypeOK
    OBVIOUS
  <2>1. tries \in Nat /\ retLeft.tries \in Nat /\ tries <= MaxTries
    BY <1>1 DEF RetInv, RetTypes, CallsInv, BoundInv
  <2>2. ASSUME NEW g \in Returns
        PROVE  /\ try[g] \in 0 .. MaxTries /\ linked[g] \in 0 .. MaxTries /\ verdict[g] \in 0 .. MaxTries
               /\ errs[g] \in Seq(1 .. MaxTries) /\ Len(errs[g]) <= RetErrors
               /\ states[g] \in Seq(Announced) /\ Len(states[g]) <= RetStates
    <3>1. TryOf(g) /\ errs[g] \in Seq(Nat) /\ try[g] \in Nat /\ linked[g] \in Nat /\ verdict[g] \in Nat
          /\ states[g] \in Seq(Announced)
      BY <2>2 DEF BoundInv, RetInv, RetTypes
    <3>2. errs[g] \in Seq(1 .. MaxTries)
      <4>1. \A k \in 1 .. Len(errs[g]) : errs[g][k] \in 1 .. MaxTries
        BY <1>1, <2>1, <3>1 DEF TryOf
      <4>2. errs[g] = [k \in 1 .. Len(errs[g]) |-> errs[g][k]] /\ Len(errs[g]) \in Nat
        BY <3>1, LenProperties
      <4>3. [k \in 1 .. Len(errs[g]) |-> errs[g][k]] \in Seq(1 .. MaxTries)
        BY <4>1, <4>2
      <4>4. QED
        BY <4>2, <4>3
    <3>3. QED
      BY <1>1, <2>1, <3>1, <3>2 DEF TryOf
  <2>3. ret \in Returns \cup {NoReturn} /\ retCall \in Returns \cup {NoReturn}
    BY <1>1 DEF RetInv, CallsInv, Returns, NoReturn
  <2>4. QED
    BY <1>1, <2>1, <2>2, <2>3 DEF RetTypeOK, RetInv, RetTypes, CallsInv, BoundInv
<1>5. RetInv => OneReceiver
  <2> SUFFICES ASSUME RetInv PROVE OneReceiver
    OBVIOUS
  <2>1. ASSUME NEW g \in Open
        PROVE  /\ loop[g] \in {"dial", "await", "live", "close", "shut"}
               /\ g \in {ret, retCall} /\ g = retBegun
    <3>1. g \in Returns /\ RunOf(g) /\ retPipe[g] \in {"built", "playing"} /\ 0 \notin Returns
      BY <2>1 DEF Open, RetInv, OwnInv, Returns
    <3>2. CallsInv /\ g \in Nat /\ retBegun \in Nat
      BY <3>1 DEF RetInv, CallsInv, Returns
    <3>3. QED
      BY <3>1, <3>2 DEF RunOf, CallsInv, NoReturn
  <2>2. Open \subseteq {retBegun}
    BY <2>1
  <2>3. Cardinality(Open) <= 1
    <3>1. IsFiniteSet({retBegun}) /\ Cardinality({retBegun}) = 1
      BY FS_Singleton
    <3>2. QED
      BY <2>2, <3>1, FS_Subset
  <2>4. QED
    BY <2>1, <2>3 DEF OneReceiver, RetInv, CallsInv
<1>6. RetInv => ToldWhatIsSo
  <2> SUFFICES ASSUME RetInv PROVE ToldWhatIsSo
    OBVIOUS
  <2>1. ASSUME NEW g \in Returns
        PROVE  /\ RunOf(g) /\ DialledOf(g) /\ ReasonOf(g) /\ CountOf(g)
    BY <2>1 DEF RetInv, OwnInv
  <2>2. JudgedByItsOwn
    BY <2>1 DEF JudgedByItsOwn, DialledOf
  <2>3. DiagnosticHasItsReason
    BY <2>1 DEF DiagnosticHasItsReason, ReasonOf, CountOf
  <2>4. ret = NoReturn /\ retMu = Nobody => lamp = "STOPPED" \/ lost # {}
    <3> SUFFICES ASSUME ret = NoReturn, retMu = Nobody, lost = {}, retBegun # NoReturn
                 PROVE  lamp = "STOPPED"
      BY DEF RetInv, LampInv
    <3>1. retCall = NoReturn /\ retBegun \in Returns /\ retBegun \in Nat
      BY DEF RetInv, CallsInv, Returns, NoReturn
    <3>2. loop[retBegun] = "done" /\ states[retBegun] = <<>>
      BY <2>1, <3>1 DEF RunOf, NoReturn
    <3>3. QED
      BY <3>2 DEF RetInv, LampInv
  <2>5. QED
    BY <2>2, <2>3, <2>4 DEF ToldWhatIsSo
<1>7. QED
  BY <1>2, <1>3, <1>4, <1>5, <1>6, RetInvariance, PTL DEF RetSpec, ReturnIsHonest

-----------------------------------------------------------------------------
(* PictureMonitor.                                                          *)

\* picMu is held by a call that has something to do; a session to stop, or being stopped,
\* is the last one begun; from the shutdown's stop on there is no other.
PicCallInv ==
  /\ picMu = NoCaller <=> picCall = "none"
  /\ picMu = TearDownCall => picCall = "stop" /\ parting = "closing"
  /\ pic \in {NoPicture, pics}
  /\ IF picCall = "stop" THEN pic = NoPicture /\ picStop = pics /\ pics # NoPicture
                         ELSE picStop = NoPicture
  /\ picCall \in {"options", "overlay", "run"} => pic = NoPicture /\ pics < MaxPictures
  /\ parting \in {"stopped", "dropped", "gone"} => pic = NoPicture /\ picCall = "none"

\* Of a session: it is there once it has begun, its loop ends before its forwarder, and
\* it has a pipeline between two stages of its loop only.
SessionOf(g) ==
  /\ IF g > pics THEN picLoop[g] = "none" /\ picFwd[g] = "none"
     ELSE /\ picLoop[g] # "none" /\ picFwd[g] # "none"
          /\ picFwd[g] = "done" => picLoop[g] = "done" /\ picStates[g] = <<>>
          /\ picFwd[g] # "done" => g \in {pic, picStop} /\ overlay
  /\ picPipe[g] \in {"built", "playing"} => picLoop[g] \in {"dial", "await", "live", "close", "shut"}
  /\ picLoop[g] = "dial" => picLeft[g] > 0

\* The overlay has a window of its own as long as the monitor's window is there, and
\* none when that has gone, or once the shutdown has closed it.
SurfaceInv ==
  /\ ~window => surface = "none"
  /\ overlay /\ window => surface # "none"
  /\ surface # "none" => overlay \/ parting = "dropped"
  /\ parting \in {"dropped", "gone"} => ~overlay
  /\ parting = "gone" => surface = "none"
  /\ picCall = "run" => overlay

\* One attempt at most is made after the window has gone: that whose loop had looked.
BlindInv ==
  /\ window => blind = 0
  /\ blind <= 1
  /\ blind = 1 => \A g \in Pictures : picLoop[g] # "new"

\* Unless a forwarder is about to move it, the overlay follows what is recorded.
FollowInv ==
  /\ overlay /\ window /\ (\A g \in Pictures : picFwd[g] # "apply") =>
       (surface = "shown" <=> want /\ rect /\ lastPic = "SHOWING")
  /\ parting = "dropped" /\ picLost = {} => surface # "shown"

\* STOPPED is the last that is recorded of a session that has ended.
LastInv ==
  picLost = {} =>
    IF pics = NoPicture THEN lastPic = "STOPPED"
    ELSE picLoop[pics] = "done" =>
           IF picStates[pics] = <<>> THEN lastPic = "STOPPED"
           ELSE picStates[pics][Len(picStates[pics])] = "STOPPED"

PicInv == /\ PicTypeOK /\ PicCallInv /\ SurfaceInv /\ BlindInv /\ FollowInv /\ LastInv
          /\ \A g \in Pictures : SessionOf(g)

\* A step that leaves a session alone.
Idles(h) == /\ picLoop'[h] = picLoop[h] /\ picFwd'[h] = picFwd[h] /\ picStates'[h] = picStates[h]
            /\ picPipe'[h] = picPipe[h] /\ picLeft'[h] = picLeft[h]
PicLoops == {"none", "top", "check", "new", "dial", "await", "live", "close", "shut", "backoff",
             "wait", "stop", "done"}

\* The overlay belongs to the picture that draws into it, and is shown exactly while it
\* should be, and the picture's variables keep their types, in particular its channel its
\* bound (monitor_picture.go: StartPicture, StopPicture, SetPictureRect, applyPictureVisibilityViewLocked;
\* picture.go: loop, emit): for any number of sessions, addresses and depths of the channel.
THEOREM TheOverlayIsRight == PicSpec => [](PicTypeOK /\ OverlayIsRight)
<1>1. /\ PicAddresses \in Nat \ {0} /\ PicStates \in Nat \ {0} /\ MaxPictures \in Nat \ {0}
      /\ Pictures \subseteq Nat /\ NoPicture \notin Pictures /\ NoPicture = 0
      /\ \A g \in Pictures : g >= 1 /\ g <= MaxPictures
      /\ \A n \in Nat : n < MaxPictures => n + 1 \in Pictures
      /\ TearDownCall \notin PicCallers /\ NoCaller \notin PicCallers /\ TearDownCall # NoCaller
  <2>1. PicAddresses \in {PicAddresses, PicStates, MaxPictures} /\ PicStates \in {PicAddresses, PicStates, MaxPictures}
        /\ MaxPictures \in {PicAddresses, PicStates, MaxPictures}
    OBVIOUS
  <2>2. PicAddresses \in Nat \ {0} /\ PicStates \in Nat \ {0} /\ MaxPictures \in Nat \ {0}
    BY <2>1, PictureAssumption
  <2>3. QED
    BY <2>2, PictureAssumption DEF Pictures, NoPicture, TearDownCall, NoCaller
<1>2. PicInit => PicInv
  <2> SUFFICES ASSUME PicInit PROVE PicInv
    OBVIOUS
  <2>1. <<>> \in Seq(PicLamps) /\ Len(<<>>) = 0
    OBVIOUS
  <2>2. codec \in Codecs
    BY PictureAssumption DEF PicInit
  <2>3. PicTypeOK
    <3>1. {window, overlay, rect, want} \subseteq BOOLEAN
      BY DEF PicInit
    <3>2. QED
      BY <1>1, <2>1, <2>2, <3>1 DEF PicInit, PicTypeOK, PicLamps, Parsers
  <2>4. PicCallInv /\ SurfaceInv /\ BlindInv /\ FollowInv /\ LastInv
    BY <1>1
       DEF PicInit, PicCallInv, SurfaceInv, BlindInv, FollowInv, LastInv, TearDownCall, NoCaller
  <2>5. ASSUME NEW g \in Pictures PROVE SessionOf(g)
    BY <1>1, <2>5 DEF PicInit, SessionOf
  <2>6. QED
    BY <2>3, <2>4, <2>5 DEF PicInv
<1>3. PicInv /\ [PicNext]_picVars => PicInv'
  <2> SUFFICES ASSUME PicInv, [PicNext]_picVars PROVE PicInv'
    OBVIOUS
  <2>1. ASSUME NEW h \in Pictures, Idles(h), pics' = pics, h \in {pic, picStop} /\ overlay => h \in {pic', picStop'} /\ overlay'
        PROVE  SessionOf(h)'
    BY <2>1 DEF PicInv, SessionOf, Idles
  <2>2. ASSUME NEW g \in Pictures, picLoop[g] \notin {"none", "done"} \/ picFwd[g] \in {"range", "apply"}
        PROVE  /\ g = pics /\ picFwd[g] \in {"range", "apply"} /\ picLoop[g] # "none" /\ overlay
               /\ pics \in Pictures /\ pics # NoPicture /\ g \in {pic, picStop}
               /\ parting \notin {"stopped", "dropped", "gone"}
    BY <2>2, <1>1 DEF PicInv, PicTypeOK, PicCallInv, SessionOf
  <2>3. ASSUME NEW g \in Pictures, NEW s \in PicLamps, PicEmit(g, s)
        PROVE  /\ picStates' \in [Pictures -> Seq(PicLamps)] /\ \A h \in Pictures : Len(picStates'[h]) <= PicStates
               /\ picLost \subseteq picLost' /\ picLost' \subseteq Pictures
               /\ \A h \in Pictures : h # g => picStates'[h] = picStates[h]
               /\ \/ picLost' # {}
                  \/ picStates'[g] # <<>> /\ picStates'[g][Len(picStates'[g])] = s
    <3>1. /\ picStates \in [Pictures -> Seq(PicLamps)] /\ picStates[g] \in Seq(PicLamps) /\ Len(picStates[g]) \in Nat
          /\ picLost \subseteq Pictures /\ \A h \in Pictures : Len(picStates[h]) <= PicStates
      BY <2>3, LenProperties DEF PicInv, PicTypeOK
    <3>2. CASE Len(picStates[g]) < PicStates
      <4>1. picStates' = [picStates EXCEPT ![g] = Append(picStates[g], s)] /\ picLost' = picLost
        BY <2>3, <3>2 DEF PicEmit
      <4>2. /\ Append(picStates[g], s) \in Seq(PicLamps) /\ Append(picStates[g], s) # <<>>
            /\ Len(Append(picStates[g], s)) = Len(picStates[g]) + 1
            /\ Append(picStates[g], s)[Len(picStates[g]) + 1] = s
        BY <2>3, <3>1, AppendProperties
      <4>3. picStates' \in [Pictures -> Seq(PicLamps)] /\ picStates'[g] = Append(picStates[g], s)
            /\ \A h \in Pictures : h # g => picStates'[h] = picStates[h]
        BY <2>3, <3>1, <4>1, <4>2
      <4>4. \A h \in Pictures : Len(picStates'[h]) <= PicStates
        BY <3>1, <3>2, <4>2, <4>3, <1>1
      <4>5. QED
        BY <3>1, <4>1, <4>2, <4>3, <4>4
    <3>3. CASE ~ (Len(picStates[g]) < PicStates)
      BY <2>3, <3>1, <3>3 DEF PicEmit
    <3>4. QED
      BY <3>2, <3>3
  <2>4. ASSUME NEW g \in Pictures, NEW from \in PicLoops \ {"none", "done"}, NEW to \in PicLoops \ {"none"}, PicStep(g, from, to)
        PROVE  /\ picLoop' \in [Pictures -> PicLoops] /\ picLoop[g] = from /\ picLoop'[g] = to
               /\ \A h \in Pictures : h # g => picLoop'[h] = picLoop[h]
               /\ g = pics /\ pics # NoPicture
    BY <2>4, <2>2 DEF PicStep, PicInv, PicTypeOK, PicLoops
  \* What a step of a loop has to show, and what it need not.
  <2>5. ASSUME NEW g \in Pictures, NEW from \in PicLoops \ {"none", "done"}, NEW to \in PicLoops \ {"none", "done"},
               PicStep(g, from, to), UNCHANGED <<picCallVars, viewVars, picFwdVars>>,
               picLost \subseteq picLost', PicTypeOK', BlindInv',
               \A h \in Pictures : h # g => Idles(h),
               picPipe'[g] \in {"built", "playing"} => to \in {"dial", "await", "live", "close", "shut"},
               to = "dial" => picLeft'[g] > 0
        PROVE  PicInv'
    <3>1. picFwd'[g] = picFwd[g] /\ pics' = pics /\ UNCHANGED <<pic, picStop, overlay>>
      BY <2>5 DEF picFwdVars, picCallVars, viewVars
    <3>2. PicCallInv'
      BY <2>5 DEF PicInv, PicCallInv, picCallVars
    <3>3. SurfaceInv'
      BY <2>5 DEF PicInv, SurfaceInv, picCallVars, viewVars
    <3>4. FollowInv'
      BY <2>5 DEF PicInv, FollowInv, picCallVars, viewVars, picFwdVars
    <3>5. LastInv'
      BY <2>5, <2>4, <3>1 DEF LastInv
    <3>6. SessionOf(g)'
      BY <2>5, <2>4, <2>2, <3>1 DEF PicInv, SessionOf, PicLoops
    <3>7. QED
      BY <2>5, <2>1, <3>1, <3>2, <3>3, <3>4, <3>5, <3>6 DEF PicInv
  <2>6. ASSUME NEW g \in Pictures, NEW from \in PicLoops \ {"none", "done", "new"}, NEW to \in PicLoops \ {"none"},
               PicStep(g, from, to), to = "new" => window, UNCHANGED <<window, blind>>
        PROVE  BlindInv'
    BY <2>6, <2>4 DEF PicInv, BlindInv
  <2>7. ASSUME NEW g \in Pictures, NEW from \in PicLoops \ {"none", "done", "new"}, NEW to \in PicLoops \ {"none", "done", "dial"},
               PicStep(g, from, to), to = "new" => window, LoopOnly,
               picPipe[g] \in {"built", "playing"} => to \in {"await", "live", "close", "shut"},
               Silent \/ \E s \in PicLamps : PicEmit(g, s)
        PROVE  PicInv'
    <3>1. UNCHANGED <<picCallVars, viewVars, picFwdVars, window, blind, picPipe, picLeft,
                      picFwd>>
      BY <2>7 DEF LoopOnly, viewVars, picPipeVars, mediaVars, picFwdVars
    <3>2. BlindInv'
      BY <2>7, <2>6, <3>1
    <3>3. /\ picStates' \in [Pictures -> Seq(PicLamps)] /\ \A h \in Pictures : Len(picStates'[h]) <= PicStates
          /\ picLost \subseteq picLost' /\ picLost' \subseteq Pictures
          /\ \A h \in Pictures : h # g => picStates'[h] = picStates[h]
      BY <2>7, <2>3 DEF Silent, PicInv, PicTypeOK
    <3>4. PicTypeOK'
      <4>1. picLoop' \in [Pictures -> PicLoops]
        BY <2>7, <2>4
      <4>2. UNCHANGED <<picMu, picCall, picStop, pic, pics, parting, window, surface, overlay,
                        rect, want, lastPic,
                        picQuit, picFwd, picPipe, picLeft, picErr, videoLinked, frame, builtWith, learned, codec, blind>>
        BY <2>7 DEF LoopOnly, picCallVars, viewVars, picPipeVars, mediaVars, picFwdVars
      <4>3. QED
        BY <3>3, <4>1, <4>2 DEF PicInv, PicTypeOK, PicLoops
    <3>5. \A h \in Pictures : h # g => Idles(h)
      BY <2>7, <2>4, <3>1, <3>3 DEF Idles
    <3>6. QED
      BY <2>7, <2>5, <3>1, <3>2, <3>3, <3>4, <3>5
  <2>8. ASSUME NEW g \in Pictures, PicTop(g) PROVE PicInv'
    <3>1. CASE (g \in picQuit \/ ~window) /\ PicStep(g, "top", "stop") /\ Silent
      <4>1. picPipe[g] \notin {"built", "playing"}
        BY <2>8, <3>1 DEF PicStep, PicInv, SessionOf
      <4>2. QED
        BY <2>8, <3>1, <4>1, <2>7 DEF PicTop, PicLoops
    <3>2. CASE g \notin picQuit /\ window /\ PicStep(g, "top", "new") /\ PicEmit(g, "CONNECTING")
      <4>1. picPipe[g] \notin {"built", "playing"} /\ "CONNECTING" \in PicLamps
        BY <2>8, <3>2 DEF PicStep, PicInv, SessionOf, PicLamps
      <4>2. QED
        BY <2>8, <3>2, <4>1, <2>7 DEF PicTop, PicLoops
    <3>3. QED
      BY <2>8, <3>1, <3>2 DEF PicTop
  <2>9. ASSUME NEW g \in Pictures, PicBuild(g) PROVE PicInv'
    <3>1. UNCHANGED <<picCallVars, viewVars, picErr, videoLinked, frame, learned, codec,
                      picFwdVars, picQuit, picStates, picLost, picFwd, window, pics>>
      BY <2>9 DEF PicBuild, viewVars, picCallVars, picFwdVars
    <3>2. CASE /\ PicStep(g, "new", "dial")
               /\ picPipe' = [picPipe EXCEPT ![g] = "built"]
               /\ picLeft' = [picLeft EXCEPT ![g] = PicAddresses]
               /\ builtWith' = [builtWith EXCEPT ![g] = learned]
               /\ blind' = IF window THEN blind ELSE blind + 1
      <4>1. /\ picLoop' \in [Pictures -> PicLoops] /\ picLoop[g] = "new" /\ picLoop'[g] = "dial"
            /\ \A h \in Pictures : h # g => picLoop'[h] = picLoop[h]
        BY <2>9, <3>2, <2>4 DEF PicLoops
      <4>2. /\ picPipe' \in [Pictures -> {"none", "built", "playing", "null"}] /\ picLeft'[g] > 0
            /\ picLeft' \in [Pictures -> 0 .. PicAddresses] /\ builtWith' \in [Pictures -> Parsers]
            /\ \A h \in Pictures : h # g => picPipe'[h] = picPipe[h] /\ picLeft'[h] = picLeft[h]
        BY <2>9, <3>2, <1>1 DEF PicInv, PicTypeOK
      <4>3. blind = 0 /\ \A h \in Pictures : picLoop[h] = "new" => h = g
        <5>1. blind \in Nat /\ blind <= 1 /\ blind # 1
          BY <2>9, <4>1 DEF PicInv, BlindInv, PicTypeOK
        <5>2. \A h \in Pictures : picLoop[h] = "new" => h = g
          BY <2>9, <4>1, <2>2
        <5>3. QED
          BY <5>1, <5>2
      <4>4. BlindInv' /\ blind' \in Nat
        BY <2>9, <3>1, <3>2, <4>1, <4>3 DEF BlindInv
      <4>5. PicTypeOK'
        <5>1. PicTypeOK
          BY DEF PicInv
        <5>2. QED
          BY <5>1, <3>1, <4>1, <4>2, <4>4 DEF PicTypeOK, picCallVars, viewVars, picFwdVars, PicLoops
      <4>6. \A h \in Pictures : h # g => Idles(h)
        BY <3>1, <4>1, <4>2 DEF Idles
      <4>7. QED
        BY <2>9, <2>5, <3>1, <3>2, <4>2, <4>4, <4>5, <4>6 DEF PicLoops
    <3>3. CASE PicStep(g, "new", "backoff") /\ UNCHANGED <<picPipe, picLeft, builtWith, blind>>
      <4>1. /\ picLoop' \in [Pictures -> PicLoops] /\ picLoop[g] = "new" /\ picLoop'[g] = "backoff"
            /\ \A h \in Pictures : h # g => picLoop'[h] = picLoop[h]
        BY <2>9, <3>3, <2>4 DEF PicLoops
      <4>2. BlindInv'
        BY <3>1, <3>3, <4>1 DEF PicInv, BlindInv
      <4>3. PicTypeOK'
        BY <3>1, <3>3, <4>1 DEF PicInv, PicTypeOK, picCallVars, viewVars, picFwdVars, PicLoops
      <4>4. \A h \in Pictures : h # g => Idles(h)
        BY <3>1, <3>3, <4>1 DEF Idles
      <4>5. picPipe[g] \notin {"built", "playing"}
        BY <2>9, <4>1 DEF PicInv, SessionOf
      <4>6. QED
        BY <2>9, <2>5, <3>1, <3>3, <4>2, <4>3, <4>4, <4>5 DEF PicLoops
    <3>4. QED
      BY <2>9, <3>2, <3>3 DEF PicBuild
  \* What a step does to the pipeline of a loop, and to its pads and errors.
  <2>10. ASSUME NEW g \in Pictures, NEW from \in PicLoops \ {"none", "done", "new"}, NEW to \in PicLoops \ {"none", "done", "new"},
                PicStep(g, from, to), NEW is \in {"none", "built", "playing", "null"}, NEW n \in 0 .. PicAddresses,
                picPipe' = [picPipe EXCEPT ![g] = is], picLeft' = [picLeft EXCEPT ![g] = n],
                is \in {"built", "playing"} => to \in {"dial", "await", "live", "close", "shut"},
                to = "dial" => n > 0, picErr' \subseteq picErr, videoLinked' \subseteq videoLinked, frame' \subseteq frame,
                UNCHANGED <<picCallVars, viewVars, builtWith, learned, codec, blind,
                            picFwdVars, picQuit, picStates, picLost>>
         PROVE  PicInv'
    <3>1. /\ picLoop' \in [Pictures -> PicLoops] /\ picLoop'[g] = to
          /\ \A h \in Pictures : h # g => picLoop'[h] = picLoop[h]
      BY <2>10, <2>4
    <3>2. /\ picPipe' \in [Pictures -> {"none", "built", "playing", "null"}] /\ picPipe'[g] = is
          /\ picLeft' \in [Pictures -> 0 .. PicAddresses] /\ picLeft'[g] = n
          /\ \A h \in Pictures : h # g => picPipe'[h] = picPipe[h] /\ picLeft'[h] = picLeft[h]
      BY <2>10 DEF PicInv, PicTypeOK
    <3>3. BlindInv'
      BY <2>10, <2>6 DEF viewVars
    <3>4. PicTypeOK'
      BY <2>10, <3>1, <3>2 DEF PicInv, PicTypeOK, picCallVars, viewVars, picFwdVars, PicLoops
    <3>5. \A h \in Pictures : h # g => Idles(h)
      BY <2>10, <3>1, <3>2 DEF Idles, picFwdVars
    <3>6. QED
      BY <2>10, <2>5, <3>2, <3>3, <3>4, <3>5
  <2>11. ASSUME NEW g \in Pictures
         PROVE  /\ picPipe[g] \in {"none", "built", "playing", "null"} /\ picLeft[g] \in 0 .. PicAddresses
                /\ picPipe = [picPipe EXCEPT ![g] = picPipe[g]] /\ picLeft = [picLeft EXCEPT ![g] = picLeft[g]]
    BY <2>11 DEF PicInv, PicTypeOK
  <2>12. ASSUME NEW g \in Pictures, PicDial(g) PROVE PicInv'
    <3>1. picLeft[g] - 1 \in 0 .. PicAddresses
      BY <2>12, <2>11, <1>1 DEF PicDial, PicStep, PicInv, SessionOf
    <3>2. /\ PicStep(g, "dial", "await") /\ picPipe' = [picPipe EXCEPT ![g] = "playing"]
          /\ picLeft' = [picLeft EXCEPT ![g] = picLeft[g] - 1]
          /\ picErr' \subseteq picErr /\ videoLinked' \subseteq videoLinked /\ frame' \subseteq frame
          /\ UNCHANGED <<picCallVars, viewVars, builtWith, learned, codec, blind, picFwdVars,
                         picQuit, picStates, picLost>>
      BY <2>12 DEF PicDial
    <3>3. "dial" \in PicLoops \ {"none", "done", "new"} /\ "await" \in PicLoops \ {"none", "done", "new"}
      BY DEF PicLoops
    <3>4. PICK n \in 0 .. PicAddresses : picLeft' = [picLeft EXCEPT ![g] = n]
      BY <3>1, <3>2
    <3>5. /\ "playing" \in {"none", "built", "playing", "null"}
          /\ "playing" \in {"built", "playing"} => "await" \in {"dial", "await", "live", "close", "shut"}
          /\ "await" = "dial" => n > 0
      OBVIOUS
    <3>6. QED
      BY <2>12, <2>10, <3>2, <3>3, <3>4, <3>5, ZenonT(30)
  <2>13. ASSUME NEW g \in Pictures, AwaitFrame(g) PROVE PicInv'
    <3>1. CASE g \in frame /\ PicStep(g, "await", "live") /\ PicEmit(g, "SHOWING") /\ LoopOnly
      <4>1. "SHOWING" \in PicLamps
        BY DEF PicLamps
      <4>2. QED
        BY <2>13, <3>1, <4>1, <2>7 DEF PicLoops
    <3>2. CASE /\ \E err \in {picErr, picErr \ {g}} : picErr' = err
               /\ IF picLeft[g] > 0
                    THEN PicStep(g, "await", "dial") /\ picPipe' = [picPipe EXCEPT ![g] = "built"]
                    ELSE PicStep(g, "await", "close") /\ UNCHANGED picPipe
               /\ UNCHANGED <<picCallVars, viewVars, picLeft, videoLinked, frame, builtWith,
                              learned, codec,
                              budget, blind, picFwdVars, picQuit, picStates, picLost>>
      <4>1. picErr' \subseteq picErr
        BY <3>2
      <4>2. CASE picLeft[g] > 0
        BY <2>13, <3>2, <4>1, <4>2, <2>10, <2>11 DEF PicLoops
      <4>3. CASE ~ (picLeft[g] > 0)
        BY <2>13, <3>2, <4>1, <4>3, <2>10, <2>11 DEF PicLoops
      <4>4. QED
        BY <4>2, <4>3
    <3>3. QED
      BY <2>13, <3>1, <3>2 DEF AwaitFrame
  <2>14. ASSUME NEW g \in Pictures, PicLive(g) PROVE PicInv'
    BY <2>14, <2>7 DEF PicLive, PicLoops
  <2>15. ASSUME NEW g \in Pictures, PicClose(g) PROVE PicInv'
    <3>1. PICK from \in {"close", "shut"}, to \in {"backoff", "stop"} : PicStep(g, from, to)
      BY <2>15 DEF PicClose
    <3>2. /\ from \in PicLoops \ {"none", "done", "new"} /\ to \in PicLoops \ {"none", "done", "new"}
          /\ to # "dial" /\ "null" \notin {"built", "playing"} /\ "null" \in {"none", "built", "playing", "null"}
      BY <3>1 DEF PicLoops
    <3>3. PICK n \in 0 .. PicAddresses : picLeft' = [picLeft EXCEPT ![g] = n]
      BY <2>15, <2>11 DEF PicClose
    <3>4. /\ picPipe' = [picPipe EXCEPT ![g] = "null"]
          /\ picErr' \subseteq picErr /\ videoLinked' \subseteq videoLinked /\ frame' \subseteq frame
          /\ UNCHANGED <<picCallVars, viewVars, builtWith, learned, codec, blind, picFwdVars,
                         picQuit, picStates, picLost>>
      BY <2>15 DEF PicClose
    <3>5. QED
      BY <2>15, <2>10, <3>1, <3>2, <3>3, <3>4
  <2>16. ASSUME NEW g \in Pictures, PicBackOff(g) \/ PicSleep(g) PROVE PicInv'
    <3>1. CASE PicBackOff(g)
      <4>1. picPipe[g] \notin {"built", "playing"} /\ "BACKOFF" \in PicLamps
        BY <2>16, <3>1 DEF PicBackOff, PicStep, PicInv, SessionOf, PicLamps
      <4>2. QED
        BY <2>16, <3>1, <4>1, <2>7 DEF PicBackOff, PicLoops
    <3>2. CASE PicSleep(g)
      <4>1. picPipe[g] \notin {"built", "playing"}
        BY <2>16, <3>2 DEF PicSleep, PicStep, PicInv, SessionOf
      <4>2. QED
        BY <2>16, <3>2, <4>1, <2>7 DEF PicSleep, PicLoops
    <3>3. QED
      BY <2>16, <3>1, <3>2
  <2>17. ASSUME NEW g \in Pictures, PicFinish(g) PROVE PicInv'
    <3>1. /\ picLoop' \in [Pictures -> PicLoops] /\ picLoop[g] = "stop" /\ picLoop'[g] = "done"
          /\ \A h \in Pictures : h # g => picLoop'[h] = picLoop[h]
          /\ g = pics /\ pics # NoPicture
      BY <2>17, <2>4 DEF PicFinish, PicLoops
    <3>2. UNCHANGED <<picMu, picCall, picStop, pic, pics, parting, window, surface, overlay,
                      rect, want, lastPic,
                      picQuit, picFwd, picPipe, picLeft, picErr, videoLinked, frame, builtWith, learned, codec, blind>>
      BY <2>17
         DEF PicFinish, LoopOnly, picCallVars, viewVars, picPipeVars, mediaVars, picFwdVars
    <3>3. "STOPPED" \in PicLamps /\ PicEmit(g, "STOPPED")
      BY <2>17 DEF PicFinish, PicLamps
    <3>4. /\ picStates' \in [Pictures -> Seq(PicLamps)] /\ \A h \in Pictures : Len(picStates'[h]) <= PicStates
          /\ picLost \subseteq picLost' /\ picLost' \subseteq Pictures
          /\ \A h \in Pictures : h # g => picStates'[h] = picStates[h]
          /\ picLost' # {} \/ (picStates'[g] # <<>> /\ picStates'[g][Len(picStates'[g])] = "STOPPED")
      BY <2>17, <3>3, <2>3
    <3>5. PicTypeOK'
      <4>1. PicTypeOK
        BY DEF PicInv
      <4>2. QED
        BY <3>1, <3>2, <3>4, <4>1, SMTT(30) DEF PicTypeOK, PicLoops
    <3>6. PicCallInv' /\ SurfaceInv'
      BY <3>2 DEF PicInv, PicCallInv, SurfaceInv
    <3>7. BlindInv'
      BY <3>1, <3>2 DEF PicInv, BlindInv
    <3>8. FollowInv'
      BY <3>2, <3>4 DEF PicInv, FollowInv
    <3>9. LastInv'
      BY <3>1, <3>2, <3>4 DEF LastInv
    <3>10. SessionOf(g)'
      BY <2>17, <3>1, <3>2, <2>2 DEF PicInv, SessionOf
    <3>11. \A h \in Pictures : h # g => Idles(h)
      BY <3>1, <3>2, <3>4 DEF Idles
    <3>12. QED
      BY <2>1, <3>2, <3>5, <3>6, <3>7, <3>8, <3>9, <3>10, <3>11 DEF PicInv
  <2>18. ASSUME NEW g \in Pictures, picPipe[g] = "playing", PicTypeOK', UNCHANGED <<picCallVars, viewVars, picPipe, picLeft, blind, picLoopVars, picFwdVars>>
         PROVE  PicInv'
    <3>1. UNCHANGED <<picMu, picCall, picStop, pic, pics, parting, window, surface, overlay,
                      rect, want, lastPic,
                      picQuit, picFwd, picPipe, picLeft, blind, picLoop, picStates, picLost>>
      BY <2>18 DEF picCallVars, viewVars, picLoopVars, picFwdVars
    <3>2. PicCallInv' /\ SurfaceInv' /\ BlindInv' /\ FollowInv' /\ LastInv'
      BY <3>1 DEF PicInv, PicCallInv, SurfaceInv, BlindInv, FollowInv, LastInv
    <3>3. \A h \in Pictures : SessionOf(h)'
      BY <2>1, <3>1 DEF Idles
    <3>4. QED
      BY <2>18, <3>2, <3>3 DEF PicInv
  <2>19. ASSUME NEW g \in Pictures, PicPadAdded(g) \/ FirstFrame(g) \/ PicBusError(g) PROVE PicInv'
    <3>1. /\ picPipe[g] = "playing"
          /\ UNCHANGED <<picCallVars, viewVars, picPipe, picLeft, blind, picLoopVars,
                         picFwdVars, builtWith, codec>>
      BY <2>19 DEF PicPadAdded, FirstFrame, PicBusError
    <3>2. learned' \in Parsers /\ picErr' \subseteq Pictures /\ videoLinked' \subseteq Pictures /\ frame' \subseteq Pictures
      <4>1. /\ learned \in Parsers /\ picErr \subseteq Pictures /\ videoLinked \subseteq Pictures /\ frame \subseteq Pictures
            /\ codec \in Codecs /\ builtWith[g] \in Parsers
        BY <2>19 DEF PicInv, PicTypeOK
      <4>2. CASE PicPadAdded(g)
        <5>1. codec # "other" /\ ParserFor[codec] \in Parsers /\ frame' = frame
          BY <4>1, <4>2 DEF PicPadAdded, ParserFor, Codecs, Parsers
        <5>2. CASE ParserFor[codec] = builtWith[g]
          BY <2>19, <4>1, <4>2, <5>1, <5>2 DEF PicPadAdded
        <5>3. CASE ParserFor[codec] # builtWith[g]
          BY <2>19, <4>1, <4>2, <5>1, <5>3 DEF PicPadAdded
        <5>4. QED
          BY <5>2, <5>3
      <4>3. CASE FirstFrame(g) \/ PicBusError(g)
        BY <2>19, <4>1, <4>3 DEF FirstFrame, PicBusError
      <4>4. QED
        BY <2>19, <4>2, <4>3
    <3>3. PicTypeOK'
      BY <3>1, <3>2 DEF PicInv, PicTypeOK, picCallVars, viewVars, picLoopVars, picFwdVars
    <3>4. QED
      BY <2>19, <2>18, <3>1, <3>3
  <2>20. ASSUME CodecChanges PROVE PicInv'
    <3>1. /\ UNCHANGED <<picMu, picCall, picStop, pic, pics, parting, window, surface, overlay,
                         rect, want, lastPic,
                         picQuit, picFwd, picPipe, picLeft, picErr, videoLinked, frame, builtWith, learned, blind, picLoop,
                         picStates, picLost>>
          /\ codec' \in Codecs
      BY <2>20 DEF CodecChanges, picCallVars, viewVars, picLoopVars, picFwdVars
    <3>2. PicTypeOK'
      BY <3>1 DEF PicInv, PicTypeOK
    <3>3. PicCallInv' /\ SurfaceInv' /\ BlindInv' /\ FollowInv' /\ LastInv'
      BY <3>1 DEF PicInv, PicCallInv, SurfaceInv, BlindInv, FollowInv, LastInv
    <3>4. \A h \in Pictures : SessionOf(h)'
      BY <2>1, <3>1 DEF Idles
    <3>5. QED
      BY <3>2, <3>3, <3>4 DEF PicInv
  \* The forwarder.
  <2>21. ASSUME NEW g \in Pictures, PicForward(g) PROVE PicInv'
    <3>1. UNCHANGED <<picMu, picCall, picStop, pic, pics, parting, window, surface, overlay,
                      rect, want,
                      picQuit, picPipe, picLeft, picErr, videoLinked, frame, builtWith, learned, codec, blind, picLoop, picLost>>
      BY <2>21 DEF PicForward, picCallVars, viewVars, picPipeVars, mediaVars
    <3> DEFINE q == picStates[g]
    <3>2. /\ q \in Seq(PicLamps) /\ q # <<>> /\ Len(q) \in Nat /\ Len(q) >= 1 /\ Len(q) <= PicStates
          /\ Head(q) = q[1] /\ Head(q) \in PicLamps /\ Tail(q) \in Seq(PicLamps) /\ Len(Tail(q)) = Len(q) - 1
          /\ \A k \in 1 .. Len(q) - 1 : Tail(q)[k] = q[k + 1]
      <4>1. q \in Seq(PicLamps) /\ q # <<>> /\ Len(q) <= PicStates
        BY <2>21 DEF PicInv, PicTypeOK, PicForward
      <4> HIDE DEF q
      <4>2. QED
        BY <4>1, HeadTailProperties, EmptySeq, LenProperties, ElementOfSeq
    <3>3. /\ picFwd[g] = "range" /\ picFwd' = [picFwd EXCEPT ![g] = "apply"]
          /\ picStates' = [picStates EXCEPT ![g] = Tail(q)] /\ lastPic' = Head(q)
      BY <2>21 DEF PicForward
    <3> DEFINE rest == Tail(q)
    <3>4. Len(rest) \in Nat /\ (rest = <<>> <=> Len(rest) = 0)
      <4>1. rest \in Seq(PicLamps)
        BY <3>2
      <4> HIDE DEF rest
      <4>2. QED
        BY <4>1, EmptySeq, LenProperties
    <3>5. IF rest = <<>> THEN q[Len(q)] = Head(q) ELSE rest[Len(rest)] = q[Len(q)]
      <4>1. Len(rest) = Len(q) - 1 /\ Len(q) \in Nat /\ Head(q) = q[1] /\ \A k \in 1 .. Len(q) - 1 : rest[k] = q[k + 1]
        BY <3>2
      <4> HIDE DEF rest, q
      <4>2. QED
        BY <3>4, <4>1
    <3>6. rest \in Seq(PicLamps) /\ Len(rest) <= PicStates /\ Head(q) \in PicLamps
      <4> HIDE DEF q
      <4>1. QED
        BY <3>2, <1>1
    <3>7. /\ picStates' \in [Pictures -> Seq(PicLamps)] /\ picStates'[g] = rest
          /\ picFwd' \in [Pictures -> {"none", "range", "apply", "done"}] /\ picFwd'[g] = "apply"
          /\ \A h \in Pictures : h # g => picStates'[h] = picStates[h] /\ picFwd'[h] = picFwd[h]
          /\ lastPic' \in PicLamps
      <4> HIDE DEF rest
      <4>1. picStates' = [picStates EXCEPT ![g] = rest]
        BY <3>3 DEF rest
      <4>2. /\ picStates \in [Pictures -> Seq(PicLamps)] /\ g \in Pictures
            /\ picFwd \in [Pictures -> {"none", "range", "apply", "done"}]
        BY <2>21 DEF PicInv, PicTypeOK
      <4>3. picStates' \in [Pictures -> Seq(PicLamps)] /\ picStates'[g] = rest
            /\ \A h \in Pictures : h # g => picStates'[h] = picStates[h]
        BY <3>6, <4>1, <4>2
      <4>4. picFwd' \in [Pictures -> {"none", "range", "apply", "done"}] /\ picFwd'[g] = "apply"
            /\ \A h \in Pictures : h # g => picFwd'[h] = picFwd[h]
        BY <3>3, <4>2
      <4>5. QED
        BY <3>3, <3>6, <4>3, <4>4
    <3>8. \A h \in Pictures : Len(picStates'[h]) <= PicStates
      BY <3>6, <3>7 DEF PicInv, PicTypeOK
    <3> HIDE DEF rest
    <3>9. PicTypeOK'
      BY <3>1, <3>7, <3>8 DEF PicInv, PicTypeOK
    <3>10. PicCallInv' /\ SurfaceInv' /\ BlindInv' /\ FollowInv'
      BY <2>21, <2>2, <3>1, <3>3, <3>7 DEF PicInv, PicCallInv, SurfaceInv, BlindInv, FollowInv
    <3>11. LastInv'
      BY <2>21, <2>2, <3>1, <3>3, <3>5, <3>7 DEF PicInv, LastInv
    <3>12. SessionOf(g)'
      BY <2>21, <2>2, <3>1, <3>3, <3>7 DEF PicInv, SessionOf
    <3>13. \A h \in Pictures : h # g => Idles(h)
      BY <3>1, <3>7 DEF Idles
    <3>14. QED
      BY <2>1, <3>1, <3>9, <3>10, <3>11, <3>12, <3>13 DEF PicInv
  \* Whoever moves the overlay leaves it as it should be.
  <2>22. ASSUME Apply, UNCHANGED window, {overlay', rect', want'} \subseteq BOOLEAN
         PROVE  /\ surface' \in {"none", "hidden", "shown"}
                /\ overlay' /\ window => /\ surface' # "none"
                                         /\ surface' = "shown" <=> want' /\ rect' /\ lastPic' = "SHOWING"
                /\ ~ (overlay' /\ window) => surface' = surface
    BY <2>22 DEF Apply, Visible, PicInv, PicTypeOK
  <2>23. ASSUME NEW g \in Pictures, PicApply(g) PROVE PicInv'
    <3>1. UNCHANGED <<picMu, picCall, picStop, pic, pics, parting, window, overlay, rect, want,
                      lastPic, picStates,
                      picQuit, picPipe, picLeft, picErr, videoLinked, frame, builtWith, learned, codec, blind, picLoop, picLost>>
      BY <2>23 DEF PicApply, picCallVars, picLoopVars, picPipeVars, mediaVars
    <3>2. /\ surface' \in {"none", "hidden", "shown"}
          /\ overlay' /\ window => /\ surface' # "none"
                                   /\ surface' = "shown" <=> want' /\ rect' /\ lastPic' = "SHOWING"
          /\ ~ (overlay' /\ window) => surface' = surface
      <4>1. Apply /\ {overlay', rect', want'} \subseteq BOOLEAN
        BY <2>23, <3>1 DEF PicApply, PicInv, PicTypeOK
      <4>2. QED
        BY <2>22, <3>1, <4>1
    <3>3. /\ picFwd' \in [Pictures -> {"none", "range", "apply", "done"}] /\ picFwd'[g] = "range" /\ picFwd[g] = "apply"
          /\ \A h \in Pictures : h # g => picFwd'[h] = picFwd[h]
      BY <2>23 DEF PicApply, PicInv, PicTypeOK
    <3>4. PicTypeOK'
      BY <3>1, <3>2, <3>3 DEF PicInv, PicTypeOK
    <3>5. PicCallInv' /\ BlindInv' /\ LastInv'
      BY <3>1 DEF PicInv, PicCallInv, BlindInv, LastInv
    <3>6. SurfaceInv'
      BY <3>1, <3>2 DEF PicInv, SurfaceInv
    <3>7. FollowInv'
      BY <2>23, <2>2, <3>1, <3>2, <3>3 DEF PicInv, FollowInv
    <3>8. SessionOf(g)'
      BY <2>23, <3>1, <3>3 DEF PicInv, SessionOf
    <3>9. \A h \in Pictures : h # g => Idles(h)
      BY <3>1, <3>3 DEF Idles
    <3>10. QED
      BY <2>1, <3>1, <3>4, <3>5, <3>6, <3>7, <3>8, <3>9 DEF PicInv
  <2>24. ASSUME NEW g \in Pictures, PicRanged(g) PROVE PicInv'
    <3>1. UNCHANGED <<picMu, picCall, picStop, pic, pics, parting, window, overlay, surface,
                      rect, want, lastPic, picStates,
                      picQuit, picPipe, picLeft, picErr, videoLinked, frame, builtWith, learned, codec, blind, picLoop, picLost>>
      BY <2>24 DEF PicRanged, picCallVars, picLoopVars, picPipeVars, mediaVars, viewVars
    <3>2. /\ picFwd' \in [Pictures -> {"none", "range", "apply", "done"}] /\ picFwd'[g] = "done" /\ picFwd[g] = "range"
          /\ \A h \in Pictures : h # g => picFwd'[h] = picFwd[h]
          /\ picLoop[g] = "done" /\ picStates[g] = <<>>
      BY <2>24 DEF PicRanged, PicInv, PicTypeOK
    <3>3. PicTypeOK'
      BY <3>1, <3>2 DEF PicInv, PicTypeOK
    <3>4. PicCallInv' /\ BlindInv' /\ LastInv' /\ SurfaceInv'
      BY <3>1 DEF PicInv, PicCallInv, BlindInv, LastInv, SurfaceInv
    <3>5. FollowInv'
      BY <2>24, <3>1, <3>2 DEF PicInv, FollowInv
    <3>6. SessionOf(g)'
      BY <2>24, <3>1, <3>2 DEF PicInv, SessionOf
    <3>7. \A h \in Pictures : h # g => Idles(h)
      BY <3>1, <3>2 DEF Idles
    <3>8. QED
      BY <2>1, <3>1, <3>3, <3>4, <3>5, <3>6, <3>7 DEF PicInv
  \* A step of the page, the operator, a call or the shutdown: the sessions go on as they were.
  <2>25. ASSUME UNCHANGED <<pics, mediaVars, picLoopVars, picFwdVars>>, PicTypeOK',
                            PicCallInv', SurfaceInv', FollowInv',
                window' => window,
                \A h \in Pictures : picFwd[h] \notin {"none", "done"} /\ h \in {pic, picStop} /\ overlay
                                      => h \in {pic', picStop'} /\ overlay'
         PROVE  PicInv'
    <3>1. UNCHANGED <<pics, blind, picPipe, picLeft, picLoop, picStates, picLost, picFwd,
                      lastPic>>
      BY <2>25 DEF mediaVars, picLoopVars, picFwdVars
    <3>2. BlindInv' /\ LastInv'
      BY <2>25, <3>1 DEF PicInv, BlindInv, LastInv
    <3>3. \A h \in Pictures : SessionOf(h)'
      BY <2>25, <3>1 DEF PicInv, SessionOf
    <3>4. QED
      BY <2>25, <3>2, <3>3 DEF PicInv
  <2>26. ASSUME UNCHANGED <<mediaVars, picLoopVars, picFwdVars>>,
                picMu' \in PicCallers \cup {TearDownCall, NoCaller},
                picCall' \in {"none", "options", "overlay", "run", "stop"},
                picStop' \in Pictures \cup {NoPicture}, pic' \in Pictures \cup {NoPicture}, pics' = pics,
                parting' \in {"no", "closing", "stopped", "dropped", "gone"},
                surface' \in {"none", "hidden", "shown"}, {window', overlay', rect', want'} \subseteq BOOLEAN
         PROVE  PicTypeOK'
    BY <2>26 DEF PicInv, PicTypeOK, mediaVars, picLoopVars, picFwdVars
  <2>27. ASSUME UNCHANGED <<picCallVars, window, mediaVars, picLoopVars, picFwdVars>>, Apply,
                {overlay', rect', want'} \subseteq BOOLEAN, overlay => overlay',
                overlay' => overlay \/ (parting = "no" /\ window)
         PROVE  PicInv'
    <3>1. /\ surface' \in {"none", "hidden", "shown"}
          /\ overlay' /\ window => /\ surface' # "none"
                                   /\ surface' = "shown" <=> want' /\ rect' /\ lastPic' = "SHOWING"
          /\ ~ (overlay' /\ window) => surface' = surface
      BY <2>22, <2>27
    <3>2. UNCHANGED <<picMu, picCall, picStop, pic, pics, parting, picFwd, picLost, lastPic>>
      BY <2>27 DEF picCallVars, picFwdVars, picLoopVars
    <3>3. PicTypeOK'
      BY <2>26, <2>27, <3>1, <3>2 DEF PicInv, PicTypeOK
    <3>4. PicCallInv'
      BY <3>2 DEF PicInv, PicCallInv
    <3>5. SurfaceInv'
      BY <2>27, <3>1, <3>2 DEF PicInv, PicTypeOK, SurfaceInv
    <3>6. FollowInv'
      BY <2>27, <3>1, <3>2 DEF PicInv, SurfaceInv, FollowInv
    <3>7. QED
      BY <2>25, <2>27, <3>2, <3>3, <3>4, <3>5, <3>6
  <2>28. ASSUME EnsureOverlay
         PROVE  /\ overlay' \in BOOLEAN /\ (overlay => overlay')
                /\ overlay' => overlay \/ (parting = "no" /\ window)
    <3>1. overlay \in BOOLEAN
      BY DEF PicInv, PicTypeOK
    <3>2. CASE (overlay \/ parting # "no" \/ ~window) /\ UNCHANGED overlay
      BY <3>1, <3>2
    <3>3. CASE ~overlay /\ parting = "no" /\ window /\ overlay' = TRUE
      BY <3>3
    <3>4. QED
      BY <2>28, <3>2, <3>3 DEF EnsureOverlay
  <2>29. ASSUME SetPictureRect \/ SetPictureVisible PROVE PicInv'
    <3>1. CASE SetPictureRect
      <4>1. rect' \in BOOLEAN /\ want' \in BOOLEAN /\ EnsureOverlay /\ Apply
            /\ UNCHANGED <<picCallVars, window, mediaVars, picLoopVars, picFwdVars>>
        BY <3>1 DEF SetPictureRect, PicInv, PicTypeOK, picFwdVars
      <4>2. QED
        BY <2>27, <2>28, <4>1
    <3>2. CASE SetPictureVisible
      <4>1. /\ rect' \in BOOLEAN /\ want' \in BOOLEAN /\ overlay' = overlay /\ overlay' \in BOOLEAN /\ Apply
            /\ UNCHANGED <<picCallVars, window, mediaVars, picLoopVars, picFwdVars>>
        BY <3>2 DEF SetPictureVisible, PicInv, PicTypeOK, picFwdVars
      <4>2. QED
        BY <2>27, <4>1
    <3>3. QED
      BY <2>29, <3>1, <3>2
  <2>30. ASSUME WindowGoes PROVE PicInv'
    <3>1. /\ UNCHANGED <<picMu, picCall, picStop, pic, pics, parting, overlay, rect, want,
                         mediaVars, picLoopVars, picFwdVars>>
          /\ window /\ window' = FALSE /\ surface' = "none"
      BY <2>30 DEF WindowGoes, picCallVars, picPipeVars
    <3>2. {window', overlay', rect', want'} \subseteq BOOLEAN
      BY <3>1 DEF PicInv, PicTypeOK
    <3>3. PicTypeOK'
      BY <2>26, <3>1, <3>2 DEF PicInv, PicTypeOK
    <3>4. PicCallInv' /\ SurfaceInv' /\ FollowInv'
      BY <3>1 DEF PicInv, PicCallInv, SurfaceInv, FollowInv, picFwdVars
    <3>5. QED
      BY <2>25, <3>1, <3>3, <3>4
  \* The calls and the shutdown, as long as they leave the view alone.
  <2>31. ASSUME UNCHANGED <<pics, viewVars, mediaVars, picLoopVars, picFwdVars>>, PicCallInv',
                picMu' \in PicCallers \cup {TearDownCall, NoCaller},
                picCall' \in {"none", "options", "overlay", "run", "stop"},
                picStop' \in Pictures \cup {NoPicture}, pic' \in Pictures \cup {NoPicture},
                parting' \in {"no", "closing", "stopped", "dropped", "gone"},
                parting' = parting \/ {parting, parting'} \subseteq {"no", "closing", "stopped"},
                picCall' = "run" => picCall = "run" \/ overlay,
                \A h \in Pictures : picFwd[h] \notin {"none", "done"} /\ h \in {pic, picStop} => h \in {pic', picStop'}
         PROVE  PicInv'
    <3>1. UNCHANGED <<window, surface, overlay, rect, want, picLost, picFwd, lastPic>>
      BY <2>31 DEF viewVars, picLoopVars, picFwdVars
    <3>2. PicTypeOK'
      BY <2>26, <2>31, <3>1 DEF PicInv, PicTypeOK
    <3>3. SurfaceInv'
      BY <2>31, <3>1 DEF PicInv, SurfaceInv
    <3>4. FollowInv'
      BY <2>31, <3>1 DEF PicInv, FollowInv
    <3>5. QED
      BY <2>25, <2>31, <3>1, <3>2, <3>3, <3>4
  <2>32. ASSUME NEW c \in PicCallers, StartPicture(c) PROVE PicInv'
    <3>1. /\ picMu = NoCaller /\ picMu' = c /\ picCall' = "options" /\ parting = "no" /\ pic = NoPicture /\ pics < MaxPictures
          /\ UNCHANGED <<picStop, pic, pics, parting, viewVars, mediaVars, picLoopVars,
                         picFwdVars>>
      BY <2>32 DEF StartPicture, Hold, picPipeVars
    <3>2. PicCallInv'
      BY <2>32, <3>1, <1>1 DEF PicInv, PicCallInv
    <3>3. QED
      BY <2>31, <2>32, <3>1, <3>2 DEF PicInv, PicTypeOK
  <2>33. ASSUME OptionsCame PROVE PicInv'
    <3>1. /\ picCall = "options" /\ UNCHANGED <<picStop, pic, pics, parting, viewVars,
                                                mediaVars, picLoopVars, picFwdVars>>
          /\ \/ picCall' = "overlay" /\ picMu' = picMu
             \/ picCall' = "none" /\ picMu' = NoCaller
      BY <2>33 DEF OptionsCame, Drop, picPipeVars
    <3>2. PicCallInv'
      BY <3>1, <1>1 DEF PicInv, PicCallInv
    <3>3. QED
      BY <2>31, <3>1, <3>2 DEF PicInv, PicTypeOK
  <2>34. ASSUME PictureOverlay PROVE PicInv'
    <3>1. /\ picCall = "overlay" /\ EnsureOverlay /\ Apply
          /\ IF overlay' THEN picCall' = "run" /\ picMu' = picMu ELSE picCall' = "none" /\ picMu' = NoCaller
          /\ UNCHANGED <<picStop, pic, pics, parting, window, rect, want, lastPic, mediaVars,
                         picLoopVars, picFwdVars, picFwd, picLost>>
      BY <2>34 DEF PictureOverlay, Drop, picPipeVars, picFwdVars, picLoopVars
    <3>2. /\ overlay' \in BOOLEAN /\ (overlay => overlay')
          /\ overlay' => overlay \/ (parting = "no" /\ window)
          /\ {window', overlay', rect', want'} \subseteq BOOLEAN /\ {overlay', rect', want'} \subseteq BOOLEAN
      BY <2>28, <3>1 DEF PicInv, PicTypeOK
    <3>3. /\ surface' \in {"none", "hidden", "shown"}
          /\ overlay' /\ window => /\ surface' # "none"
                                   /\ surface' = "shown" <=> want' /\ rect' /\ lastPic' = "SHOWING"
          /\ ~ (overlay' /\ window) => surface' = surface
      BY <2>22, <3>1, <3>2
    <3>4. PicCallInv'
      BY <3>1, <1>1 DEF PicInv, PicCallInv
    <3>5. picMu' \in PicCallers \cup {TearDownCall, NoCaller} /\ picCall' \in {"none", "options", "overlay", "run", "stop"}
      BY <3>1 DEF PicInv, PicTypeOK
    <3>6. PicTypeOK'
      BY <2>26, <3>1, <3>2, <3>3, <3>5 DEF PicInv, PicTypeOK
    <3>7. SurfaceInv'
      BY <3>1, <3>2, <3>3 DEF PicInv, PicTypeOK, SurfaceInv
    <3>8. FollowInv'
      BY <3>1, <3>2, <3>3 DEF PicInv, SurfaceInv, FollowInv
    <3>9. QED
      BY <2>25, <3>1, <3>2, <3>4, <3>6, <3>7, <3>8
  <2>35. ASSUME RunPicture PROVE PicInv'
    <3>0. PICK n \in Pictures : n = pics + 1
      BY <2>35, <1>1 DEF RunPicture, PicInv, PicCallInv, PicTypeOK
    <3>1. /\ picCall = "run" /\ picMu' = NoCaller /\ picCall' = "none" /\ pics' = n /\ pic' = n
          /\ picLoop' = [picLoop EXCEPT ![n] = "top"] /\ picFwd' = [picFwd EXCEPT ![n] = "range"]
          /\ UNCHANGED <<picStop, parting, window, surface, overlay, rect, want, picPipe,
                         picLeft, picErr, videoLinked, frame,
                         builtWith, learned, codec, blind, picQuit, picStates, picLost, lastPic>>
      BY <2>35, <3>0 DEF RunPicture, Drop, viewVars, picPipeVars, mediaVars
    <3>2. n \in Pictures /\ n # NoPicture /\ overlay /\ pic = NoPicture /\ picStop = NoPicture /\ n \in 0 .. MaxPictures
          /\ pics \in Nat /\ n > pics /\ parting \notin {"stopped", "dropped", "gone"}
      BY <3>0, <3>1, <1>1 DEF PicInv, PicTypeOK, PicCallInv, SurfaceInv
    <3>3. picLoop[n] = "none" /\ picFwd[n] = "none" /\ picPipe[n] \notin {"built", "playing"}
      BY <3>2 DEF PicInv, SessionOf
    <3>4. /\ picLoop' \in [Pictures -> PicLoops] /\ picLoop'[n] = "top"
          /\ picFwd' \in [Pictures -> {"none", "range", "apply", "done"}] /\ picFwd'[n] = "range"
          /\ \A h \in Pictures : h # n => picLoop'[h] = picLoop[h] /\ picFwd'[h] = picFwd[h]
      BY <3>1, <3>2 DEF PicInv, PicTypeOK, PicLoops
    <3>5. PicTypeOK'
      BY <3>1, <3>2, <3>4 DEF PicInv, PicTypeOK, PicLoops
    <3>6. PicCallInv'
      BY <3>1, <3>2, <1>1 DEF PicInv, PicCallInv
    <3>7. SurfaceInv' /\ BlindInv' /\ LastInv'
      BY <3>1, <3>2, <3>4 DEF PicInv, SurfaceInv, BlindInv, LastInv
    <3>8. FollowInv'
      BY <3>1, <3>2, <3>3, <3>4 DEF PicInv, FollowInv
    <3>9. SessionOf(n)'
      <4>1. ~ (n > pics') /\ n \in {pic', picStop'} /\ overlay' /\ picPipe'[n] = picPipe[n]
        BY <3>1, <3>2
      <4>2. QED
        BY <3>3, <3>4, <4>1 DEF SessionOf
    <3>10. ASSUME NEW h \in Pictures, h # n PROVE SessionOf(h)'
      <4>1. (h > n <=> h > pics) /\ h \notin {pic, picStop}
        BY <3>0, <3>10, <3>2, <1>1
      <4>2. QED
        BY <3>10, <3>1, <3>4, <4>1 DEF PicInv, SessionOf
    <3>11. \A h \in Pictures : SessionOf(h)'
      <4>1. ASSUME NEW h \in Pictures PROVE SessionOf(h)'
        <5>1. CASE h = n
          BY <3>9, <5>1
        <5>2. CASE h # n
          BY <4>1, <3>10, <5>2
        <5>3. QED
          BY <5>1, <5>2
      <4>2. QED
        BY <4>1
    <3>12. QED
      BY <3>5, <3>6, <3>7, <3>8, <3>11 DEF PicInv
  <2>36. ASSUME NEW c \in PicCallers \cup {TearDownCall}, StopPicture(c), c = TearDownCall => parting = "closing" PROVE PicInv'
    <3>1. /\ picMu = NoCaller /\ picMu' = c /\ picCall' = "stop" /\ pic # NoPicture /\ pic' = NoPicture /\ picStop' = pic
          /\ picQuit' = picQuit \cup {pic}
          /\ UNCHANGED <<pics, parting, window, surface, overlay, rect, want, picPipe, picLeft,
                         picErr, videoLinked, frame,
                         builtWith, learned, codec, blind, picLoop, picFwd, picStates, picLost, lastPic>>
      BY <2>36 DEF StopPicture, Hold, viewVars, picPipeVars, mediaVars, picFwdVars
    <3>2. PicTypeOK'
      BY <2>36, <3>1, <1>1 DEF PicInv, PicTypeOK
    <3>3. PicCallInv'
      BY <2>36, <3>1, <1>1 DEF PicInv, PicCallInv
    <3>4. SurfaceInv' /\ BlindInv' /\ LastInv' /\ FollowInv'
      BY <3>1 DEF PicInv, SurfaceInv, BlindInv, LastInv, FollowInv
    <3>5. ASSUME NEW h \in Pictures PROVE SessionOf(h)'
      <4>1. picStop = NoPicture
        BY <3>1 DEF PicInv, PicCallInv
      <4>2. QED
        BY <3>5, <3>1, <4>1, <1>1 DEF PicInv, SessionOf
    <3>6. QED
      BY <3>2, <3>3, <3>4, <3>5 DEF PicInv
  \* With nothing lost, a session that is over has left STOPPED behind.
  <2>37. ASSUME picLost = {}, pic = NoPicture, \A g \in Pictures : picFwd[g] \in {"none", "done"} PROVE lastPic = "STOPPED"
    <3>1. pics = NoPicture \/ pics \in Pictures
      BY <1>1 DEF PicInv, PicTypeOK, Pictures
    <3>2. CASE pics \in Pictures
      <4>1. picFwd[pics] = "done"
        BY <2>37, <3>2, <1>1 DEF PicInv, SessionOf
      <4>2. QED
        BY <2>37, <3>2, <4>1, <1>1 DEF PicInv, SessionOf, LastInv
    <3>3. CASE pics = NoPicture
      BY <2>37, <3>3 DEF PicInv, LastInv
    <3>4. QED
      BY <3>1, <3>2, <3>3
  <2>38. ASSUME PictureJoined PROVE PicInv'
    <3>1. /\ picCall = "stop" /\ picFwd[picStop] = "done" /\ picMu' = NoCaller /\ picCall' = "none" /\ picStop' = NoPicture
          /\ parting' = IF picMu = TearDownCall THEN "stopped" ELSE parting
          /\ Apply /\ UNCHANGED <<overlay, rect, want, lastPic, pic, pics, window, mediaVars,
                                  picLoopVars, picFwdVars, picFwd, picLost>>
      BY <2>38 DEF PictureJoined, Drop, picPipeVars, picFwdVars, picLoopVars
    <3>2. {window', overlay', rect', want'} \subseteq BOOLEAN /\ {overlay', rect', want'} \subseteq BOOLEAN
      BY <3>1 DEF PicInv, PicTypeOK
    <3>3. /\ surface' \in {"none", "hidden", "shown"}
          /\ overlay' /\ window => /\ surface' # "none"
                                   /\ surface' = "shown" <=> want' /\ rect' /\ lastPic' = "SHOWING"
          /\ ~ (overlay' /\ window) => surface' = surface
      BY <2>22, <3>1, <3>2
    <3>4. parting \notin {"stopped", "dropped", "gone"} /\ pic = NoPicture
      BY <3>1 DEF PicInv, PicCallInv
    <3>5. parting' \in {"no", "closing", "stopped"}
      BY <3>1, <3>4 DEF PicInv, PicTypeOK
    <3>6. PicTypeOK'
      BY <2>26, <3>1, <3>2, <3>3, <3>5 DEF PicInv, PicTypeOK
    <3>7. PicCallInv'
      BY <3>1, <3>4, <3>5, <1>1 DEF PicInv, PicCallInv
    <3>8. SurfaceInv'
      BY <3>1, <3>3, <3>4, <3>5 DEF PicInv, SurfaceInv
    <3>9. FollowInv'
      BY <3>1, <3>3, <3>5 DEF FollowInv
    <3>10. \A h \in Pictures : picFwd[h] \notin {"none", "done"} => h \notin {pic, picStop}
      BY <3>1, <3>4, <1>1
    <3>11. QED
      BY <2>25, <3>1, <3>6, <3>7, <3>8, <3>9, <3>10
  <2>39. ASSUME PartingBegins PROVE PicInv'
    <3>1. /\ parting = "no" /\ parting' = "closing"
          /\ UNCHANGED <<picMu, picCall, picStop, pic, pics, viewVars, mediaVars, picLoopVars,
                         picFwdVars>>
      BY <2>39 DEF PartingBegins, picPipeVars
    <3>2. PicCallInv'
      BY <3>1 DEF PicInv, PicCallInv
    <3>3. QED
      BY <2>31, <3>1, <3>2 DEF PicInv, PicTypeOK
  <2>40. ASSUME PartingStops PROVE PicInv'
    <3>1. CASE StopPicture(TearDownCall)
      BY <2>40, <3>1, <2>36 DEF PartingStops
    <3>2. CASE picMu = NoCaller /\ pic = NoPicture /\ parting' = "stopped"
               /\ UNCHANGED <<picMu, picCall, picStop, pic, pics, viewVars, picPipeVars,
                              picLoopVars, picFwdVars>>
      <4>1. parting = "closing" /\ UNCHANGED mediaVars
        BY <2>40, <3>2 DEF PartingStops, picPipeVars
      <4>2. PicCallInv'
        BY <3>2, <4>1, <1>1 DEF PicInv, PicCallInv
      <4>3. QED
        BY <2>31, <3>2, <4>1, <4>2 DEF PicInv, PicTypeOK
    <3>3. QED
      BY <2>40, <3>1, <3>2 DEF PartingStops
  <2>41. ASSUME PartingDrops PROVE PicInv'
    <3>1. /\ parting = "stopped" /\ parting' = (IF overlay THEN "dropped" ELSE "gone") /\ overlay' = FALSE
          /\ UNCHANGED <<picMu, picCall, picStop, pic, pics, window, surface, rect, want,
                         mediaVars, picLoopVars, picFwdVars, picFwd,
                         picLost, lastPic>>
      BY <2>41 DEF PartingDrops, picPipeVars, picFwdVars, picLoopVars
    <3>2. {window', overlay', rect', want'} \subseteq BOOLEAN
      BY <3>1 DEF PicInv, PicTypeOK
    <3>3. PicTypeOK'
      BY <2>26, <3>1, <3>2 DEF PicInv, PicTypeOK
    <3>4. PicCallInv'
      BY <3>1 DEF PicInv, PicCallInv
    <3>5. SurfaceInv'
      BY <3>1, <3>4 DEF PicInv, PicCallInv, SurfaceInv
    <3>6. pic = NoPicture /\ picStop = NoPicture
      BY <3>1 DEF PicInv, PicCallInv
    <3>7. \A h \in Pictures : picFwd[h] \in {"none", "done"}
      BY <3>6, <1>1 DEF PicInv, SessionOf
    <3>8. picLost = {} => surface # "shown"
      BY <3>1, <3>6, <3>7, <2>37 DEF PicInv, FollowInv, SurfaceInv
    <3>9. FollowInv'
      BY <3>1, <3>8 DEF FollowInv
    <3>10. QED
      BY <2>25, <3>1, <3>3, <3>4, <3>5, <3>7, <3>9
  <2>42. ASSUME PartingCloses PROVE PicInv'
    <3>1. /\ parting = "dropped" /\ parting' = "gone" /\ surface' = "none"
          /\ UNCHANGED <<picMu, picCall, picStop, pic, pics, window, overlay, rect, want,
                         mediaVars, picLoopVars, picFwdVars, picFwd, picLost, lastPic>>
      BY <2>42 DEF PartingCloses, picPipeVars, picFwdVars, picLoopVars
    <3>2. {window', overlay', rect', want'} \subseteq BOOLEAN /\ ~ overlay
      BY <3>1 DEF PicInv, PicTypeOK, SurfaceInv
    <3>3. PicTypeOK'
      BY <2>26, <3>1, <3>2 DEF PicInv, PicTypeOK
    <3>4. PicCallInv'
      BY <3>1 DEF PicInv, PicCallInv
    <3>5. SurfaceInv'
      BY <3>1, <3>2 DEF PicInv, PicCallInv, SurfaceInv
    <3>6. FollowInv'
      BY <3>1, <3>2 DEF FollowInv
    <3>7. QED
      BY <2>25, <3>1, <3>3, <3>4, <3>5, <3>6
  <2>43. CASE UNCHANGED picVars
    <3>1. UNCHANGED <<pics, viewVars, mediaVars, picLoopVars, picFwdVars, picMu, picCall,
                      picStop, pic, parting>>
      BY <2>43 DEF picVars, picCallVars, picPipeVars
    <3>2. PicCallInv'
      BY <3>1 DEF PicInv, PicCallInv
    <3>3. QED
      BY <2>31, <3>1, <3>2 DEF PicInv, PicTypeOK
  <2>44. ASSUME NEW g \in Pictures, PicLoopStep(g) PROVE PicInv'
    BY <2>44, <2>8, <2>9, <2>12, <2>13, <2>14, <2>15, <2>16, <2>17 DEF PicLoopStep
  <2>45. QED
    BY <2>19, <2>20, <2>21, <2>23, <2>24, <2>29, <2>30, <2>32, <2>33, <2>34, <2>35, <2>36,
       <2>38, <2>39, <2>40,
       <2>41, <2>42, <2>43, <2>44, <1>1 DEF PicNext
<1>4. PicInv => OverlayIsRight
  <2> SUFFICES ASSUME PicInv PROVE OverlayIsRight
    OBVIOUS
  <2>1. \A g \in Pictures : picFwd[g] # "done" /\ picFwd[g] # "none" => g = pics /\ overlay /\ g \in {pic, picStop}
    BY <1>1 DEF PicInv, PicCallInv, SessionOf
  <2>2. \A g \in Drawing : picFwd[g] # "done" /\ picFwd[g] # "none"
    BY <1>1 DEF Drawing, PicInv, SessionOf
  <2>3. Drawing \subseteq {pics} /\ Drawing \subseteq Pictures
    BY <2>1, <2>2 DEF Drawing
  <2>4. Cardinality(Drawing) <= 1
    <3>1. IsFiniteSet({pics}) /\ Cardinality({pics}) = 1
      BY FS_Singleton
    <3>2. IsFiniteSet(Drawing) /\ Cardinality(Drawing) \in Nat /\ Cardinality(Drawing) <= Cardinality({pics})
      BY <2>3, <3>1, FS_Subset, FS_CardinalityType
    <3>3. QED
      BY <3>1, <3>2
  <2>5. parting = "gone" => Drawing = {}
    BY <1>1, <2>1, <2>2, <2>3 DEF PicInv, PicCallInv, SurfaceInv
  <2>6. SinkHasItsWindow
    BY <2>1, <2>2, <2>3, <2>4, <2>5 DEF PicInv, SurfaceInv, BlindInv, SinkHasItsWindow
  <2>7. ASSUME picMu = NoCaller, pic = NoPicture, picLost = {} PROVE surface # "shown"
    <3>1. picStop = NoPicture
      BY <2>7 DEF PicInv, PicCallInv
    <3>2. \A g \in Pictures : picFwd[g] \in {"none", "done"}
      BY <2>1, <2>7, <3>1, <1>1
    <3>3. lastPic = "STOPPED"
      <4>1. pics = NoPicture \/ pics \in Pictures
        BY <1>1 DEF PicInv, PicTypeOK, Pictures
      <4>2. CASE pics \in Pictures
        BY <2>7, <3>2, <4>2, <1>1 DEF PicInv, SessionOf, LastInv
      <4>3. CASE pics = NoPicture
        BY <2>7, <4>3 DEF PicInv, LastInv
      <4>4. QED
        BY <4>1, <4>2, <4>3
    <3>4. QED
      BY <2>7, <3>2, <3>3 DEF PicInv, FollowInv, SurfaceInv
  <2>8. OverlayFollows
    BY <2>7 DEF PicInv, FollowInv, OverlayFollows
  <2>9. QED
    BY <2>6, <2>8 DEF OverlayIsRight
<1>5. PicInv => PicTypeOK
  BY DEF PicInv
<1>6. QED
  BY <1>2, <1>3, <1>4, <1>5, PTL DEF PicSpec

-----------------------------------------------------------------------------
(* PictureFeed.                                                             *)

\* What the queue holds is what the encoder sent: a picture that is no keyframe is of the
\* version of the one before it, and the last one of the encoder's.
Units == {AccessUnit(TRUE, v) : v \in 1 .. MaxSets} \cup {AccessUnit(FALSE, v) : v \in 1 .. MaxSets}
VersionOf(au) == au[Len(au)].version
QueueInv ==
  /\ picq \in Seq(Units)
  /\ \A i \in 2 .. Len(picq) : ~ IsKey(picq[i]) => VersionOf(picq[i]) = VersionOf(picq[i - 1])
  /\ picq # <<>> => VersionOf(picq[Len(picq)]) = sets

\* While nothing is dropped, whoever supplies the sets, if he has any, has those that the
\* next picture is coded with, unless it brings its own.
Ready(c) ==
  /\ picq = <<>> => c.sps = sets /\ c.pps = sets
  /\ picq # <<>> /\ ~ IsKey(picq[1]) => c.sps = VersionOf(picq[1]) /\ c.pps = VersionOf(picq[1])
SetsInv ==
  ~ dropping => /\ Reinjects /\ HaveParams(cache) => Ready(cache)
                /\ ~ Reinjects /\ parser # NoSets => Ready(parser)

\* While units are dropped: the backlog drains; then they come one by one, until a keyframe.
CostInv ==
  carried = "h265" =>
    /\ episodeDropped <= behind + Gop
    /\ dropping => \/ episodeDropped + Len(picq) <= behind + 1
                   \/ Len(picq) <= 1 /\ episodeDropped + Len(picq) + gop <= behind + Gop
                   \/ Len(picq) = 1 /\ IsKey(picq[1])

\* The units of a picture, one by one: the kind, the type it is read as, whether it begins a
\* picture, and the version.
Unit(nal, kind, type, first, v) ==
  nal.kind = kind /\ NalType(nal) = type /\ nal.first = first /\ nal.version = v
Key265(au, v) ==
  /\ Len(au) = 6 /\ DOMAIN au = 1 .. 6
  /\ Unit(au[1], "vps", 32, FALSE, v) /\ Unit(au[2], "sps", 33, FALSE, v) /\ Unit(au[3], "pps", 34, FALSE, v)
  /\ Unit(au[4], "sei", 39, FALSE, 0) /\ Unit(au[5], "idr", 20, TRUE, v) /\ Unit(au[6], "idr", 20, FALSE, v)
Key264(au, v) ==
  /\ Len(au) = 5 /\ DOMAIN au = 1 .. 5
  /\ Unit(au[1], "sps", 51, FALSE, v) /\ Unit(au[2], "pps", 52, FALSE, v)
  /\ Unit(au[3], "sei", 3, FALSE, 0) /\ Unit(au[4], "idr", 50, TRUE, v) /\ Unit(au[5], "idr", 50, FALSE, v)
Delta(au, v) ==
  /\ Len(au) = 3 /\ DOMAIN au = 1 .. 3
  /\ IF carried = "h265"
     THEN Unit(au[1], "sei", 39, FALSE, 0) /\ Unit(au[2], "p", 1, TRUE, v) /\ Unit(au[3], "p", 1, FALSE, v)
     ELSE Unit(au[1], "sei", 3, FALSE, 0) /\ Unit(au[2], "p", 32, TRUE, v) /\ Unit(au[3], "p", 32, FALSE, v)

FeedInv == FeedTypeOK /\ QueueInv /\ SetsInv /\ CostInv /\ DecoderCanGoOn

\* A catch-up on H.265 costs at most the backlog it began at and the distance of two
\* keyframes; and the decoder can go on behind it, on either transport, whatever is dropped,
\* lost by the parser or changed by the encoder (catchup.go, h265reinject.go).
THEOREM CatchUpIsAlwaysClean == FeedSpec => [](FeedTypeOK /\ CatchUpIsClean)
<1>1. /\ HighWater \in Nat /\ LowWater \in Nat /\ Gop \in Nat /\ QueueMax \in Nat /\ MaxSets \in Nat
      /\ DropCap \in Nat /\ LowWater < HighWater /\ HighWater < QueueMax /\ Gop > 0 /\ MaxSets > 0
      /\ DropCap > QueueMax + Gop
  BY FeedAssumption
\* What an access unit is made of.
<1>2. carried = "h265" =>
        \A f, v : /\ Unit(Nal("vps", f, v), "vps", 32, f, v) /\ Unit(Nal("sps", f, v), "sps", 33, f, v)
                  /\ Unit(Nal("pps", f, v), "pps", 34, f, v) /\ Unit(Nal("sei", f, v), "sei", 39, f, v)
                  /\ Unit(Nal("idr", f, v), "idr", 20, f, v) /\ Unit(Nal("p", f, v), "p", 1, f, v)
  BY DEF Unit, NalType, Nal, Headers
<1>3. carried = "h264" =>
        \A f, v : /\ Unit(Nal("sps", f, v), "sps", 51, f, v) /\ Unit(Nal("pps", f, v), "pps", 52, f, v)
                  /\ Unit(Nal("sei", f, v), "sei", 3, f, v) /\ Unit(Nal("idr", f, v), "idr", 50, f, v)
                  /\ Unit(Nal("p", f, v), "p", 32, f, v)
  BY DEF Unit, NalType, Nal, Headers
<1>5. ASSUME NEW v
      PROVE  /\ carried = "h265" => Key265(AccessUnit(TRUE, v), v)
             /\ carried = "h264" => Key264(AccessUnit(TRUE, v), v)
             /\ carried \in {"h265", "h264"} => Delta(AccessUnit(FALSE, v), v)
  <2> DEFINE vps == Nal("vps", FALSE, v)  sps == Nal("sps", FALSE, v)  pps == Nal("pps", FALSE, v)
             sei == Nal("sei", FALSE, 0)
             idr == Nal("idr", TRUE, v)  idr2 == Nal("idr", FALSE, v)
             p == Nal("p", TRUE, v)  p2 == Nal("p", FALSE, v)
  <2>1. ASSUME carried = "h265"  PROVE Key265(AccessUnit(TRUE, v), v)
    <3>1. AccessUnit(TRUE, v) = <<vps, sps, pps, sei, idr, idr2>>
      BY <2>1 DEF AccessUnit
    <3>3. /\ Unit(vps, "vps", 32, FALSE, v) /\ Unit(sps, "sps", 33, FALSE, v) /\ Unit(pps, "pps", 34, FALSE, v)
          /\ Unit(sei, "sei", 39, FALSE, 0) /\ Unit(idr, "idr", 20, TRUE, v) /\ Unit(idr2, "idr", 20, FALSE, v)
      BY <1>2, <2>1
    <3> HIDE DEF vps, sps, pps, sei, idr, idr2
    <3>5. ASSUME NEW au, au = <<vps, sps, pps, sei, idr, idr2>>
          PROVE  /\ Len(au) = 6 /\ DOMAIN au = 1 .. 6
                 /\ au[1] = vps /\ au[2] = sps /\ au[3] = pps /\ au[4] = sei /\ au[5] = idr /\ au[6] = idr2
      BY <3>5
    <3>6. QED
      BY <3>1, <3>3, <3>5 DEF Key265
  <2>2. ASSUME carried = "h264"  PROVE Key264(AccessUnit(TRUE, v), v)
    <3>1. AccessUnit(TRUE, v) = <<sps, pps, sei, idr, idr2>>
      BY <2>2 DEF AccessUnit
    <3>3. /\ Unit(sps, "sps", 51, FALSE, v) /\ Unit(pps, "pps", 52, FALSE, v)
          /\ Unit(sei, "sei", 3, FALSE, 0) /\ Unit(idr, "idr", 50, TRUE, v) /\ Unit(idr2, "idr", 50, FALSE, v)
      BY <1>3, <2>2
    <3> HIDE DEF sps, pps, sei, idr, idr2
    <3>5. ASSUME NEW au, au = <<sps, pps, sei, idr, idr2>>
          PROVE  /\ Len(au) = 5 /\ DOMAIN au = 1 .. 5
                 /\ au[1] = sps /\ au[2] = pps /\ au[3] = sei /\ au[4] = idr /\ au[5] = idr2
      BY <3>5
    <3>6. QED
      BY <3>1, <3>3, <3>5 DEF Key264
  <2>3. ASSUME carried \in {"h265", "h264"}  PROVE Delta(AccessUnit(FALSE, v), v)
    <3>1. AccessUnit(FALSE, v) = <<sei, p, p2>>
      BY DEF AccessUnit
    <3>2. IF carried = "h265"
          THEN Unit(sei, "sei", 39, FALSE, 0) /\ Unit(p, "p", 1, TRUE, v) /\ Unit(p2, "p", 1, FALSE, v)
          ELSE Unit(sei, "sei", 3, FALSE, 0) /\ Unit(p, "p", 32, TRUE, v) /\ Unit(p2, "p", 32, FALSE, v)
      BY <1>2, <1>3, <2>3
    <3> HIDE DEF sei, p, p2
    <3>5. ASSUME NEW au, au = <<sei, p, p2>>
          PROVE  /\ Len(au) = 3 /\ DOMAIN au = 1 .. 3
                 /\ au[1] = sei /\ au[2] = p /\ au[3] = p2
      BY <3>5
    <3>6. QED
      BY <3>1, <3>2, <2>3, <3>5 DEF Delta
  <2>4. QED
    BY <2>1, <2>2, <2>3
<1>6. \A n \in Nat : Max({n}) = n
  BY DEF Max
<1>7. ASSUME carried \in {"h265", "h264"}, NEW v
      PROVE  /\ IsKey(AccessUnit(TRUE, v)) /\ ~ IsKey(AccessUnit(FALSE, v))
             /\ VersionOf(AccessUnit(TRUE, v)) = v /\ VersionOf(AccessUnit(FALSE, v)) = v
             /\ HasIRAP(AccessUnit(TRUE, v)) <=> carried = "h265"
             /\ ~ HasIRAP(AccessUnit(FALSE, v))
  <2>1. ASSUME NEW au, Key265(au, v)  PROVE IsKey(au) /\ VersionOf(au) = v /\ HasIRAP(au)
    BY <2>1 DEF Key265, Unit, IsKey, VersionOf, HasIRAP
  <2>2. ASSUME NEW au, Key264(au, v)  PROVE IsKey(au) /\ VersionOf(au) = v /\ ~ HasIRAP(au)
    <3>1. \A i \in DOMAIN au : i = 1 \/ i = 2 \/ i = 3 \/ i = 4 \/ i = 5
      BY <2>2 DEF Key264
    <3>2. QED
      BY <2>2, <3>1 DEF Key264, Unit, IsKey, VersionOf, HasIRAP
  <2>3. ASSUME NEW au, Delta(au, v)  PROVE ~ IsKey(au) /\ VersionOf(au) = v /\ ~ HasIRAP(au)
    <3>1. \A i \in DOMAIN au : i = 1 \/ i = 2 \/ i = 3
      BY <2>3 DEF Delta
    <3>2. QED
      BY <2>3, <3>1 DEF Delta, Unit, IsKey, VersionOf, HasIRAP
  <2>4. QED
    BY <1>5, <1>7, <2>1, <2>2, <2>3
\* What a unit that passes leaves: whoever supplies the sets has those of the unit, if any.
<1>8. ASSUME FeedTypeOK, carried \in {"h265", "h264"}, NEW key \in BOOLEAN, NEW v \in 1 .. MaxSets,
             Pass(AccessUnit(key, v)),
             ~ key /\ Reinjects /\ HaveParams(cache) => cache.sps = v /\ cache.pps = v,
             ~ key /\ ~ Reinjects /\ parser # NoSets => parser.sps = v /\ parser.pps = v
      PROVE  /\ cache' \in Versions /\ parser' \in Versions /\ unresolved' = unresolved
             /\ Reinjects /\ HaveParams(cache') => cache'.sps = v /\ cache'.pps = v
             /\ ~ Reinjects /\ parser' # NoSets => parser'.sps = v /\ parser'.pps = v
  <2> DEFINE au == AccessUnit(key, v)
             c == IF Reinjects THEN Cached(cache, au, Len(au)) ELSE cache
             at == IF Reinjects THEN insertAt(au) ELSE {}
  <2>1. /\ cache' = c
        /\ parser' = [k \in SetKinds |-> Held(au, Len(au) + 1, k, at, c)]
        /\ unresolved' = (unresolved \/ (Armed /\ ~ Resolved(au, at, c)))
    BY <1>8 DEF Pass
  <2>2. /\ unresolved \in BOOLEAN
        /\ cache = [k \in SetKinds |-> cache[k]] /\ \A k \in SetKinds : cache[k] \in 0 .. MaxSets
        /\ parser = [k \in SetKinds |-> parser[k]] /\ \A k \in SetKinds : parser[k] \in 0 .. MaxSets
    BY <1>8 DEF FeedTypeOK, Versions
  <2>3. v \in 0 .. MaxSets /\ v # 0 /\ SetKinds = {"vps", "sps", "pps"}
    BY <1>1 DEF SetKinds
  <2>4. DOMAIN SetOf = {32, 33, 34} /\ SetOf[32] = "vps" /\ SetOf[33] = "sps" /\ SetOf[34] = "pps"
    BY DEF SetOf
  <2>5. CASE key /\ carried = "h265"
    <3>1. Key265(au, v) /\ Reinjects
      BY <1>5, <2>5 DEF Reinjects
    <3> HIDE DEF au
    <3>2. \A i \in 1 .. 6 : i = 1 \/ i = 2 \/ i = 3 \/ i = 4 \/ i = 5 \/ i = 6
      OBVIOUS
    <3>3. SetsIn(au, 6, "vps") = {1} /\ SetsIn(au, 6, "sps") = {2} /\ SetsIn(au, 6, "pps") = {3}
      BY <2>4, <3>1, <3>2 DEF SetsIn, Key265, Unit
    <3>4. Len(au) = 6 /\ au[1].version = v /\ au[2].version = v /\ au[3].version = v
      BY <3>1 DEF Key265, Unit
    <3>5. c = [k \in SetKinds |-> v]
      BY <1>6, <2>3, <3>1, <3>3, <3>4 DEF Cached
    <3>6. Starts(au) = {5} /\ 2 \in SetsIn(au, 4, "sps")
      BY <2>4, <3>1, <3>2 DEF Starts, SetsIn, Key265, Unit
    <3>7. at = {}
      BY <2>3, <3>1, <3>6 DEF insertAt
    <3>8. \A i \in 5 .. 7 :
            Ahead(au, i, "vps") = {1} /\ Ahead(au, i, "sps") = {2} /\ Ahead(au, i, "pps") = {3}
      BY <3>1, <3>2 DEF Ahead, Key265, Unit
    <3> HIDE DEF c, at
    <3>9. \A i \in 5 .. 7 : \A k \in SetKinds : Held(au, i, k, at, c) = v
      <4>1. \A i \in 5 .. 7 : \A k \in SetKinds : Blocks(at, i, k, c) = {}
        BY <3>7 DEF Blocks
      <4>2. QED
        BY <1>6, <2>3, <3>4, <3>8, <4>1 DEF Held
    <3>10. Resolved(au, at, c)
      BY <2>3, <3>1, <3>2, <3>9 DEF Resolved, Key265, Unit
    <3>11. parser' = [k \in SetKinds |-> v]
      BY <2>1, <3>4, <3>9
    <3>12. QED
      BY <2>1, <2>2, <2>3, <3>1, <3>5, <3>10, <3>11 DEF Versions
  <2>6. CASE key /\ carried = "h264"
    <3>1. Key264(au, v) /\ ~ Reinjects /\ c = cache /\ at = {}
      BY <1>5, <2>6 DEF Reinjects
    <3> HIDE DEF au, c, at
    <3>2. \A i \in 1 .. 5 : i = 1 \/ i = 2 \/ i = 3 \/ i = 4 \/ i = 5
      OBVIOUS
    <3>3. Len(au) = 5 /\ au[1].version = v /\ au[2].version = v
      BY <3>1 DEF Key264, Unit
    <3>4. \A i \in 4 .. 6 :
            Ahead(au, i, "vps") = {} /\ Ahead(au, i, "sps") = {1} /\ Ahead(au, i, "pps") = {2}
      BY <3>1, <3>2 DEF Ahead, Key264, Unit
    <3>5. \A i \in 4 .. 6 : /\ Held(au, i, "sps", at, c) = v /\ Held(au, i, "pps", at, c) = v
                            /\ Held(au, i, "vps", at, c) = parser["vps"]
      <4>1. \A i \in 4 .. 6 : \A k \in SetKinds : Blocks(at, i, k, c) = {}
        BY <3>1 DEF Blocks
      <4>2. QED
        BY <1>6, <2>3, <3>3, <3>4, <4>1 DEF Held
    <3>6. Resolved(au, at, c)
      BY <3>1, <3>2, <3>5 DEF Resolved, Key264, Unit
    <3>7. parser' = [k \in SetKinds |-> IF k = "vps" THEN parser["vps"] ELSE v]
      BY <2>1, <2>3, <3>3, <3>5
    <3>8. parser' \in Versions /\ parser'.sps = v /\ parser'.pps = v
      BY <2>2, <2>3, <3>7 DEF Versions
    <3>9. QED
      BY <1>8, <2>1, <2>2, <3>1, <3>6, <3>8 DEF FeedTypeOK
  <2>7. CASE ~ key
    <3>1. Delta(au, v)
      BY <1>5, <1>8, <2>7
    <3> HIDE DEF au
    <3>2. \A i \in 1 .. 3 : i = 1 \/ i = 2 \/ i = 3
      OBVIOUS
    <3>3. Reinjects => \A k \in SetKinds : SetsIn(au, 3, k) = {} /\ SetsIn(au, 1, k) = {}
      BY <2>4, <3>1, <3>2 DEF SetsIn, Delta, Unit, Reinjects
    <3>4. Len(au) = 3
      BY <3>1 DEF Delta
    <3>5. c = cache /\ (Reinjects => Cached(cache, au, 1) = cache)
      <4>1. CASE Reinjects
        BY <2>2, <3>3, <3>4, <4>1 DEF Cached
      <4>2. QED
        BY <4>1
    <3>6. Reinjects => Starts(au) = {2}
      BY <3>1, <3>2 DEF Starts, Delta, Unit, Reinjects
    <3>7. Reinjects => at = IF HaveParams(cache) THEN {2} ELSE {}
      BY <3>3, <3>5, <3>6 DEF insertAt
    <3>8. ~ Reinjects => at = {}
      OBVIOUS
    <3> HIDE DEF c, at
    <3>9. \A i \in 2 .. 4 : \A k \in SetKinds : Ahead(au, i, k) = {}
      BY <2>3, <3>1, <3>2 DEF Ahead, Delta, Unit
    <3>10. \A i \in 2 .. 4 : \A k \in SetKinds :
             Held(au, i, k, at, c) = IF at = {} \/ cache[k] = 0 THEN parser[k] ELSE cache[k]
      <4>1. \A i \in 2 .. 4 : \A k \in SetKinds :
              Blocks(at, i, k, c) = IF at = {} \/ cache[k] = 0 THEN {} ELSE {2}
        BY <3>5, <3>7, <3>8 DEF Blocks
      <4>2. QED
        BY <1>6, <3>5, <3>9, <4>1 DEF Held
    <3>11. Armed => Resolved(au, at, c)
      <4>1. SUFFICES ASSUME Armed, NEW i \in 2 .. 3, NEW k \in {"sps", "pps"}
                     PROVE  Held(au, i, k, at, c) = v
        BY <3>1, <3>2 DEF Resolved, Delta, Unit
      <4>2. CASE Reinjects
        BY <1>8, <2>3, <2>7, <3>7, <3>10, <4>1, <4>2 DEF Armed, HaveParams
      <4>3. CASE ~ Reinjects
        BY <1>8, <2>3, <2>7, <3>8, <3>10, <4>1, <4>3 DEF Armed
      <4>4. QED
        BY <4>2, <4>3
    <3>12. parser' = [k \in SetKinds |-> IF at = {} \/ cache[k] = 0 THEN parser[k] ELSE cache[k]]
      BY <2>1, <3>4, <3>10
    <3>13. parser' \in Versions
      BY <2>2, <3>12 DEF Versions
    <3>14. ~ Reinjects => parser' = parser
      BY <2>2, <3>8, <3>12
    <3>15. QED
      BY <1>8, <2>1, <2>2, <2>7, <3>5, <3>11, <3>13, <3>14 DEF FeedTypeOK
  <2>8. QED
    BY <1>8, <2>5, <2>6, <2>7
\* The queue from one end to the other.
<1>9. FeedInit => FeedInv
  <2> SUFFICES ASSUME FeedInit PROVE FeedInv
    OBVIOUS
  <2>1. NoSets \in Versions /\ ~ HaveParams(NoSets)
    BY <1>1 DEF NoSets, Versions, SetKinds, HaveParams
  <2>2. picq \in Seq(Units) /\ Len(picq) = 0
    BY EmptySeq DEF FeedInit
  <2>3. FeedTypeOK
    <3>1. carried \in FeedCodecs /\ gop \in 0 .. Gop - 1 /\ sets \in 1 .. MaxSets
      BY <1>1 DEF FeedInit
    <3>2. /\ Len(picq) <= QueueMax /\ episodeDropped \in 0 .. DropCap /\ behind \in 0 .. QueueMax
          /\ cache \in Versions /\ parser \in Versions
      BY <1>1, <2>1, <2>2 DEF FeedInit
    <3>3. {whole, torn, unresolved} \subseteq BOOLEAN /\ dropping \in BOOLEAN
      BY DEF FeedInit
    <3>4. QED
      BY <3>1, <3>2, <3>3 DEF FeedTypeOK
  <2>4. QueueInv
    BY <2>2 DEF FeedInit, QueueInv
  <2>5. SetsInv
    BY <2>1 DEF FeedInit, SetsInv
  <2>6. CostInv /\ DecoderCanGoOn
    BY <1>1, <2>2 DEF FeedInit, CostInv, DecoderCanGoOn
  <2>7. QED
    BY <2>3, <2>4, <2>5, <2>6 DEF FeedInv
<1>10. ASSUME FeedInv, Arrive  PROVE FeedInv'
  <2> USE <1>10
  <2>1. /\ FeedTypeOK /\ QueueInv /\ SetsInv /\ CostInv /\ DecoderCanGoOn
        /\ carried \in {"h265", "h264"} /\ gop \in 0 .. Gop - 1 /\ sets \in 1 .. MaxSets
    BY FeedAssumption DEF FeedInv, FeedTypeOK
  <2> DEFINE u == AccessUnit(gop = 0, sets')
  <2>2. /\ picq' = Append(picq, u) /\ (dropping => picq = <<>>)
        /\ gop' = IF gop = 0 THEN Gop - 1 ELSE gop - 1
        /\ gop # 0 => sets' = sets
        /\ sets' \in 1 .. MaxSets
        /\ UNCHANGED <<carried, dropping, episodeDropped, cache, parser, behind, whole, torn, unresolved>>
    BY <1>1, <2>1 DEF Arrive
  <2>3. /\ u \in Units /\ VersionOf(u) = sets'
        /\ IsKey(u) <=> gop = 0
    <3>1. CASE gop = 0
      <4>1. u = AccessUnit(TRUE, sets')
        BY <3>1
      <4>2. u \in Units
        BY <2>2, <4>1 DEF Units
      <4>3. QED
        BY <1>7, <2>1, <3>1, <4>1, <4>2
    <3>2. CASE gop # 0
      <4>1. u = AccessUnit(FALSE, sets')
        BY <3>2
      <4>2. u \in Units
        BY <2>2, <4>1 DEF Units
      <4>3. QED
        BY <1>7, <2>1, <3>2, <4>1, <4>2
    <3>3. QED
      BY <3>1, <3>2
  <2>11. Units' = Units
    BY <2>2 DEF Units, AccessUnit, Nal
  <2> HIDE DEF u
  <2>4. picq \in Seq(Units) /\ Len(picq) \in Nat /\ (picq = <<>> <=> Len(picq) = 0) /\ Len(picq) + 1 <= QueueMax
    BY <1>1, EmptySeq DEF Arrive, FeedInv, QueueInv
  <2>5. /\ picq' \in Seq(Units) /\ Len(picq') = Len(picq) + 1 /\ picq' # <<>>
        /\ picq'[Len(picq) + 1] = u
        /\ \A i \in 1 .. Len(picq) : picq'[i] = picq[i]
    BY <2>2, <2>3, <2>4, AppendProperties
  <2>6. FeedTypeOK'
    BY <1>1, <2>1, <2>2, <2>4, <2>5 DEF FeedTypeOK
  <2>7. QueueInv'
    <3>1. ASSUME NEW i \in 2 .. Len(picq'), ~ IsKey(picq'[i])
          PROVE  VersionOf(picq'[i]) = VersionOf(picq'[i - 1])
      <4>1. CASE i = Len(picq) + 1
        <5>1. picq'[i - 1] = picq[Len(picq)] /\ picq # <<>>
          BY <2>4, <2>5, <3>1, <4>1
        <5>2. QED
          BY <2>1, <2>2, <2>3, <2>5, <3>1, <4>1, <5>1 DEF QueueInv
      <4>2. CASE i # Len(picq) + 1
        <5>1. i \in 2 .. Len(picq) /\ picq'[i] = picq[i] /\ picq'[i - 1] = picq[i - 1]
          BY <2>4, <2>5, <3>1, <4>2
        <5>2. QED
          BY <2>1, <3>1, <5>1 DEF QueueInv
      <4>3. QED
        BY <4>1, <4>2
    <3>2. QED
      BY <2>3, <2>5, <2>11, <3>1 DEF QueueInv
  <2>8. SetsInv'
    <3>1. ASSUME NEW c, Ready(c)
          PROVE  /\ picq' # <<>>
                 /\ ~ IsKey(picq'[1]) => c.sps = VersionOf(picq'[1]) /\ c.pps = VersionOf(picq'[1])
      <4>1. CASE picq = <<>>
        BY <2>2, <2>3, <2>4, <2>5, <3>1, <4>1 DEF Ready
      <4>2. CASE picq # <<>>
        <5>1. picq'[1] = picq[1]
          BY <2>4, <2>5, <4>2
        <5>2. QED
          BY <2>5, <3>1, <4>2, <5>1 DEF Ready
      <4>3. QED
        BY <4>1, <4>2
    <3>2. Ready(cache) => Ready(cache)'
      BY <2>2, <3>1 DEF Ready
    <3>3. Ready(parser) => Ready(parser)'
      BY <2>2, <3>1 DEF Ready
    <3>4. QED
      BY <2>1, <2>2, <3>2, <3>3 DEF SetsInv, Reinjects
  <2>9. CostInv'
    <3>1. dropping => Len(picq) = 0 /\ Len(picq') = 1 /\ picq'[1] = u
      BY <2>2, <2>4, <2>5
    <3>2. episodeDropped \in Nat /\ behind \in Nat
      BY <1>1, <2>1 DEF FeedTypeOK
    <3>3. QED
      BY <1>1, <2>1, <2>2, <2>3, <3>1, <3>2 DEF CostInv
  <2>10. QED
    BY <2>1, <2>2, <2>6, <2>7, <2>8, <2>9 DEF FeedInv, DecoderCanGoOn
<1>11. ASSUME FeedInv, Leave  PROVE FeedInv'
  <2> USE <1>11
  <2>1. /\ FeedTypeOK /\ QueueInv /\ SetsInv /\ CostInv /\ DecoderCanGoOn
        /\ carried \in {"h265", "h264"}
        /\ picq # <<>> /\ picq' = Tail(picq) /\ UNCHANGED <<carried, gop, sets>>
    BY FeedAssumption DEF FeedInv, FeedTypeOK, Leave
  <2>2. /\ Head(picq) = picq[1] /\ Head(picq) \in Units /\ Units' = Units
        /\ Len(picq) \in Nat /\ Len(picq) >= 1 /\ Len(picq) <= QueueMax
        /\ picq' \in Seq(Units) /\ Len(picq') = Len(picq) - 1
        /\ picq' = <<>> <=> Len(picq) = 1
        /\ \A i \in 1 .. Len(picq') : picq'[i] = picq[i + 1]
    <3>1. picq \in Seq(Units)
      BY <2>1 DEF QueueInv
    <3>2. Units' = Units
      BY <2>1 DEF Units, AccessUnit, Nal
    <3>3. /\ Head(picq) = picq[1] /\ Head(picq) \in Units
          /\ picq' \in Seq(Units) /\ Len(picq') = Len(picq) - 1
          /\ \A i \in 1 .. Len(picq') : picq'[i] = picq[i + 1]
      BY <2>1, <3>1, HeadTailProperties
    <3>4. Len(picq) \in Nat /\ Len(picq) >= 1 /\ Len(picq) <= QueueMax
      BY <2>1, <3>1, EmptySeq DEF FeedTypeOK
    <3>5. picq' = <<>> <=> Len(picq) = 1
      BY <3>3, <3>4, EmptySeq
    <3>6. QED
      BY <3>2, <3>3, <3>4, <3>5
  <2>3. PICK key \in BOOLEAN, v \in 1 .. MaxSets : Head(picq) = AccessUnit(key, v)
    BY <2>2 DEF Units
  <2>4. /\ IsKey(picq[1]) <=> key
        /\ VersionOf(picq[1]) = v
        /\ HasIRAP(picq[1]) <=> key /\ carried = "h265"
    <3>1. CASE key
      BY <1>7, <2>1, <2>2, <2>3, <3>1
    <3>2. CASE ~ key
      BY <1>7, <2>1, <2>2, <2>3, <3>2
    <3>3. QED
      BY <3>1, <3>2
  <2> DEFINE b == Len(picq')
             Before == IF Began(b) THEN 0 ELSE episodeDropped
             Passes == dropping \/ Began(b) => Resumes(b, picq[1])
  <2>5. /\ dropping' = ~ Passes
        /\ episodeDropped' = IF Passes \/ Before = DropCap THEN Before ELSE Before + 1
        /\ behind' = IF Began(b) THEN b ELSE behind
    BY <2>2 DEF Leave, Decide
  <2>6. /\ b \in Nat /\ b = Len(picq) - 1 /\ dropping \in BOOLEAN
        /\ episodeDropped \in 0 .. DropCap /\ behind \in 0 .. QueueMax
        /\ Began(b) <=> ~ dropping /\ b >= HighWater
        /\ Resumes(b, picq[1]) <=> b <= LowWater /\ key /\ carried = "h265"
    BY <2>1, <2>2, <2>4 DEF FeedTypeOK, Began, Resumes
  <2>7. QueueInv'
    <3>1. ASSUME NEW i \in 2 .. Len(picq'), ~ IsKey(picq'[i])
          PROVE  VersionOf(picq'[i]) = VersionOf(picq'[i - 1])
      <4>1. i + 1 \in 2 .. Len(picq) /\ picq'[i] = picq[i + 1] /\ picq'[i - 1] = picq[(i + 1) - 1]
        BY <2>2, <3>1
      <4>2. QED
        BY <2>1, <3>1, <4>1 DEF QueueInv
    <3>2. picq' # <<>> => VersionOf(picq'[Len(picq')]) = sets'
      <4>1. picq' # <<>> => picq'[Len(picq')] = picq[Len(picq)]
        BY <2>2
      <4>2. QED
        BY <2>1, <4>1 DEF QueueInv
    <3>3. QED
      BY <2>2, <3>1, <3>2 DEF QueueInv
  \* The next in the queue goes on where this one ended.
  <2>8. /\ picq' = <<>> => v = sets'
        /\ picq' # <<>> /\ ~ IsKey(picq'[1]) => v = VersionOf(picq'[1])
    <3>1. CASE Len(picq) = 1
      BY <2>1, <2>2, <2>4, <3>1 DEF QueueInv
    <3>2. CASE Len(picq) # 1
      <4>1. 2 \in 2 .. Len(picq) /\ picq'[1] = picq[2] /\ picq' # <<>> /\ 2 - 1 = 1
        BY <2>2, <3>2
      <4>2. QED
        BY <2>1, <2>4, <4>1 DEF QueueInv
    <3>3. QED
      BY <3>1, <3>2
  <2>9. CASE ~ Passes
    <3>1. dropping' /\ UNCHANGED <<cache, parser, torn, unresolved>> /\ whole' = FALSE
      BY <2>5, <2>9 DEF Leave
    <3>2. Before \in 0 .. DropCap
      BY <1>1, <2>6
    <3>3. FeedTypeOK'
      <4>1. episodeDropped' \in 0 .. DropCap
        BY <1>1, <2>5, <2>9, <3>2
      <4>2. behind' \in 0 .. QueueMax /\ Len(picq') <= QueueMax
        BY <1>1, <2>2, <2>5, <2>6
      <4>3. QED
        BY <2>1, <3>1, <4>1, <4>2 DEF FeedTypeOK
    <3>4. SetsInv'
      BY <3>1 DEF SetsInv
    <3>5. CostInv'
      <4>1. CASE Began(b)
        <5>1. episodeDropped' = 1 /\ behind' = b
          BY <1>1, <2>5, <2>9, <4>1
        <5>2. QED
          BY <1>1, <2>6, <5>1 DEF CostInv
      <4>2. CASE ~ Began(b)
        <5> SUFFICES ASSUME carried = "h265" PROVE CostInv'
          BY <2>1 DEF CostInv
        <5>1. dropping /\ ~ Resumes(b, picq[1]) /\ behind' = behind
          BY <2>5, <2>6, <2>9, <4>2
        <5>2. episodeDropped <= behind + Gop /\ episodeDropped < DropCap
          BY <1>1, <2>1, <2>6 DEF CostInv
        <5>3. episodeDropped' = episodeDropped + 1
          BY <2>5, <2>6, <2>9, <4>2, <5>2
        <5>4. ~ (Len(picq) = 1 /\ IsKey(picq[1]))
          BY <1>1, <2>4, <2>6, <5>1
        <5>5. \/ episodeDropped + Len(picq) <= behind + 1
              \/ Len(picq) <= 1 /\ episodeDropped + Len(picq) + gop <= behind + Gop
          BY <2>1, <5>1, <5>4 DEF CostInv
        <5>6. gop \in 0 .. Gop - 1 /\ gop' = gop
          BY <2>1 DEF FeedTypeOK
        <5>7. QED
          BY <1>1, <2>2, <2>6, <5>1, <5>3, <5>5, <5>6 DEF CostInv
      <4>3. QED
        BY <4>1, <4>2
    <3>6. QED
      BY <2>1, <2>7, <3>1, <3>3, <3>4, <3>5 DEF FeedInv, DecoderCanGoOn
  <2>10. CASE Passes
    <3>1. ~ Began(b) /\ (dropping => key)
      BY <1>1, <2>6, <2>10
    <3>2. /\ dropping' = FALSE /\ episodeDropped' = episodeDropped /\ behind' = behind
          /\ Pass(AccessUnit(key, v))
      BY <2>3, <2>5, <2>6, <2>10, <3>1 DEF Leave
    <3>3. /\ ~ key /\ Reinjects /\ HaveParams(cache) => cache.sps = v /\ cache.pps = v
          /\ ~ key /\ ~ Reinjects /\ parser # NoSets => parser.sps = v /\ parser.pps = v
      BY <2>1, <2>4, <3>1 DEF SetsInv, Ready
    <3>4. /\ cache' \in Versions /\ parser' \in Versions /\ unresolved' = unresolved
          /\ Reinjects /\ HaveParams(cache') => cache'.sps = v /\ cache'.pps = v
          /\ ~ Reinjects /\ parser' # NoSets => parser'.sps = v /\ parser'.pps = v
      BY <1>8, <2>1, <3>2, <3>3
    <3>5. torn' = torn /\ whole' \in BOOLEAN
      <4>1. whole \in BOOLEAN /\ torn \in BOOLEAN
        BY <2>1 DEF FeedTypeOK
      <4>2. /\ torn' = (torn \/ (~ whole /\ ~ key /\ dropping))
            /\ whole' = (whole \/ key)
        BY <2>2, <2>3, <2>4, <3>2 DEF Pass
      <4>3. QED
        BY <3>1, <4>1, <4>2
    <3>6. FeedTypeOK'
      <4>1. Len(picq') <= QueueMax
        BY <1>1, <2>2
      <4>2. QED
        BY <2>1, <3>2, <3>4, <3>5, <4>1 DEF FeedTypeOK
    <3>7. SetsInv'
      BY <2>1, <2>8, <3>2, <3>4 DEF SetsInv, Ready, Reinjects, HaveParams
    <3>8. CostInv'
      BY <2>1, <3>2 DEF CostInv
    <3>9. QED
      BY <2>1, <2>7, <3>4, <3>5, <3>6, <3>7, <3>8 DEF FeedInv, DecoderCanGoOn
  <2>11. QED
    BY <2>9, <2>10
<1>12. FeedInv /\ [FeedNext]_feedPathVars => FeedInv'
  <2>1. CASE FeedInv /\ ParserForgets
    <3>1. parser' \in Versions
      BY <1>1, <2>1 DEF ParserForgets, NoSets, Versions
    <3>2. FeedTypeOK' /\ QueueInv' /\ CostInv' /\ DecoderCanGoOn'
      BY <2>1, <3>1
         DEF ParserForgets, FeedInv, FeedTypeOK, QueueInv, Units, AccessUnit, Nal, CostInv, DecoderCanGoOn
    <3>3. SetsInv'
      BY <2>1 DEF ParserForgets, FeedInv, SetsInv, Ready, Reinjects
    <3>4. QED
      BY <3>2, <3>3 DEF FeedInv
  <2>2. CASE FeedInv /\ UNCHANGED feedPathVars
    BY <2>2
       DEF feedPathVars, FeedInv, FeedTypeOK, QueueInv, Units, AccessUnit, Nal, SetsInv, Ready, Reinjects,
           CostInv, DecoderCanGoOn
  <2>3. QED
    BY <1>10, <1>11, <2>1, <2>2 DEF FeedNext
<1>13. FeedInv => FeedTypeOK /\ CatchUpIsClean
  BY DEF FeedInv, CostInv, CatchUpIsClean, CatchUpCosts
<1>14. QED
  BY <1>9, <1>12, <1>13, PTL DEF FeedSpec
=============================================================================
