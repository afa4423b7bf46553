-------------------------- MODULE SenderRefinement --------------------------
(***************************************************************************)
(* The reconnect machine keeps what SenderSpec promises, for any number of *)
(* outputs, and starts every ladder at its first rung; and the channels    *)
(* behind the lamps keep what it announces, for any two buffers.           *)
(***************************************************************************)
EXTENDS SenderProofs, MCSenderLive

-----------------------------------------------------------------------------
(* Rungs.                                                                  *)

RungInv ==
  \A i \in Outputs :
    pc[i] = "connected" \/ lamp[i] \in {"CONNECTED", "DRAINING"} => attempt[i] = 0

\* A peer lost after any number of attempts waits the ladder's first rung.
THEOREM LostPeersWaitLeast == Spec => LostPeerWaitsFirstRung
<1>RungStep. TypeOK /\ RungInv /\ [Next]_vars => RungInv'
  <2> SUFFICES ASSUME TypeOK, RungInv, [Next]_vars PROVE RungInv'
    OBVIOUS
  <2> USE DEF TypeOK, RungInv, Goto, Emit, pipeVars, loopVars, ctlVars
  <2>1. ASSUME NEW i \in Outputs, Loop(i)
        PROVE  RungInv'
    <3>1. CASE Enter(i) \/ Connected(i) \/ PeerLost(i) \/ BackOff(i) \/ TimerFires(i)
      BY <3>1 DEF Enter, Connected, PeerLost, BackOff, TimerFires
    <3>2. CASE Leave(i) \/ Attempt(i) \/ CallReplace(i) \/ DialReturns(i) \/ Accepted(i)
      BY <3>2 DEF Leave, Attempt, CallReplace, DialReturns, Accepted
    <3>3. CASE Drained(i) \/ SleepDiscards(i) \/ Fatal(i) \/ FatalQuits(i)
      BY <3>3 DEF Drained, SleepDiscards, Fatal, FatalQuits
    <3>4. QED
      BY <2>1, <3>1, <3>2, <3>3 DEF Loop
  <2>2. CASE \/ \E c \in Stoppers : StopCall(c) \/ StopReturn(c)
             \/ Watcher \/ PipelineActs \/ UNCHANGED vars
    <3>1. UNCHANGED <<pc, lamp, attempt>>
      BY <2>2 DEF StopCall, StopReturn, Watcher, Take, Route, WatcherLeaves, PipelineActs, vars
    <3>2. QED
      BY <3>1
  <2>3. CASE Start \/ Run
    BY <2>3 DEF Start, Run, StopPipeline, EmitStopped, CloseStreams, LoopDone
  <2>4. QED
    BY <2>1, <2>2, <2>3 DEF Next
<1>1. Init => RungInv
  BY DEF Init, RungInv
<1>2. TypeOK /\ RungInv /\ [Next]_vars =>
        [\A i \in Outputs :
           lamp[i] = "DRAINING" /\ lamp'[i] = "BACKOFF" => attempt'[i] = 1]_vars
  <2> SUFFICES ASSUME TypeOK, RungInv, Next, NEW i \in Outputs,
                      lamp[i] = "DRAINING", lamp'[i] = "BACKOFF"
               PROVE  attempt'[i] = 1
    OBVIOUS
  <2> USE DEF TypeOK, Emit, loopVars
  <2>1. PICK j \in Outputs : Loop(j)
    BY DEF Next, Start, StopCall, StopReturn, Watcher, Take, Route, WatcherLeaves,
           Run, StopPipeline, EmitStopped, CloseStreams, LoopDone, PipelineActs
  <2>2. BackOff(j)
    <3>1. CASE Enter(j) \/ Connected(j) \/ PeerLost(j) \/ TimerFires(j)
      BY <3>1 DEF Enter, Connected, PeerLost, TimerFires
    <3>2. CASE \/ Leave(j) \/ Attempt(j) \/ CallReplace(j) \/ DialReturns(j)
               \/ Accepted(j) \/ Drained(j) \/ SleepDiscards(j) \/ Fatal(j)
               \/ FatalQuits(j)
      BY <3>2 DEF Leave, Attempt, CallReplace, DialReturns, Accepted, Drained,
                  SleepDiscards, Fatal, FatalQuits
    <3>3. QED
      BY <2>1, <3>1, <3>2 DEF Loop
  <2>3. j = i
    BY <2>2 DEF BackOff
  <2>4. attempt[i] = 0 /\ 0 < Ladder
    BY SenderAssumption DEF RungInv
  <2>5. QED
    BY <2>2, <2>3, <2>4 DEF BackOff
<1>3. QED
  BY <1>1, <1>2, <1>RungStep, TypeCorrect, PTL DEF Spec, LostPeerWaitsFirstRung

-----------------------------------------------------------------------------
(* Lamps.  Where a loop stands says what it has announced and whether a    *)
(* sink is installed.                                                      *)

Shows(i) ==
  /\ pc[i] = "new" => lamp[i] = "STOPPED"
  /\ pc[i] \in {"top", "call", "dial", "ret", "key", "fatal"} => lamp[i] = "CONNECTING"
  /\ pc[i] = "connected" => lamp[i] = "CONNECTED"
  /\ pc[i] \in {"drain", "removed"} => lamp[i] = "DRAINING"
  /\ pc[i] = "sleep" => lamp[i] = "BACKOFF"
  /\ pc[i] \in {"ret", "key"} /\ res[i] = "ok" => sink[i] # "none"
  /\ pc[i] \notin {"new", "done"} => run = "loops"

LampInv == \A i \in Outputs : Shows(i)

IInv == TypeOK /\ ShutdownInv /\ ErrorInv /\ LampInv

-----------------------------------------------------------------------------
(* The refinement, action by action.                                       *)

\* The session's life as the abstract specification tells it.
LEMMA LifeRunning ==
  /\ run = "idle" => SessionLife = "new"
  /\ run = "loops" => SessionLife = "running"
  /\ run = "stopped" => SessionLife = "stopping"
  /\ run \in {"closed", "done"} => SessionLife = "closed"
  BY DEF SessionLife

\* The loops implement the lamps' specification: a wait starts with the socket
\* gone, CONNECTED means a sink is installed, and the outputs stop together.
THEOREM Refinement == Spec => ImplementsSenderSpec
\* Every step of a Sender is a step of the abstract specification, or changes nothing it
\* sees.
<1>StepRefines. IInv /\ [Next]_vars => [Abs!SpecNext]_(Abs!specVars)
  <2>LoopRefines. ASSUME IInv, NEW i \in Outputs, Loop(i)
                  PROVE  Abs!SpecNext \/ UNCHANGED Abs!specVars
    <3> USE <2>LoopRefines
    <3> USE DEF Goto, Emit, pipeVars, ctlVars
    <3>1. i \in Abs!Outputs
      BY DEF Abs!Outputs, Outputs
    <3>2. Shows(i) /\ ErrorsOf(i) /\ TypeOK /\ PipeTypeOK
      BY DEF IInv, LampInv, ErrorInv, TypeOK
    <3>3. /\ run = "loops" /\ SessionLife = "running"
          /\ run' = run /\ SessionLife' = SessionLife
      <4>1. pc[i] # "done" /\ run' = run
        BY <3>2, LoopStep
      <4>2. CASE Enter(i)
        BY <4>1, <4>2, LifeRunning DEF SessionLife, Enter
      <4>3. CASE ~ Enter(i)
        <5>1. pc[i] # "new"
          BY <4>3 DEF Loop, Enter, Leave, Attempt, CallReplace, DialReturns, Accepted,
             Connected, PeerLost, Drained, BackOff, SleepDiscards, TimerFires, Fatal,
             FatalQuits
        <5>2. run = "loops"
          BY <3>2, <4>1, <5>1 DEF Shows
        <5>3. QED
          BY <4>1, <5>2, LifeRunning DEF SessionLife
      <4>4. QED
        BY <4>2, <4>3
    <3>4. HasSocket[i] = (sink[i] # "none")
      BY DEF HasSocket
    <3>5. UNCHANGED sink => UNCHANGED HasSocket
      BY DEF HasSocket
    <3>6. ASSUME NEW b \in BOOLEAN, NEW s, sink' = [sink EXCEPT ![i] = s], b = (s # "none")
          PROVE  HasSocket' = [HasSocket EXCEPT ![i] = b]
      BY <3>2, <3>6 DEF HasSocket, PipeTypeOK
    <3>7. CASE Enter(i) \/ TimerFires(i)
      <4>1. lamp[i] \in {"STOPPED", "BACKOFF"} /\ sink[i] = "none" /\ UNCHANGED sink
        BY <3>2, <3>7 DEF Enter, TimerFires, Shows, ErrorsOf
      <4>2. Abs!Dial(i)
        BY <3>3, <3>4, <3>5, <3>7, <4>1 DEF Enter, TimerFires, Abs!Dial, Abs!Announce
      <4>3. QED
        BY <3>1, <4>2 DEF Abs!SpecNext
    <3>8. CASE Connected(i)
      <4>1. lamp[i] = "CONNECTING" /\ sink[i] # "none" /\ UNCHANGED sink
        BY <3>2, <3>8 DEF Connected, Shows, ErrorsOf
      <4>2. Abs!Carry(i)
        BY <3>3, <3>4, <3>5, <3>8, <4>1 DEF Connected, Abs!Carry, Abs!Announce
      <4>3. QED
        BY <3>1, <4>2 DEF Abs!SpecNext
    <3>9. CASE PeerLost(i)
      <4>1. lamp[i] = "CONNECTED" /\ UNCHANGED sink
        BY <3>2, <3>9 DEF PeerLost, Shows
      <4>2. Abs!Lose(i)
        BY <3>3, <3>5, <3>9, <4>1 DEF PeerLost, Abs!Lose, Abs!Announce
      <4>3. QED
        BY <3>1, <4>2 DEF Abs!SpecNext
    <3>10. CASE Drained(i)
      <4>1. lamp[i] = "DRAINING" /\ UNCHANGED lamp
        BY <3>2, <3>10 DEF Drained, Shows
      <4>2. HasSocket' = [HasSocket EXCEPT ![i] = FALSE]
        BY <3>6, <3>10 DEF Drained, RemoveSinkOn
      <4>3. Abs!Shut(i)
        BY <3>3, <4>1, <4>2 DEF Abs!Shut
      <4>4. QED
        BY <3>1, <4>3 DEF Abs!SpecNext
    <3>11. CASE BackOff(i)
      <4>1. lamp[i] \in {"CONNECTING", "DRAINING"} /\ sink[i] = "none" /\ UNCHANGED sink
        BY <3>2, <3>11 DEF BackOff, Shows, ErrorsOf
      <4>2. Abs!Wait(i)
        BY <3>3, <3>4, <3>5, <3>11, <4>1 DEF BackOff, Abs!Wait, Abs!Announce
      <4>3. QED
        BY <3>1, <4>2 DEF Abs!SpecNext
    <3>12. CASE DialReturns(i)
      <4>1. lamp[i] = "CONNECTING" /\ UNCHANGED lamp
        BY <3>2, <3>12 DEF DialReturns, Shows
      <4>2. CASE UNCHANGED sink
        BY <3>3, <3>5, <4>1, <4>2 DEF Abs!specVars
      <4>3. CASE sink' = [sink EXCEPT ![i] = "live"]
        <5>1. HasSocket' = [HasSocket EXCEPT ![i] = TRUE]
          BY <3>6, <4>3
        <5>2. Abs!Open(i)
          BY <3>3, <4>1, <5>1 DEF Abs!Open
        <5>3. QED
          BY <3>1, <5>2 DEF Abs!SpecNext
      <4>4. QED
        BY <3>12, <4>2, <4>3 DEF DialReturns, ReplaceReturns
    <3>13. CASE CallReplace(i)
      <4>1. UNCHANGED lamp
        BY <3>13 DEF CallReplace
      <4>2. UNCHANGED sink
        BY <3>2, <3>13 DEF CallReplace, ReplaceRefused, ReplaceDials, ErrorsOf, PipeTypeOK
      <4>3. QED
        BY <3>3, <3>5, <4>1, <4>2 DEF Abs!specVars
    <3>14. CASE Leave(i) \/ Attempt(i) \/ Accepted(i) \/ SleepDiscards(i) \/ Fatal(i)
                \/ FatalQuits(i)
      <4>1. UNCHANGED <<lamp, sink>>
        BY <3>14 DEF Leave, Attempt, Accepted, SleepDiscards, Fatal, FatalQuits
      <4>2. QED
        BY <3>3, <3>5, <4>1 DEF Abs!specVars
    <3>15. QED
      BY <3>7, <3>8, <3>9, <3>10, <3>11, <3>12, <3>13, <3>14 DEF Loop
  <2>RunRefines. ASSUME IInv, Run
                 PROVE  Abs!SpecNext \/ UNCHANGED Abs!specVars
    <3> USE <2>RunRefines
    <3> USE DEF Emit, pipeVars, loopVars
    <3>1. CASE StopPipeline
      <4>1. SessionLife = "running" /\ SessionLife' = "stopping" /\ UNCHANGED lamp
        BY <3>1, LifeRunning DEF StopPipeline, SessionLife
      <4>2. HasSocket' = [i \in Outputs |-> FALSE]
        BY <3>1 DEF StopPipeline, PipeStop, HasSocket
      <4>3. Abs!Cease
        BY <4>1, <4>2 DEF Abs!Cease, Abs!Outputs, Outputs
      <4>4. QED
        BY <4>3 DEF Abs!SpecNext
    <3>2. CASE \E i \in Outputs : EmitStopped(i)
      <4>1. PICK i \in Outputs : EmitStopped(i)
        BY <3>2
      <4>2. /\ SessionLife = "stopping" /\ SessionLife' = SessionLife
            /\ UNCHANGED HasSocket
        BY <4>1, LifeRunning DEF EmitStopped, ctlVars, SessionLife, HasSocket
      <4>3. lamp[i] \in Abs!States
        BY <4>1 DEF IInv, TypeOK, Lamps, Abs!States
      <4>4. Abs!Rest(i)
        BY <4>1, <4>2, <4>3 DEF EmitStopped, Abs!Rest, Abs!Announce
      <4>5. QED
        BY <4>4 DEF Abs!SpecNext, Abs!Outputs, Outputs
    <3>3. CASE CloseStreams
      <4>1. /\ SessionLife = "stopping" /\ SessionLife' = "closed"
            /\ UNCHANGED <<lamp, HasSocket>>
        BY <3>3, LifeRunning DEF CloseStreams, SessionLife, HasSocket
      <4>2. Abs!Close
        BY <3>3, <4>1 DEF CloseStreams, Abs!Close, Abs!Outputs, Outputs
      <4>3. QED
        BY <4>2 DEF Abs!SpecNext
    <3>4. CASE LoopDone
      BY <3>4 DEF LoopDone, SessionLife, HasSocket, Abs!specVars
    <3>5. QED
      BY <3>1, <3>2, <3>3, <3>4 DEF Run
  <2> SUFFICES ASSUME IInv, [Next]_vars PROVE Abs!SpecNext \/ UNCHANGED Abs!specVars
    OBVIOUS
  <2> USE DEF pipeVars, loopVars, ctlVars, Abs!specVars
  <2>1. CASE Start
    <3>1. /\ SessionLife = "new" /\ SessionLife' = "running"
          /\ UNCHANGED <<lamp, HasSocket>>
      BY <2>1, LifeRunning DEF Start, PipeStart, SessionLife, HasSocket
    <3>2. QED
      BY <3>1 DEF Abs!Begin, Abs!SpecNext
  <2>2. CASE \E c \in Stoppers : StopCall(c) \/ StopReturn(c)
    BY <2>2 DEF StopCall, StopReturn, SessionLife, HasSocket
  <2>3. CASE Watcher
    BY <2>3 DEF Watcher, Take, Route, WatcherLeaves, SessionLife, HasSocket
  <2>4. CASE PipelineActs
    <3>1. UNCHANGED <<run, lamp>>
      BY <2>4 DEF PipelineActs
    <3>2. \A i \in Outputs : (sink'[i] # "none") = (sink[i] # "none")
      BY <2>4
         DEF PipelineActs, SinkFails, QueueFails, LatchFatal, PostFatal, IInv, TypeOK, PipeTypeOK
    <3>3. QED
      BY <3>1, <3>2 DEF SessionLife, HasSocket
  <2>5. CASE UNCHANGED vars
    BY <2>5 DEF vars, SessionLife, HasSocket
  <2>6. QED
    BY <2>1, <2>2, <2>3, <2>4, <2>5, <2>LoopRefines, <2>RunRefines DEF Next
<1>LampLoop. ASSUME TypeOK, ShutdownInv, LampInv, NEW i \in Outputs, Loop(i)
             PROVE  LampInv'
  <2> USE <1>LampLoop
  <2> USE DEF TypeOK, PipeTypeOK, Goto, Emit, pipeVars, ctlVars, PCs
  <2>1. Shows(i)
    BY DEF LampInv
  <2>2. ASSUME NEW j \in Outputs \ {i}
        PROVE  Shows(j)'
    <3>1. /\ pc'[j] = pc[j] /\ lamp'[j] = lamp[j] /\ res'[j] = res[j]
          /\ sink'[j] = sink[j] /\ run' = run
      <4>1. CASE Enter(i) \/ Leave(i) \/ Attempt(i) \/ Accepted(i) \/ Connected(i)
        BY <4>1 DEF Enter, Leave, Attempt, Accepted, Connected
      <4>2. CASE PeerLost(i) \/ BackOff(i) \/ SleepDiscards(i) \/ TimerFires(i)
        BY <4>2 DEF PeerLost, BackOff, SleepDiscards, TimerFires
      <4>3. CASE Fatal(i) \/ FatalQuits(i) \/ Drained(i)
        BY <4>3 DEF Fatal, FatalQuits, Drained, RemoveSinkOn
      <4>4. CASE CallReplace(i) \/ DialReturns(i)
        BY <4>4 DEF CallReplace, DialReturns, ReplaceRefused, ReplaceDials, ReplaceReturns
      <4>5. QED
        BY <4>1, <4>2, <4>3, <4>4 DEF Loop
    <3>2. QED
      BY <3>1 DEF LampInv, Shows
  <2>3. Shows(i)'
    <3>1. CASE Enter(i) \/ Connected(i) \/ PeerLost(i) \/ BackOff(i) \/ TimerFires(i)
      BY <2>1, <3>1 DEF Shows, Enter, Connected, PeerLost, BackOff, TimerFires
    <3>2. CASE Leave(i) \/ Attempt(i) \/ Accepted(i) \/ SleepDiscards(i)
               \/ Fatal(i) \/ FatalQuits(i)
      BY <2>1, <3>2 DEF Shows, Leave, Attempt, Accepted, SleepDiscards, Fatal, FatalQuits
    <3>3. CASE Drained(i)
      BY <2>1, <3>3 DEF Shows, Drained, RemoveSinkOn
    <3>4. CASE CallReplace(i)
      BY <2>1, <3>4 DEF Shows, CallReplace, ReplaceRefused, ReplaceDials
    <3>5. CASE DialReturns(i)
      BY <2>1, <3>5 DEF Shows, DialReturns, ReplaceReturns
    <3>6. QED
      BY <3>1, <3>2, <3>3, <3>4, <3>5 DEF Loop
  <2>4. QED
    BY <2>2, <2>3 DEF LampInv
<1>LampStep. TypeOK /\ ShutdownInv /\ LampInv /\ [Next]_vars => LampInv'
  <2> SUFFICES ASSUME TypeOK, ShutdownInv, LampInv, [Next]_vars PROVE LampInv'
    OBVIOUS
  <2> USE DEF TypeOK, PipeTypeOK, LampInv, Shows, pipeVars, loopVars, ctlVars, PCs
  <2>1. CASE Start
    BY <2>1 DEF Start, PipeStart
  <2>2. CASE \E c \in Stoppers : StopCall(c) \/ StopReturn(c)
    BY <2>2 DEF StopCall, StopReturn
  <2>3. CASE \E i \in Outputs : Loop(i)
    BY <2>3, <1>LampLoop
  <2>4. CASE Watcher
    BY <2>4 DEF Watcher, Take, Route, WatcherLeaves
  <2>5. CASE PipelineActs
    <3>1. UNCHANGED <<pc, res, lamp, run>>
      BY <2>5 DEF PipelineActs
    <3>2. \A i \in Outputs : sink'[i] = "none" => sink[i] = "none"
      BY ZenonT(30), <2>5 DEF PipelineActs, SinkFails, QueueFails, LatchFatal, PostFatal
    <3>3. QED
      BY <3>1, <3>2
  <2>6. CASE StopPipeline
    BY <2>6 DEF StopPipeline, PipeStop
  <2>7. CASE \E i \in Outputs : EmitStopped(i)
    <3>1. \A j \in Outputs : pc[j] = "done"
      BY <2>7 DEF EmitStopped, ShutdownInv
    <3>2. QED
      BY <2>7, <3>1 DEF EmitStopped
  <2>8. CASE CloseStreams \/ LoopDone
    <3>1. \A j \in Outputs : pc[j] = "done"
      BY <2>8 DEF CloseStreams, LoopDone, ShutdownInv
    <3>2. QED
      BY <2>8, <3>1 DEF CloseStreams, LoopDone
  <2>9. CASE UNCHANGED vars
    BY <2>9 DEF vars
  <2>10. QED
    BY <2>1, <2>2, <2>3, <2>4, <2>5, <2>6, <2>7, <2>8, <2>9 DEF Next, Run
<1>InitIInv. Init /\ TypeOK => IInv
  BY ElemsOf DEF Init, PipeInit, IInv, ShutdownInv, ErrorInv, ErrorsOf,
     Coming, LampInv, Shows
<1>StepIInv. IInv /\ TypeOK' /\ [Next]_vars => IInv'
  BY ShutdownStep, ErrorsStep, <1>LampStep DEF IInv
<1>1. Init => Abs!SpecInit
  <2> SUFFICES ASSUME Init PROVE Abs!SpecInit
    OBVIOUS
  <2>1. SessionLife = "new"
    BY LifeRunning DEF Init
  <2>2. HasSocket = [i \in Outputs |-> FALSE]
    BY DEF Init, PipeInit, HasSocket
  <2>3. QED
    BY <2>1, <2>2 DEF Init, Abs!SpecInit, Abs!Outputs, Outputs
<1>2. QED
  BY <1>1, <1>InitIInv, <1>StepIInv, <1>StepRefines, TypeCorrect, PTL
     DEF Spec, ImplementsSenderSpec, Abs!SpecSpec

-----------------------------------------------------------------------------
(* The channels behind the lamps.                                          *)

\* The parts of the type invariant that the newest entry depends on: only the primary
\* writes to the channel of the session's own state.
ChannelInv ==
  /\ announced \in [Channels!Outputs -> Channels!States]
  /\ emit \in [Channels!Outputs -> Channels!Stages]
  /\ \A i \in Channels!Outputs : i # Channels!Primary => emit[i] \notin {"states", "evict"}
  /\ states \in Seq(Channels!States)
  /\ seen \in Channels!States

StreamInv == ChannelInv /\ CurrentStateIsKept

\* The primary's last transition is the newest entry of its channel, or was read, or is
\* still on its way there: emitOutput drops from the front only, however its two steps,
\* the reader and the other outputs' loops interleave (machine.go: emitOutput).
THEOREM NewestIsNeverDropped ==
  /\ Channels!Spec => []CurrentStateIsKept
  /\ LiveSpec => []CurrentStateIsKept
<1>1. Channels!Primary \in Channels!Outputs
  BY PipelineAssumption DEF Channels!Primary, Channels!Outputs
<1>2. ASSUME NEW q \in Seq(Channels!States), q # <<>>
      PROVE  /\ Len(q) \in Nat /\ Len(q) >= 1
             /\ Head(q) \in Channels!States /\ Tail(q) \in Seq(Channels!States)
             /\ \A s : Channels!Newest(Tail(q), Head(q)) = Channels!Newest(q, s)
  <2>1. /\ Len(q) \in Nat /\ Len(q) >= 1 /\ Head(q) = q[1] /\ Head(q) \in Channels!States
        /\ Tail(q) \in Seq(Channels!States) /\ Len(Tail(q)) = Len(q) - 1
        /\ \A k \in 1 .. Len(q) - 1 : Tail(q)[k] = q[k + 1]
    BY <1>2, EmptySeq, HeadTailProperties
  <2>2. Tail(q) = <<>> <=> Len(q) = 1
    BY <2>1, EmptySeq
  <2>3. CASE Len(q) = 1
    BY <2>1, <2>2, <2>3, <1>2 DEF Channels!Newest
  <2>4. CASE Len(q) > 1
    <3>1. Tail(q)[Len(q) - 1] = q[Len(q)]
      BY <2>1, <2>4
    <3>2. QED
      BY <2>1, <2>2, <2>4, <3>1, <1>2 DEF Channels!Newest
  <2>5. QED
    BY <2>1, <2>3, <2>4
<1>3. ASSUME NEW q \in Seq(Channels!States), NEW s \in Channels!States, NEW t
      PROVE  Append(q, s) \in Seq(Channels!States) /\ Channels!Newest(Append(q, s), t) = s
  <2>1. /\ Append(q, s) \in Seq(Channels!States) /\ Len(Append(q, s)) = Len(q) + 1
        /\ Append(q, s)[Len(q) + 1] = s /\ Append(q, s) # <<>>
    BY AppendProperties
  <2>2. QED
    BY <2>1 DEF Channels!Newest
<1>4. Channels!Init => StreamInv
  BY <1>1, EmptySeq
     DEF Channels!Init, Channels!SpecInit, StreamInv, ChannelInv, CurrentStateIsKept,
         Channels!CurrentStateIsKept, Channels!Newest, Channels!Stages, Channels!States
<1>5. StreamInv /\ [Channels!Next]_(Channels!vars) => StreamInv'
  <2> SUFFICES ASSUME StreamInv, [Channels!Next]_(Channels!vars)
               PROVE  StreamInv'
    OBVIOUS
  <2>1. CASE Channels!Begin /\ UNCHANGED Channels!streamVars
    BY <2>1
       DEF Channels!Begin, Channels!streamVars, StreamInv, ChannelInv,
           CurrentStateIsKept, Channels!CurrentStateIsKept
  <2>2. CASE Channels!AllEnd
    BY <2>2
       DEF Channels!AllEnd, Channels!Cease, Channels!streamVars, StreamInv, ChannelInv,
           CurrentStateIsKept, Channels!CurrentStateIsKept
  <2>3. CASE Channels!CloseStreams
    BY <2>3
       DEF Channels!CloseStreams, Channels!Close, Channels!streamVars, StreamInv,
           ChannelInv, CurrentStateIsKept, Channels!CurrentStateIsKept
  <2>4. ASSUME NEW i \in Channels!Outputs, Channels!LoopEmits(i) \/ Channels!RunEmits(i)
        PROVE  StreamInv'
    <3>1. /\ announced' \in [Channels!Outputs -> Channels!States]
          /\ \A j \in Channels!Outputs : j # i => announced'[j] = announced[j]
      BY <2>4
         DEF Channels!LoopEmits, Channels!RunEmits, Channels!Dial, Channels!Carry,
             Channels!Lose, Channels!Wait, Channels!Rest, Channels!Announce, StreamInv,
             ChannelInv, Channels!States
    <3>2. /\ Channels!BeginEmit(i)
          /\ emit' \in [Channels!Outputs -> Channels!Stages]
          /\ \A j \in Channels!Outputs : j # i => emit'[j] = emit[j]
          /\ emit'[i] = IF i = Channels!Primary THEN "states" ELSE "tagged"
      BY <2>4
         DEF Channels!LoopEmits, Channels!RunEmits, Channels!BeginEmit, Channels!Stage,
             StreamInv, ChannelInv, Channels!Stages
    <3>3. QED
      BY <3>1, <3>2, <1>1
         DEF Channels!BeginEmit, StreamInv, ChannelInv, CurrentStateIsKept,
             Channels!CurrentStateIsKept
  <2>5. ASSUME NEW i \in Channels!Outputs, Channels!LoopActs(i)
        PROVE  StreamInv'
    BY <2>5
       DEF Channels!LoopActs, Channels!Open, Channels!Shut, Channels!streamVars,
           StreamInv, ChannelInv, CurrentStateIsKept, Channels!CurrentStateIsKept
  <2>6. ASSUME NEW i \in Channels!Outputs, Channels!SendState(i)
        PROVE  StreamInv'
    <3>1. i = Channels!Primary
      BY <2>6 DEF Channels!SendState, Channels!Stage, StreamInv, ChannelInv
    <3>2. /\ Channels!Newest(states', seen') = announced'[Channels!Primary]
          /\ states' \in Seq(Channels!States)
      BY <2>6, <3>1, <1>1, <1>3
         DEF Channels!SendState, Channels!specVars, StreamInv, ChannelInv
    <3>3. QED
      BY <2>6, <3>1, <3>2
         DEF Channels!SendState, Channels!Stage, Channels!specVars, StreamInv,
             ChannelInv, CurrentStateIsKept, Channels!CurrentStateIsKept,
             Channels!Stages
  <2>7. ASSUME NEW i \in Channels!Outputs,
               \/ Channels!FindFull(i) \/ Channels!SendTagged(i)
               \/ Channels!FindTaggedFull(i) \/ Channels!EvictTagged(i)
        PROVE  StreamInv'
    BY <2>7, <1>1
       DEF Channels!FindFull, Channels!SendTagged, Channels!FindTaggedFull,
           Channels!EvictTagged, Channels!Stage, Channels!specVars, StreamInv,
           ChannelInv, CurrentStateIsKept, Channels!CurrentStateIsKept, Channels!Stages
  <2>8. ASSUME NEW i \in Channels!Outputs, Channels!Evict(i)
        PROVE  StreamInv'
    <3>1. i = Channels!Primary
      BY <2>8 DEF Channels!Evict, Channels!Stage, StreamInv, ChannelInv
    <3>2. states' \in Seq(Channels!States)
      BY <2>8, <1>2 DEF Channels!Evict, StreamInv, ChannelInv
    <3>3. QED
      BY <2>8, <3>1, <3>2
         DEF Channels!Evict, Channels!Stage, Channels!specVars, StreamInv, ChannelInv,
             CurrentStateIsKept, Channels!CurrentStateIsKept, Channels!Stages
  <2>9. CASE Channels!Receive
    BY <2>9, <1>2
       DEF Channels!Receive, Channels!specVars, StreamInv, ChannelInv,
           CurrentStateIsKept, Channels!CurrentStateIsKept
  <2>10. CASE Channels!ReceiveTagged
    BY <2>10
       DEF Channels!ReceiveTagged, Channels!specVars, StreamInv, ChannelInv,
           CurrentStateIsKept, Channels!CurrentStateIsKept
  <2>11. CASE UNCHANGED Channels!vars
    BY <2>11
       DEF Channels!vars, Channels!specVars, Channels!streamVars, StreamInv, ChannelInv,
           CurrentStateIsKept, Channels!CurrentStateIsKept
  <2>12. QED
    BY <2>1, <2>2, <2>3, <2>4, <2>5, <2>6, <2>7, <2>8, <2>9, <2>10, <2>11
       DEF Channels!Next, Channels!Emitting
<1>6. StreamInv => CurrentStateIsKept
  BY DEF StreamInv
<1>7. LiveInit => Channels!Init
  BY DEF LiveInit
<1>8. [LiveNext]_<<part, vars, channelVars>> => [Channels!Next]_(Channels!vars)
  BY DEF LiveNext, LoopsMove, ChannelsMove, channelVars, Channels!vars,
         Channels!specVars, Channels!streamVars
<1>9. Channels!Spec => []CurrentStateIsKept
  BY <1>4, <1>5, <1>6, PTL DEF Channels!Spec
<1>10. LiveSpec => []CurrentStateIsKept
  BY <1>4, <1>5, <1>6, <1>7, <1>8, PTL DEF LiveSpec
<1>11. QED
  BY <1>9, <1>10
=============================================================================
