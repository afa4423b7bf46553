---------------------------- MODULE SenderProofs ----------------------------
(***************************************************************************)
(* What holds of the reconnect machine for any number of outputs, any      *)
(* buffers, any ladder and any callers of Stop.                            *)
(***************************************************************************)
EXTENDS Sender, SequenceTheorems, TLAPS

-----------------------------------------------------------------------------
(* The operators on queues of errors.                                      *)

\* Marking errors as outlived keeps them errors, and as many; an offer to a channel
\* with room or without never outgrows its buffer.
LEMMA QueueTypes ==
  /\ \A q \in Seq(Errors), i \in Outputs : Outlived(i, q) \in Seq(Errors) /\ Len(Outlived(i, q)) = Len(q)
  /\ \A q \in Seq(Errors), e \in Errors, cap \in Nat :
       Len(q) <= cap => Offer(q, e, cap) \in Seq(Errors) /\ Len(Offer(q, e, cap)) <= cap
<1>1. ASSUME NEW q \in Seq(Errors), NEW i \in Outputs
      PROVE  Outlived(i, q) \in Seq(Errors) /\ Len(Outlived(i, q)) = Len(q)
  <2>1. \A k \in 1 .. Len(q) : q[k] \in Errors
    OBVIOUS
  <2>2. About(i, FALSE) \in Errors
    BY DEF About, Errors
  <2>3. \A k \in 1 .. Len(q) :
          (IF q[k].out = i THEN About(i, FALSE) ELSE q[k]) \in Errors
    BY <2>1, <2>2
  <2>4. Outlived(i, q) = [k \in 1 .. Len(q) |->
                            IF q[k].out = i THEN About(i, FALSE) ELSE q[k]]
    BY DEF Outlived
  <2> DEFINE f == [k \in 1 .. Len(q) |->
                     IF q[k].out = i THEN About(i, FALSE) ELSE q[k]]
  <2>5. f \in [1 .. Len(q) -> Errors]
    BY <2>3
  <2>6. f \in Seq(Errors) /\ DOMAIN f = 1 .. Len(q)
    <3> HIDE DEF f
    <3> QED BY <2>5
  <2>7. Len(f) = Len(q)
    <3> HIDE DEF f
    <3> QED BY <2>6
  <2>8. QED
    BY <2>4, <2>6, <2>7
<1>2. ASSUME NEW q \in Seq(Errors), NEW e \in Errors, NEW cap \in Nat, Len(q) <= cap
      PROVE  Offer(q, e, cap) \in Seq(Errors) /\ Len(Offer(q, e, cap)) <= cap
  BY <1>2 DEF Offer
<1>3. QED
  BY <1>1, <1>2

-----------------------------------------------------------------------------
(* Type correctness.                                                       *)

\* Every variable keeps its type, for every number of outputs and every buffer:
\* in particular no queue outgrows its channel.
THEOREM TypeCorrect == Spec => []TypeOK
\* A new Sender's variables have their types.
\* Every step keeps them.
<1>StepType. TypeOK /\ [Next]_vars => TypeOK'
  <2>AboutType. ASSUME NEW i \in Outputs \cup {NoOutput}, NEW b \in BOOLEAN
                PROVE  About(i, b) \in Errors
    BY DEF About, Errors
  <2>CallerType. ASSUME TypeOK,
                        Start \/ \E c \in Stoppers : StopCall(c) \/ StopReturn(c)
                 PROVE  TypeOK'
    <3> USE <2>CallerType
    <3> USE DEF TypeOK, PipeTypeOK, pipeVars, loopVars
    <3>1. CASE Start
      BY <3>1 DEF Start, PipeStart
    <3>2. CASE \E c \in Stoppers : StopCall(c) \/ StopReturn(c)
      BY <3>2 DEF StopCall, StopReturn
    <3>3. QED
      BY <3>1, <3>2
  <2>LoopType. ASSUME TypeOK, NEW i \in Outputs, Loop(i)
               PROVE  TypeOK'
    <3> USE <2>LoopType
    <3> USE PipelineAssumption, SenderAssumption
        DEF TypeOK, PipeTypeOK, PCs, Lamps, Goto, Emit, pipeVars, ctlVars
    <3>1. CASE Enter(i)
      BY <3>1 DEF Enter
    <3>2. CASE Leave(i)
      BY <3>2 DEF Leave
    <3>3. CASE Attempt(i)
      BY <3>3 DEF Attempt
    <3>4. CASE CallReplace(i)
      <4>1. CASE /\ \E result \in {"fail", "fatal"} :
                      /\ ReplaceRefused(result)
                      /\ res' = [res EXCEPT ![i] = result]
                 /\ Goto(i, {"call"}, "ret")
                 /\ UNCHANGED <<errs, hand>>
        <5>1. PICK result \in {"fail", "fatal"} :
                ReplaceRefused(result) /\ res' = [res EXCEPT ![i] = result]
          BY <4>1
        <5>2. pc' \in [Outputs -> PCs]
          BY <4>1
        <5>3. PipeTypeOK'
          BY <5>1 DEF ReplaceRefused
        <5>4. QED
          BY <3>4, <4>1, <5>1, <5>2, <5>3 DEF CallReplace
      <4>2. CASE /\ ReplaceDials(i)
                 /\ Goto(i, {"call"}, "dial")
                 /\ errs' = [errs EXCEPT ![i] = Outlived(i, @)]
                 /\ hand' = Outlived(i, hand)
                 /\ UNCHANGED res
        <5>1. perrs' \in Seq(Errors) /\ Len(perrs') <= PErrsBuffer
          BY <4>2, QueueTypes DEF ReplaceDials
        <5>2. hand' \in Seq(Errors) /\ Len(hand') <= 1
          BY <4>2, QueueTypes
        <5>3. Outlived(i, errs[i]) \in Seq(Errors)
              /\ Len(Outlived(i, errs[i])) <= ErrsBuffer
          BY QueueTypes
        <5>4. errs' \in [Outputs -> Seq(Errors)]
              /\ \A j \in Outputs : Len(errs'[j]) <= ErrsBuffer
          BY <4>2, <5>3
        <5>5. QED
          BY <3>4, <4>2, <5>1, <5>2, <5>4 DEF CallReplace, ReplaceDials
      <4>3. QED
        BY <3>4, <4>1, <4>2 DEF CallReplace
    <3>5. CASE DialReturns(i)
      <4>1. PICK result \in {"ok", "fail", "fatal"} :
              ReplaceReturns(i, result) /\ res' = [res EXCEPT ![i] = result]
        BY <3>5 DEF DialReturns
      <4>2. PipeTypeOK'
        BY <4>1 DEF ReplaceReturns
      <4>3. QED
        BY <3>5, <4>1, <4>2 DEF DialReturns
    <3>6. CASE Accepted(i) \/ Connected(i)
      <4>1. CASE Accepted(i)
        BY <4>1 DEF Accepted
      <4>2. CASE Connected(i)
        BY <4>2 DEF Connected
      <4>3. QED
        BY <3>6, <4>1, <4>2
    <3>7. CASE PeerLost(i)
      BY SMTT(30), <3>7 DEF PeerLost
    <3>8. CASE Drained(i)
      <4>1. perrs' \in Seq(Errors) /\ Len(perrs') <= PErrsBuffer
        BY <3>8, QueueTypes DEF Drained, RemoveSinkOn
      <4>2. hand' \in Seq(Errors) /\ Len(hand') <= 1
        BY <3>8, QueueTypes DEF Drained
      <4>3. Outlived(i, errs[i]) \in Seq(Errors)
            /\ Len(Outlived(i, errs[i])) <= ErrsBuffer
        BY QueueTypes
      <4>4. errs' \in [Outputs -> Seq(Errors)]
            /\ \A j \in Outputs : Len(errs'[j]) <= ErrsBuffer
        BY <3>8, <4>3 DEF Drained
      <4>5. QED
        BY <3>8, <4>1, <4>2, <4>4 DEF Drained, RemoveSinkOn
    <3>9. CASE BackOff(i)
      BY SMTT(30), <3>9 DEF BackOff
    <3>10. CASE SleepDiscards(i)
      BY SMTT(30), <3>10 DEF SleepDiscards
    <3>11. CASE TimerFires(i)
      BY <3>11 DEF TimerFires
    <3>12. CASE Fatal(i)
      <4>1. reports' \in [Outputs -> Nat]
        BY <3>12 DEF Fatal
      <4>2. pc' \in [Outputs -> PCs]
        BY <3>12 DEF Fatal
      <4> HIDE DEF PCs
      <4>3. QED
        BY <3>12, <4>1, <4>2 DEF Fatal
    <3>13. CASE FatalQuits(i)
      BY <3>13 DEF FatalQuits
    <3>14. QED
      BY <3>1, <3>2, <3>3, <3>4, <3>5, <3>6, <3>7, <3>8, <3>9, <3>10, <3>11,
         <3>12, <3>13 DEF Loop
  <2>WatcherType. ASSUME TypeOK, Watcher
                  PROVE  TypeOK'
    <3> USE <2>WatcherType
    <3> USE PipelineAssumption, SenderAssumption DEF TypeOK, PipeTypeOK, loopVars, pipeVars
    <3>1. CASE Take
      <4>1. Head(perrs) \in Errors /\ Tail(perrs) \in Seq(Errors)
            /\ Len(Tail(perrs)) <= PErrsBuffer
        BY <3>1 DEF Take
      <4>2. hand' \in Seq(Errors) /\ Len(hand') <= 1
        BY <3>1, <4>1 DEF Take
      <4>3. QED
        BY <3>1, <4>1, <4>2 DEF Take
    <3>2. CASE Route
      <4>1. Head(hand) \in Errors
        BY <3>2 DEF Route
      <4>2. hand' \in Seq(Errors) /\ Len(hand') <= 1
        BY <3>2 DEF Route
      <4> DEFINE routed(i) == IF Head(hand).out \in {i, NoOutput}
                              THEN Offer(errs[i], Head(hand), ErrsBuffer) ELSE errs[i]
      <4>3. \A i \in Outputs : routed(i) \in Seq(Errors) /\ Len(routed(i)) <= ErrsBuffer
        BY <4>1, QueueTypes
      <4>4. errs' = [i \in Outputs |-> routed(i)]
        BY <3>2 DEF Route
      <4>5. errs' \in [Outputs -> Seq(Errors)]
            /\ \A i \in Outputs : Len(errs'[i]) <= ErrsBuffer
        <5> HIDE DEF routed
        <5> QED BY <4>3, <4>4
      <4>6. QED
        BY <3>2, <4>2, <4>5 DEF Route
    <3>3. CASE WatcherLeaves
      BY <3>3 DEF WatcherLeaves
    <3>4. QED
      BY <3>1, <3>2, <3>3 DEF Watcher
  <2>RunType. ASSUME TypeOK, Run
              PROVE  TypeOK'
    <3> USE <2>RunType
    <3> USE DEF TypeOK, PipeTypeOK, loopVars, pipeVars, ctlVars
    <3>1. CASE StopPipeline
      BY <3>1 DEF StopPipeline, PipeStop
    <3>2. CASE \E i \in Outputs : EmitStopped(i)
      BY <3>2 DEF EmitStopped, Emit, Lamps
    <3>3. CASE CloseStreams
      BY <3>3 DEF CloseStreams
    <3>4. CASE LoopDone
      BY <3>4 DEF LoopDone
    <3>5. QED
      BY <3>1, <3>2, <3>3, <3>4 DEF Run
  <2>PipelineType. ASSUME TypeOK, PipelineActs
                   PROVE  TypeOK'
    <3> USE <2>PipelineType
    <3> USE PipelineAssumption DEF TypeOK, PipeTypeOK, loopVars, ctlVars
    <3>1. \A i \in Outputs \cup {NoOutput} :
            LET q == Offer(perrs, About(i, TRUE), PErrsBuffer)
            IN  q \in Seq(Errors) /\ Len(q) <= PErrsBuffer
      BY QueueTypes, <2>AboutType
    <3>2. CASE \E i \in Outputs : SinkFails(i)
      <4>1. PICK i \in Outputs : SinkFails(i)
        BY <3>2
      <4>2. sink' \in [Outputs -> {"none", "live", "failing", "dead"}]
        BY <4>1 DEF SinkFails
      <4>3. perrs' \in Seq(Errors) /\ Len(perrs') <= PErrsBuffer
        BY <3>1, <4>1 DEF SinkFails
      <4>4. QED
        BY <4>1, <4>2, <4>3 DEF PipelineActs, SinkFails
    <3>3. CASE \E i \in Outputs : QueueFails(i)
      <4>1. PICK i \in Outputs : QueueFails(i)
        BY <3>3
      <4>2. sink' \in [Outputs -> {"none", "live", "failing", "dead"}]
        BY <4>1 DEF QueueFails
      <4>3. perrs' \in Seq(Errors) /\ Len(perrs') <= PErrsBuffer
        <5>1. CASE perrs' = perrs
          BY <5>1
        <5>2. ASSUME NEW o \in {i, NoOutput},
                     perrs' = Offer(perrs, About(o, TRUE), PErrsBuffer)
              PROVE  perrs' \in Seq(Errors) /\ Len(perrs') <= PErrsBuffer
          <6>1. o \in Outputs \cup {NoOutput}
            OBVIOUS
          <6>2. QED
            BY <3>1, <5>2, <6>1
        <5>3. QED
          BY <4>1, <5>1, <5>2 DEF QueueFails
      <4>4. fatal' \in {"no", "latched", "posted"}
        BY <4>1 DEF QueueFails
      <4>5. UNCHANGED <<pipe, mu, loopVars, ctlVars>>
        BY <3>3 DEF PipelineActs, QueueFails
      <4>6. QED
        BY <4>2, <4>3, <4>4, <4>5
    <3>4. CASE LatchFatal
      BY <3>4 DEF PipelineActs, LatchFatal
    <3>5. CASE PostFatal
      BY <3>1, <3>5 DEF PipelineActs, PostFatal
    <3>6. QED
      BY <3>2, <3>3, <3>4, <3>5 DEF PipelineActs
  <2>1. CASE UNCHANGED vars
    BY <2>1 DEF vars, pipeVars, loopVars, ctlVars, TypeOK, PipeTypeOK
  <2>2. QED
    BY <2>1, <2>CallerType, <2>LoopType, <2>WatcherType, <2>RunType, <2>PipelineType DEF Next
<1>1. Init => TypeOK
  <2> SUFFICES ASSUME Init PROVE TypeOK
    OBVIOUS
  <2> USE PipelineAssumption, SenderAssumption
  <2>1. <<>> \in Seq(Errors) /\ Len(<<>>) = 0
    OBVIOUS
  <2>2. PipeTypeOK
    BY <2>1 DEF Init, PipeInit, PipeTypeOK
  <2>3. errs \in [Outputs -> Seq(Errors)] /\ \A i \in Outputs : Len(errs[i]) <= ErrsBuffer
    BY <2>1 DEF Init
  <2>4. hand \in Seq(Errors) /\ Len(hand) <= 1
    BY <2>1 DEF Init
  <2>5. attempt \in [Outputs -> 0 .. Ladder] /\ reports \in [Outputs -> Nat]
    BY DEF Init
  <2>6. pc \in [Outputs -> PCs] /\ lamp \in [Outputs -> Lamps]
        /\ res \in [Outputs -> {"none", "ok", "fail", "fatal"}]
    BY DEF Init, PCs, Lamps
  <2>7. QED
    BY <2>2, <2>3, <2>4, <2>5, <2>6 DEF Init, TypeOK
<1>2. QED
  BY <1>1, <1>StepType, PTL DEF Spec

-----------------------------------------------------------------------------
(* Closing down.  The loops end only on quit, the pipeline is stopped only *)
(* after the last of them, and Stop returns only after the watcher.        *)

ShutdownInv ==
  /\ run = "idle" <=> pipe = "new"
  /\ run = "loops" <=> pipe = "started"
  /\ pipe = "stopped" => \A i \in Outputs : pc[i] = "done" /\ sink[i] = "none"
  /\ run \in {"closed", "done"} => \A i \in Outputs : lamp[i] = "STOPPED"
  /\ watcher = "done" => hand = <<>>
  /\ run = "done" => watcher = "done"
  /\ \A c \in Stoppers : stop[c] = "returned" => run = "done"

\* A loop that has ended does nothing; one that has not disturbs no other.
LEMMA LoopStep ==
  ASSUME TypeOK, NEW i \in Outputs, Loop(i)
  PROVE  /\ pc[i] # "done"
         /\ UNCHANGED <<pipe, run, watcher, stop>>
         /\ hand = <<>> => hand' = <<>>
<1>OutlivedEmpty. \A j \in Outputs : Outlived(j, <<>>) = <<>>
  BY DEF Outlived
<1> USE DEF TypeOK, PipeTypeOK, Goto, pipeVars, ctlVars
<1>1. CASE CallReplace(i)
  BY <1>1, <1>OutlivedEmpty DEF CallReplace, ReplaceRefused, ReplaceDials
<1>2. CASE Drained(i)
  BY <1>2, <1>OutlivedEmpty DEF Drained, RemoveSinkOn
<1>3. CASE DialReturns(i)
  BY <1>3 DEF DialReturns, ReplaceReturns
<1>4. CASE Enter(i) \/ Leave(i) \/ Attempt(i) \/ Accepted(i) \/ Connected(i) \/ PeerLost(i)
  BY <1>4 DEF Enter, Leave, Attempt, Accepted, Connected, PeerLost
<1>5. CASE BackOff(i) \/ SleepDiscards(i) \/ TimerFires(i) \/ Fatal(i) \/ FatalQuits(i)
  BY <1>5 DEF BackOff, SleepDiscards, TimerFires, Fatal, FatalQuits
<1>6. QED
  BY <1>1, <1>2, <1>3, <1>4, <1>5 DEF Loop

\* Every step keeps the order of closing down.
LEMMA ShutdownStep == TypeOK /\ ShutdownInv /\ [Next]_vars => ShutdownInv'
<1>ShutdownLoop. ASSUME TypeOK, ShutdownInv, NEW i \in Outputs, Loop(i)
                 PROVE  ShutdownInv'
  <2> USE <1>ShutdownLoop
  <2>1. pipe # "stopped" /\ run \notin {"stopped", "closed", "done"}
    BY LoopStep DEF ShutdownInv, TypeOK, PipeTypeOK
  <2>2. QED
    BY <2>1, LoopStep DEF ShutdownInv, TypeOK, PipeTypeOK
<1> SUFFICES ASSUME TypeOK, ShutdownInv, [Next]_vars PROVE ShutdownInv'
  OBVIOUS
<1> USE DEF ShutdownInv, TypeOK, PipeTypeOK, pipeVars, loopVars, ctlVars
<1>1. CASE Start
  BY <1>1 DEF Start, PipeStart
<1>2. CASE \E c \in Stoppers : StopCall(c) \/ StopReturn(c)
  BY <1>2 DEF StopCall, StopReturn
<1>3. CASE \E i \in Outputs : Loop(i)
  BY <1>3, <1>ShutdownLoop
<1>4. CASE Watcher
  BY <1>4 DEF Watcher, Take, Route, WatcherLeaves
<1>5. CASE StopPipeline
  BY <1>5 DEF StopPipeline, PipeStop
<1>6. CASE \E i \in Outputs : EmitStopped(i)
  BY <1>6 DEF EmitStopped, Emit
<1>7. CASE CloseStreams \/ LoopDone
  BY <1>7 DEF CloseStreams, LoopDone
<1>8. CASE PipelineActs
  <2>1. UNCHANGED <<pipe, pc, lamp, run, watcher, hand, stop>>
    BY <1>8 DEF PipelineActs, SinkFails, QueueFails, LatchFatal, PostFatal
  <2>2. pipe = "started"
    BY <1>8 DEF PipelineActs, SinkFails, QueueFails, LatchFatal, PostFatal
  <2>3. QED
    BY <2>1, <2>2
<1>9. CASE UNCHANGED vars
  BY <1>9 DEF vars
<1>10. QED
  BY <1>1, <1>2, <1>3, <1>4, <1>5, <1>6, <1>7, <1>8, <1>9 DEF Next, Run

\* When Stop has returned, nothing of the session is left running: no loop, no
\* watcher, no socket, and every output announced STOPPED.
THEOREM StopLeavesNothing == Spec => []NothingLeftRunning
<1>1. Init => ShutdownInv
  BY DEF Init, PipeInit, ShutdownInv
<1>2. TypeOK /\ ShutdownInv => NothingLeftRunning
  BY DEF TypeOK, PipeTypeOK, ShutdownInv, NothingLeftRunning
<1>3. QED
  BY <1>1, <1>2, ShutdownStep, TypeCorrect, PTL DEF Spec

-----------------------------------------------------------------------------
(* Stopping by itself.  Quit is closed by a caller of Stop or by a loop    *)
(* that has just reported; each loop reports once and is then on its way   *)
(* out.                                                                    *)

ReportInv ==
  /\ \A i \in Outputs :
       /\ reports[i] \in 0 .. 1
       /\ reports[i] = 1 => pc[i] \in {"fatal", "done"}
       /\ pc[i] = "fatal" => reports[i] = 1
       /\ pc[i] = "done" => quit
  /\ quit /\ (\A c \in Stoppers : stop[c] = "idle")
       => \E i \in Outputs : reports[i] = 1

\* A session nobody stopped has said why: some output's callback was given the
\* fatal error, and none was given it twice.
THEOREM SelfStopIsReported == Spec => []NeverStopsSilently
<1>ReportStep. TypeOK /\ ReportInv /\ [Next]_vars => ReportInv'
  <2> SUFFICES ASSUME TypeOK, ReportInv, [Next]_vars PROVE ReportInv'
    OBVIOUS
  <2> USE DEF ReportInv, TypeOK, pipeVars, loopVars, ctlVars, Goto
  <2>1. CASE \E i \in Outputs : Fatal(i)
    BY <2>1 DEF Fatal
  <2>2. CASE \E i \in Outputs : FatalQuits(i)
    BY <2>2 DEF FatalQuits
  <2>3. CASE \E i \in Outputs : Leave(i)
    BY <2>3 DEF Leave
  <2>4. CASE \E i \in Outputs : Enter(i) \/ Attempt(i) \/ CallReplace(i) \/ DialReturns(i)
    BY <2>4 DEF Enter, Attempt, CallReplace, DialReturns
  <2>5. CASE \E i \in Outputs : Accepted(i) \/ Connected(i) \/ PeerLost(i) \/ Drained(i)
    BY <2>5 DEF Accepted, Connected, PeerLost, Drained
  <2>6. CASE \E i \in Outputs : BackOff(i) \/ SleepDiscards(i) \/ TimerFires(i)
    BY <2>6 DEF BackOff, SleepDiscards, TimerFires
  <2>7. CASE Start \/ \E c \in Stoppers : StopCall(c) \/ StopReturn(c)
    BY <2>7 DEF Start, StopCall, StopReturn
  <2>8. CASE Watcher \/ Run
    BY <2>8 DEF Watcher, Take, Route, WatcherLeaves, Run, StopPipeline,
                EmitStopped, CloseStreams, LoopDone
  <2>9. CASE PipelineActs
    BY <2>9 DEF PipelineActs
  <2>10. CASE UNCHANGED vars
    BY <2>10 DEF vars
  <2>11. QED
    BY <2>1, <2>2, <2>3, <2>4, <2>5, <2>6, <2>7, <2>8, <2>9, <2>10 DEF Next, Loop
<1>1. Init => ReportInv
  BY DEF Init, ReportInv
<1>2. TypeOK /\ ShutdownInv /\ ReportInv => NeverStopsSilently
  <2> SUFFICES ASSUME TypeOK, ShutdownInv, ReportInv PROVE NeverStopsSilently
    OBVIOUS
  <2>1. 0 \in Outputs
    BY PipelineAssumption DEF Outputs
  <2>2. run \in {"stopped", "closed", "done"} => quit
    BY <2>1 DEF TypeOK, PipeTypeOK, ShutdownInv, ReportInv
  <2>3. QED
    BY <2>2 DEF ReportInv, NeverStopsSilently
<1>3. Init => ShutdownInv
  BY DEF Init, PipeInit, ShutdownInv
<1>4. QED
  BY <1>1, <1>2, <1>3, ShutdownStep, <1>ReportStep, TypeCorrect, PTL DEF Spec

-----------------------------------------------------------------------------
(* Errors.  An error that names an output is fresh only while the sink it  *)
(* speaks of is installed and has failed.  A loop that is about to dial    *)
(* has no sink, and nothing on the way that names it: so nothing can speak *)
(* of the sink it dials but that sink itself.                              *)

Elems(q) == {q[k] : k \in DOMAIN q}

\* What the watcher has yet to route.
Coming == Elems(perrs) \cup Elems(hand)

ErrorsOf(i) ==
  LET told == Coming \cup Elems(errs[i]) IN
  /\ pc[i] \in {"new", "top", "call", "dial"} => \A e \in Coming : e.out # i
  /\ pc[i] \in {"call", "dial"} => \A e \in Elems(errs[i]) : e.out # i
  /\ pc[i] \in {"ret", "key", "connected"} /\ res[i] = "ok" =>
       \A e \in told : e.out = i => e.fresh
  /\ pc[i] \in {"new", "top", "call", "dial", "removed", "sleep"} => sink[i] = "none"
  /\ pc[i] = "ret" /\ res[i] # "ok" => sink[i] = "none"
  /\ pc[i] \in {"key", "connected"} => res[i] = "ok"
  /\ pipe # "stopped" =>
       \A e \in told : e.out = i /\ e.fresh => sink[i] \in {"failing", "dead"}
  /\ \A e \in told : e.out = NoOutput => fatal # "no"
  /\ \A e \in Elems(errs[i]) : e.out \in {i, NoOutput}

ErrorInv == \A i \in Outputs : ErrorsOf(i)

\* Which errors a queue holds when it is empty or as short as the watcher's hand, after
\* a read, after an offer, and after Outlived.
LEMMA ElemsOf ==
  /\ Elems(<<>>) = {} /\ \A e : Elems(<<e>>) = {e}
  /\ \A q \in Seq(Errors) : q # <<>> => Elems(Tail(q)) \subseteq Elems(q) /\ Head(q) \in Elems(q)
  /\ \A q \in Seq(Errors), d \in Errors, cap \in Nat : Elems(Offer(q, d, cap)) \subseteq Elems(q) \cup {d}
  /\ \A i \in Outputs, q \in Seq(Errors) : \A e \in Elems(Outlived(i, q)) :
       \/ e.out # i /\ e \in Elems(q)
       \/ e = About(i, FALSE) /\ \E d \in Elems(q) : d.out = i
<1>1. Elems(<<>>) = {} /\ \A e : Elems(<<e>>) = {e}
  BY DEF Elems
<1>2. ASSUME NEW q \in Seq(Errors), q # <<>>
      PROVE  Elems(Tail(q)) \subseteq Elems(q) /\ Head(q) \in Elems(q)
  <2>1. \A k \in 1 .. Len(Tail(q)) : Tail(q)[k] = q[k + 1] /\ k + 1 \in 1 .. Len(q)
    BY <1>2
  <2>2. Head(q) = q[1] /\ 1 \in 1 .. Len(q)
    BY <1>2
  <2>3. DOMAIN q = 1 .. Len(q) /\ DOMAIN Tail(q) = 1 .. Len(Tail(q))
    BY <1>2
  <2>4. QED
    BY <2>1, <2>2, <2>3 DEF Elems
<1>3. ASSUME NEW q \in Seq(Errors), NEW d \in Errors, NEW cap \in Nat
      PROVE  Elems(Offer(q, d, cap)) \subseteq Elems(q) \cup {d}
  BY DEF Elems, Offer
<1>4. ASSUME NEW i \in Outputs, NEW q \in Seq(Errors), NEW e \in Elems(Outlived(i, q))
      PROVE  \/ e.out # i /\ e \in Elems(q)
             \/ e = About(i, FALSE) /\ \E d \in Elems(q) : d.out = i
  BY DEF Elems, Outlived
<1>5. QED
  BY <1>1, <1>2, <1>3, <1>4

\* Output j is as it was, and was told nothing new.
LEMMA ErrorsFrame ==
  ASSUME NEW j \in Outputs, ErrorsOf(j),
         \A e \in Coming' : e.out \in {j, NoOutput} => e \in Coming,
         Elems(errs[j])' \subseteq Elems(errs[j]),
         pc'[j] = pc[j], res'[j] = res[j], sink'[j] = sink[j],
         pipe' # "stopped" => pipe # "stopped",
         fatal # "no" => fatal' # "no"
  PROVE  ErrorsOf(j)'
  BY DEF ErrorsOf

\* Every step keeps what the errors on their way to a loop say true.
LEMMA ErrorsStep == TypeOK /\ ErrorInv /\ [Next]_vars => ErrorInv'
\* A loop step that leaves the queues alone, or empties its own a little.
<1>ErrorsQuietLoop. ASSUME TypeOK, ErrorInv, NEW i \in Outputs,
                           \/ Enter(i) \/ Leave(i) \/ Accepted(i) \/ Connected(i) \/ BackOff(i) \/ Fatal(i)
                           \/ FatalQuits(i) \/ DialReturns(i) \/ Attempt(i) \/ PeerLost(i)
                           \/ SleepDiscards(i) \/ TimerFires(i)
                    PROVE  /\ Coming' = Coming
                           /\ Elems(errs[i])' \subseteq Elems(errs[i])
                           /\ \A j \in Outputs \ {i} :
                                /\ errs'[j] = errs[j] /\ pc'[j] = pc[j]
                                /\ res'[j] = res[j] /\ sink'[j] = sink[j]
                           /\ pipe' = pipe /\ fatal' = fatal
  <2> USE <1>ErrorsQuietLoop
  <2> USE DEF TypeOK, PipeTypeOK, Goto, pipeVars, ctlVars, Coming
  <2>1. CASE Attempt(i)
    BY <2>1, ElemsOf DEF Attempt
  <2>2. CASE PeerLost(i) \/ SleepDiscards(i)
    <3>1. errs' = [errs EXCEPT ![i] = Tail(@)] /\ errs[i] # <<>>
      BY <2>2 DEF PeerLost, SleepDiscards
    <3>2. Elems(errs[i])' \subseteq Elems(errs[i])
      BY <3>1, ElemsOf
    <3>3. QED
      BY <2>2, <3>1, <3>2 DEF PeerLost, SleepDiscards
  <2>3. CASE DialReturns(i)
    BY <2>3 DEF DialReturns, ReplaceReturns
  <2>4. CASE Enter(i) \/ Leave(i) \/ Accepted(i) \/ Connected(i) \/ BackOff(i)
    BY <2>4 DEF Enter, Leave, Accepted, Connected, BackOff
  <2>5. CASE Fatal(i) \/ FatalQuits(i) \/ TimerFires(i)
    BY <2>5 DEF Fatal, FatalQuits, TimerFires
  <2>6. QED
    BY <2>1, <2>2, <2>3, <2>4, <2>5
<1>ErrorsLoop. ASSUME TypeOK, ErrorInv, NEW i \in Outputs, Loop(i)
               PROVE  ErrorInv'
  <2> USE <1>ErrorsLoop
  <2> USE DEF TypeOK, PipeTypeOK, Goto
  <2>1. ErrorsOf(i)
    BY DEF ErrorInv
  <2>2. CASE \/ Enter(i) \/ Leave(i) \/ Accepted(i) \/ Connected(i) \/ BackOff(i) \/ Fatal(i)
             \/ FatalQuits(i) \/ DialReturns(i) \/ Attempt(i) \/ PeerLost(i)
             \/ SleepDiscards(i) \/ TimerFires(i)
    <3>1. \A j \in Outputs \ {i} : ErrorsOf(j)'
      BY <2>2, <1>ErrorsQuietLoop, ErrorsFrame DEF ErrorInv
    <3>2. /\ Coming' = Coming
          /\ Elems(errs[i])' \subseteq Elems(errs[i])
          /\ pipe' = pipe /\ fatal' = fatal
      BY <2>2, <1>ErrorsQuietLoop
    <3>3. ErrorsOf(i)'
      <4> USE DEF ErrorsOf
      <4>1. CASE Attempt(i)
        <5>1. Elems(errs[i])' = {}
          BY <4>1, ElemsOf DEF Attempt
        <5>2. QED
          BY <2>1, <3>2, <4>1, <5>1 DEF Attempt, pipeVars
      <4>2. CASE TimerFires(i)
        <5>1. \A e \in Coming : e.out # i
          BY <4>2 DEF TimerFires, Settled, MentionedIn, Coming, Elems
        <5>2. QED
          BY <2>1, <3>2, <4>2, <5>1 DEF TimerFires, pipeVars
      <4>3. CASE DialReturns(i)
        BY <2>1, <3>2, <4>3 DEF DialReturns, ReplaceReturns
      <4>4. CASE Enter(i) \/ Leave(i) \/ Accepted(i) \/ Connected(i) \/ BackOff(i)
        BY <2>1, <3>2, <4>4 DEF Enter, Leave, Accepted, Connected, BackOff, pipeVars
      <4>5. CASE Fatal(i) \/ FatalQuits(i) \/ PeerLost(i) \/ SleepDiscards(i)
        BY <2>1, <3>2, <4>5 DEF Fatal, FatalQuits, PeerLost, SleepDiscards, pipeVars
      <4>6. QED
        BY <2>2, <4>1, <4>2, <4>3, <4>4, <4>5
    <3>4. QED
      BY <3>1, <3>3 DEF ErrorInv
  <2>3. CASE /\ CallReplace(i)
             /\ UNCHANGED <<pipeVars, errs, hand>>
             /\ \E result \in {"fail", "fatal"} : res' = [res EXCEPT ![i] = result]
             /\ Goto(i, {"call"}, "ret")
    <3>1. Coming' = Coming
      BY <2>3 DEF Coming, pipeVars
    <3>2. \A j \in Outputs \ {i} : ErrorsOf(j)'
      BY <2>3, <3>1, ErrorsFrame DEF ErrorInv, pipeVars
    <3>3. ErrorsOf(i)'
      BY <2>1, <2>3, <3>1 DEF ErrorsOf, pipeVars
    <3>4. QED
      BY <3>2, <3>3 DEF ErrorInv
  <2>4. CASE /\ Goto(i, {"call"}, "dial") \/ Goto(i, {"drain"}, "removed")
             /\ sink' = [sink EXCEPT ![i] = "none"]
             /\ perrs' = Outlived(i, perrs)
             /\ hand' = Outlived(i, hand)
             /\ errs' = [errs EXCEPT ![i] = Outlived(i, @)]
             /\ UNCHANGED <<res, pipe, fatal>>
    <3> DEFINE Past(e) == e.out = i /\ ~ e.fresh
    <3>1. i # NoOutput /\ \A j \in Outputs : j # NoOutput
      BY PipelineAssumption DEF Outputs, NoOutput
    <3>2. \A e \in Coming' :
            \/ e.out # i /\ e \in Coming
            \/ Past(e) /\ \E d \in Coming : d.out = i
      <4>1. About(i, FALSE).out = i /\ ~ About(i, FALSE).fresh
        BY DEF About
      <4>5. \A q \in Seq(Errors) : \A e \in Elems(Outlived(i, q)) :
              \/ e.out # i /\ e \in Elems(q)
              \/ Past(e) /\ \E d \in Elems(q) : d.out = i
        <5>1. ASSUME NEW q \in Seq(Errors), NEW e \in Elems(Outlived(i, q))
              PROVE  \/ e.out # i /\ e \in Elems(q)
                     \/ e = About(i, FALSE) /\ \E d \in Elems(q) : d.out = i
          BY ElemsOf
        <5>2. QED
          BY <5>1, <4>1
      <4>2. \A e \in Elems(perrs') :
              \/ e.out # i /\ e \in Elems(perrs)
              \/ Past(e) /\ \E d \in Elems(perrs) : d.out = i
        <5>1. perrs \in Seq(Errors) /\ perrs' = Outlived(i, perrs)
          BY <2>4
        <5> HIDE DEF TypeOK, PipeTypeOK
        <5>2. QED
          BY <5>1, <4>5
      <4>3. \A e \in Elems(hand') :
              \/ e.out # i /\ e \in Elems(hand)
              \/ Past(e) /\ \E d \in Elems(hand) : d.out = i
        <5>1. hand \in Seq(Errors) /\ hand' = Outlived(i, hand)
          BY <2>4
        <5> HIDE DEF TypeOK, PipeTypeOK
        <5>2. QED
          BY <5>1, <4>5
      <4> HIDE DEF Past
      <4>4. QED
        BY <4>2, <4>3 DEF Coming
    <3>3. \A e \in Elems(errs[i])' :
            \/ e.out # i /\ e \in Elems(errs[i])
            \/ Past(e) /\ \E d \in Elems(errs[i]) : d.out = i
      BY <2>4, ElemsOf DEF About
    <3>4. ASSUME NEW j \in Outputs \ {i}
          PROVE  ErrorsOf(j)'
      <4>1. \A e \in Coming' : e.out \in {j, NoOutput} => e \in Coming
        BY <3>1, <3>2
      <4>2. QED
        BY <2>4, <4>1, ErrorsFrame DEF ErrorInv
    <3>5. ErrorsOf(i)'
      <4>1. \A e \in Coming' : e.out = i => Past(e)
        BY <3>2
      <4>2. \A e \in Elems(errs[i])' : e.out = i => Past(e)
        BY <3>3
      <4>3. \A e \in Coming' \cup Elems(errs[i])' : e.out = NoOutput => fatal' # "no"
        BY <2>1, <2>4, <3>1, <3>2, <3>3 DEF ErrorsOf
      <4>4. \A e \in Elems(errs[i])' : e.out \in {i, NoOutput}
        BY <2>1, <3>3 DEF ErrorsOf
      <4>5. pc[i] = "call" => (\A e \in Coming' : e.out # i)
                              /\ \A e \in Elems(errs[i])' : e.out # i
        BY <2>1, <3>2, <3>3 DEF ErrorsOf
      <4>6. sink'[i] = "none" /\ pc'[i] \in {"dial", "removed"}
            /\ (pc'[i] = "dial" => pc[i] = "call")
        BY <2>4
      <4>7. QED
        BY <4>1, <4>2, <4>3, <4>4, <4>5, <4>6 DEF ErrorsOf
    <3>6. QED
      BY <3>4, <3>5 DEF ErrorInv
  <2>5. CASE CallReplace(i)
    BY <2>3, <2>4, <2>5 DEF CallReplace, ReplaceRefused, ReplaceDials
  <2>6. CASE Drained(i)
    BY <2>4, <2>6 DEF Drained, RemoveSinkOn
  <2>7. QED
    BY <2>2, <2>5, <2>6 DEF Loop
<1>ErrorsWatcher. ASSUME TypeOK, ErrorInv, Watcher
                  PROVE  ErrorInv'
  <2> USE <1>ErrorsWatcher
  <2> USE DEF TypeOK, PipeTypeOK
  <2>1. CASE Take
    <3>1. Elems(hand') = {Head(perrs)} /\ Elems(perrs') \subseteq Elems(perrs)
          /\ Head(perrs) \in Elems(perrs)
      BY <2>1, ElemsOf DEF Take
    <3>2. Coming' \subseteq Coming
      BY <3>1 DEF Coming
    <3>3. QED
      BY <2>1, <3>2, ErrorsFrame DEF Take, loopVars, ErrorInv
  <2>2. CASE Route
    <3> DEFINE h == Head(hand)
    <3>1. h \in Errors /\ h \in Elems(hand) /\ hand' = <<>>
      BY <2>2, ElemsOf DEF Route
    <3>2. Coming' \subseteq Coming /\ h \in Coming
      BY <2>2, <3>1, ElemsOf DEF Route, Coming, pipeVars
    <3>3. ASSUME NEW j \in Outputs
          PROVE  ErrorsOf(j)'
      <4>1. errs'[j] = IF h.out \in {j, NoOutput}
                       THEN Offer(errs[j], h, ErrsBuffer) ELSE errs[j]
        BY <2>2 DEF Route
      <4>2. Elems(Offer(errs[j], h, ErrsBuffer)) \subseteq Elems(errs[j]) \cup {h}
        BY <3>1, SenderAssumption, ElemsOf
      <4>3. \A e \in Elems(errs'[j]) :
              e \in Elems(errs[j]) \/ (e = h /\ h.out \in {j, NoOutput})
        BY <4>1, <4>2
      <4> HIDE DEF h
      <4>4. ErrorsOf(j) /\ UNCHANGED <<pc, res, sink, pipe, fatal>>
        BY <2>2 DEF ErrorInv, Route, pipeVars
      <4>5. QED
        BY <3>2, <4>3, <4>4 DEF ErrorsOf
    <3>4. QED
      BY <3>3 DEF ErrorInv
  <2>3. CASE WatcherLeaves
    BY <2>3, ErrorsFrame DEF WatcherLeaves, pipeVars, loopVars, ErrorInv, Coming
  <2>4. QED
    BY <2>1, <2>2, <2>3 DEF Watcher
<1>ErrorsRun. ASSUME TypeOK, ErrorInv, Run
              PROVE  ErrorInv'
  <2> USE <1>ErrorsRun
  <2> USE DEF pipeVars, loopVars, ctlVars, Coming, ErrorInv
  <2>1. CASE StopPipeline
    BY <2>1 DEF StopPipeline, PipeStop, ErrorsOf
  <2>2. CASE \E i \in Outputs : EmitStopped(i)
    BY <2>2, ErrorsFrame DEF EmitStopped
  <2>3. CASE CloseStreams \/ LoopDone
    BY <2>3, ErrorsFrame DEF CloseStreams, LoopDone
  <2>4. QED
    BY <2>1, <2>2, <2>3 DEF Run
<1>ErrorsPipeline. ASSUME TypeOK, ErrorInv, PipelineActs
                   PROVE  ErrorInv'
  <2> USE <1>ErrorsPipeline
  <2> USE PipelineAssumption DEF TypeOK, PipeTypeOK, loopVars, ctlVars
  <2>1. UNCHANGED <<pc, res, errs, hand, pipe>>
    BY DEF PipelineActs, SinkFails, QueueFails, LatchFatal, PostFatal
  <2>2. ASSUME NEW i \in Outputs, SinkFails(i) \/ QueueFails(i)
        PROVE  ErrorInv'
    <3> DEFINE d == About(i, TRUE)
               n == About(NoOutput, TRUE)
    <3>1. /\ d \in Errors /\ d.out = i /\ d.fresh /\ i # NoOutput
          /\ n \in Errors /\ n.out = NoOutput
      BY DEF About, Errors, Outputs, NoOutput
    <3>2. \/ Elems(perrs') \subseteq Elems(perrs) \cup {d}
          \/ Elems(perrs') \subseteq Elems(perrs) \cup {n} /\ fatal # "no"
      BY <2>2, <3>1, ElemsOf DEF SinkFails, QueueFails
    <3>3. \A e \in Coming' : e \in Coming \/ e = d \/ (e = n /\ fatal # "no")
      BY <2>1, <3>2 DEF Coming
    <3>4. /\ sink[i] # "none" /\ sink'[i] \in {"failing", "dead"}
          /\ fatal # "no" => fatal' # "no"
          /\ \A j \in Outputs \ {i} : sink'[j] = sink[j]
      BY <2>2 DEF SinkFails, QueueFails
    <3> HIDE DEF d, n
    <3>5. ASSUME NEW j \in Outputs \ {i}
          PROVE  ErrorsOf(j)'
      <4>1. j # NoOutput /\ ErrorsOf(j)
        BY SMTT(30) DEF Outputs, NoOutput, ErrorInv
      <4>2. QED
        BY <2>1, <3>1, <3>3, <3>4, <4>1 DEF ErrorsOf
    <3>6. ErrorsOf(i)'
      BY ZenonT(30), <2>1, <3>1, <3>3, <3>4 DEF ErrorInv, ErrorsOf
    <3>7. QED
      BY <3>5, <3>6 DEF ErrorInv
  <2>3. CASE LatchFatal
    BY <2>1, <2>3, ErrorsFrame DEF LatchFatal, ErrorInv, Coming
  <2>4. CASE PostFatal
    <3> DEFINE d == About(NoOutput, TRUE)
    <3>1. d \in Errors /\ d.out = NoOutput
      BY DEF About, Errors
    <3>2. Elems(perrs') \subseteq Elems(perrs) \cup {d}
      BY <2>4, <3>1, ElemsOf DEF PostFatal
    <3>3. \A e \in Coming' : e \in Coming \/ e = d
      BY <2>1, <3>2 DEF Coming
    <3>4. fatal' = "posted" /\ sink' = sink /\ \A j \in Outputs : j # NoOutput
      BY <2>4 DEF PostFatal, Outputs, NoOutput
    <3> HIDE DEF d
    <3>5. QED
      BY <2>1, <3>1, <3>3, <3>4 DEF ErrorInv, ErrorsOf
  <2>5. QED
    BY <2>2, <2>3, <2>4 DEF PipelineActs
<1> SUFFICES ASSUME TypeOK, ErrorInv, [Next]_vars PROVE ErrorInv'
  OBVIOUS
<1>1. CASE Start
  BY <1>1, ErrorsFrame DEF Start, PipeStart, loopVars, ErrorInv, Coming
<1>2. CASE \E c \in Stoppers : StopCall(c) \/ StopReturn(c)
  BY <1>2, ErrorsFrame DEF StopCall, StopReturn, pipeVars, loopVars, ErrorInv, Coming
<1>3. CASE UNCHANGED vars
  BY <1>3, ErrorsFrame DEF vars, pipeVars, loopVars, ctlVars, ErrorInv, Coming
<1>4. QED
  BY <1>1, <1>2, <1>3, <1>ErrorsLoop, <1>ErrorsWatcher, <1>ErrorsRun, <1>ErrorsPipeline DEF Next

\* No output is taken off the air by an error of the sink before it, or of
\* another output.
THEOREM OnlyRealLoss == Spec => OnlyRealLossEndsAConnection
\* The loop that takes CONNECTED down has read an error.  It names no output,
\* and the pipeline has failed; or it names this one and speaks of its present
\* sink, and that has failed.
<1>LossStep. ASSUME TypeOK, ShutdownInv, ErrorInv, [Next]_vars,
                    NEW i \in Outputs, lamp[i] = "CONNECTED", lamp'[i] = "DRAINING"
             PROVE  sink[i] \in {"failing", "dead"} \/ fatal # "no"
  <2> USE <1>LossStep
  <2> USE DEF TypeOK, PipeTypeOK
  <2>1. PeerLost(i)
    <3>1. ASSUME NEW j \in Outputs, Loop(j), ~ PeerLost(j)
          PROVE  lamp'[i] \in {lamp[i], "CONNECTING", "CONNECTED", "BACKOFF"}
      <4>1. CASE Enter(j) \/ Accepted(j) \/ Connected(j) \/ BackOff(j) \/ TimerFires(j)
        BY <4>1 DEF Enter, Accepted, Connected, BackOff, TimerFires, Emit
      <4>2. CASE \/ Leave(j) \/ Attempt(j) \/ CallReplace(j) \/ DialReturns(j)
                 \/ Drained(j) \/ SleepDiscards(j) \/ Fatal(j) \/ FatalQuits(j)
        BY <4>2 DEF Leave, Attempt, CallReplace, DialReturns, Drained,
                    SleepDiscards, Fatal, FatalQuits
      <4>3. QED
        BY <3>1, <4>1, <4>2 DEF Loop
    <3>2. \A j \in Outputs : PeerLost(j) => j = i
      BY DEF PeerLost, Emit
    <3>3. \E j \in Outputs : Loop(j)
      BY DEF Next, Start, StopCall, StopReturn, Watcher, Take, Route, WatcherLeaves,
             Run, StopPipeline, EmitStopped, CloseStreams, LoopDone, PipelineActs,
             Emit, vars, loopVars
    <3>4. QED
      BY <3>1, <3>2, <3>3
  <2> DEFINE e == Head(errs[i])
  <2>2. e \in Elems(errs[i]) /\ pc[i] = "connected"
    BY <2>1, ElemsOf DEF PeerLost, Goto
  <2>3. pipe # "stopped"
    BY <2>2 DEF ShutdownInv
  <2>4. ErrorsOf(i)
    BY DEF ErrorInv
  <2> HIDE DEF e
  <2>5. e.out \in {i, NoOutput} /\ (e.out = NoOutput => fatal # "no")
    BY <2>2, <2>4 DEF ErrorsOf
  <2>6. e.out = i => sink[i] \in {"failing", "dead"}
    BY <2>2, <2>3, <2>4 DEF ErrorsOf
  <2>7. QED
    BY <2>5, <2>6
<1>1. Init => ErrorInv
  BY ElemsOf DEF Init, PipeInit, ErrorInv, ErrorsOf, Coming
<1>2. Init => ShutdownInv
  BY DEF Init, PipeInit, ShutdownInv
<1>3. TypeOK /\ ShutdownInv /\ ErrorInv /\ [Next]_vars =>
        [\A i \in Outputs :
           lamp[i] = "CONNECTED" /\ lamp'[i] = "DRAINING"
             => sink[i] \in {"failing", "dead"} \/ fatal # "no"]_vars
  BY <1>LossStep
<1>4. QED
  BY <1>1, <1>2, <1>3, ShutdownStep, ErrorsStep, TypeCorrect, PTL
     DEF Spec, OnlyRealLossEndsAConnection
=============================================================================
