------------------------------- MODULE Sender -------------------------------
(***************************************************************************)
(* internal/sender/machine.go: one reconnect loop per SRT output, over one *)
(* shared pipeline (SendPipeline), with a watcher that hands the           *)
(* pipeline's errors to the loop they concern and a goroutine that closes  *)
(* everything down after the last loop.                                    *)
(*                                                                         *)
(* lamp[i] is the argument of output i's last emitOutput; what the two     *)
(* drop-oldest channels then do with it is module StateStream.             *)
(***************************************************************************)
EXTENDS SendPipeline

CONSTANTS
  ErrsBuffer,   \* errsBuffer, 16 in the code
  Ladder,       \* rungs of BackoffLadder before the cap, 5 in the code
  Stoppers      \* callers of Stop
ASSUME SenderAssumption ==
  /\ ErrsBuffer \in Nat \ {0}
  /\ Ladder \in Nat \ {0}

VARIABLES
  pc,       \* where each loop stands
  res,      \* what its last ReplaceSinkOn returned
  errs,     \* its error channel
  attempt,  \* consecutive failures, as an index of the ladder
  lamp,     \* the last state announced for the output
  hand,     \* the error the watcher has received and not yet routed, if any
  watcher,  \* "off", "on", "done"
  quit,     \* is the quit channel closed?
  run,      \* the run goroutine: "idle", "loops", "stopped", "closed", "done"
  stop,     \* each caller of Stop: "idle", "waiting", "returned"
  reports   \* fatal errors handed to each output's connect-error callback

loopVars == <<pc, res, errs, attempt, lamp, reports>>
ctlVars  == <<hand, watcher, quit, run, stop>>
vars     == <<pipeVars, loopVars, ctlVars>>

PCs == {"new", "top", "call", "dial", "ret", "key", "connected", "drain",
        "removed", "sleep", "fatal", "done"}
Lamps == {"CONNECTING", "CONNECTED", "DRAINING", "BACKOFF", "STOPPED"}

TypeOK ==
  /\ PipeTypeOK
  /\ pc \in [Outputs -> PCs]
  /\ res \in [Outputs -> {"none", "ok", "fail", "fatal"}]
  /\ errs \in [Outputs -> Seq(Errors)]
  /\ \A i \in Outputs : Len(errs[i]) <= ErrsBuffer
  /\ attempt \in [Outputs -> 0 .. Ladder]
  /\ lamp \in [Outputs -> Lamps]
  /\ hand \in Seq(Errors)
  /\ Len(hand) <= 1
  /\ watcher \in {"off", "on", "done"}
  /\ quit \in BOOLEAN
  /\ run \in {"idle", "loops", "stopped", "closed", "done"}
  /\ stop \in [Stoppers -> {"idle", "waiting", "returned"}]
  /\ reports \in [Outputs -> Nat]

Init ==
  /\ PipeInit
  /\ pc = [i \in Outputs |-> "new"]
  /\ res = [i \in Outputs |-> "none"]
  /\ errs = [i \in Outputs |-> <<>>]
  /\ attempt = [i \in Outputs |-> 0]
  /\ lamp = [i \in Outputs |-> "STOPPED"]
  /\ hand = <<>>
  /\ watcher = "off"
  /\ quit = FALSE
  /\ run = "idle"
  /\ stop = [c \in Stoppers |-> "idle"]
  /\ reports = [i \in Outputs |-> 0]

Goto(i, from, to) ==
  /\ pc[i] \in from
  /\ pc' = [pc EXCEPT ![i] = to]

Emit(i, state) == lamp' = [lamp EXCEPT ![i] = state]

-----------------------------------------------------------------------------
(* Start and Stop, called from outside.                                    *)

\* A pipeline that will not start leaves everything as it was.
Start ==
  /\ run = "idle"
  /\ PipeStart
  /\ run' = "loops"
  /\ watcher' = "on"
  /\ UNCHANGED <<loopVars, hand, quit, stop>>

\* Before Start it returns ErrNotStarted and changes nothing.
StopCall(c) ==
  /\ run # "idle"
  /\ stop[c] = "idle"
  /\ stop' = [stop EXCEPT ![c] = "waiting"]
  /\ quit' = TRUE
  /\ UNCHANGED <<pipeVars, loopVars, hand, watcher, run>>

StopReturn(c) ==
  /\ run = "done"
  /\ stop[c] = "waiting"
  /\ stop' = [stop EXCEPT ![c] = "returned"]
  /\ UNCHANGED <<pipeVars, loopVars, hand, watcher, quit, run>>

-----------------------------------------------------------------------------
(* The loop of output i.                                                   *)

Enter(i) ==
  /\ run = "loops"
  /\ Goto(i, {"new"}, "top")
  /\ Emit(i, "CONNECTING")
  /\ UNCHANGED <<pipeVars, res, errs, attempt, reports, ctlVars>>

\* Mutant: the select of CONNECTED has no case for quit.
LeaveUnlessConnected(i) ==
  /\ quit
  /\ Goto(i, {"top", "ret", "removed", "sleep"}, "done")
  /\ UNCHANGED <<pipeVars, res, errs, attempt, lamp, reports, ctlVars>>

\* Every place the loop looks at quit: before an attempt, after one, in the
\* select of CONNECTED, after the drain, and in the select of the wait.
Leave(i) ==
  /\ quit
  /\ Goto(i, {"top", "ret", "connected", "removed", "sleep"}, "done")
  /\ UNCHANGED <<pipeVars, res, errs, attempt, lamp, reports, ctlVars>>

\* Mutant: what is queued is left for the new connection to read.
AttemptUndrained(i) ==
  /\ ~ quit
  /\ Goto(i, {"top"}, "call")
  /\ UNCHANGED <<pipeVars, res, errs, attempt, lamp, reports, ctlVars>>

\* What is queued describes the sink before this one: it is thrown away.
Attempt(i) ==
  /\ ~ quit
  /\ Goto(i, {"top"}, "call")
  /\ errs' = [errs EXCEPT ![i] = <<>>]
  /\ UNCHANGED <<pipeVars, res, attempt, lamp, reports, ctlVars>>

\* ReplaceSinkOn, refused at once or entering the handshake.
CallReplace(i) ==
  /\ \/ /\ \E result \in {"fail", "fatal"} :
             /\ ReplaceRefused(result)
             /\ res' = [res EXCEPT ![i] = result]
        /\ Goto(i, {"call"}, "ret")
        /\ UNCHANGED <<errs, hand>>
     \/ /\ ReplaceDials(i)
        /\ Goto(i, {"call"}, "dial")
        /\ errs' = [errs EXCEPT ![i] = Outlived(i, @)]
        /\ hand' = Outlived(i, hand)
        /\ UNCHANGED res
  /\ UNCHANGED <<attempt, lamp, reports, watcher, quit, run, stop>>

DialReturns(i) ==
  /\ Goto(i, {"dial"}, "ret")
  /\ \E result \in {"ok", "fail", "fatal"} :
       /\ ReplaceReturns(i, result)
       /\ res' = [res EXCEPT ![i] = result]
  /\ UNCHANGED <<errs, attempt, lamp, reports, ctlVars>>

\* A key frame is asked for, under the pipeline's mutex: quit may be closed
\* while the loop waits for it.
Accepted(i) ==
  /\ ~ quit
  /\ res[i] = "ok"
  /\ Goto(i, {"ret"}, "key")
  /\ UNCHANGED <<pipeVars, res, errs, attempt, lamp, reports, ctlVars>>

\* Mutant: the queue is thrown away after the dial, with its sink's own errors.
ConnectedDraining(i) ==
  /\ mu = Free
  /\ Goto(i, {"key"}, "connected")
  /\ attempt' = [attempt EXCEPT ![i] = 0]
  /\ errs' = [errs EXCEPT ![i] = <<>>]
  /\ Emit(i, "CONNECTED")
  /\ UNCHANGED <<pipeVars, res, reports, ctlVars>>

Connected(i) ==
  /\ mu = Free
  /\ Goto(i, {"key"}, "connected")
  /\ attempt' = [attempt EXCEPT ![i] = 0]
  /\ Emit(i, "CONNECTED")
  /\ UNCHANGED <<pipeVars, res, errs, reports, ctlVars>>

\* Any error at all ends CONNECTED; its text is not looked at.
PeerLost(i) ==
  /\ errs[i] # <<>>
  /\ Goto(i, {"connected"}, "drain")
  /\ errs' = [errs EXCEPT ![i] = Tail(@)]
  /\ Emit(i, "DRAINING")
  /\ UNCHANGED <<pipeVars, res, attempt, reports, ctlVars>>

\* Mutant: the wait begins with the socket still open.
DrainedSocketOpen(i) ==
  /\ Goto(i, {"drain"}, "removed")
  /\ UNCHANGED <<pipeVars, res, errs, attempt, lamp, reports, ctlVars>>

Drained(i) ==
  /\ Goto(i, {"drain"}, "removed")
  /\ RemoveSinkOn(i)
  /\ errs' = [errs EXCEPT ![i] = Outlived(i, @)]
  /\ hand' = Outlived(i, hand)
  /\ UNCHANGED <<res, attempt, lamp, reports, watcher, quit, run, stop>>

\* After a lost peer, or a failed attempt, which is reported.
BackOff(i) ==
  /\ ~ quit
  /\ pc[i] = "ret" => res[i] = "fail"
  /\ Goto(i, {"ret", "removed"}, "sleep")
  /\ attempt' = [attempt EXCEPT ![i] = IF @ < Ladder THEN @ + 1 ELSE @]
  /\ Emit(i, "BACKOFF")
  /\ UNCHANGED <<pipeVars, res, errs, reports, ctlVars>>

SleepDiscards(i) ==
  /\ pc[i] = "sleep"
  /\ errs[i] # <<>>
  /\ errs' = [errs EXCEPT ![i] = Tail(@)]
  /\ UNCHANGED <<pipeVars, pc, res, attempt, lamp, reports, ctlVars>>

\* The shortest rung is seven seconds and a queued error needs one hand-over
\* of the watcher: it has reached the loop before the timer fires.
Settled(i) == ~ MentionedIn(i, perrs) /\ ~ MentionedIn(i, hand)

TimerFires(i) ==
  /\ Settled(i)
  /\ Goto(i, {"sleep"}, "top")
  /\ Emit(i, "CONNECTING")
  /\ UNCHANGED <<pipeVars, res, errs, attempt, reports, ctlVars>>

\* Mutant: only a fatal error met by the primary is reported.
FatalOfPrimaryOnly(i) ==
  /\ ~ quit
  /\ res[i] = "fatal"
  /\ Goto(i, {"ret"}, "fatal")
  /\ reports' = IF i = 0 THEN [reports EXCEPT ![i] = @ + 1] ELSE reports
  /\ UNCHANGED <<pipeVars, res, errs, attempt, lamp, ctlVars>>

\* A latched pipeline: reported, and then every loop is ended from this one.
Fatal(i) ==
  /\ ~ quit
  /\ res[i] = "fatal"
  /\ Goto(i, {"ret"}, "fatal")
  /\ reports' = [reports EXCEPT ![i] = @ + 1]
  /\ UNCHANGED <<pipeVars, res, errs, attempt, lamp, ctlVars>>

FatalQuits(i) ==
  /\ Goto(i, {"fatal"}, "done")
  /\ quit' = TRUE
  /\ UNCHANGED <<pipeVars, res, errs, attempt, lamp, reports,
                 hand, watcher, run, stop>>

-----------------------------------------------------------------------------
(* The watcher.                                                            *)

Take ==
  /\ watcher = "on"
  /\ hand = <<>>
  /\ perrs # <<>>
  /\ hand' = <<Head(perrs)>>
  /\ perrs' = Tail(perrs)
  /\ UNCHANGED <<pipe, mu, sink, fatal, loopVars, watcher, quit, run, stop>>

\* To the output the error names; to every output when it names none.
Route ==
  /\ hand # <<>>
  /\ LET e == Head(hand) IN
       errs' = [i \in Outputs |->
                  IF e.out \in {i, NoOutput}
                  THEN Offer(errs[i], e, ErrsBuffer) ELSE errs[i]]
  /\ hand' = <<>>
  /\ UNCHANGED <<pipeVars, pc, res, attempt, lamp, reports,
                 watcher, quit, run, stop>>

WatcherLeaves ==
  /\ watcher = "on"
  /\ hand = <<>>
  /\ quit \/ (pipe = "stopped" /\ perrs = <<>>)
  /\ watcher' = "done"
  /\ UNCHANGED <<pipeVars, loopVars, hand, quit, run, stop>>

-----------------------------------------------------------------------------
(* The run goroutine, once every loop has ended.                           *)

StopPipeline ==
  /\ run = "loops"
  /\ \A i \in Outputs : pc[i] = "done"
  /\ PipeStop
  /\ run' = "stopped"
  /\ UNCHANGED <<loopVars, hand, watcher, quit, stop>>

EmitStopped(i) ==
  /\ run = "stopped"
  /\ lamp[i] # "STOPPED"
  /\ \A j \in Outputs : j < i => lamp[j] = "STOPPED"
  /\ Emit(i, "STOPPED")
  /\ UNCHANGED <<pipeVars, pc, res, errs, attempt, reports, ctlVars>>

CloseStreams ==
  /\ run = "stopped"
  /\ \A i \in Outputs : lamp[i] = "STOPPED"
  /\ run' = "closed"
  /\ UNCHANGED <<pipeVars, loopVars, hand, watcher, quit, stop>>

\* Mutant: the watcher is not waited for.
LoopDoneAtOnce ==
  /\ run = "closed"
  /\ run' = "done"
  /\ UNCHANGED <<pipeVars, loopVars, hand, watcher, quit, stop>>

LoopDone ==
  /\ run = "closed"
  /\ watcher = "done"
  /\ run' = "done"
  /\ UNCHANGED <<pipeVars, loopVars, hand, watcher, quit, stop>>

-----------------------------------------------------------------------------

\* What the pipeline does of its own accord.
PipelineActs ==
  /\ (\E i \in Outputs : SinkFails(i) \/ QueueFails(i)) \/ LatchFatal \/ PostFatal
  /\ UNCHANGED <<loopVars, ctlVars>>

Loop(i) ==
  \/ Enter(i) \/ Leave(i) \/ Attempt(i) \/ CallReplace(i) \/ DialReturns(i)
  \/ Accepted(i) \/ Connected(i) \/ PeerLost(i) \/ Drained(i) \/ BackOff(i)
  \/ SleepDiscards(i) \/ TimerFires(i) \/ Fatal(i) \/ FatalQuits(i)

Watcher == Take \/ Route \/ WatcherLeaves

Run == StopPipeline \/ (\E i \in Outputs : EmitStopped(i)) \/ CloseStreams
       \/ LoopDone

Next ==
  \/ Start
  \/ \E c \in Stoppers : StopCall(c) \/ StopReturn(c)
  \/ \E i \in Outputs : Loop(i)
  \/ Watcher \/ Run \/ PipelineActs

Spec == Init /\ [][Next]_vars

(***************************************************************************)
(* Fairness.  Goroutines are scheduled; a handshake returns, because gst   *)
(* bounds the state change at sinkStateChangeTimeout; a blocked goroutine  *)
(* gets a mutex that is released again and again, because sync.Mutex hands *)
(* over to a waiter that has starved for a millisecond.  Nothing obliges   *)
(* anybody to call Start or Stop, or a sink to fail, and nobody is assumed *)
(* to read the state channels.                                             *)
(***************************************************************************)
NeedsMutex(i) == CallReplace(i) \/ Connected(i) \/ Drained(i)

Fairness ==
  /\ \A i \in Outputs : WF_vars(Loop(i)) /\ SF_vars(NeedsMutex(i))
  /\ WF_vars(Watcher) /\ WF_vars(Run)
  /\ WF_vars(PostFatal /\ UNCHANGED <<loopVars, ctlVars>>)
  /\ \A c \in Stoppers : WF_vars(StopReturn(c))

FairSpec == Spec /\ Fairness

-----------------------------------------------------------------------------
(* Safety.                                                                 *)

\* A connection is ended only by a failure that is really its own: its present
\* sink has failed, or the pipeline behind every sink has.  Neither an error
\* of the sink before it nor one of the other output takes it off the air,
\* whatever order errors, attempts and routing happen in.
OnlyRealLossEndsAConnection ==
  [][\A i \in Outputs :
       lamp[i] = "CONNECTED" /\ lamp'[i] = "DRAINING"
         => sink[i] \in {"failing", "dead"} \/ fatal # "no"]_vars

\* When Stop returns nothing of the session is left: the loops and the watcher
\* have ended, the pipeline was stopped after the last of them and holds no
\* socket, and every output was announced STOPPED.
NothingLeftRunning ==
  /\ pipe = "stopped" => \A i \in Outputs : pc[i] = "done" /\ sink[i] = "none"
  /\ (\E c \in Stoppers : stop[c] = "returned")
       => /\ pipe = "stopped" /\ watcher = "done" /\ hand = <<>>
          /\ \A i \in Outputs : lamp[i] = "STOPPED"

\* The sender never stops itself in silence, nor repeats itself: if nobody
\* called Stop, some output's callback was given the fatal error before the
\* loops ended; and none is given it twice.
NeverStopsSilently ==
  /\ run \in {"stopped", "closed", "done"} /\ (\A c \in Stoppers : stop[c] = "idle")
       => \E i \in Outputs : reports[i] = 1
  /\ \A i \in Outputs : reports[i] <= 1

\* A lost peer waits the ladder's first rung, however many attempts it took to
\* connect: only consecutive failures climb.
LostPeerWaitsFirstRung ==
  [][\A i \in Outputs :
       lamp[i] = "DRAINING" /\ lamp'[i] = "BACKOFF" => attempt'[i] = 1]_vars

\* What the lamps promise (SenderSpec), the loops keep: a wait starts with the
\* socket gone, CONNECTED means a sink is installed, and outputs stop together.
SessionLife ==
  CASE run = "idle"    -> "new"
    [] run = "loops"   -> "running"
    [] run = "stopped" -> "stopping"
    [] OTHER           -> "closed"
HasSocket == [i \in Outputs |-> sink[i] # "none"]

Abs == INSTANCE SenderSpec WITH life <- SessionLife, socket <- HasSocket

ImplementsSenderSpec == Abs!SpecSpec

-----------------------------------------------------------------------------
(* Liveness.                                                               *)

\* Stop always returns, whatever the loops were doing, with nobody reading the
\* state channels and however the peers behave meanwhile.
StopCompletes ==
  \A c \in Stoppers : stop[c] = "waiting" ~> stop[c] = "returned"

\* A lost peer is always noticed, and a pipeline that has failed for good ends
\* the whole session unasked: no error is dropped that was the only one to say
\* so, though two bounded channels on the way drop what does not fit.
FailuresAreNoticed ==
  /\ \A i \in Outputs :
       pc[i] = "connected" /\ sink[i] # "live" ~> pc[i] # "connected"
  /\ fatal # "no" ~> run = "done"

-----------------------------------------------------------------------------
(* What the comments of the code say, and it does not do.                  *)

\* gst_cgo.go, isSinkSourced: the errors of both queues are consequences of
\* their sink's.  So losing a peer never condemns the pipeline.
PeerLossIsNotFatal ==
  [][\A i \in Outputs :
       sink[i] = "failing" /\ sink'[i] = "dead" => fatal' = fatal]_vars

=============================================================================
