---------------------------- MODULE ReturnMonitor ----------------------------
(***************************************************************************)
(* The SRT return in the commentator's headphones: the reconnect machine    *)
(* (internal/gst/return.go), one attempt's pipeline (return_cgo.go), and    *)
(* the application's one session of it with the goroutine that forwards its *)
(* states (app_return.go).                                                  *)
(*                                                                         *)
(* Back-off is a wait of any length; options, logs and what a message says  *)
(* are left out.  An error is named by the attempt that it is about.        *)
(***************************************************************************)
EXTENDS Naturals, Sequences, FiniteSets

CONSTANTS
  RetCallers,     \* goroutines that call StartReturn and StopReturn
  Quitter,        \* the one that shuts the application down
  Addresses,      \* how many addresses the host resolves to
  RetStates,      \* returnStatesBuffer
  RetErrors,      \* returnErrorBuffer
  DiagnoseAfter,  \* returnDiagnoseAfter
  MaxReturns, MaxTries, RetBudgets
                  \* bounds: sessions and addresses dialled in all, a pipeline that
                  \*   cannot be built counting as one; and the combinations of them
ASSUME ReturnAssumption ==
  /\ Quitter \notin RetCallers /\ "nobody" \notin RetCallers \cup {Quitter}
  /\ \A n \in {Addresses, RetStates, RetErrors, DiagnoseAfter, MaxReturns} : n \in Nat \ {0}
  /\ MaxTries \in Nat
  /\ RetBudgets \subseteq [returns : 0 .. MaxReturns, tries : 0 .. MaxTries]

Returns == 1 .. MaxReturns
NoReturn == 0
Nobody == "nobody"

VARIABLES
  retMu,     \* the caller inside StopReturn, which holds retMu over the wait
  retCall,   \* the session it is stopping
  retQuit,   \* a.closing, and whether shutdown is done with the return:
             \*   "no", "closing", "gone"
  ret,       \* a.ret
  retLeft,   \* the bounds
  retBegun,  \* sessions started so far
  lamp,      \* a.lastReturn
  loop,      \* where each session's loop stands
  quit,      \* the sessions whose quit is closed
  retPipe,      \* what became of its pipeline
  try,       \* the number of the address it dials
  tries,     \* how many so far
  left,      \* the addresses the attempt has yet to dial
  errs,      \* the pipeline's Errors(): the tries the errors are about
  ready,     \* audioReady is closed
  linked,    \* the try whose audio pad feeds the headphones, 0 for none
  verdict,   \* the error an attempt ended with
  fails,     \* consecutive failures: attempt
  outage,    \* how often it has been receiving
  reason,    \* the returnReason: the outage of the last failure reported
  states,    \* the channel of its states
  retFwd,       \* its forwarder: "none", "range", "speak", "done"
  failures, said,   \* the forwarder's two locals
  spoken,    \* the last diagnostic, as the state it was spoken on
  lost       \* sessions one of whose states found the channel full

appVars  == <<retMu, retCall, retQuit, ret, retBegun, retLeft>>
pipeVars == <<retPipe, try, tries, left, errs, ready, linked>>
loopVars == <<loop, quit, verdict, fails, outage, reason>>
fwdVars  == <<lamp, retFwd, failures, said, spoken>>
retVars  == <<appVars, pipeVars, loopVars, fwdVars, states, lost>>

Loops == {"none", "top", "new", "dial", "await", "live", "close", "shut", "report",
          "backoff", "wait", "stop", "done"}
RetPipes == {"none", "built", "playing", "null", "stuck"}
Lamps == {"STOPPED", "CONNECTING", "RECEIVING", "BACKOFF"}
Announced == [state : Lamps, outage : Nat, fails : Nat]
Diagnostic(s, why) == [outage |-> s.outage, fails |-> s.fails, why |-> why]
Unspoken == [outage |-> 0, fails |-> 0, why |-> 0]

RetTypeOK ==
  /\ retMu \in RetCallers \cup {Quitter, Nobody}
  /\ retCall \in Returns \cup {NoReturn}
  /\ retQuit \in {"no", "closing", "gone"}
  /\ ret \in Returns \cup {NoReturn} /\ retBegun \in 0 .. MaxReturns /\ retLeft \in RetBudgets
  /\ lamp \in Lamps
  /\ loop \in [Returns -> Loops] /\ quit \subseteq Returns
  /\ retPipe \in [Returns -> RetPipes]
  /\ try \in [Returns -> 0 .. MaxTries] /\ tries \in 0 .. MaxTries
  /\ left \in [Returns -> 0 .. Addresses]
  /\ \A g \in Returns : errs[g] \in Seq(1 .. MaxTries) /\ Len(errs[g]) <= RetErrors
  /\ ready \subseteq Returns /\ linked \in [Returns -> 0 .. MaxTries]
  /\ verdict \in [Returns -> 0 .. MaxTries] /\ fails \in [Returns -> Nat]
  /\ outage \in [Returns -> Nat] /\ reason \in [Returns -> Nat]
  /\ \A g \in Returns : states[g] \in Seq(Announced) /\ Len(states[g]) <= RetStates
  /\ retFwd \in [Returns -> {"none", "range", "speak", "done"}]
  /\ failures \in [Returns -> Nat] /\ said \subseteq Returns /\ lost \subseteq Returns

RetInit ==
  /\ retMu = Nobody /\ retCall = NoReturn /\ retQuit = "no"
  /\ ret = NoReturn /\ retBegun = 0 /\ retLeft \in RetBudgets
  /\ lamp = "STOPPED"
  /\ loop = [g \in Returns |-> "none"] /\ quit = {}
  /\ retPipe = [g \in Returns |-> "none"] /\ try = [g \in Returns |-> 0] /\ tries = 0
  /\ left = [g \in Returns |-> 0] /\ errs = [g \in Returns |-> <<>>]
  /\ ready = {} /\ linked = [g \in Returns |-> 0]
  /\ verdict = [g \in Returns |-> 0] /\ fails = [g \in Returns |-> 0]
  /\ outage = [g \in Returns |-> 1] /\ reason = [g \in Returns |-> 0]
  /\ states = [g \in Returns |-> <<>>]
  /\ retFwd = [g \in Returns |-> "none"]
  /\ failures = [g \in Returns |-> 0] /\ said = {}
  /\ spoken = [g \in Returns |-> Unspoken]
  /\ lost = {}

-----------------------------------------------------------------------------
(* The application's calls.                                                *)

\* One pipeline at a time, and none once the application is closing.
StartReturn(c) ==
  /\ retQuit = "no" /\ retMu = Nobody /\ ret = NoReturn
  /\ retBegun < retLeft.returns
  /\ retBegun' = retBegun + 1
  /\ ret' = retBegun'
  /\ loop' = [loop EXCEPT ![ret'] = "top"]
  /\ retFwd' = [retFwd EXCEPT ![ret'] = "range"]
  /\ UNCHANGED <<retMu, retCall, retQuit, retLeft, pipeVars, quit, verdict, fails, outage, reason,
                 lamp, failures, said, spoken, states, lost>>

\* retMu is held from here until the session has been joined.
StopReturn(c) ==
  /\ retMu = Nobody /\ ret # NoReturn
  /\ retMu' = c /\ retCall' = ret
  /\ ret' = NoReturn
  /\ quit' = quit \cup {ret}
  /\ UNCHANGED <<retQuit, retBegun, retLeft, pipeVars, loop, verdict, fails, outage, reason,
                 fwdVars, states, lost>>

ReleaseReturn ==
  /\ retMu' = Nobody /\ retCall' = NoReturn
  /\ retQuit' = IF retMu = Quitter THEN "gone" ELSE retQuit
  /\ UNCHANGED <<ret, retBegun, retLeft, pipeVars, loopVars, fwdVars, states, lost>>

\* Mutant: the forwarder is left to finish by itself.
JoinLoopOnly == retCall # NoReturn /\ loop[retCall] = "done" /\ ReleaseReturn

\* Stop waits for loopDone, StopReturn for the forwarder.
Joined ==
  /\ retCall # NoReturn
  /\ loop[retCall] = "done" /\ retFwd[retCall] = "done"
  /\ ReleaseReturn

Closing ==
  /\ retQuit = "no"
  /\ retQuit' = "closing"
  /\ UNCHANGED <<retMu, retCall, ret, retBegun, retLeft, pipeVars, loopVars, fwdVars, states, lost>>

\* Its StopReturn, which may find nothing to stop.
ShutdownReturn ==
  /\ retQuit = "closing"
  /\ \/ StopReturn(Quitter)
     \/ /\ retMu = Nobody /\ ret = NoReturn
        /\ retQuit' = "gone"
        /\ UNCHANGED <<retMu, retCall, ret, retBegun, retLeft, pipeVars, loopVars, fwdVars,
                       states, lost>>

-----------------------------------------------------------------------------
(* The reconnect machine.                                                  *)

Step(g, from, to) == loop[g] = from /\ loop' = [loop EXCEPT ![g] = to]

\* A reader that has fallen behind loses the state that is being announced.
Emit(g, s) ==
  IF Len(states[g]) < RetStates
    THEN /\ states' = [states EXCEPT ![g] =
                         Append(@, [state |-> s, outage |-> outage[g], fails |-> fails'[g]])]
         /\ UNCHANGED lost
    ELSE lost' = lost \cup {g} /\ UNCHANGED states

Top(g) ==
  /\ \/ g \in quit /\ Step(g, "top", "stop") /\ UNCHANGED <<fails, states, lost>>
     \/ g \notin quit /\ Step(g, "top", "new") /\ UNCHANGED fails /\ Emit(g, "CONNECTING")
  /\ UNCHANGED <<appVars, pipeVars, quit, verdict, outage, reason, fwdVars>>

\* A pipeline is built for the attempt, and the host is resolved; either may fail.
NewPipe(g) ==
  /\ tries + Addresses <= retLeft.tries
  /\ \/ /\ Step(g, "new", "dial")
        /\ retPipe' = [retPipe EXCEPT ![g] = "built"]
        /\ left' = [left EXCEPT ![g] = Addresses]
        /\ errs' = [errs EXCEPT ![g] = <<>>]
        /\ UNCHANGED <<verdict, tries>>
     \/ /\ Step(g, "new", "report")
        /\ tries' = tries + 1
        /\ verdict' = [verdict EXCEPT ![g] = try[g]]
        /\ UNCHANGED <<retPipe, left, errs>>
  /\ linked' = [linked EXCEPT ![g] = 0]
  /\ UNCHANGED <<appVars, try, ready, quit, fails, outage, reason, fwdVars, states, lost>>

GoPlaying(g) ==
  /\ Step(g, "dial", "await")
  /\ retPipe' = [retPipe EXCEPT ![g] = "playing"]
  /\ tries' = tries + 1
  /\ try' = [try EXCEPT ![g] = tries']
  /\ left' = [left EXCEPT ![g] = @ - 1]
  /\ UNCHANGED <<appVars, quit, verdict, fails, outage, reason, fwdVars, states, lost>>

\* The errors are drained and the wait armed before the pipeline is set going.
DialAddress(g) ==
  /\ GoPlaying(g)
  /\ errs' = [errs EXCEPT ![g] = <<>>]
  /\ ready' = ready \ {g}
  /\ linked' = [linked EXCEPT ![g] = 0]

\* Back to NULL between addresses; after the last, the pipeline is torn down.
NextAddress(g, err) ==
  /\ verdict' = [verdict EXCEPT ![g] = err]
  /\ IF left[g] > 0
       THEN Step(g, "await", "dial") /\ retPipe' = [retPipe EXCEPT ![g] = "built"]
       ELSE Step(g, "await", "close") /\ UNCHANGED retPipe
  /\ UNCHANGED <<appVars, try, tries, left, ready, linked, quit, fails, outage, reason, fwdVars,
                 states, lost>>

\* awaitAudio, and the state change before it: audio, an error, or neither in
\* time.  Where both are there the select takes either.
AwaitAudio(g) ==
  \/ /\ g \in ready
     /\ Step(g, "await", "live")
     /\ fails' = [fails EXCEPT ![g] = 0]
     /\ outage' = [outage EXCEPT ![g] = @ + 1]
     /\ Emit(g, "RECEIVING")
     /\ UNCHANGED <<appVars, pipeVars, quit, verdict, reason, fwdVars>>
  \/ /\ errs[g] # <<>>
     /\ errs' = [errs EXCEPT ![g] = Tail(@)]
     /\ NextAddress(g, Head(errs[g]))
  \/ NextAddress(g, try[g]) /\ UNCHANGED errs

\* Stop and an error of the live pipeline; again either, where both are there.
Live(g) ==
  /\ \/ g \in quit /\ Step(g, "live", "shut") /\ UNCHANGED <<verdict, errs>>
     \/ /\ errs[g] # <<>> /\ Step(g, "live", "close")
        /\ verdict' = [verdict EXCEPT ![g] = Head(errs[g])]
        /\ errs' = [errs EXCEPT ![g] = Tail(@)]
  /\ UNCHANGED <<appVars, retPipe, try, tries, left, ready, linked, quit, fails, outage, reason,
                 fwdVars, states, lost>>

\* The endpoint and the socket are let go of, unless the pipeline will not go
\* to NULL: it is left behind all the same.
TearDown(g) ==
  /\ \E end \in {"null", "stuck"} : retPipe' = [retPipe EXCEPT ![g] = end]
  /\ errs' = [errs EXCEPT ![g] = <<>>]
  /\ ready' = ready \ {g}
  /\ linked' = [linked EXCEPT ![g] = 0]
  /\ UNCHANGED <<appVars, try, tries, left, quit, verdict, fails, outage, reason, fwdVars,
                 states, lost>>

ClosePipe(g) ==
  /\ Step(g, "close", "report") \/ Step(g, "shut", "stop")
  /\ TearDown(g)

\* The reason is stored before the back-off that it explains is announced.
Report(g) ==
  /\ Step(g, "report", "backoff")
  /\ reason' = [reason EXCEPT ![g] = outage[g]]
  /\ UNCHANGED <<appVars, pipeVars, quit, verdict, fails, outage, fwdVars, states, lost>>

BackOff(g) ==
  /\ \/ g \in quit /\ Step(g, "backoff", "stop") /\ UNCHANGED <<fails, states, lost>>
     \/ /\ g \notin quit /\ Step(g, "backoff", "wait")
        /\ fails' = [fails EXCEPT ![g] = @ + 1]
        /\ Emit(g, "BACKOFF")
  /\ UNCHANGED <<appVars, pipeVars, quit, verdict, outage, reason, fwdVars>>

Sleep(g) ==
  /\ \/ Step(g, "wait", "top")
     \/ g \in quit /\ Step(g, "wait", "stop")
  /\ UNCHANGED <<appVars, pipeVars, quit, verdict, fails, outage, reason, fwdVars, states, lost>>

Finish(g) ==
  /\ Step(g, "stop", "done")
  /\ UNCHANGED fails
  /\ Emit(g, "STOPPED")
  /\ UNCHANGED <<appVars, pipeVars, quit, verdict, outage, reason, fwdVars>>

-----------------------------------------------------------------------------
(* The streaming threads of a pipeline that is playing.                    *)

Deliver(g) ==
  IF Len(errs[g]) < RetErrors THEN errs' = [errs EXCEPT ![g] = Append(@, try[g])]
                              ELSE UNCHANGED errs

\* A bus error, the end of the stream, or a pad that could not be disposed of.
OnBusMessage(g) ==
  /\ retPipe[g] = "playing"
  /\ Deliver(g)
  /\ UNCHANGED <<appVars, retPipe, try, tries, left, ready, linked, loopVars, fwdVars,
                 states, lost>>

\* The first audio pad feeds the headphones; a link that fails may be tried by
\* the next pad.
OnPadAdded(g) ==
  /\ retPipe[g] = "playing" /\ linked[g] = 0
  /\ \/ /\ linked' = [linked EXCEPT ![g] = try[g]]
        /\ ready' = ready \cup {g}
        /\ UNCHANGED errs
     \/ Deliver(g) /\ UNCHANGED <<linked, ready>>
  /\ UNCHANGED <<appVars, retPipe, try, tries, left, loopVars, fwdVars, states, lost>>

-----------------------------------------------------------------------------
(* forwardReturnStates.                                                    *)

Counted(g) ==
  CASE Head(states[g]).state = "BACKOFF"   -> failures[g] + 1
    [] Head(states[g]).state = "RECEIVING" -> 0
    [] OTHER -> failures[g]

Forward(g) ==
  /\ retFwd[g] = "range" /\ states[g] # <<>>
  /\ states' = [states EXCEPT ![g] = Tail(@)]
  /\ lamp' = Head(states[g]).state
  /\ failures' = [failures EXCEPT ![g] = Counted(g)]
  /\ LET quiet == IF Head(states[g]).state = "RECEIVING" THEN said \ {g} ELSE said
     IN IF g \notin quiet /\ Counted(g) >= DiagnoseAfter
          THEN /\ said' = quiet \cup {g}
               /\ retFwd' = [retFwd EXCEPT ![g] = "speak"]
               /\ spoken' = [spoken EXCEPT ![g] = Diagnostic(Head(states[g]), 0)]
          ELSE said' = quiet /\ UNCHANGED <<retFwd, spoken>>
  /\ UNCHANGED <<appVars, pipeVars, loopVars, lost>>

\* The reason is read only now, when the message is made.
Speak(g) ==
  /\ retFwd[g] = "speak"
  /\ retFwd' = [retFwd EXCEPT ![g] = "range"]
  /\ spoken' = [spoken EXCEPT ![g].why = reason[g]]
  /\ UNCHANGED <<appVars, pipeVars, loopVars, lamp, failures, said, states, lost>>

\* The channel is closed and empty.
Ranged(g) ==
  /\ retFwd[g] = "range" /\ states[g] = <<>> /\ loop[g] = "done"
  /\ retFwd' = [retFwd EXCEPT ![g] = "done"]
  /\ UNCHANGED <<appVars, pipeVars, loopVars, lamp, failures, said, spoken, states, lost>>

-----------------------------------------------------------------------------

LoopStep(g) ==
  \/ Top(g) \/ NewPipe(g) \/ DialAddress(g) \/ AwaitAudio(g) \/ Live(g)
  \/ ClosePipe(g) \/ Report(g) \/ BackOff(g) \/ Sleep(g) \/ Finish(g)

RetNext ==
  \/ \E c \in RetCallers : StartReturn(c) \/ StopReturn(c)
  \/ Joined \/ Closing \/ ShutdownReturn
  \/ \E g \in Returns : \/ LoopStep(g) \/ OnBusMessage(g) \/ OnPadAdded(g)
                        \/ Forward(g) \/ Speak(g) \/ Ranged(g)

RetSpec == RetInit /\ [][RetNext]_retVars

-----------------------------------------------------------------------------

Open == {g \in Returns : retPipe[g] \in {"built", "playing"}}

\* The headphone endpoint and the SRT socket are held by one pipeline at most,
\* that of the session that runs or is being stopped; never across a back-off,
\* whose wait only clears the far end's refusal window once the socket is gone,
\* nor by a session that starts behind the shutdown.
OneReceiver ==
  /\ Cardinality(Open) <= 1
  /\ Open \subseteq {ret, retCall}
  /\ \A g \in Open : loop[g] \in {"dial", "await", "live", "close", "shut"}
  /\ retQuit = "gone" => ret = NoReturn

\* RECEIVING is announced for audio of the address now dialled, and what fails
\* an address or the live pipeline is an error about it.
JudgedByItsOwn ==
  \A g \in Returns :
    /\ loop[g] = "live" => linked[g] = try[g]
    /\ loop[g] \in {"close", "report"} => verdict[g] = try[g]

\* The diagnostic is spoken on the DiagnoseAfter'th failure in a row, and the
\* reason read for it is of the outage it speaks of, or of a later one; that
\* the forwarder may have fallen behind the loop never makes it an older one.
DiagnosticHasItsReason ==
  \A g \in Returns :
    /\ (IF retFwd[g] = "speak" THEN reason[g] ELSE spoken[g].why) >= spoken[g].outage
    /\ g \notin lost /\ spoken[g] # Unspoken => spoken[g].fails = DiagnoseAfter

\* The operator is told what is so: nothing an earlier address left behind, an
\* error or a signal of audio, decides a later one's fate; once StopReturn has
\* returned, the lamp says STOPPED and no forwarder of the session repaints it,
\* unless its reader had fallen a whole channel behind; and the diagnostic has its
\* reason.
ToldWhatIsSo ==
  /\ JudgedByItsOwn
  /\ ret = NoReturn /\ retMu = Nobody => lamp = "STOPPED" \/ lost # {}
  /\ DiagnosticHasItsReason

\* The receiver is one, and what is said is said of it.
ReturnIsHonest == OneReceiver /\ ToldWhatIsSo
=============================================================================
