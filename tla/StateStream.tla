---------------------------- MODULE StateStream ----------------------------
(***************************************************************************)
(* How the lamps of SenderSpec reach a reader: emitOutput in               *)
(* internal/sender/machine.go.  The primary's transitions go to the States *)
(* channel and every output's, tagged, to the one OutputStates channel.    *)
(* Both are bounded; a writer that finds one full takes its oldest entry   *)
(* out and tries again.  Finding it full and taking the oldest are two     *)
(* steps: the reader, and the other output's loop, act in between.         *)
(***************************************************************************)
EXTENDS SenderSpec, Sequences

CONSTANTS          \* both positive
  StatesBuffer,    \* statesBuffer, 16 in the code
  TaggedBuffer     \* statesBuffer * 2

VARIABLES
  emit,      \* each output's emitOutput: "idle", or at "states" or "tagged",
             \*   or about to take the oldest of one ("evict", "evictTagged")
  states,    \* the channel States() returns
  tagged,    \* the channel OutputStates() returns
  seen       \* what the reader of states last received

streamVars == <<emit, states, tagged, seen>>
vars == <<specVars, streamVars>>

Stages == {"idle", "states", "evict", "tagged", "evictTagged"}
OutputState == [output : Outputs, state : States]

TypeOK ==
  /\ SpecTypeOK
  /\ emit \in [Outputs -> Stages]
  /\ \A i \in Outputs : i # Primary => emit[i] \notin {"states", "evict"}
  /\ states \in Seq(States) /\ Len(states) <= StatesBuffer
  /\ tagged \in Seq(OutputState) /\ Len(tagged) <= TaggedBuffer
  /\ seen \in States

Init ==
  /\ SpecInit
  /\ emit = [i \in Outputs |-> "idle"]
  /\ states = <<>>
  /\ tagged = <<>>
  /\ seen = "STOPPED"

Stage(i, from, to) ==
  /\ emit[i] = from
  /\ emit' = [emit EXCEPT ![i] = to]

Quiet == \A i \in Outputs : emit[i] = "idle"

BeginEmit(i) ==
  /\ Stage(i, "idle", IF i = Primary THEN "states" ELSE "tagged")
  /\ UNCHANGED <<states, tagged, seen>>

-----------------------------------------------------------------------------
(* The session moves; a loop does nothing else while it is emitting.       *)

LoopEmits(i) == (Dial(i) \/ Carry(i) \/ Lose(i) \/ Wait(i)) /\ BeginEmit(i)

LoopActs(i) ==
  /\ emit[i] = "idle"
  /\ Open(i) \/ Shut(i)
  /\ UNCHANGED streamVars

\* The loops have all ended; every one had announced CONNECTING by then.
AllEnd ==
  /\ Quiet
  /\ \A i \in Outputs : lamp[i] # "STOPPED"
  /\ Cease
  /\ UNCHANGED streamVars

\* One goroutine announces STOPPED for every output in turn, then closes.
RunEmits(i) ==
  /\ Quiet
  /\ lamp[i] # "STOPPED"
  /\ \A j \in Outputs : j < i => lamp[j] = "STOPPED"
  /\ Rest(i)
  /\ BeginEmit(i)

CloseStreams == Quiet /\ Close /\ UNCHANGED streamVars

-----------------------------------------------------------------------------
(* The writer's steps.                                                     *)

SendState(i) ==
  /\ Len(states) < StatesBuffer
  /\ Stage(i, "states", "tagged")
  /\ states' = Append(states, lamp[i])
  /\ UNCHANGED <<specVars, tagged, seen>>

\* Mutant: a full channel drops the newest.
FindFullDropsNewest(i) ==
  /\ Len(states) = StatesBuffer
  /\ Stage(i, "states", "tagged")
  /\ UNCHANGED <<specVars, states, tagged, seen>>

FindFull(i) ==
  /\ Len(states) = StatesBuffer
  /\ Stage(i, "states", "evict")
  /\ UNCHANGED <<specVars, states, tagged, seen>>

\* The reader may have emptied it meanwhile; then nothing is taken.
Evict(i) ==
  /\ Stage(i, "evict", "states")
  /\ states' = IF states = <<>> THEN states ELSE Tail(states)
  /\ UNCHANGED <<specVars, tagged, seen>>

SendTagged(i) ==
  /\ Len(tagged) < TaggedBuffer
  /\ Stage(i, "tagged", "idle")
  /\ tagged' = Append(tagged, [output |-> i, state |-> lamp[i]])
  /\ UNCHANGED <<specVars, states, seen>>

FindTaggedFull(i) ==
  /\ Len(tagged) = TaggedBuffer
  /\ Stage(i, "tagged", "evictTagged")
  /\ UNCHANGED <<specVars, states, tagged, seen>>

EvictTagged(i) ==
  /\ Stage(i, "evictTagged", "tagged")
  /\ tagged' = IF tagged = <<>> THEN tagged ELSE Tail(tagged)
  /\ UNCHANGED <<specVars, states, seen>>

-----------------------------------------------------------------------------
(* The two readers, who may stop reading at any moment.                    *)

Receive ==
  /\ states # <<>>
  /\ seen' = Head(states)
  /\ states' = Tail(states)
  /\ UNCHANGED <<specVars, emit, tagged>>

ReceiveTagged ==
  /\ tagged # <<>>
  /\ tagged' = Tail(tagged)
  /\ UNCHANGED <<specVars, emit, states, seen>>

-----------------------------------------------------------------------------

Emitting(i) ==
  \/ SendState(i) \/ FindFull(i) \/ Evict(i)
  \/ SendTagged(i) \/ FindTaggedFull(i) \/ EvictTagged(i)

Next ==
  \/ Begin /\ UNCHANGED streamVars
  \/ AllEnd \/ CloseStreams
  \/ \E i \in Outputs : LoopEmits(i) \/ LoopActs(i) \/ RunEmits(i) \/ Emitting(i)
  \/ Receive \/ ReceiveTagged

Spec == Init /\ [][Next]_vars

\* A writer keeps trying, and one that has just made room is not outrun for
\* ever by the other output's loop, whose transitions are seconds apart.
Fairness ==
  \A i \in Outputs : WF_vars(Emitting(i)) /\ SF_vars(SendTagged(i))

FairSpec == Spec /\ Fairness

-----------------------------------------------------------------------------

\* The last entry of a queue, or what its reader has if it is empty.
Newest(q, received) == IF q = <<>> THEN received ELSE q[Len(q)]

\* A reader of States that falls behind loses what is in between, never the
\* present: the primary's last transition is what it holds, or the newest entry
\* of its channel.  In particular the last thing it ever reads is STOPPED.
CurrentStateIsKept ==
  emit[Primary] \notin {"states", "evict"}
    => Newest(states, seen) = lamp[Primary]

\* A loop is never held up by a reader, nor by the other loop.
EmitCompletes == \A i \in Outputs : emit[i] # "idle" ~> emit[i] = "idle"

=============================================================================
