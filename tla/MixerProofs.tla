----------------------------- MODULE MixerProofs -----------------------------
(***************************************************************************)
(* What holds of the mixer's write path for any number of Sends and Closes, *)
(* batches of any length and any number of connections.                    *)
(***************************************************************************)
EXTENDS MixerController, SequenceTheorems, TLAPS

\* Where a Send stands before, and while, it holds the write lock.
Before  == {"idle", "gate", "build", "lock"}
Holding == {"acquire", "parked", "write", "drop", "shut", "failed"}

\* The write lock has one holder, whose batch is unfinished; a Send that has not
\* had it has written nothing.
LockInv ==
  /\ \A s \in Senders : pc[s] \in Holding <=> s \in writer
  /\ \A s, t \in writer : s = t
  /\ \A s \in Senders : pc[s] \in Before => written[s] = 0 /\ outcome[s] = "none"
  /\ \A s \in Senders : pc[s] \in Holding => written[s] < BatchLen /\ outcome[s] = "none"

\* What the holder has written is the end of the wire.
SuffixInv ==
  \A s \in writer : \A i, j \in 1 .. Len(wire) :
    i <= j /\ wire[i][1] = s => wire[j][1] = s

\* A connection that could carry a write is the one the supervisor reads or is
\* about to publish; when a Close has returned there is no supervisor.
SupInv ==
  /\ PublishedIsRead
  /\ \A i \in Conns : link[i] \in {"up", "lost"} => i = supConn /\ sup \in {"read", "publish"}
  /\ \A c \in Closers : closer[c] = "done" => sup = "gone"

IInv == TypeOK /\ LockInv /\ WrittenIsWhatWasWritten /\ SuffixInv /\ BatchesDoNotInterleave /\ SupInv

-----------------------------------------------------------------------------
(* The initial state.                                                      *)

-----------------------------------------------------------------------------
(* Types.                                                                  *)

\* A write appends one command of its sender to the wire.
LEMMA WriteAppends ==
  ASSUME TypeOK, LockInv, NEW s \in Senders, WriteSucceeds(s)
  PROVE  /\ s \in writer
         /\ written[s] + 1 \in 1 .. BatchLen
         /\ wire' \in Seq(Senders \X (1 .. BatchLen))
         /\ Len(wire') = Len(wire) + 1
         /\ wire'[Len(wire) + 1] = <<s, written[s] + 1>>
         /\ \A k \in 1 .. Len(wire) : wire'[k] = wire[k]
         /\ written' = [written EXCEPT ![s] = written[s] + 1]
<1> USE MixerAssumption
<1>1. pc[s] = "write" /\ wire' = Append(wire, <<s, written[s] + 1>>)
      /\ written' = [written EXCEPT ![s] = written[s] + 1]
  BY DEF WriteSucceeds
<1>2. s \in writer /\ written[s] \in Nat /\ written[s] < BatchLen
  BY <1>1 DEF LockInv, Holding, TypeOK
<1>3. written[s] + 1 \in 1 .. BatchLen
  BY <1>2
<1>4. <<s, written[s] + 1>> \in Senders \X (1 .. BatchLen)
  BY <1>3
<1>5. wire \in Seq(Senders \X (1 .. BatchLen))
  BY DEF TypeOK
<1>6. QED
  BY <1>1, <1>2, <1>3, <1>4, <1>5

-----------------------------------------------------------------------------
(* The write lock.                                                         *)

-----------------------------------------------------------------------------
(* The wire.                                                               *)

\* Only a successful write changes the wire and what Sends say they wrote.
LEMMA OnlyWritesWrite ==
  ASSUME [Next]_vars, \A s \in Senders : ~ WriteSucceeds(s)
  PROVE  UNCHANGED <<wire, written>>
<1>1. ASSUME NEW s \in Senders, SendStep(s)
      PROVE  UNCHANGED <<wire, written>>
  BY <1>1 DEF SendStep, CheckGate, Build, Lock, Acquire, Wake, WriteFails, DropConn,
     ShutHeld, GiveUp, Return
<1>2. CASE Environment
  BY <1>2 DEF Environment, Arm, Disarm, LoseLink, ContextEnds, CallSend, CallClose, sendVars
<1>3. CASE SupStep \/ \E c \in Closers : CloseStep(c)
  BY <1>3 DEF SupStep, ReadFails, ClearConn, CheckContext, WaitEnds, DialFails,
     DialSucceeds, SetConn, CloseStep, EnterOnce, MarkClosed, Cancel, ShutTaken, Join, sendVars
<1>4. CASE UNCHANGED vars
  BY <1>4 DEF vars, sendVars
<1>5. QED
  BY <1>1, <1>2, <1>3, <1>4 DEF Next

WireInv == WrittenIsWhatWasWritten /\ SuffixInv /\ BatchesDoNotInterleave

\* Each entry of the wire is a command of some Send.
LEMMA WireType ==
  ASSUME TypeOK
  PROVE  \A k \in 1 .. Len(wire) : wire[k][1] \in Senders /\ wire[k][2] \in 1 .. BatchLen
<1>1. wire \in Seq(Senders \X (1 .. BatchLen))
  BY DEF TypeOK
<1>2. \A k \in 1 .. Len(wire) : wire[k] \in Senders \X (1 .. BatchLen)
  BY <1>1
<1>3. QED
  BY <1>2

-----------------------------------------------------------------------------
(* The connection and its supervisor.                                      *)

-----------------------------------------------------------------------------
(* The theorems.                                                           *)

\* The inductive invariant of the write path and the supervisor (controller.go: Send,
\* supervise, dropConn, Close), from which the theorems below follow.
THEOREM Invariance == Spec => []IInv
\* Every step leaves a connection that can carry a write to a supervisor that reads it.
\* What a Send says it wrote is what the wire carries of it, after every step.
\* What the holder has written stays the end of the wire, and whole batches stay whole.
\* Every step keeps the write lock with one holder, and a Send that has not had it blank.
\* Every step of a controller keeps its variables' types.
<1>TypeStep. TypeOK /\ LockInv /\ [Next]_vars => TypeOK'
             \* Retiring the connection keeps the types of what it changes.
  <2>RetireType. ASSUME TypeOK, RetireConn
                 PROVE  conn' = NoConn /\ ready' \in Nat /\ released \subseteq 0 .. ready'
    <3> USE <2>RetireType
    <3>1. ready \in Nat /\ released \subseteq 0 .. ready
      BY DEF TypeOK
    <3>2. conn' = NoConn /\ (ready' = ready \/ ready' = ready + 1)
      BY DEF RetireConn
    <3>3. QED
      BY <3>1, <3>2
  <2> SUFFICES ASSUME TypeOK, LockInv, [Next]_vars PROVE TypeOK'
    OBVIOUS
  <2> USE MixerAssumption
          DEF TypeOK, Conns, NoConn, Links, SendPCs, Outcomes, SupPCs, ClosePCs,
              gateVars, connVars, supVars, sendVars
  <2>1. CASE Arm \/ Disarm
    BY <2>1 DEF Arm, Disarm
  <2>2. ASSUME NEW i \in Conns, NEW how \in {"lost", "dead"}, LoseLink(i, how)
        PROVE  TypeOK'
    BY <2>2 DEF LoseLink
  <2>3. ASSUME NEW s \in Senders, ContextEnds(s) \/ CallSend(s)
        PROVE  TypeOK'
    BY ZenonT(30), <2>3 DEF ContextEnds, CallSend, Refuse, Goto
  <2>4. ASSUME NEW c \in Closers, CallClose(c)
        PROVE  TypeOK'
    BY <2>4 DEF CallClose, CloserGoto
  <2>5. ASSUME NEW s \in Senders, SendStep(s)
        PROVE  TypeOK'
    <3>1. CASE CheckGate(s)
      <4>1. pc' \in [Senders -> SendPCs] /\ outcome' \in [Senders -> Outcomes]
        BY <3>1 DEF CheckGate, Refuse, Goto
      <4>2. UNCHANGED <<gateVars, connVars, supVars, writer, held, waitOn, try, written, expired, wire>>
        BY <3>1 DEF CheckGate
      <4>3. QED
        BY <4>1, <4>2
    <3>2. CASE Build(s)
      <4>1. pc' \in [Senders -> SendPCs] /\ outcome' \in [Senders -> Outcomes]
        BY <3>2 DEF Build, Refuse, Goto
      <4>2. UNCHANGED <<gateVars, connVars, supVars, writer, held, waitOn, try, written, expired, wire>>
        BY <3>2 DEF Build
      <4>3. QED
        BY <4>1, <4>2
    <3>3. CASE Lock(s)
      BY <3>3 DEF Lock, Goto
    <3>4. CASE Acquire(s)
      <4>1. pc' \in [Senders -> SendPCs] /\ outcome' \in [Senders -> Outcomes] /\ writer' \subseteq Senders
        BY <3>4 DEF Acquire, Return, Refuse, Goto
      <4>2. held' \in [Senders -> Conns \cup {NoConn}] /\ waitOn' \in [Senders -> Nat]
        BY <3>4 DEF Acquire, Return
      <4>3. UNCHANGED <<gateVars, connVars, supVars, try, written, expired, wire>>
        BY <3>4 DEF Acquire, Return
      <4>4. QED
        BY <4>1, <4>2, <4>3
    <3>5. CASE Wake(s)
      <4>1. pc' \in [Senders -> SendPCs] /\ outcome' \in [Senders -> Outcomes] /\ writer' \subseteq Senders
        BY <3>5 DEF Wake, Return, Refuse, Goto
      <4>2. waitOn' \in [Senders -> Nat]
        BY <3>5 DEF Wake
      <4>3. UNCHANGED <<gateVars, connVars, supVars, held, try, written, expired, wire>>
        BY <3>5 DEF Wake, Return
      <4>4. QED
        BY <4>1, <4>2, <4>3
    <3>6. CASE WriteSucceeds(s)
      <4> HIDE DEF TypeOK
      <4>1. /\ written[s] + 1 \in 1 .. BatchLen
            /\ wire' \in Seq(Senders \X (1 .. BatchLen))
            /\ written' = [written EXCEPT ![s] = written[s] + 1]
        BY <3>6, WriteAppends
      <4>2. written' \in [Senders -> 0 .. BatchLen]
        BY <4>1 DEF TypeOK
      <4>3. /\ pc' \in [Senders -> SendPCs] /\ outcome' \in [Senders -> Outcomes]
            /\ writer' \subseteq Senders
        BY <3>6 DEF TypeOK, WriteSucceeds, Refuse, Goto
      <4>4. /\ try' \in [Senders -> {1, 2}]
            /\ held' \in [Senders -> Conns \cup {NoConn}]
        BY <3>6 DEF TypeOK, WriteSucceeds
      <4>5. UNCHANGED <<gateVars, connVars, supVars, waitOn, expired>>
        BY <3>6 DEF WriteSucceeds
      <4>6. QED
        BY <4>1, <4>2, <4>3, <4>4, <4>5 DEF TypeOK
    <3>7. CASE WriteFails(s)
      BY <3>7 DEF WriteFails, Goto
    <3>8. CASE DropConn(s)
      <4>1. conn' \in Conns \cup {NoConn} /\ ready' \in Nat /\ released \subseteq 0 .. ready'
        BY <3>8, <2>RetireType DEF DropConn
      <4>2. QED
        BY <3>8, <4>1 DEF DropConn, Goto
    <3>9. CASE ShutHeld(s)
      <4>1. link' \in [Conns -> Links] /\ held' \in [Senders -> Conns \cup {NoConn}]
        BY <3>9 DEF ShutHeld
      <4>2. pc' \in [Senders -> SendPCs] /\ try' \in [Senders -> {1, 2}]
        BY <3>9 DEF ShutHeld, Goto
      <4>3. UNCHANGED <<gateVars, conn, ready, released, dials, supVars, writer, waitOn, written,
                        outcome, expired, wire>>
        BY <3>9 DEF ShutHeld
      <4>4. QED
        BY <4>1, <4>2, <4>3
    <3>10. CASE GiveUp(s)
      <4>1. pc' \in [Senders -> SendPCs] /\ outcome' \in [Senders -> Outcomes] /\ writer' \subseteq Senders
        BY <3>10 DEF GiveUp, Return, Refuse, Goto
      <4>2. UNCHANGED <<gateVars, connVars, supVars, held, waitOn, try, written, expired, wire>>
        BY <3>10 DEF GiveUp, Return
      <4>3. QED
        BY <4>1, <4>2
    <3>11. QED
      BY <2>5, <3>1, <3>2, <3>3, <3>4, <3>5, <3>6, <3>7, <3>8, <3>9, <3>10 DEF SendStep
  <2>6. CASE SupStep
    <3>1. CASE ReadFails \/ CheckContext \/ WaitEnds \/ DialFails
      BY <3>1 DEF ReadFails, CheckContext, WaitEnds, DialFails, SupGoto
    <3>2. CASE ClearConn
      <4>1. conn' = NoConn /\ ready' \in Nat /\ released \subseteq 0 .. ready'
        BY <3>2, <2>RetireType DEF ClearConn
      <4>2. QED
        BY <3>2, <4>1 DEF ClearConn, SupGoto
    <3>3. CASE DialSucceeds
      <4>1. dials + 1 \in Conns
        BY <3>3 DEF DialSucceeds
      <4>2. link' \in [Conns -> Links]
        BY <3>3 DEF DialSucceeds
      <4>3. dials' \in Conns /\ supConn' \in Conns /\ sup' \in SupPCs
        BY <3>3, <4>1 DEF DialSucceeds, SupGoto
      <4>4. QED
        BY <3>3, <4>2, <4>3 DEF DialSucceeds
    <3>4. CASE SetConn
      <4>1. released \cup {ready} \subseteq 0 .. ready
        OBVIOUS
      <4>2. conn' \in Conns \cup {NoConn} /\ released' \subseteq 0 .. ready /\ ready' = ready
        BY <3>4, <4>1 DEF SetConn
      <4>3. link' \in [Conns -> Links] /\ sup' \in SupPCs
        BY <3>4 DEF SetConn, SupGoto
      <4>4. QED
        BY <3>4, <4>2, <4>3 DEF SetConn
    <3>5. QED
      BY <2>6, <3>1, <3>2, <3>3, <3>4 DEF SupStep
  <2>7. ASSUME NEW c \in Closers, CloseStep(c)
        PROVE  TypeOK'
    <3>1. CASE EnterOnce(c)
      <4>1. closer' \in [Closers -> ClosePCs]
        BY <3>1 DEF EnterOnce, CloserGoto
      <4>2. UNCHANGED <<armed, closed, cancelled, taken, connVars, supVars, sendVars>>
        BY <3>1 DEF EnterOnce
      <4>3. QED
        BY <4>1, <4>2
    <3>2. CASE MarkClosed(c)
      <4>1. closer' \in [Closers -> ClosePCs]
        BY <3>2 DEF MarkClosed, CloserGoto
      <4>2. taken' \in Conns \cup {NoConn} /\ conn' \in Conns \cup {NoConn} /\ closed' \in BOOLEAN
        BY <3>2 DEF MarkClosed
      <4>3. UNCHANGED <<armed, cancelled, ready, released, dials, link, supVars, sendVars>>
        BY <3>2 DEF MarkClosed
      <4>4. QED
        BY <4>1, <4>2, <4>3
    <3>3. CASE Cancel(c)
      <4>1. closer' \in [Closers -> ClosePCs]
        BY <3>3 DEF Cancel, CloserGoto
      <4>2. cancelled' \in BOOLEAN /\ UNCHANGED <<armed, closed, taken, connVars, supVars, sendVars>>
        BY <3>3 DEF Cancel
      <4>3. QED
        BY <4>1, <4>2
    <3>4. CASE ShutTaken(c)
      <4>1. closer' \in [Closers -> ClosePCs]
        BY <3>4 DEF ShutTaken, CloserGoto
      <4>2. link' \in [Conns -> Links]
        BY <3>4 DEF ShutTaken
      <4>3. UNCHANGED <<armed, closed, cancelled, taken, conn, ready, released, dials, supVars, sendVars>>
        BY <3>4 DEF ShutTaken
      <4>4. QED
        BY <4>1, <4>2, <4>3
    <3>5. CASE Join(c)
      <4>1. closer' \in [Closers -> ClosePCs]
        BY <3>5 DEF Join, CloserGoto
      <4>2. UNCHANGED <<armed, closed, cancelled, taken, connVars, supVars, sendVars>>
        BY <3>5 DEF Join
      <4>3. QED
        BY <4>1, <4>2
    <3>6. QED
      BY <2>7, <3>1, <3>2, <3>3, <3>4, <3>5 DEF CloseStep
  <2>8. CASE UNCHANGED vars
    BY <2>8 DEF vars
  <2>9. QED
    BY <2>1, <2>2, <2>3, <2>4, <2>5, <2>6, <2>7, <2>8 DEF Next, Environment
<1>LockStep. TypeOK /\ LockInv /\ [Next]_vars => LockInv'
  <2> SUFFICES ASSUME TypeOK, LockInv, [Next]_vars PROVE LockInv'
    OBVIOUS
  <2> USE MixerAssumption DEF LockInv, Before, Holding
  <2>t. /\ pc \in [Senders -> SendPCs] /\ outcome \in [Senders -> Outcomes]
        /\ written \in [Senders -> 0 .. BatchLen] /\ writer \subseteq Senders
    BY DEF TypeOK
  <2>1. CASE UNCHANGED <<writer, pc, written, outcome>>
    BY <2>1
  <2>2. ASSUME NEW s \in Senders, CallSend(s) \/ CheckGate(s) \/ Build(s)
        PROVE  LockInv'
    <3>1. /\ UNCHANGED <<writer, written>>
          /\ pc[s] \in {"idle", "gate", "build"}
          /\ \/ \E a \in {"gate", "build", "lock"} : pc' = [pc EXCEPT ![s] = a] /\ outcome' = outcome
             \/ \E why \in Outcomes : pc' = [pc EXCEPT ![s] = "done"] /\ outcome' = [outcome EXCEPT ![s] = why]
      BY <2>2 DEF CallSend, CheckGate, Build, Refuse, Goto, Outcomes
    <3>2. QED
      BY <2>t, <3>1
  <2>3. ASSUME NEW s \in Senders, Lock(s)
        PROVE  LockInv'
    BY <2>t, <2>3 DEF Lock, Goto
  <2>4. ASSUME NEW s \in Senders, pc[s] \in Holding, Refuse(s, pc[s], outcome'[s]),
               writer' = {}, UNCHANGED written
        PROVE  LockInv'
    BY <2>t, <2>4 DEF Refuse, Goto
  <2>5. ASSUME NEW s \in Senders, pc[s] \in Holding, NEW to \in Holding,
               pc' = [pc EXCEPT ![s] = to], UNCHANGED <<writer, written, outcome>>
        PROVE  LockInv'
    BY <2>t, <2>5
  <2>6. ASSUME NEW s \in Senders, WriteSucceeds(s)
        PROVE  LockInv'
    <3>1. CASE written[s] + 1 = BatchLen
      BY <2>t, <2>6, <3>1 DEF WriteSucceeds, Refuse, Goto
    <3>2. CASE written[s] + 1 # BatchLen
      BY <2>t, <2>6, <3>2 DEF WriteSucceeds, Goto
    <3>3. QED
      BY <3>1, <3>2
  <2>7. ASSUME NEW s \in Senders, SendStep(s)
        PROVE  LockInv'
    <3>1. CASE Acquire(s) \/ Wake(s) \/ GiveUp(s)
      <4>1. pc[s] \in Holding /\ UNCHANGED written
        BY <3>1 DEF Acquire, Wake, GiveUp, Return, Refuse, Goto
      <4>2. \/ UNCHANGED <<writer, outcome>> /\ \E to \in Holding : pc' = [pc EXCEPT ![s] = to]
            \/ \E why \in Outcomes : Refuse(s, pc[s], why) /\ writer' = {}
        BY <3>1 DEF Acquire, Wake, GiveUp, Return, Refuse, Goto, Outcomes
      <4>3. ASSUME NEW why \in Outcomes, Refuse(s, pc[s], why)
            PROVE  Refuse(s, pc[s], outcome'[s])
        BY <2>t, <4>3 DEF Refuse
      <4>4. QED
        BY <2>4, <2>5, <4>1, <4>2, <4>3
    <3>2. CASE WriteFails(s) \/ DropConn(s) \/ ShutHeld(s)
      <4>1. /\ pc[s] \in Holding /\ UNCHANGED <<writer, written, outcome>>
            /\ \E to \in Holding : pc' = [pc EXCEPT ![s] = to]
        BY <3>2 DEF WriteFails, DropConn, ShutHeld, Goto
      <4>2. QED
        BY <2>5, <4>1
    <3>3. QED
      BY <2>2, <2>3, <2>6, <2>7, <3>1, <3>2 DEF SendStep
  <2>8. CASE Environment
    <3>1. CASE \E s \in Senders : CallSend(s)
      BY <2>2, <3>1
    <3>2. CASE ~ \E s \in Senders : CallSend(s)
      BY <2>1, <2>8, <3>2 DEF Environment, Arm, Disarm, LoseLink, ContextEnds, CallClose, sendVars
    <3>3. QED
      BY <3>1, <3>2
  <2>9. CASE SupStep \/ \E c \in Closers : CloseStep(c)
    BY <2>1, <2>9 DEF SupStep, ReadFails, ClearConn, CheckContext, WaitEnds, DialFails,
       DialSucceeds, SetConn, CloseStep, EnterOnce, MarkClosed, Cancel, ShutTaken, Join, sendVars
  <2>10. CASE UNCHANGED vars
    BY <2>1, <2>10 DEF vars, sendVars
  <2>11. QED
    BY <2>7, <2>8, <2>9, <2>10 DEF Next
<1>SuffixStep.   ASSUME TypeOK, LockInv, WireInv, [Next]_vars
                 PROVE  SuffixInv' /\ BatchesDoNotInterleave'
               \* How the holder of the lock changes.
  <2> USE <1>SuffixStep
  <2>HolderStep. ASSUME TypeOK, LockInv, [Next]_vars
                 PROVE  \/ writer' \subseteq writer
                        \/ \E s \in Senders : Lock(s)
    <3> USE <2>HolderStep
    <3>1. ASSUME NEW s \in Senders, SendStep(s), ~ Lock(s)
          PROVE  writer' \subseteq writer
      BY <3>1 DEF SendStep, CheckGate, Build, Acquire, Wake, WriteSucceeds, WriteFails,
         DropConn, ShutHeld, GiveUp, Return
    <3>2. CASE Environment
      BY <3>2 DEF Environment, Arm, Disarm, LoseLink, ContextEnds, CallSend, CallClose, sendVars
    <3>3. CASE SupStep \/ \E c \in Closers : CloseStep(c)
      BY <3>3 DEF SupStep, ReadFails, ClearConn, CheckContext, WaitEnds, DialFails,
         DialSucceeds, SetConn, CloseStep, EnterOnce, MarkClosed, Cancel, ShutTaken, Join, sendVars
    <3>4. CASE UNCHANGED vars
      BY <3>4 DEF vars, sendVars
    <3>5. QED
      BY <3>1, <3>2, <3>3, <3>4 DEF Next
  <2> USE MixerAssumption DEF WireInv
  <2>t. Len(wire) \in Nat /\ written \in [Senders -> 0 .. BatchLen]
    BY DEF TypeOK
  <2>1. ASSUME NEW s \in Senders, WriteSucceeds(s)
        PROVE  SuffixInv' /\ BatchesDoNotInterleave'
    <3>1. /\ s \in writer /\ Len(wire') = Len(wire) + 1
          /\ wire'[Len(wire) + 1] = <<s, written[s] + 1>>
          /\ \A k \in 1 .. Len(wire) : wire'[k] = wire[k]
      BY <2>1, WriteAppends
    <3>2. \A i, j \in 1 .. Len(wire) : i <= j /\ wire[i][1] = s => wire[j][1] = s
      BY <3>1 DEF SuffixInv
    <3>3. \A i, j \in 1 .. Len(wire') : i <= j /\ wire'[i][1] = s => wire'[j][1] = s
      BY <2>t, <3>1, <3>2
    <3>4. writer' \subseteq {s}
      BY <2>1, <3>1 DEF WriteSucceeds, LockInv
    <3>5. SuffixInv'
      BY <3>3, <3>4 DEF SuffixInv
    <3>6. ASSUME NEW i \in 1 .. Len(wire'), NEW k \in 1 .. Len(wire'), i < k,
                 wire'[i][1] = wire'[k][1], NEW j \in i .. k
          PROVE  wire'[j][1] = wire'[i][1]
      <4>1. CASE k = Len(wire) + 1
        <5>1. wire'[i][1] = s /\ j \in 1 .. Len(wire') /\ i <= j
          BY <2>t, <3>1, <3>6, <4>1
        <5>2. QED
          BY <3>3, <5>1
      <4>2. CASE k # Len(wire) + 1
        <5>1. i \in 1 .. Len(wire) /\ k \in 1 .. Len(wire) /\ j \in 1 .. Len(wire)
          BY <2>t, <3>1, <3>6, <4>2
        <5>2. wire[i][1] = wire[k][1]
          BY <3>1, <3>6, <5>1
        <5>3. wire[j][1] = wire[i][1]
          BY <3>6, <5>1, <5>2 DEF BatchesDoNotInterleave
        <5>4. QED
          BY <3>1, <5>1, <5>3
      <4>3. QED
        BY <4>1, <4>2
    <3>7. QED
      BY <3>5, <3>6 DEF BatchesDoNotInterleave
  <2>2. ASSUME \A s \in Senders : ~ WriteSucceeds(s)
        PROVE  SuffixInv' /\ BatchesDoNotInterleave'
    <3>1. UNCHANGED <<wire, written>>
      BY <2>2, OnlyWritesWrite
    <3>2. BatchesDoNotInterleave'
      BY <3>1 DEF BatchesDoNotInterleave
    <3>3. CASE writer' \subseteq writer
      BY <3>1, <3>2, <3>3 DEF SuffixInv
    <3>4. ASSUME NEW s \in Senders, Lock(s)
          PROVE  SuffixInv'
      <4>1. written[s] = 0 /\ writer' = {s}
        BY <3>4 DEF Lock, Goto, LockInv, Before
      <4>2. \A k \in 1 .. Len(wire) : wire[k][2] \in 1 .. BatchLen /\ wire[k][2] <= written[wire[k][1]]
        BY WireType DEF WrittenIsWhatWasWritten
      <4>3. \A k \in 1 .. Len(wire) : wire[k][1] # s
        BY <4>1, <4>2
      <4>4. QED
        BY <3>1, <4>1, <4>3 DEF SuffixInv
    <3>5. QED
      BY <3>2, <3>3, <3>4, <2>HolderStep
  <2>3. QED
    BY <2>1, <2>2
<1>ReportStep. ASSUME TypeOK, LockInv, WireInv, [Next]_vars
               PROVE  WrittenIsWhatWasWritten'
  <2> USE <1>ReportStep
  <2> USE MixerAssumption DEF WireInv
  <2>t. /\ Len(wire) \in Nat /\ written \in [Senders -> 0 .. BatchLen]
        /\ outcome \in [Senders -> Outcomes] /\ pc \in [Senders -> SendPCs]
    BY DEF TypeOK
  <2>w. \A k \in 1 .. Len(wire) : wire[k][1] \in Senders /\ wire[k][2] \in 1 .. BatchLen
    BY WireType
  <2>1. ASSUME NEW s \in Senders, WriteSucceeds(s)
        PROVE  WrittenIsWhatWasWritten'
    <3>1. /\ Len(wire') = Len(wire) + 1
          /\ wire'[Len(wire) + 1] = <<s, written[s] + 1>>
          /\ \A k \in 1 .. Len(wire) : wire'[k] = wire[k]
          /\ written' = [written EXCEPT ![s] = written[s] + 1]
      BY <2>1, WriteAppends
    <3>2. \A k \in 1 .. Len(wire) : wire[k][2] <= written[wire[k][1]]
      BY DEF WrittenIsWhatWasWritten
    <3>3. ASSUME NEW k \in 1 .. Len(wire')
          PROVE  wire'[k][2] <= written'[wire'[k][1]]
      <4>1. CASE k = Len(wire) + 1
        BY <2>t, <3>1, <4>1
      <4>2. CASE k # Len(wire) + 1
        <5>1. k \in 1 .. Len(wire) /\ wire'[k] = wire[k]
          BY <2>t, <3>1, <3>3, <4>2
        <5>2. written'[wire[k][1]] >= written[wire[k][1]]
          BY <2>t, <2>w, <3>1, <5>1
        <5>3. QED
          BY <2>t, <2>w, <3>1, <3>2, <5>1, <5>2
      <4>3. QED
        BY <4>1, <4>2
    <3>4. ASSUME NEW t \in Senders, NEW i \in 1 .. written'[t]
          PROVE  \E k \in 1 .. Len(wire') : wire'[k] = <<t, i>>
      <4>1. CASE t = s /\ i = written[s] + 1
        <5>1. Len(wire) + 1 \in 1 .. Len(wire')
          BY <2>t, <3>1
        <5>2. QED
          BY <3>1, <4>1, <5>1
      <4>2. CASE ~ (t = s /\ i = written[s] + 1)
        <5>1. i \in 1 .. written[t]
          BY <2>t, <3>1, <3>4, <4>2
        <5>2. PICK k \in 1 .. Len(wire) : wire[k] = <<t, i>>
          BY <5>1 DEF WrittenIsWhatWasWritten
        <5>3. k \in 1 .. Len(wire') /\ wire'[k] = <<t, i>>
          BY <2>t, <3>1, <5>2
        <5>4. QED
          BY <5>3
      <4>3. QED
        BY <4>1, <4>2
    <3>5. ASSUME NEW j \in 1 .. Len(wire'), NEW k \in 1 .. Len(wire'), j < k,
                 wire'[j][1] = wire'[k][1]
          PROVE  wire'[j][2] < wire'[k][2]
      <4>1. j \in 1 .. Len(wire) /\ wire'[j] = wire[j]
        BY <2>t, <3>1, <3>5
      <4>2. CASE k = Len(wire) + 1
        <5>1. wire[j][1] = s /\ wire[j][2] <= written[s] /\ wire'[k][2] = written[s] + 1
          <6>1. wire'[k] = <<s, written[s] + 1>>
            BY <3>1, <4>2
          <6>2. wire[j][1] = s
            BY <3>5, <4>1, <6>1
          <6>3. QED
            BY <3>2, <4>1, <6>1, <6>2
        <5>2. QED
          BY <2>t, <2>w, <4>1, <5>1
      <4>3. CASE k # Len(wire) + 1
        <5>1. k \in 1 .. Len(wire) /\ wire'[k] = wire[k]
          BY <2>t, <3>1, <4>3
        <5>2. QED
          BY <3>5, <4>1, <5>1 DEF WrittenIsWhatWasWritten
      <4>4. QED
        BY <4>2, <4>3
    <3>6. ASSUME NEW t \in Senders
          PROVE  /\ outcome'[t] = "ok" => written'[t] = BatchLen
                 /\ outcome'[t] \in {"disarmed", "malformed"} => written'[t] = 0
      <4>1. outcome[s] = "none"
        BY <2>1 DEF WriteSucceeds, LockInv, Holding
      <4>2. CASE t # s
        <5>1. outcome'[t] = outcome[t] /\ written'[t] = written[t]
          BY <2>1, <2>t, <3>1, <4>2 DEF WriteSucceeds, Refuse
        <5>2. QED
          BY <5>1 DEF WrittenIsWhatWasWritten
      <4>3. CASE t = s /\ written[s] + 1 = BatchLen
        <5>1. outcome'[s] = "ok"
          BY <2>1, <2>t, <4>3 DEF WriteSucceeds, Refuse
        <5>2. QED
          BY <2>t, <3>1, <4>3, <5>1
      <4>4. CASE t = s /\ written[s] + 1 # BatchLen
        <5>1. outcome' = outcome
          BY <2>1, <4>4 DEF WriteSucceeds
        <5>2. QED
          BY <4>1, <4>4, <5>1
      <4>5. QED
        BY <4>2, <4>3, <4>4
    <3>7. QED
      BY <3>3, <3>4, <3>5, <3>6 DEF WrittenIsWhatWasWritten
  <2>2. ASSUME \A s \in Senders : ~ WriteSucceeds(s)
        PROVE  WrittenIsWhatWasWritten'
    <3>1. UNCHANGED <<wire, written>>
      BY <2>2, OnlyWritesWrite
    <3>2. ASSUME NEW t \in Senders
          PROVE  /\ outcome'[t] = "ok" => outcome[t] = "ok"
                 /\ outcome'[t] \in {"disarmed", "malformed"} =>
                      outcome[t] \in {"disarmed", "malformed"} \/ written[t] = 0
      <4>1. ASSUME NEW s \in Senders, SendStep(s)
            PROVE  \/ outcome' = outcome
                   \/ \E why \in {"closed", "context", "io"} : outcome' = [outcome EXCEPT ![s] = why]
                   \/ /\ pc[s] \in Before
                      /\ \E why \in {"disarmed", "malformed"} : outcome' = [outcome EXCEPT ![s] = why]
        BY <2>2, <4>1 DEF SendStep, CheckGate, Build, Lock, Acquire, Wake, WriteFails, DropConn,
           ShutHeld, GiveUp, Return, Refuse, Goto, Before
      <4>2. ASSUME NEW s \in Senders, CallSend(s)
            PROVE  outcome' = outcome \/ outcome' = [outcome EXCEPT ![s] = "closed"]
        BY <4>2 DEF CallSend, Refuse
      <4>3. CASE Environment /\ ~ \E s \in Senders : CallSend(s)
        BY <4>3 DEF Environment, Arm, Disarm, LoseLink, ContextEnds, CallClose, sendVars
      <4>4. CASE SupStep \/ \E c \in Closers : CloseStep(c)
        BY <4>4 DEF SupStep, ReadFails, ClearConn, CheckContext, WaitEnds, DialFails,
           DialSucceeds, SetConn, CloseStep, EnterOnce, MarkClosed, Cancel, ShutTaken, Join, sendVars
      <4>5. CASE UNCHANGED vars
        BY <4>5 DEF vars, sendVars
      <4>6. CASE \E s \in Senders : SendStep(s)
        BY <2>t, <4>1, <4>6 DEF LockInv
      <4>7. CASE \E s \in Senders : CallSend(s)
        BY <2>t, <4>2, <4>7
      <4>8. QED
        BY <4>3, <4>4, <4>5, <4>6, <4>7 DEF Next
    <3>3. QED
      BY <3>1, <3>2 DEF WrittenIsWhatWasWritten
  <2>3. QED
    BY <2>1, <2>2
<1>SupInvStep. ASSUME TypeOK, SupInv, [Next]_vars
               PROVE  SupInv'
  <2> USE <1>SupInvStep
  <2> USE MixerAssumption DEF SupInv, PublishedIsRead
  <2>t. /\ link \in [Conns -> Links] /\ conn \in Conns \cup {NoConn}
        /\ supConn \in Conns \cup {NoConn} /\ closer \in [Closers -> ClosePCs]
        /\ dials \in Conns /\ NoConn \notin Conns
    BY DEF TypeOK, Conns, NoConn
  <2>1. CASE UNCHANGED <<conn, link, sup, supConn, closer>>
    BY <2>1
  <2>2. CASE Environment
    <3>1. ASSUME NEW i \in Conns, NEW how \in {"lost", "dead"}, LoseLink(i, how)
          PROVE  SupInv'
      BY <2>t, <3>1 DEF LoseLink, gateVars, supVars
    <3>2. ASSUME NEW c \in Closers, CallClose(c)
          PROVE  SupInv'
      BY <2>t, <3>2 DEF CallClose, CloserGoto, connVars, supVars
    <3>3. CASE Arm \/ Disarm \/ \E s \in Senders : ContextEnds(s) \/ CallSend(s)
      BY <2>1, <3>3 DEF Arm, Disarm, ContextEnds, CallSend, gateVars, connVars, supVars
    <3>4. QED
      BY <2>2, <3>1, <3>2, <3>3 DEF Environment
  <2>3. ASSUME NEW s \in Senders, SendStep(s)
        PROVE  SupInv'
    <3>1. CASE ShutHeld(s)
      BY <2>t, <3>1 DEF ShutHeld, gateVars, supVars
    <3>2. CASE DropConn(s)
      BY <2>t, <3>2 DEF DropConn, RetireConn, gateVars, supVars
    <3>3. CASE ~ ShutHeld(s) /\ ~ DropConn(s)
      BY <2>1, <2>3, <3>3 DEF SendStep, CheckGate, Build, Lock, Acquire, Wake, WriteSucceeds,
         WriteFails, GiveUp, gateVars, connVars, supVars
    <3>4. QED
      BY <3>1, <3>2, <3>3
  <2>4. CASE SupStep
    <3>1. CASE ReadFails
      BY <2>t, <3>1 DEF ReadFails, SupGoto, gateVars, connVars
    <3>2. CASE ClearConn
      BY <2>t, <3>2 DEF ClearConn, RetireConn, SupGoto, gateVars
    <3>3. CASE CheckContext \/ WaitEnds \/ DialFails
      BY <2>t, <3>3 DEF CheckContext, WaitEnds, DialFails, SupGoto, gateVars, connVars
    <3>4. CASE DialSucceeds
      <4>1. sup = "dial" /\ conn' = NoConn /\ closer' = closer
        BY <3>4 DEF DialSucceeds, SupGoto, gateVars
      <4>2. \A i \in Conns : link'[i] \in {"up", "lost"} => i = supConn' /\ sup' = "publish"
        BY <2>t, <3>4 DEF DialSucceeds, SupGoto
      <4>3. QED
        BY <4>1, <4>2
    <3>5. CASE SetConn
      BY <2>t, <3>5 DEF SetConn, SupGoto, gateVars
    <3>6. QED
      BY <2>4, <3>1, <3>2, <3>3, <3>4, <3>5 DEF SupStep
  <2>5. ASSUME NEW c \in Closers, CloseStep(c)
        PROVE  SupInv'
    <3>1. CASE EnterOnce(c)
      BY <2>t, <3>1 DEF EnterOnce, CloserGoto, connVars, supVars
    <3>2. CASE MarkClosed(c)
      BY <2>t, <3>2 DEF MarkClosed, CloserGoto, supVars
    <3>3. CASE Cancel(c)
      BY <2>t, <3>3 DEF Cancel, CloserGoto, connVars, supVars
    <3>4. CASE ShutTaken(c)
      BY <2>t, <3>4 DEF ShutTaken, CloserGoto, supVars
    <3>5. CASE Join(c)
      BY <2>t, <3>5 DEF Join, CloserGoto, connVars, supVars
    <3>6. QED
      BY <2>5, <3>1, <3>2, <3>3, <3>4, <3>5 DEF CloseStep
  <2>6. CASE UNCHANGED vars
    BY <2>1, <2>6 DEF vars, gateVars, connVars, supVars
  <2>7. QED
    BY <2>2, <2>3, <2>4, <2>5, <2>6 DEF Next
<1>InitInv. Init => IInv
  <2> SUFFICES ASSUME Init PROVE IInv
    OBVIOUS
  <2> USE MixerAssumption
  <2>1. wire = <<>> /\ Len(wire) = 0 /\ wire \in Seq(Senders \X (1 .. BatchLen))
    BY DEF Init
  <2>2. TypeOK
    <3>1. 1 \in Conns /\ released \subseteq 0 .. ready
      BY DEF Init, Conns
    <3>2. link \in [Conns -> Links]
      BY DEF Init, Links
    <3>3. /\ conn \in Conns \cup {NoConn} /\ dials \in Conns /\ supConn \in Conns \cup {NoConn}
          /\ ready \in Nat /\ sup \in SupPCs
      BY <3>1 DEF Init, SupPCs
    <3>4. /\ pc \in [Senders -> SendPCs] /\ outcome \in [Senders -> Outcomes]
          /\ held \in [Senders -> Conns \cup {NoConn}] /\ closer \in [Closers -> ClosePCs]
      BY DEF Init, SendPCs, Outcomes, ClosePCs
    <3>5. waitOn \in [Senders -> Nat] /\ try \in [Senders -> {1, 2}]
      BY DEF Init
    <3>6. written \in [Senders -> 0 .. BatchLen]
      BY DEF Init
    <3>7. QED
      BY <2>1, <3>1, <3>2, <3>3, <3>4, <3>5, <3>6 DEF Init, TypeOK
  <2>3. LockInv
    BY DEF Init, LockInv, Before, Holding
  <2>4. WrittenIsWhatWasWritten
    BY <2>1 DEF Init, WrittenIsWhatWasWritten
  <2>5. SuffixInv
    BY <2>1 DEF Init, SuffixInv
  <2>6. BatchesDoNotInterleave
    BY <2>1 DEF BatchesDoNotInterleave
  <2>7. SupInv
    BY DEF Init, SupInv, PublishedIsRead, Conns, NoConn
  <2>8. QED
    BY <2>2, <2>3, <2>4, <2>5, <2>6, <2>7 DEF IInv
<1>1. Init => IInv
  BY <1>InitInv
<1>2. IInv /\ [Next]_vars => IInv'
  BY <1>TypeStep, <1>LockStep, <1>SuffixStep, <1>ReportStep, <1>SupInvStep DEF IInv, WireInv
<1>3. QED
  BY <1>1, <1>2, PTL DEF Spec

\* Every variable keeps its type, whatever the bounds.
THEOREM TypeCorrect == Spec => []TypeOK
<1>1. IInv => TypeOK
  BY DEF IInv
<1>2. QED
  BY <1>1, Invariance, PTL

\* Concurrent batches never interleave on the wire (controller.go:1316-1320).
THEOREM WholeBatches == Spec => []BatchesDoNotInterleave
<1>1. IInv => BatchesDoNotInterleave
  BY DEF IInv
<1>2. QED
  BY <1>1, Invariance, PTL

\* What a Send reports as written is what it wrote (controller.go:1320-1324).
THEOREM HonestReport == Spec => []WrittenIsWhatWasWritten
<1>1. IInv => WrittenIsWhatWasWritten
  BY DEF IInv
<1>2. QED
  BY <1>1, Invariance, PTL

\* The published connection has a reader (controller.go:1010-1041).
THEOREM SomebodyReads == Spec => []PublishedIsRead
<1>1. IInv => PublishedIsRead
  BY DEF IInv, SupInv
<1>2. QED
  BY <1>1, Invariance, PTL

\* After Close nothing is left that could write (controller.go:1397-1413).
THEOREM CloseIsFinal == Spec => []CloseLeavesNothing
<1>1. IInv => CloseLeavesNothing
  <2> SUFFICES ASSUME IInv, NEW c \in Closers, closer[c] = "done"
               PROVE  sup = "gone" /\ conn = NoConn /\ \A i \in Conns : link[i] \in {"none", "dead", "shut"}
    BY DEF CloseLeavesNothing
  <2>1. sup = "gone"
    BY DEF IInv, SupInv
  <2>2. conn = NoConn
    BY <2>1 DEF IInv, SupInv, PublishedIsRead
  <2>3. \A i \in Conns : link[i] \in Links /\ link[i] \notin {"up", "lost"}
    BY <2>1 DEF IInv, SupInv, TypeOK
  <2>4. QED
    BY <2>1, <2>2, <2>3 DEF Links
<1>2. QED
  BY <1>1, Invariance, PTL

\* A connection is retired by whoever found it broken, or by Close
\* (controller.go:1189-1201).
THEOREM NobodyRetiresAnothers == Spec => RetiredByItsOwn
<1> DEFINE Retired ==
      conn # NoConn /\ conn' # conn =>
        \/ closed'
        \/ sup = "clear" /\ supConn = conn
        \/ \E s \in Senders : pc[s] = "drop" /\ held[s] = conn
<1>1. IInv /\ [Next]_vars => [Retired]_vars
  <2> SUFFICES ASSUME IInv, Next, conn # NoConn, conn' # conn
               PROVE  Retired
    OBVIOUS
  <2>1. sup \in {"read", "clear"} /\ supConn = conn
    BY DEF IInv, SupInv, PublishedIsRead
  <2>2. CASE \E s \in Senders : SendStep(s)
    BY <2>2 DEF SendStep, CheckGate, Build, Lock, Acquire, Wake, WriteSucceeds, WriteFails,
       DropConn, RetireConn, ShutHeld, GiveUp, Goto, connVars
  <2>3. CASE SupStep
    BY <2>1, <2>3 DEF SupStep, ReadFails, ClearConn, CheckContext, WaitEnds, DialFails,
       DialSucceeds, SetConn, SupGoto, connVars
  <2>4. CASE \E c \in Closers : CloseStep(c)
    BY <2>4 DEF CloseStep, EnterOnce, MarkClosed, Cancel, ShutTaken, Join, connVars
  <2>5. CASE Environment
    BY <2>5 DEF Environment, Arm, Disarm, LoseLink, ContextEnds, CallSend, CallClose, connVars
  <2>6. QED
    BY <2>2, <2>3, <2>4, <2>5 DEF Next
<1>2. QED
  BY <1>1, Invariance, PTL DEF Spec, RetiredByItsOwn

=============================================================================
