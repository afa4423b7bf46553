----------------------------- MODULE StatusProofs -----------------------------
(***************************************************************************)
(* What is proved of the status loop, for any windows, any ladder of waits *)
(* and any values of stream_state.                                         *)
(***************************************************************************)
EXTENDS StatusWatcher, TLAPS

\* A value is pending exactly while the one last observed is not the confirmed one; it
\* is that value, and it is as old as the observation.
DebounceInv ==
  /\ pending # NoState <=> raw # confirmed
  /\ pending # NoState => pending = raw /\ pendAge = steady

\* What a tick found due before it dialled is still so when the dial returns: only a
\* frame could change it, and frames wait.
DueInv ==
  /\ pc \in {"first", "select"} => due = {}
  /\ "commit" \in due => pending # NoState /\ pendAge = DebounceWindow
  /\ pc \in {"resync", "redial"} /\ ~ ticked /\ sinceMsg = StaleAfter => "stale" \in due

\* The gate forgets what it showed whenever the lamp goes grey.
GateInv ==
  /\ pc = "first" => grey
  /\ lamps # NoState => ~ grey

StatusInv ==
  TypeOK /\ DebounceInv /\ DueInv /\ GateInv /\ ShownIsConfirmed /\ SilenceIsGrey

\* What a step must not do.
Reasons == Debounced /\ ReadingIsShown /\ ClosedForAReason

-----------------------------------------------------------------------------

\* Every step keeps the invariant, and does what it does for its reason.
LEMMA StatusStep ==
  ASSUME StatusInv, [Next]_vars
  PROVE  StatusInv' /\ Reasons
\* What the end of a tick does to the lamp, whether it comes at once or after a dial.
<1>FinishStep. ASSUME StatusInv,
                      NEW what, NEW elapsed \in 0 .. StaleAfter,
                      Finish(what, elapsed),
                      "commit" \in what => pending # NoState /\ pendAge = DebounceWindow
               PROVE  /\ pc' = "select" /\ due' = {} /\ lag' = 0
                      /\ confirmed' \in MaybeState /\ pending' \in MaybeState /\ raw' \in MaybeState
                      /\ pendAge' \in 0 .. DebounceWindow /\ steady' \in 0 .. DebounceWindow
                      /\ lamps' \in MaybeState /\ lamp' \in MaybeState /\ grey' \in BOOLEAN
                      /\ keyErr' \in BOOLEAN /\ keyAge' \in 0 .. StaleAfter
                      /\ DebounceInv' /\ GateInv' /\ ShownIsConfirmed' /\ Debounced
                      /\ "stale" \in what => grey'
                      /\ grey /\ "commit" \notin what => grey'
  <2> USE <1>FinishStep
  <2>1. DebounceWindow \in Nat \ {0} /\ StaleAfter \in Nat \ {0}
    BY TimesAssumption
  <2>2. /\ pc' = "select" /\ due' = {} /\ lag' = 0
        /\ raw' = raw /\ keyErr' = keyErr
        /\ steady' = IF raw = confirmed' THEN 0 ELSE steady
    BY DEF Finish
  <2>3. CASE "commit" \in what
    <3>1. /\ confirmed' = pending /\ pending' = NoState /\ pendAge' = 0
          /\ lamp' = pending /\ pending = raw /\ raw # confirmed
      BY <2>3 DEF Finish, StatusInv, DebounceInv
    <3>2. CASE {"stale", "report"} \cap what # {}
      <4>1. grey' = TRUE /\ lamps' = NoState /\ keyAge' = IF keyErr THEN elapsed ELSE 0
        BY <3>2 DEF Finish
      <4>2. QED
        BY <2>1, <2>2, <2>3, <3>1, <4>1 DEF StatusInv, TypeOK, DebounceInv, GateInv,
           ShownIsConfirmed, Debounced, MaybeState
    <3>3. CASE {"stale", "report"} \cap what = {}
      <4>1. ~ grey' /\ grey' \in BOOLEAN /\ lamps' = lamps /\ keyAge' = keyAge /\ "stale" \notin what
        BY <2>3, <3>3 DEF Finish
      <4>2. QED
        BY <2>1, <2>2, <2>3, <3>1, <4>1 DEF StatusInv, TypeOK, DebounceInv, GateInv,
           ShownIsConfirmed, Debounced, MaybeState
    <3>4. QED
      BY <3>2, <3>3
  <2>4. CASE "commit" \notin what
    <3>1. confirmed' = confirmed /\ pending' = pending /\ pendAge' = pendAge /\ lamp' = lamp
      BY <2>4 DEF Finish, debVars
    <3>2. CASE {"stale", "report"} \cap what # {}
      <4>1. grey' = TRUE /\ lamps' = NoState /\ keyAge' = IF keyErr THEN elapsed ELSE 0
        BY <3>2 DEF Finish
      <4>2. QED
        BY <2>1, <2>2, <2>4, <3>1, <4>1 DEF StatusInv, TypeOK, DebounceInv, GateInv,
           ShownIsConfirmed, Debounced, MaybeState
    <3>3. CASE {"stale", "report"} \cap what = {}
      <4>1. grey' = grey /\ lamps' = lamps /\ keyAge' = keyAge /\ "stale" \notin what
        BY <2>4, <3>3 DEF Finish, StatusInv, TypeOK
      <4>2. QED
        BY <2>1, <2>2, <2>4, <3>1, <4>1 DEF StatusInv, TypeOK, DebounceInv, GateInv,
           ShownIsConfirmed, Debounced, MaybeState
    <3>4. QED
      BY <3>2, <3>3
  <2>5. QED
    BY <2>3, <2>4
<1>1. /\ DebounceWindow \in Nat \ {0} /\ StaleAfter \in Nat \ {0} /\ ResyncInterval \in Nat \ {0}
      /\ NoState \notin States
  BY TimesAssumption, LadderAssumption DEF NoState
<1>2. \A k \in {"none", "read", "err"} : At(k) \notin Frames
  <2> TAKE k \in {"none", "read", "err"}
  <2>1. At(k).kind = k /\ At("unreadable").kind = "unreadable"
    BY DEF At
  <2>2. ASSUME At(k) \in [kind : {"whole", "delta"}, ours : States \cup {NoState}]
        PROVE  FALSE
    <3>1. At(k).kind \in {"whole", "delta"}
      BY <2>2
    <3>2. QED
      BY <2>1, <3>1
  <2>3. QED
    BY <2>1, <2>2 DEF Frames
<1>3. ASSUME Elapse
      PROVE  StatusInv' /\ Reasons
  <2>1. TypeOK'
    BY <1>1, <1>3
       DEF Elapse, Upto, StatusInv, TypeOK, SocketTypeOK, Idle, Dialling, socketVars, timeVars,
           debVars, keyVars, seenVars, outVars, history, ageVars
  <2>2. DebounceInv'
    BY <1>1, <1>3 DEF Elapse, Upto, StatusInv, TypeOK, DebounceInv, debVars
  <2>3. DueInv'
    <3>1. CASE pc = "select"
      BY <1>3, <3>1 DEF Elapse, StatusInv, DueInv, Dialling
    <3>2. CASE pc = "first"
      BY <1>3, <3>2 DEF Elapse, StatusInv, DueInv, Dialling
    <3>3. CASE pc \in {"resync", "redial"}
      <4>1. pc' = pc /\ due' = due /\ ticked'
        BY <1>3, <3>3 DEF Elapse
      <4>2. "commit" \in due => pending' # NoState /\ pendAge' = DebounceWindow
        BY <1>1, <1>3, <3>3 DEF Elapse, Upto, StatusInv, DueInv
      <4>3. QED
        BY <3>3, <4>1, <4>2 DEF DueInv
    <3>4. QED
      BY <3>1, <3>2, <3>3 DEF StatusInv, TypeOK, Dialling
  <2>4. GateInv' /\ ShownIsConfirmed' /\ SilenceIsGrey'
    BY <1>1, <1>3
       DEF Elapse, Upto, Idle, Dialling, StatusInv, TypeOK, SocketTypeOK, DebounceInv, DueInv,
           GateInv, ShownIsConfirmed, SilenceIsGrey, socketVars, timeVars, debVars, keyVars,
           seenVars, outVars, history, ageVars
  <2>5. Reasons
    BY <1>2, <1>3 DEF Elapse, Reasons, Debounced, ReadingIsShown, ClosedForAReason
  <2>6. QED
    BY <2>1, <2>2, <2>3, <2>4, <2>5 DEF StatusInv
<1>4. ASSUME DeviceChanges
      PROVE  StatusInv' /\ Reasons
  BY <1>2, <1>4
     DEF DeviceChanges, StatusInv, TypeOK, SocketTypeOK, DebounceInv, DueInv, GateInv,
         ShownIsConfirmed, SilenceIsGrey, Reasons, Debounced, ReadingIsShown, ClosedForAReason,
         socketVars, timeVars, debVars, keyVars, seenVars, outVars, history, ageVars
<1>5. ASSUME Receive
      PROVE  StatusInv' /\ Reasons
  <2>1. /\ conn' = conn /\ late' = late /\ backoff' = backoff /\ wait' = wait
        /\ cur = At("read") /\ cur' \in Readers
    BY <1>5 DEF Receive, Read, StatusInv, TypeOK, Readers, Frames, MaybeState
  <2>2. QED
    BY <1>2, <1>5, <2>1
       DEF Receive, StatusInv, TypeOK, SocketTypeOK, DebounceInv, DueInv, GateInv,
           ShownIsConfirmed, SilenceIsGrey, Reasons, Debounced, ReadingIsShown,
           ClosedForAReason, socketVars, timeVars, debVars, keyVars, seenVars, outVars, history,
           ageVars
<1>6. ASSUME Break
      PROVE  StatusInv' /\ Reasons
  BY <1>2, <1>6
     DEF Break, ReadFails, Readers, StatusInv, TypeOK, SocketTypeOK, DebounceInv, DueInv,
         GateInv, ShownIsConfirmed, SilenceIsGrey, Reasons, Debounced, ReadingIsShown,
         ClosedForAReason, socketVars, timeVars, debVars, keyVars, seenVars, outVars, history,
         ageVars
<1>7. ASSUME Tick
      PROVE  StatusInv' /\ Reasons
  <2>1. /\ pc = "select" /\ ticked /\ ~ ticked' /\ ticked' \in BOOLEAN
        /\ cur' = cur /\ late' = late /\ backoff' = backoff /\ wait' = wait
        /\ sinceMsg' = sinceMsg /\ fresh' = fresh /\ doc' = doc /\ device' = device
        /\ sinceSync' \in 0 .. ResyncInterval
    <3>1. ticked' \in BOOLEAN
      BY <1>7, Zenon DEF Tick
    <3>2. sinceSync' = 0 \/ sinceSync' = sinceSync
      BY <1>7, Zenon DEF Tick
    <3>3. QED
      BY <1>1, <1>7, <3>1, <3>2 DEF Tick, StatusInv, TypeOK
  <2>2. /\ Due \subseteq {"commit", "stale", "report"}
        /\ "commit" \in Due => pending # NoState /\ pendAge = DebounceWindow
        /\ "stale" \in Due <=> sinceMsg = StaleAfter
    BY DEF Due
  <2>3. ASSUME NEW which \in {"resync", "redial"}, Dial(which), conn' \in BOOLEAN
        PROVE  StatusInv' /\ Debounced
    BY <1>1, <2>1, <2>2, <2>3
       DEF Dial, Debounced, Dialling, StatusInv, TypeOK, SocketTypeOK, DebounceInv, DueInv,
           GateInv, ShownIsConfirmed, SilenceIsGrey, socketVars, timeVars, debVars, keyVars,
           seenVars, outVars, history, ageVars
  <2>4. ASSUME Finish(Due, 0), conn' \in BOOLEAN
        PROVE  StatusInv' /\ Debounced
    <3>1. 0 \in 0 .. StaleAfter
      BY <1>1
    <3>2. /\ pc' = "select" /\ due' = {} /\ lag' = 0
          /\ confirmed' \in MaybeState /\ pending' \in MaybeState /\ raw' \in MaybeState
          /\ pendAge' \in 0 .. DebounceWindow /\ steady' \in 0 .. DebounceWindow
          /\ lamps' \in MaybeState /\ lamp' \in MaybeState /\ grey' \in BOOLEAN
          /\ keyErr' \in BOOLEAN /\ keyAge' \in 0 .. StaleAfter
          /\ DebounceInv' /\ GateInv' /\ ShownIsConfirmed' /\ Debounced
          /\ "stale" \in Due => grey'
      BY <2>2, <2>4, <3>1, <1>FinishStep
    <3>3. TypeOK'
      BY <1>1, <2>1, <2>4, <3>2 DEF StatusInv, TypeOK, SocketTypeOK
    <3>4. DueInv' /\ SilenceIsGrey'
      BY <2>1, <2>2, <3>2 DEF DueInv, SilenceIsGrey
    <3>5. QED
      BY <3>2, <3>3, <3>4 DEF StatusInv
  <2>5. ReadingIsShown
    BY <1>2, <2>1 DEF ReadingIsShown
  <2>6. CASE sinceSync = ResyncInterval /\ conn
    BY <1>7, <2>3, <2>5, <2>6 DEF Tick, Resync, Reasons, ClosedForAReason
  <2>7. CASE Maintain
    <3>1. PICK rotated \in BOOLEAN :
            /\ rotated => conn /\ ~ fresh
            /\ conn' = (conn /\ ~ rotated)
            /\ IF conn' \/ wait > 0 THEN Finish(Due, 0) ELSE Dial("redial")
      BY <2>7 DEF Maintain
    <3>2. conn' \in BOOLEAN
      BY <3>1, Zenon
    <3>3. ClosedForAReason
      BY <2>1, <3>1 DEF ClosedForAReason
    <3>4. QED
      BY <2>3, <2>4, <2>5, <3>1, <3>2, <3>3 DEF Reasons
  <2>8. QED
    BY <1>7, <2>6, <2>7 DEF Tick
<1>8. ASSUME DialReturns
      PROVE  StatusInv' /\ Reasons
  <2>1. /\ pc \in Dialling /\ Finish(due, lag)
        /\ ticked' = ticked /\ sinceMsg' = sinceMsg /\ sinceSync' = sinceSync
        /\ doc' = doc /\ device' = device
        /\ (DialSucceeds /\ fresh' = TRUE) \/ (DialFails(lag) /\ fresh' = fresh)
    BY <1>8 DEF DialReturns, ageVars
  <2>2. /\ pc' = "select" /\ due' = {} /\ lag' = 0
        /\ confirmed' \in MaybeState /\ pending' \in MaybeState /\ raw' \in MaybeState
        /\ pendAge' \in 0 .. DebounceWindow /\ steady' \in 0 .. DebounceWindow
        /\ lamps' \in MaybeState /\ lamp' \in MaybeState /\ grey' \in BOOLEAN
        /\ keyErr' \in BOOLEAN /\ keyAge' \in 0 .. StaleAfter
        /\ DebounceInv' /\ GateInv' /\ ShownIsConfirmed' /\ Debounced
        /\ "stale" \in due => grey'
        /\ grey /\ "commit" \notin due => grey'
    <3>1. lag \in 0 .. StaleAfter /\ ("commit" \in due => pending # NoState /\ pendAge = DebounceWindow)
      BY DEF StatusInv, TypeOK, DueInv
    <3>2. QED
      BY <2>1, <3>1, <1>FinishStep
  <2>3. /\ SocketTypeOK' /\ fresh' \in BOOLEAN
        /\ conn => conn'
    <3>1. CASE DialSucceeds /\ fresh' = TRUE
      BY <3>1 DEF DialSucceeds, Readers, StatusInv, TypeOK, SocketTypeOK
    <3>2. CASE DialFails(lag) /\ fresh' = fresh
      <4>1. Len(Ladder) \in Nat /\ Len(Ladder) >= 1 /\ \A k \in 1 .. Len(Ladder) : Ladder[k] \in Nat
        BY LadderAssumption
      <4>2. backoff' \in 1 .. Len(Ladder) /\ wait' = IF Ladder[backoff'] > lag THEN Ladder[backoff'] - lag ELSE 0
        BY <3>2, <4>1 DEF DialFails, ClimbAfter, StatusInv, TypeOK, SocketTypeOK
      <4>3. wait' \in Nat
        BY <4>1, <4>2 DEF StatusInv, TypeOK
      <4>4. QED
        BY <3>2, <4>2, <4>3 DEF DialFails, StatusInv, TypeOK, SocketTypeOK
    <3>3. QED
      BY <2>1, <3>1, <3>2
  <2>4. TypeOK'
    BY <1>1, <2>1, <2>2, <2>3 DEF StatusInv, TypeOK
  <2>5. DueInv' /\ SilenceIsGrey'
    BY <2>1, <2>2 DEF StatusInv, DueInv, GateInv, SilenceIsGrey, Dialling
  <2>6. ReadingIsShown /\ ClosedForAReason
    BY <2>1, <2>3 DEF Dialling, ReadingIsShown, ClosedForAReason
  <2>7. QED
    BY <2>2, <2>4, <2>5, <2>6 DEF StatusInv, Reasons
<1>9. ASSUME NEW f \in Frames, Accepted, Accept(f), doc' = Merged(f), Reading(f) \/ NoReading(f)
      PROVE  StatusInv' /\ Reasons
  <2>1. /\ pc = "select" /\ pc' = pc /\ fresh' = FALSE /\ fresh' \in BOOLEAN /\ sinceMsg' = 0
        /\ sinceSync' \in 0 .. ResyncInterval
        /\ ticked' = ticked /\ due' = due /\ lag' = lag /\ device' = device
        /\ cur = f /\ cur' = At("read") /\ backoff' = 0
        /\ conn' = conn /\ late' = late /\ wait' = wait
    <3>1. fresh' \in BOOLEAN
      BY <1>9, Zenon DEF Accepted
    <3>2. QED
      BY <1>1, <1>9, <3>1 DEF Accepted, Accept, timeVars, StatusInv, TypeOK
  <2>2. SocketTypeOK'
    BY <2>1, LadderAssumption DEF StatusInv, TypeOK, SocketTypeOK, Readers
  <2>3. f.ours \in MaybeState /\ Merged(f) \in MaybeState \cup {"new"}
    <3>1. f.ours \in MaybeState
      BY DEF Frames, At, MaybeState
    <3>2. QED
      BY <3>1 DEF Merged, StatusInv, TypeOK, MaybeState
  <2>4. DueInv' /\ SilenceIsGrey' /\ ClosedForAReason
    BY <1>1, <2>1 DEF StatusInv, DueInv, SilenceIsGrey, ClosedForAReason
  <2>5. CASE Reading(f)
    <3>1. Merged(f) = f.ours /\ f.ours \in States /\ Touches(f)
      <4>1. Touches(f) /\ f.ours # NoState /\ (f.kind = "whole" \/ (~ fresh /\ doc \in States))
        BY <2>5 DEF Reading, Touches
      <4>2. f.kind \in {"whole", "delta"}
        BY <4>1 DEF Frames, At
      <4>3. QED
        <5>1. f.ours \in States
          BY <2>3, <4>1 DEF MaybeState
        <5>2. CASE f.kind = "whole"
          BY <4>1, <5>1, <5>2 DEF Merged
        <5>3. CASE f.kind = "delta" /\ ~ fresh /\ doc \in States
          BY <4>1, <5>1, <5>3 DEF Merged
        <5>4. QED
          BY <4>1, <4>2, <5>1, <5>2, <5>3
    <3>2. /\ Observe(f.ours) /\ raw' = f.ours /\ ~ keyErr' /\ keyErr' \in BOOLEAN /\ keyAge' = 0
          /\ steady' = IF f.ours # raw \/ f.ours = confirmed' THEN 0 ELSE steady
          /\ \/ lamps' = f.ours /\ lamp' = confirmed' /\ ~ grey' /\ grey' \in BOOLEAN
             \/ /\ lamps' = lamps /\ lamp' = lamp /\ grey' = grey /\ confirmed' = confirmed
                /\ lamps = f.ours
      BY <1>1, <2>5, <3>1 DEF Reading, Gate, Show, outVars
    <3>3. \/ confirmed' = f.ours /\ pending' = NoState /\ pendAge' = 0
          \/ /\ pending' = f.ours /\ confirmed' = confirmed /\ f.ours # confirmed /\ confirmed # NoState
             /\ pendAge' = IF f.ours = pending THEN pendAge ELSE 0
      BY <3>2 DEF Observe
    <3>4. TypeOK'
      BY <1>1, <1>9, <2>1, <2>2, <2>3, <3>1, <3>2, <3>3 DEF StatusInv, TypeOK, MaybeState
    <3>5. DebounceInv' /\ GateInv' /\ ShownIsConfirmed' /\ ~ grey'
      BY <1>1, <2>1, <3>1, <3>2, <3>3 DEF StatusInv, DebounceInv, GateInv, ShownIsConfirmed
    <3>6. Debounced
      BY <1>1, <3>1, <3>2 DEF Observe, Debounced, StatusInv, DebounceInv
    <3>7. QED
      BY <2>4, <3>4, <3>5, <3>6 DEF StatusInv, Reasons, ReadingIsShown
  <2>6. CASE NoReading(f)
    <3>1. /\ ~ Touches(f)
          /\ confirmed' = confirmed /\ pending' = pending /\ pendAge' = pendAge
          /\ raw' = raw /\ steady' = steady /\ lamp' = lamp
          /\ keyErr' \in BOOLEAN /\ keyAge' \in 0 .. StaleAfter
          /\ lamps' \in {NoState, lamps} /\ grey' \in BOOLEAN
          /\ grey' # grey => lamps' = NoState /\ grey'
      <4>1. (keyErr' \in BOOLEAN) /\ (grey' \in BOOLEAN)
        <5>1. (keyErr' = TRUE /\ grey' = TRUE) \/ (keyErr' = keyErr /\ grey' = grey)
          BY <2>6 DEF NoReading, Grey, keyVars, outVars
        <5>2. QED
          BY <5>1, Zenon DEF StatusInv, TypeOK
      <4>2. QED
       BY <1>1, <2>6, <4>1
          DEF NoReading, Grey, debVars, history, keyVars, outVars, StatusInv, TypeOK
    <3>2. TypeOK'
      BY <1>1, <1>9, <2>1, <2>2, <2>3, <3>1 DEF StatusInv, TypeOK, MaybeState
    <3>3. DebounceInv' /\ GateInv' /\ ShownIsConfirmed'
      BY <2>1, <3>1 DEF StatusInv, TypeOK, DebounceInv, GateInv, ShownIsConfirmed
    <3>4. Debounced /\ ReadingIsShown
      BY <2>1, <3>1 DEF Debounced, ReadingIsShown
    <3>5. QED
      BY <2>4, <3>2, <3>3, <3>4 DEF StatusInv, Reasons
  <2>7. QED
    BY <1>9, <2>5, <2>6
<1>10. ASSUME Lost
       PROVE  StatusInv' /\ Reasons
  <2>1. /\ cur = At("err") /\ cur' = At("none") /\ conn' = FALSE /\ late' = late
        /\ backoff' \in 0 .. Len(Ladder) /\ wait' \in Nat
    <3>1. Len(Ladder) \in Nat /\ Len(Ladder) >= 1 /\ \A k \in 1 .. Len(Ladder) : Ladder[k] \in Nat
      BY LadderAssumption
    <3>2. backoff' \in 1 .. Len(Ladder) /\ wait' = IF Ladder[backoff'] > 0 THEN Ladder[backoff'] - 0 ELSE 0
      BY <1>10, <3>1 DEF Lost, Fail, ClimbAfter, StatusInv, TypeOK, SocketTypeOK
    <3>3. QED
      BY <1>10, <3>1, <3>2 DEF Lost, Fail
  <2>2. SocketTypeOK'
    BY <2>1 DEF StatusInv, TypeOK, SocketTypeOK, Readers
  <2>3. Reasons
    BY <1>2, <1>10, <2>1 DEF Lost, Reasons, Debounced, ReadingIsShown, ClosedForAReason, debVars
  <2>4. QED
    BY <1>10, <2>2, <2>3
       DEF Lost, StatusInv, TypeOK, DebounceInv, DueInv, GateInv, ShownIsConfirmed,
           SilenceIsGrey, timeVars, debVars, keyVars, seenVars, outVars, history, ageVars
<1>11. ASSUME Superseded
       PROVE  StatusInv' /\ Reasons
  BY <1>2, <1>11
     DEF Superseded, Discard, StatusInv, TypeOK, SocketTypeOK, DebounceInv, DueInv, GateInv,
         ShownIsConfirmed, SilenceIsGrey, Reasons, Debounced, ReadingIsShown, ClosedForAReason,
         socketVars, timeVars, debVars, keyVars, seenVars, outVars, history, ageVars
<1>12. CASE UNCHANGED vars
  BY <1>2, <1>12
     DEF vars, StatusInv, TypeOK, SocketTypeOK, DebounceInv, DueInv, GateInv, ShownIsConfirmed,
         SilenceIsGrey, Reasons, Debounced, ReadingIsShown, ClosedForAReason, socketVars,
         timeVars, debVars, keyVars, seenVars, outVars, history, ageVars
<1>13. QED
  BY <1>3, <1>4, <1>5, <1>6, <1>7, <1>8, <1>9, <1>10, <1>11, <1>12 DEF Next, Watch, Frame

\* The status loop's variables keep their types and its invariant, from the first dial on.
LEMMA StatusInvariance == Spec => []StatusInv
<1>1. Init => StatusInv
  <2> SUFFICES ASSUME Init PROVE StatusInv
    OBVIOUS
  <2>1. /\ DebounceWindow \in Nat \ {0} /\ StaleAfter \in Nat \ {0} /\ ResyncInterval \in Nat \ {0}
        /\ Len(Ladder) \in Nat
    BY TimesAssumption, LadderAssumption
  <2>2. conn \in BOOLEAN /\ late \in BOOLEAN /\ ticked \in BOOLEAN /\ fresh \in BOOLEAN
        /\ keyErr \in BOOLEAN /\ grey \in BOOLEAN
    BY Zenon DEF Init, SocketInit
  <2>3. TypeOK
    BY <2>1, <2>2 DEF Init, SocketInit, TypeOK, SocketTypeOK, Readers, Dialling, MaybeState
  <2>4. DebounceInv /\ DueInv /\ GateInv /\ ShownIsConfirmed /\ SilenceIsGrey
    BY DEF Init, DebounceInv, DueInv, GateInv, ShownIsConfirmed, SilenceIsGrey
  <2>5. QED
    BY <2>3, <2>4 DEF StatusInv
<1>2. StatusInv /\ [Next]_vars => StatusInv'
  BY StatusStep
<1>3. QED
  BY <1>1, <1>2, PTL DEF Spec

\* A lamp that is not grey shows the debounced state, whichever of a frame and a tick
\* confirmed it (watcher.go: run; debounce.go: Observe).
THEOREM LampsAreConfirmed == Spec => []ShownIsConfirmed
<1>1. StatusInv => ShownIsConfirmed
  BY DEF StatusInv
<1>2. QED
  BY <1>1, StatusInvariance, PTL

\* A socket that has been silent for the limit is grey as soon as the loop has handled
\* its tick, however long that tick then dialled (watcher.go: the stale check of run).
THEOREM SilenceIsShown == Spec => []SilenceIsGrey
<1>1. StatusInv => SilenceIsGrey
  BY DEF StatusInv
<1>2. QED
  BY <1>1, StatusInvariance, PTL

\* In every step: a state is confirmed only after it has stood for the whole window, a
\* reading lights the lamp, and a connection is closed for a reason of its own
\* (debounce.go: Observe; watcher.go: run, statusSocket.fail).
THEOREM EveryStepHasItsReason == Spec => StepsHaveReasons
<1>1. ASSUME StatusInv, [Next]_vars
      PROVE  [Reasons]_vars
  BY <1>1, StatusStep
<1>2. QED
  BY <1>1, StatusInvariance, PTL DEF Spec, StepsHaveReasons, Reasons
=============================================================================
