------------------------------ MODULE DeskProofs ------------------------------
(***************************************************************************)
(* What holds of the arming of the mixer, of the control plane, of what is *)
(* read and sent of the mixer's state and of the second window, for any    *)
(* number of seats, controllers, editors, configurations, generations,     *)
(* searches, strips, commands and launches.                                *)
(***************************************************************************)
EXTENDS MixerArm, ControlPlane, MixerDrawer, SecondWindow, FiniteSetTheorems, TLAPS

-----------------------------------------------------------------------------
(* MixerArm.                                                               *)

Dropping(c) == drop[c] \in {"disarm", "close"}

\* Who dials has mixMu, has it alone, and finds no controller published.
DialInv ==
  /\ \A s \in Seats : arm[s] = "dial" <=> s \in mixMu
  /\ \A s, t \in mixMu : s = t
  /\ mixMu # {} => mixCtl = NoCtl
  /\ \A s \in Seats : arm[s] # "idle" => armHost[s] \in Desks

\* A controller that is published or being closed is a dialled one, not closed
\* yet, and it is published, or one call is closing it, never both.
OwnerInv ==
  /\ mixCtl # NoCtl => mixCtl \in Dialled \ shut
  /\ \A c \in Callers : Dropping(c) => dropCtl[c] \in Dialled \ shut /\ dropCtl[c] # mixCtl
  /\ \A b, c \in Callers : Dropping(b) /\ Dropping(c) /\ dropCtl[b] = dropCtl[c] => b = c

ArmInv == TypeOK /\ DialInv /\ OwnerInv /\ NoOrphanController

\* A controller that was dialled is published, being closed by one call, or closed: no order
\* of arming, sending, disarming, presets and shutdown loses one with its connection open
\* (app_mixer.go: armMixerFrom, sendMixerCommandsFrom, closeMixerController), for any
\* number of seats and controllers.
THEOREM NobodyOrphansAController == Spec => []NoOrphanController
\* Every step of MixerArm keeps the types and the owners (app_mixer.go:48-190).
<1>ArmStep. ArmInv /\ [Next]_vars => ArmInv'
  <2> SUFFICES ASSUME ArmInv, [Next]_vars PROVE ArmInv'
    OBVIOUS
  <2> USE ArmAssumption
      DEF Dropping, Dialled, Desks, Callers, Ctls, NoCtl,
          armVars, sendVars, dropVars, appVars, ctlVars, Ended, ArmGoto, DropGoto
  <2>1. ASSUME NEW s \in Seats, CallArm(s) PROVE ArmInv'
    BY <2>1 DEF CallArm, ArmInv, TypeOK, DialInv, OwnerInv, NoOrphanController
  <2>2. ASSUME NEW s \in Seats, ArmExisting(s) PROVE ArmInv'
    BY <2>2 DEF ArmExisting, ArmEnds, Own, ArmInv, TypeOK, DialInv, OwnerInv, NoOrphanController
  <2>3. ASSUME NEW s \in Seats, LockToDial(s) PROVE ArmInv'
    BY <2>3 DEF LockToDial, ArmInv, TypeOK, DialInv, OwnerInv, NoOrphanController
  <2>4. ASSUME NEW s \in Seats, DialSucceeds(s) PROVE ArmInv'
    BY <2>4
       DEF DialSucceeds, ArmEnds, Own, ArmInv, TypeOK, DialInv, OwnerInv, NoOrphanController
  <2>5. ASSUME NEW s \in Seats, DialFails(s) PROVE ArmInv'
    BY <2>5 DEF DialFails, ArmEnds, ArmInv, TypeOK, DialInv, OwnerInv, NoOrphanController
  <2>6. ASSUME NEW s \in Seats, ReadController(s) \/ Gate(s) \/ Write(s) PROVE ArmInv'
    <3>1. CASE ReadController(s)
      BY <3>1 DEF ReadController, ArmInv, TypeOK, DialInv, OwnerInv, NoOrphanController
    <3>2. CASE Gate(s)
      <4>1. UNCHANGED <<armVars, dropVars, appVars, ctlVars>>
        BY <3>2 DEF Gate
      <4>2. send' \in [Seats -> {"idle", "gate", "write"}] /\ sendCtl' \in [Seats -> Ctls \cup {NoCtl}]
        BY <3>2 DEF Gate, ArmInv, TypeOK
      <4>3. QED
        BY <4>1, <4>2 DEF ArmInv, TypeOK, DialInv, OwnerInv, NoOrphanController
    <3>3. CASE Write(s)
      BY <3>3 DEF Write, ArmInv, TypeOK, DialInv, OwnerInv, NoOrphanController
    <3>4. QED
      BY <2>6, <3>1, <3>2, <3>3
  <2>7. ASSUME NEW c \in Callers, Take(c) PROVE ArmInv'
    <3>1. TypeOK'
      BY <2>7 DEF Take, ArmInv, TypeOK
    <3>2. DialInv'
      BY <2>7 DEF Take, ArmInv, TypeOK, DialInv
    <3>3. OwnerInv'
      BY SMTT(30), <2>7 DEF Take, ArmInv, TypeOK, OwnerInv
    <3>4. NoOrphanController'
      BY SMTT(30), <2>7 DEF Take, ArmInv, TypeOK, OwnerInv, NoOrphanController
    <3>5. QED
      BY <3>1, <3>2, <3>3, <3>4 DEF ArmInv
  <2>8. ASSUME NEW c \in Callers, DisarmTaken(c) PROVE ArmInv'
    <3>1. TypeOK'
      BY <2>8 DEF DisarmTaken, ArmInv, TypeOK
    <3>2. DialInv'
      BY <2>8 DEF DisarmTaken, ArmInv, TypeOK, DialInv
    <3>3. OwnerInv'
      BY <2>8 DEF DisarmTaken, ArmInv, TypeOK, OwnerInv
    <3>4. NoOrphanController'
      BY <2>8 DEF DisarmTaken, ArmInv, TypeOK, OwnerInv, NoOrphanController
    <3>5. QED
      BY <3>1, <3>2, <3>3, <3>4 DEF ArmInv
  <2>9. ASSUME NEW c \in Callers, CloseTaken(c) PROVE ArmInv'
    <3>1. TypeOK'
      <4>1. dropCtl[c] \in Dialled
        BY <2>9 DEF CloseTaken, ArmInv, OwnerInv
      <4>2. drop' \in [Callers -> {"idle", "take", "disarm", "close", "done"}]
        BY <2>9 DEF CloseTaken, ArmInv, TypeOK
      <4>3. shut' \subseteq Dialled' /\ window' \subseteq Dialled'
        BY <2>9, <4>1 DEF CloseTaken, ArmInv, TypeOK
      <4>4. QED
        BY <2>9, <4>2, <4>3 DEF CloseTaken, ArmInv, TypeOK
    <3>2. DialInv'
      BY <2>9 DEF CloseTaken, ArmInv, TypeOK, DialInv
    <3>3. OwnerInv'
      BY <2>9 DEF CloseTaken, ArmInv, TypeOK, OwnerInv
    <3>4. NoOrphanController'
      BY <2>9 DEF CloseTaken, ArmInv, TypeOK, OwnerInv, NoOrphanController
    <3>5. QED
      BY <3>1, <3>2, <3>3, <3>4 DEF ArmInv
  <2>10. ASSUME NEW n \in Ctls, Expire(n) PROVE ArmInv'
    <3>1. TypeOK'
      BY <2>10 DEF Expire, ArmInv, TypeOK
    <3>2. DialInv'
      BY <2>10 DEF Expire, ArmInv, TypeOK, DialInv
    <3>3. OwnerInv'
      BY <2>10 DEF Expire, ArmInv, TypeOK, OwnerInv
    <3>4. NoOrphanController'
      BY <2>10 DEF Expire, ArmInv, TypeOK, OwnerInv, NoOrphanController
    <3>5. QED
      BY <3>1, <3>2, <3>3, <3>4 DEF ArmInv
  <2>11. ASSUME ApplyPreset \/ PresetDisarms \/ PresetApplied PROVE ArmInv'
    <3>1. TypeOK'
      BY ZenonT(30), <2>11 DEF ApplyPreset, PresetDisarms, PresetApplied, ArmInv, TypeOK
    <3>2. DialInv'
      BY <2>11 DEF ApplyPreset, PresetDisarms, PresetApplied, ArmInv, TypeOK, DialInv
    <3>3. OwnerInv'
      BY <2>11 DEF ApplyPreset, PresetDisarms, PresetApplied, ArmInv, TypeOK, OwnerInv
    <3>4. NoOrphanController'
      BY <2>11
         DEF ApplyPreset, PresetDisarms, PresetApplied, ArmInv, TypeOK, OwnerInv,
             NoOrphanController
    <3>5. QED
      BY <3>1, <3>2, <3>3, <3>4 DEF ArmInv
  <2>12. ASSUME Teardown \/ TeardownGoesOn PROVE ArmInv'
    <3>1. CASE Teardown
      BY <3>1 DEF Teardown, ArmInv, TypeOK, DialInv, OwnerInv, NoOrphanController
    <3>2. CASE TeardownGoesOn
      BY <3>2 DEF TeardownGoesOn, ArmInv, TypeOK, DialInv, OwnerInv, NoOrphanController
    <3>3. QED
      BY <2>12, <3>1, <3>2
  <2>13. ASSUME UNCHANGED vars PROVE ArmInv'
    BY <2>13 DEF vars, ArmInv, TypeOK, DialInv, OwnerInv, NoOrphanController
  <2>14. QED
    BY <2>1, <2>2, <2>3, <2>4, <2>5, <2>6, <2>7, <2>8, <2>9, <2>10, <2>11, <2>12, <2>13 DEF Next
<1>1. ASSUME Init PROVE ArmInv
  <2> USE <1>1, ArmAssumption DEF Init, Dropping, Dialled, Desks, Callers, Ctls, NoCtl
  <2>1. TypeOK
    BY DEF TypeOK
  <2>2. DialInv /\ OwnerInv /\ NoOrphanController
    BY DEF DialInv, OwnerInv, NoOrphanController
  <2>3. QED
    BY <2>1, <2>2 DEF ArmInv
<1>2. ArmInv => NoOrphanController
  BY DEF ArmInv
<1>3. QED
  BY <1>1, <1>2, <1>ArmStep, PTL DEF Spec

-----------------------------------------------------------------------------
(* ControlPlane.                                                           *)

Inside(r) == restart[r].at \in {"close", "join", "build"}
ToBuild   == {r \in Restarters \ {"exit"} : restart[r].at # "idle"}
Active(d) == search[d].at \in {"reset", "watch", "leave"}

\* ctlMu is held by the one restarter inside it.  There is a generation to close and
\* to join, already cancelled; one that is joined has a closed client, and there is
\* none when the next is built.
MuInv ==
  /\ \A r \in Restarters : Inside(r) <=> ctlMu = r
  /\ \A r \in Restarters : restart[r].at \in {"close", "join"} => plane # NoPlane
  /\ \A r \in Restarters : restart[r].at = "join" => plane \in closedClients
                                 /\ refresh[plane] \notin {"waiting", "renewing"}
  /\ \A r \in Restarters : restart[r].at = "build" => plane = NoPlane
  /\ restart["exit"].at # "idle" => ctlClosing

\* The bounds are bounds: there is a number for every generation and every search.
RoomInv ==
  /\ IsFiniteSet(ToBuild)
  /\ planes + Cardinality(ToBuild) + ctlLeft.edits <= MaxPlanes
  /\ searches + ctlLeft.searches + (IF starting THEN 1 ELSE 0) <= MaxSearches

\* A generation other than the running one has come to rest: it is not there yet, or
\* its loops are over, its client is closed and its searches have gone.
RestInv ==
  /\ plane <= planes
  /\ \A g \in Planes : g > planes => signIn[g] = "none" /\ refresh[g] = "none"
  /\ \A g \in Planes : g # plane =>
       /\ signIn[g] \in {"none", "in", "gaveUp", "over"}
       /\ refresh[g] \in {"none", "starting", "ended"}
       /\ refresh[g] = "starting" => g \in closedClients
       /\ g \notin watching
       /\ \A d \in Searches : search[d].in = g => ~ Active(d)

\* One search at a time is under way, in the running generation; what is suggested
\* while it watches is its own.
SearchInv ==
  /\ \A d \in Searches : Active(d) => discovering /\ search[d].in # NoPlane
  /\ \A d, e \in Searches : Active(d) /\ Active(e) => d = e
  /\ \A d \in Searches : d > searches => search[d].at = "none"
  /\ \A d \in Searches : search[d].at = "watch" => candidates \in {0, d}

Current == IF ctlConf.host = Blank THEN plane = NoPlane
           ELSE plane # NoPlane /\ madeFrom[plane] = ctlConf
Rereading == \E r \in Restarters : restart[r].at \in {"read", "lock"}

\* The shown configuration is that of the running generation, or somebody is on the
\* way to building it; whoever waits for ctlMu has read it.
CurrentInv ==
  ~ctlClosing /\ ~excused =>
    /\ \A r \in Restarters : Pending(r) => restart[r].conf = ctlConf
    /\ \/ Rereading
       \/ \E r \in Restarters : Inside(r) /\ restart[r].conf = ctlConf
       \/ Settled /\ Current

\* A generation that has given up for want of a password that is stored by now is
\* about to be replaced.
GaveUpInv ==
  ~ctlClosing /\ password /\ plane # NoPlane /\ signIn[plane] = "gaveUp" =>
    Rereading \/ \E r \in Restarters : restart[r].at \in {"close", "join"}

CtlInv == CtlTypeOK /\ MuInv /\ RoomInv /\ RestInv /\ SearchInv /\ CurrentInv /\ GaveUpInv

\* The control plane's invariant holds throughout, for any number of edits, generations and
\* searches (app.go: startControlPlane, stopControlPlaneLocked, maybeDiscoverStatusKey).
LEMMA CtlInvariance == CtlSpec => []CtlInv
<1>CtlStep. CtlInv /\ [CtlNext]_controlVars => CtlInv'
  <2> SUFFICES ASSUME CtlInv, [CtlNext]_controlVars PROVE CtlInv'
    OBVIOUS
  <2> DEFINE Steps == {"idle", "read", "lock", "close", "join", "build"}
             RestartType == [Restarters -> [at : Steps, conf : Configs \cup {NoConf}]]
             LeftType == [edits : Nat, searches : Nat, renewals : Nat]
             Ats == {"none", "reset", "watch", "leave", "gone"}
             SearchTypes == [at : Ats, in : Planes \cup {NoPlane}]
  <2> USE ControlAssumption
      DEF Planes, NoPlane, Searches, Restarters, NoConf, Inside, Active, Current, Rereading,
          Pending, Settled, Publish, editVars, planeVars, clientVars, searchVars,
          ClientOnly, SearchOnly, Signing, RefreshOver, Joinable
  <2>1. ASSUME NEW r \in Restarters, NEW label \in Steps, To(r, label)
        PROVE  /\ restart' \in RestartType
               /\ restart'[r].at = label /\ restart'[r].conf = restart[r].conf
               /\ \A q \in Restarters : q # r => restart'[q] = restart[q]
    <3>1. restart \in RestartType
      BY DEF CtlInv, CtlTypeOK
    <3>2. [restart[r] EXCEPT !.at = label] \in [at : Steps, conf : Configs \cup {NoConf}]
      BY <3>1
    <3>3. QED
      BY <2>1, <3>1, <3>2 DEF To
  <2>2. /\ Spend("edits") => /\ ctlLeft' \in LeftType /\ ctlLeft.edits > 0
                             /\ ctlLeft'.edits = ctlLeft.edits - 1 /\ ctlLeft'.searches = ctlLeft.searches
        /\ Spend("searches") => /\ ctlLeft' \in LeftType /\ ctlLeft.searches > 0
                                /\ ctlLeft'.edits = ctlLeft.edits /\ ctlLeft'.searches = ctlLeft.searches - 1
    <3>1. ctlLeft \in LeftType
      BY DEF CtlInv, CtlTypeOK
    <3>2. Spend("edits") => /\ ctlLeft' \in LeftType /\ ctlLeft.edits > 0
                            /\ ctlLeft'.edits = ctlLeft.edits - 1 /\ ctlLeft'.searches = ctlLeft.searches
      BY <3>1 DEF Spend
    <3>3. Spend("searches") => /\ ctlLeft' \in LeftType /\ ctlLeft.searches > 0
                               /\ ctlLeft'.edits = ctlLeft.edits /\ ctlLeft'.searches = ctlLeft.searches - 1
      BY <3>1 DEF Spend
    <3>4. QED
      BY <3>2, <3>3
  <2>3. ASSUME NEW r \in Restarters \ {"exit"}, restart[r].at = "idle", restart'[r].at # "idle",
               \A q \in Restarters : q # r => restart'[q] = restart[q]
        PROVE  IsFiniteSet(ToBuild') /\ Cardinality(ToBuild') = Cardinality(ToBuild) + 1
    <3>1. ToBuild' = ToBuild \cup {r} /\ r \notin ToBuild
      BY <2>3 DEF ToBuild
    <3>2. QED
      BY <3>1, FS_AddElement DEF CtlInv, RoomInv
  <2>4. ASSUME NEW r \in Restarters \ {"exit"}, restart[r].at # "idle", restart'[r].at = "idle",
               \A q \in Restarters : q # r => restart'[q] = restart[q]
        PROVE  IsFiniteSet(ToBuild') /\ Cardinality(ToBuild') = Cardinality(ToBuild) - 1
    <3>1. ToBuild' = ToBuild \ {r} /\ r \in ToBuild
      BY <2>4 DEF ToBuild
    <3>2. QED
      BY <3>1, FS_RemoveElement DEF CtlInv, RoomInv
  <2>5. ASSUME \A q \in Restarters \ {"exit"} : restart'[q].at = "idle" <=> restart[q].at = "idle"
        PROVE  ToBuild' = ToBuild
    BY <2>5 DEF ToBuild
  <2>6. Cardinality(ToBuild) \in Nat
    BY FS_CardinalityType DEF CtlInv, RoomInv
  <2>7. ASSUME NEW r \in Editors, NEW c \in Configs, SaveConfig(r, c) PROVE CtlInv'
    <3>1. /\ r \in Restarters \ {"exit"} /\ restart[r].at = "idle"
          /\ restart' \in RestartType /\ \A q \in Restarters : q # r => restart'[q] = restart[q]
          /\ restart'[r].at = (IF c # ctlConf THEN "read" ELSE "idle") /\ restart'[r].conf = restart[r].conf
          /\ c = ctlConf => restart' = restart
          /\ ctlLeft' \in LeftType /\ ctlLeft.edits > 0 /\ ctlLeft'.edits = ctlLeft.edits - 1
          /\ ctlLeft'.searches = ctlLeft.searches
      BY <2>7, <2>1, <2>2 DEF SaveConfig, ControlPlaneChanged, Edit, CtlInv, CtlTypeOK
    <3>2. CtlTypeOK'
      BY <2>7, <3>1 DEF SaveConfig, CtlInv, CtlTypeOK
    <3>3. MuInv'
      <4>1. \A q \in Restarters : (Inside(q)' <=> Inside(q)) /\ (restart'[q].at \in {"idle", "read"} \/ restart'[q] = restart[q])
        BY <3>1
      <4>2. UNCHANGED <<planeVars, clientVars>>
        BY <2>7 DEF SaveConfig
      <4>3. QED
        BY <3>1, <4>1, <4>2 DEF CtlInv, MuInv
    <3>4. RoomInv'
      <4>1. CASE c = ctlConf
        <5>1. ToBuild' = ToBuild
          BY <4>1, <3>1, <2>5
        <5>2. QED
          BY SMTT(30), <2>7, <3>1, <5>1, <2>6 DEF SaveConfig, CtlInv, RoomInv, CtlTypeOK
      <4>2. CASE c # ctlConf
        <5>1. IsFiniteSet(ToBuild') /\ Cardinality(ToBuild') = Cardinality(ToBuild) + 1
          BY <4>2, <3>1, <2>3
        <5>2. QED
          BY <2>7, <3>1, <5>1, <2>6 DEF SaveConfig, CtlInv, RoomInv, CtlTypeOK
      <4>3. QED
        BY <4>1, <4>2
    <3>5. RestInv'
      BY <2>7 DEF SaveConfig, ControlPlaneChanged, Edit, To, CtlInv, CtlTypeOK, MuInv, RestInv
    <3>6. SearchInv'
      BY <2>7 DEF SaveConfig, ControlPlaneChanged, Edit, To, CtlInv, CtlTypeOK, SearchInv
    <3>7. CurrentInv'
      <4>1. CASE c = ctlConf
        BY ZenonT(30), <2>7, <4>1, <3>1 DEF SaveConfig, CtlInv, CurrentInv
      <4>2. CASE c # ctlConf
        <5>1. Rereading' /\ \A q \in Restarters : Pending(q)' => Pending(q) /\ restart'[q].conf = restart[q].conf
          BY <4>2, <3>1
        <5>2. QED
          BY <2>7, <4>2, <5>1 DEF SaveConfig, CtlInv, CurrentInv
      <4>3. QED
        BY <4>1, <4>2
    <3>8. GaveUpInv'
      BY <2>7 DEF SaveConfig, ControlPlaneChanged, Edit, To, CtlInv, CtlTypeOK, MuInv, GaveUpInv
    <3>9. QED
      BY <3>2, <3>3, <3>4, <3>5, <3>6, <3>7, <3>8 DEF CtlInv
  <2>8. ASSUME NEW r \in Editors, NEW c \in Configs, ApplyPresetTo(r, c) PROVE CtlInv'
    <3>1. /\ r \in Restarters \ {"exit"} /\ restart[r].at = "idle"
          /\ restart' \in RestartType /\ \A q \in Restarters : q # r => restart'[q] = restart[q]
          /\ restart'[r].at = "read" /\ restart'[r].conf = restart[r].conf
          /\ ctlLeft' \in LeftType /\ ctlLeft.edits > 0 /\ ctlLeft'.edits = ctlLeft.edits - 1
          /\ ctlLeft'.searches = ctlLeft.searches
      BY <2>8, <2>1, <2>2 DEF ApplyPresetTo, Edit, CtlInv, CtlTypeOK
    <3>2. CtlTypeOK'
      BY <2>8, <3>1 DEF ApplyPresetTo, CtlInv, CtlTypeOK
    <3>3. MuInv'
      BY <2>8 DEF ApplyPresetTo, Edit, To, CtlInv, CtlTypeOK, MuInv
    <3>4. RoomInv'
      <4>1. IsFiniteSet(ToBuild') /\ Cardinality(ToBuild') = Cardinality(ToBuild) + 1
        BY <3>1, <2>3
      <4>2. QED
        BY <2>8, <3>1, <4>1, <2>6 DEF CtlInv, RoomInv, CtlTypeOK, ApplyPresetTo
    <3>5. RestInv'
      BY <2>8 DEF ApplyPresetTo, Edit, To, CtlInv, CtlTypeOK, MuInv, RestInv
    <3>6. SearchInv'
      BY <2>8 DEF ApplyPresetTo, Edit, To, CtlInv, CtlTypeOK, SearchInv
    <3>7. CurrentInv'
      <4>1. Rereading' /\ \A q \in Restarters : Pending(q)' => Pending(q) /\ restart'[q].conf = restart[q].conf
        BY <3>1
      <4>2. QED
        BY <2>8, <4>1 DEF ApplyPresetTo, CtlInv, CurrentInv
    <3>8. GaveUpInv'
      BY <2>8 DEF ApplyPresetTo, Edit, To, CtlInv, CtlTypeOK, MuInv, GaveUpInv
    <3>9. QED
      BY <3>2, <3>3, <3>4, <3>5, <3>6, <3>7, <3>8 DEF CtlInv
  <2>9. ASSUME NEW r \in Editors, NEW c \in Configs, PresetHalfApplied(r, c) PROVE CtlInv'
    <3>1. /\ r \in Restarters \ {"exit"} /\ restart[r].at = "idle"
          /\ restart' \in RestartType /\ \A q \in Restarters : q # r => restart'[q] = restart[q]
          /\ restart' = restart
          /\ ctlLeft' \in LeftType /\ ctlLeft.edits > 0 /\ ctlLeft'.edits = ctlLeft.edits - 1
          /\ ctlLeft'.searches = ctlLeft.searches
      BY <2>9, <2>1, <2>2 DEF PresetHalfApplied, Edit, CtlInv, CtlTypeOK
    <3>2. CtlTypeOK'
      BY <2>9, <3>1 DEF PresetHalfApplied, CtlInv, CtlTypeOK
    <3>3. MuInv'
      BY <2>9 DEF PresetHalfApplied, CtlInv, CtlTypeOK, MuInv
    <3>4. RoomInv'
      <4>1. ToBuild' = ToBuild
        BY <3>1, <2>5
      <4>2. QED
        BY <2>9, <3>1, <4>1, <2>6 DEF CtlInv, RoomInv, CtlTypeOK, PresetHalfApplied
    <3>5. RestInv'
      BY <2>9 DEF PresetHalfApplied, CtlInv, CtlTypeOK, MuInv, RestInv
    <3>6. SearchInv'
      BY <2>9 DEF PresetHalfApplied, CtlInv, CtlTypeOK, SearchInv
    <3>7. CurrentInv'
      BY <2>9 DEF PresetHalfApplied, CtlInv, CtlTypeOK, MuInv, CurrentInv
    <3>8. GaveUpInv'
      BY <2>9 DEF PresetHalfApplied, CtlInv, CtlTypeOK, MuInv, GaveUpInv
    <3>9. QED
      BY <3>2, <3>3, <3>4, <3>5, <3>6, <3>7, <3>8 DEF CtlInv
  <2>10. ASSUME NEW r \in Editors, SetSecret(r) PROVE CtlInv'
    <3>1. /\ r \in Restarters \ {"exit"} /\ restart[r].at = "idle"
          /\ restart' \in RestartType /\ \A q \in Restarters : q # r => restart'[q] = restart[q]
          /\ restart'[r].at = "read" /\ restart'[r].conf = restart[r].conf
          /\ ctlLeft' \in LeftType /\ ctlLeft.edits > 0 /\ ctlLeft'.edits = ctlLeft.edits - 1
          /\ ctlLeft'.searches = ctlLeft.searches
      BY <2>10, <2>1, <2>2 DEF SetSecret, Edit, CtlInv, CtlTypeOK
    <3>2. CtlTypeOK'
      BY <2>10, <3>1 DEF SetSecret, CtlInv, CtlTypeOK
    <3>3. MuInv'
      BY <2>10 DEF SetSecret, Edit, To, CtlInv, CtlTypeOK, MuInv
    <3>4. RoomInv'
      <4>1. IsFiniteSet(ToBuild') /\ Cardinality(ToBuild') = Cardinality(ToBuild) + 1
        BY <3>1, <2>3
      <4>2. QED
        BY <2>10, <3>1, <4>1, <2>6 DEF CtlInv, RoomInv, CtlTypeOK, SetSecret
    <3>5. RestInv'
      BY <2>10 DEF SetSecret, Edit, To, CtlInv, CtlTypeOK, MuInv, RestInv
    <3>6. SearchInv'
      BY <2>10 DEF SetSecret, Edit, To, CtlInv, CtlTypeOK, SearchInv
    <3>7. CurrentInv'
      <4>1. Rereading' /\ \A q \in Restarters : Pending(q)' => Pending(q) /\ restart'[q].conf = restart[q].conf
        BY <3>1
      <4>2. QED
        BY <2>10, <4>1 DEF SetSecret, CtlInv, CurrentInv
    <3>8. GaveUpInv'
      BY <2>10 DEF SetSecret, Edit, To, CtlInv, CtlTypeOK, MuInv, GaveUpInv
    <3>9. QED
      BY <3>2, <3>3, <3>4, <3>5, <3>6, <3>7, <3>8 DEF CtlInv
  <2>11. ASSUME NEW r \in Restarters, ReadConfig(r) PROVE CtlInv'
    <3>1. CtlTypeOK'
      BY <2>11 DEF ReadConfig, CtlInv, CtlTypeOK
    <3>2. MuInv'
      BY <2>11 DEF ReadConfig, CtlInv, CtlTypeOK, MuInv
    <3>3. RoomInv'
      BY ZenonT(30), <2>11 DEF ReadConfig, CtlInv, CtlTypeOK, RoomInv, ToBuild
    <3>4. RestInv'
      BY <2>11 DEF ReadConfig, CtlInv, CtlTypeOK, MuInv, RestInv
    <3>5. SearchInv'
      BY <2>11 DEF ReadConfig, CtlInv, CtlTypeOK, SearchInv
    <3>6. CurrentInv'
      BY <2>11 DEF ReadConfig, CtlInv, CtlTypeOK, MuInv, CurrentInv
    <3>7. GaveUpInv'
      BY <2>11 DEF ReadConfig, CtlInv, CtlTypeOK, MuInv, GaveUpInv
    <3>8. QED
      BY <3>1, <3>2, <3>3, <3>4, <3>5, <3>6, <3>7 DEF CtlInv
  <2>12. ASSUME NEW r \in Restarters, LockControl(r) PROVE CtlInv'
    <3>1. /\ restart' \in RestartType /\ \A q \in Restarters : q # r => restart'[q] = restart[q]
          /\ restart[r].at = "lock" /\ restart'[r].at = (IF plane = NoPlane THEN "build" ELSE "close") /\ restart'[r].conf = restart[r].conf
      BY <2>12, <2>1 DEF LockControl, CtlInv, CtlTypeOK
    <3>2. CtlTypeOK'
      <4>1. cancelled \subseteq Planes /\ plane \in Planes \cup {NoPlane}
        BY DEF CtlInv, CtlTypeOK
      <4>2. cancelled' \subseteq Planes
        BY <2>12, <4>1 DEF LockControl
      <4>3. QED
        BY <2>12, <3>1, <4>2 DEF LockControl, CtlInv, CtlTypeOK
    <3>3. MuInv'
      <4>1. ctlMu = "free" /\ ctlMu' = r /\ \A q \in Restarters : ~ Inside(q)
        BY <2>12 DEF LockControl, CtlInv, MuInv
      <4>2. restart'["exit"].at # "idle" => restart["exit"].at # "idle"
        BY <3>1
      <4>3. UNCHANGED <<plane, planes, ctlClosing, clientVars>>
        BY <2>12 DEF LockControl
      <4>4. QED
        BY <3>1, <4>1, <4>2, <4>3 DEF CtlInv, MuInv
    <3>4. RoomInv'
      <4>1. ToBuild' = ToBuild
        BY <3>1, <2>5 DEF LockControl
      <4>2. QED
        BY <2>12, <3>1, <4>1 DEF CtlInv, RoomInv, LockControl
    <3>5. RestInv'
      BY <2>12 DEF LockControl, To, CtlInv, CtlTypeOK, MuInv, RestInv
    <3>6. SearchInv'
      BY <2>12 DEF LockControl, To, CtlInv, CtlTypeOK, SearchInv
    <3>7. CurrentInv'
      BY <2>12 DEF LockControl, To, CtlInv, CtlTypeOK, MuInv, CurrentInv
    <3>8. GaveUpInv'
      BY <2>12 DEF LockControl, To, CtlInv, CtlTypeOK, MuInv, GaveUpInv
    <3>9. QED
      BY <3>2, <3>3, <3>4, <3>5, <3>6, <3>7, <3>8 DEF CtlInv
  <2>13. ASSUME NEW r \in Restarters, CloseClient(r) PROVE CtlInv'
    <3>1. /\ restart' \in RestartType /\ \A q \in Restarters : q # r => restart'[q] = restart[q]
          /\ restart[r].at = "close" /\ restart'[r].at \in {"close", "join"} /\ restart'[r].conf = restart[r].conf
      BY <2>13, <2>1 DEF CloseClient, CtlInv, CtlTypeOK
    <3>2. CtlTypeOK'
      <4>1. plane \in Planes /\ closedClients' \in {closedClients, closedClients \cup {plane}}
        BY <2>13, <3>1 DEF CloseClient, CtlInv, CtlTypeOK, MuInv
      <4>2. QED
        BY <2>13, <3>1, <4>1 DEF CloseClient, CtlInv, CtlTypeOK
    <3>3. MuInv'
      BY <2>13 DEF CloseClient, To, CtlInv, CtlTypeOK, MuInv
    <3>4. RoomInv'
      <4>1. ToBuild' = ToBuild
        BY <3>1, <2>5 DEF CloseClient
      <4>2. QED
        BY <2>13, <3>1, <4>1 DEF CtlInv, RoomInv, CloseClient
    <3>5. RestInv'
      BY <2>13 DEF CloseClient, To, CtlInv, CtlTypeOK, MuInv, RestInv
    <3>6. SearchInv'
      BY <2>13 DEF CloseClient, To, CtlInv, CtlTypeOK, SearchInv
    <3>7. CurrentInv'
      BY <2>13 DEF CloseClient, To, CtlInv, CtlTypeOK, MuInv, CurrentInv
    <3>8. GaveUpInv'
      BY <2>13 DEF CloseClient, To, CtlInv, CtlTypeOK, MuInv, GaveUpInv
    <3>9. QED
      BY <3>2, <3>3, <3>4, <3>5, <3>6, <3>7, <3>8 DEF CtlInv
  <2>14. ASSUME NEW r \in Restarters, JoinPlane(r) PROVE CtlInv'
    <3>1. /\ restart' \in RestartType /\ \A q \in Restarters : q # r => restart'[q] = restart[q]
          /\ restart[r].at = "join" /\ restart'[r].at = "build" /\ restart'[r].conf = restart[r].conf
      BY <2>14, <2>1 DEF JoinPlane, CtlInv, CtlTypeOK
    <3>2. CtlTypeOK'
      BY <2>14, <3>1 DEF JoinPlane, CtlInv, CtlTypeOK
    <3>3. MuInv'
      BY <2>14 DEF JoinPlane, To, CtlInv, CtlTypeOK, MuInv
    <3>4. RoomInv'
      <4>1. ToBuild' = ToBuild
        BY <3>1, <2>5 DEF JoinPlane
      <4>2. QED
        BY <2>14, <3>1, <4>1 DEF CtlInv, RoomInv, JoinPlane
    <3>5. RestInv'
      <4>1. plane' = NoPlane /\ planes \in Nat /\ Joinable(plane) /\ plane \in closedClients
            /\ refresh[plane] \notin {"waiting", "renewing"}
        BY <2>14 DEF JoinPlane, CtlInv, CtlTypeOK, MuInv
      <4>2. ASSUME NEW g \in Planes, g = plane
            PROVE  /\ signIn[g] \in {"none", "in", "gaveUp", "over"}
                   /\ refresh[g] \in {"none", "starting", "ended"}
                   /\ g \in closedClients /\ g \notin watching
                   /\ \A d \in Searches : search[d].in = g => ~ Active(d)
        BY <4>1, <4>2 DEF CtlInv, CtlTypeOK
      <4>3. QED
        BY <2>14, <4>1, <4>2 DEF JoinPlane, CtlInv, RestInv
    <3>6. SearchInv'
      BY <2>14 DEF JoinPlane, To, CtlInv, CtlTypeOK, SearchInv
    <3>7. CurrentInv'
      BY <2>14 DEF JoinPlane, To, CtlInv, CtlTypeOK, MuInv, CurrentInv
    <3>8. GaveUpInv'
      BY <2>14 DEF JoinPlane, To, CtlInv, CtlTypeOK, MuInv, GaveUpInv
    <3>9. QED
      BY <3>2, <3>3, <3>4, <3>5, <3>6, <3>7, <3>8 DEF CtlInv
  <2>15. ASSUME NEW r \in Restarters, BuildPlane(r) PROVE CtlInv'
    <3>1. /\ restart' \in RestartType /\ \A q \in Restarters : q # r => restart'[q] = restart[q]
          /\ restart[r].at = "build" /\ restart'[r].at = "idle" /\ plane = NoPlane
      BY <2>15 DEF BuildPlane, CtlInv, CtlTypeOK, MuInv
    <3>2. IF r = "exit" \/ ctlClosing \/ restart[r].conf.host = Blank
            THEN UNCHANGED <<plane, planes, madeFrom, signIn, watching>>
            ELSE /\ planes' = planes + 1 /\ plane' = planes' /\ planes' \in Planes
                 /\ madeFrom' = [madeFrom EXCEPT ![planes'] = restart[r].conf]
                 /\ signIn' = [signIn EXCEPT ![planes'] = "password"]
                 /\ watching' \in {watching, watching \cup {planes'}}
      <4>1. r # "exit" => planes + 1 <= MaxPlanes
        <5>1. r # "exit" => Cardinality(ToBuild') = Cardinality(ToBuild) - 1
          BY <2>4, <3>1
        <5>2. r # "exit" => IsFiniteSet(ToBuild') /\ Cardinality(ToBuild') \in Nat
          BY <2>4, <3>1, FS_CardinalityType
        <5>3. QED
          BY <2>6, <5>1, <5>2 DEF CtlInv, RoomInv, CtlTypeOK
      <4>2. planes \in Nat /\ MaxPlanes \in Nat
        BY DEF CtlInv, CtlTypeOK
      <4>3. QED
        BY <2>15, <4>1, <4>2 DEF BuildPlane
    <3>3. UNCHANGED <<ctlConf, password, excused, ctlClosing, cancelled, closedClients, heldToken,
                      refresh, searchVars, ctlLeft>> /\ ctlMu' = "free"
          /\ restart'[r] = [at |-> "idle", conf |-> NoConf]
      BY <2>15 DEF BuildPlane, CtlInv, CtlTypeOK
    <3>4. CtlTypeOK'
      <4>1. plane' \in Planes \cup {NoPlane} /\ planes' \in 0 .. MaxPlanes /\ watching' \subseteq Planes
        <5>1. plane \in Planes \cup {NoPlane} /\ planes \in 0 .. MaxPlanes /\ watching \subseteq Planes
          BY DEF CtlInv, CtlTypeOK
        <5>2. CASE r = "exit" \/ ctlClosing \/ restart[r].conf.host = Blank
          BY <3>2, <5>1, <5>2
        <5>3. CASE ~ (r = "exit" \/ ctlClosing \/ restart[r].conf.host = Blank)
          <6>1. planes' \in Planes /\ plane' = planes' /\ watching' \in {watching, watching \cup {planes'}}
            BY <3>2, <5>3
          <6>2. QED
            BY <5>1, <6>1
        <5>4. QED
          BY <5>2, <5>3
      <4>2. /\ madeFrom' \in [Planes -> Configs \cup {NoConf}]
            /\ signIn' \in [Planes -> {"none", "password", "attempt", "start", "backoff", "in", "gaveUp", "over"}]
        <5>1. restart[r].conf \in Configs \cup {NoConf} /\ madeFrom \in [Planes -> Configs \cup {NoConf}]
          BY DEF CtlInv, CtlTypeOK
        <5>2. signIn \in [Planes -> {"none", "password", "attempt", "start", "backoff", "in", "gaveUp", "over"}]
          BY DEF CtlInv, CtlTypeOK
        <5>3. QED
          BY <3>2, <5>1, <5>2
      <4>3. ctlMu' \in Restarters \cup {"free"}
        BY <3>3
      <4>4. QED
        BY <3>1, <3>3, <4>1, <4>2, <4>3 DEF CtlInv, CtlTypeOK
    <3>5. MuInv'
      BY <3>1, <3>2, <3>3 DEF CtlInv, MuInv
    <3>6. RoomInv'
      <4>1. CASE r = "exit"
        BY <2>5, <3>1, <3>2, <3>3, <4>1 DEF CtlInv, RoomInv
      <4>2. CASE r # "exit"
        <5>1. IsFiniteSet(ToBuild') /\ Cardinality(ToBuild') = Cardinality(ToBuild) - 1
          BY <2>4, <3>1, <4>2
        <5>2. planes' <= planes + 1 /\ planes' \in Nat /\ planes \in Nat
          BY <3>2 DEF CtlInv, CtlTypeOK
        <5>3. QED
          BY <2>6, <3>3, <5>1, <5>2 DEF CtlInv, RoomInv, CtlTypeOK
      <4>3. QED
        BY <4>1, <4>2
    <3>7. RestInv'
      BY SMTT(30), <3>1, <3>2, <3>3 DEF CtlInv, CtlTypeOK, RestInv
    <3>8. SearchInv'
      BY <3>3 DEF CtlInv, SearchInv
    <3>9. CurrentInv'
      <4> SUFFICES ASSUME ~ ctlClosing', ~ excused' PROVE CurrentInv'
        BY DEF CurrentInv
      <4>1. r # "exit" /\ ~ ctlClosing /\ ~ excused
        BY <3>1, <3>3 DEF CtlInv, MuInv
      <4>2. \A q \in Restarters : Pending(q)' => q # r /\ Pending(q) /\ restart'[q].conf = restart[q].conf
        BY <3>1
      <4>3. CASE Rereading
        <5>1. Rereading'
          BY <3>1, <4>3
        <5>2. QED
          BY <3>3, <4>1, <4>2, <5>1 DEF CtlInv, CurrentInv
      <4>4. CASE ~ Rereading
        <5>1. restart[r].conf = ctlConf /\ \A q \in Restarters : q # r => restart[q].at = "idle"
          BY <3>1, <4>1, <4>4 DEF CtlInv, CtlTypeOK, MuInv, CurrentInv
        <5>2. Settled'
          BY <3>1, <5>1
        <5>3. madeFrom \in [Planes -> Configs \cup {NoConf}]
          BY DEF CtlInv, CtlTypeOK
        <5>4. Current'
          BY <3>1, <3>2, <3>3, <4>1, <5>1, <5>3
        <5>5. QED
          BY <4>2, <5>2, <5>4, <3>1, <5>1 DEF CurrentInv
      <4>5. QED
        BY <4>3, <4>4
    <3>10. GaveUpInv'
      BY <3>1, <3>2, <3>3 DEF CtlInv, CtlTypeOK, MuInv, GaveUpInv
    <3>11. QED
      BY <3>4, <3>5, <3>6, <3>7, <3>8, <3>9, <3>10 DEF CtlInv
  <2>16. ASSUME CtlTeardown PROVE CtlInv'
    <3>1. /\ restart' \in RestartType /\ \A q \in Restarters : q # "exit" => restart'[q] = restart[q]
          /\ restart'["exit"].at = "lock" /\ restart'["exit"].conf = restart["exit"].conf
      BY <2>16, <2>1 DEF CtlTeardown, CtlInv, CtlTypeOK
    <3>2. CtlTypeOK'
      BY <2>16, <3>1 DEF CtlTeardown, CtlInv, CtlTypeOK
    <3>3. MuInv'
      BY <2>16 DEF CtlTeardown, To, CtlInv, CtlTypeOK, MuInv
    <3>4. RoomInv'
      <4>1. ToBuild' = ToBuild
        BY <3>1, <2>5 DEF CtlTeardown
      <4>2. QED
        BY <2>16, <3>1, <4>1 DEF CtlInv, RoomInv, CtlTeardown
    <3>5. RestInv'
      BY <2>16 DEF CtlTeardown, To, CtlInv, CtlTypeOK, MuInv, RestInv
    <3>6. SearchInv'
      BY <2>16 DEF CtlTeardown, To, CtlInv, CtlTypeOK, SearchInv
    <3>7. CurrentInv'
      BY <2>16 DEF CtlTeardown, To, CtlInv, CtlTypeOK, MuInv, CurrentInv
    <3>8. GaveUpInv'
      BY <2>16 DEF CtlTeardown, To, CtlInv, CtlTypeOK, MuInv, GaveUpInv
    <3>9. QED
      BY <3>2, <3>3, <3>4, <3>5, <3>6, <3>7, <3>8 DEF CtlInv
  <2>17. ASSUME NEW g \in Planes, ReadPassword(g) PROVE CtlInv'
    <3>1. CtlTypeOK'
      BY <2>17 DEF ReadPassword, CtlInv, CtlTypeOK
    <3>2. MuInv'
      BY <2>17 DEF ReadPassword, CtlInv, CtlTypeOK, MuInv
    <3>3. RoomInv'
      BY <2>17 DEF ReadPassword, CtlInv, CtlTypeOK, RoomInv, ToBuild
    <3>4. RestInv'
      BY <2>17 DEF ReadPassword, CtlInv, CtlTypeOK, MuInv, RestInv
    <3>5. SearchInv'
      BY <2>17 DEF ReadPassword, CtlInv, CtlTypeOK, SearchInv
    <3>6. CurrentInv'
      BY <2>17 DEF ReadPassword, CtlInv, CtlTypeOK, MuInv, CurrentInv
    <3>7. GaveUpInv'
      BY <2>17 DEF ReadPassword, CtlInv, CtlTypeOK, MuInv, GaveUpInv
    <3>8. QED
      BY <3>1, <3>2, <3>3, <3>4, <3>5, <3>6, <3>7 DEF CtlInv
  <2>18. ASSUME NEW g \in Planes, SignInAnswers(g) PROVE CtlInv'
    <3>1. CtlTypeOK'
      BY ZenonT(30), <2>18 DEF SignInAnswers, CtlInv, CtlTypeOK
    <3>2. MuInv'
      BY <2>18 DEF SignInAnswers, CtlInv, CtlTypeOK, MuInv
    <3>3. RoomInv'
      BY <2>18 DEF SignInAnswers, CtlInv, CtlTypeOK, RoomInv, ToBuild
    <3>4. RestInv'
      BY SMTT(30), <2>18 DEF SignInAnswers, CtlInv, CtlTypeOK, MuInv, RestInv
    <3>5. SearchInv'
      BY <2>18 DEF SignInAnswers, CtlInv, CtlTypeOK, SearchInv
    <3>6. CurrentInv'
      BY <2>18 DEF SignInAnswers, CtlInv, CtlTypeOK, MuInv, CurrentInv
    <3>7. GaveUpInv'
      BY <2>18 DEF SignInAnswers, CtlInv, CtlTypeOK, MuInv, GaveUpInv
    <3>8. QED
      BY <3>1, <3>2, <3>3, <3>4, <3>5, <3>6, <3>7 DEF CtlInv
  <2>19. ASSUME NEW g \in Planes, StartRefresh(g) PROVE CtlInv'
    <3>1. CtlTypeOK'
      BY <2>19 DEF StartRefresh, CtlInv, CtlTypeOK
    <3>2. MuInv'
      BY <2>19 DEF StartRefresh, CtlInv, CtlTypeOK, MuInv
    <3>3. RoomInv'
      BY <2>19 DEF StartRefresh, CtlInv, CtlTypeOK, RoomInv, ToBuild
    <3>4. RestInv'
      BY <2>19 DEF StartRefresh, CtlInv, CtlTypeOK, MuInv, RestInv
    <3>5. SearchInv'
      BY <2>19 DEF StartRefresh, CtlInv, CtlTypeOK, SearchInv
    <3>6. CurrentInv'
      BY <2>19 DEF StartRefresh, CtlInv, CtlTypeOK, MuInv, CurrentInv
    <3>7. GaveUpInv'
      BY <2>19 DEF StartRefresh, CtlInv, CtlTypeOK, MuInv, GaveUpInv
    <3>8. QED
      BY <3>1, <3>2, <3>3, <3>4, <3>5, <3>6, <3>7 DEF CtlInv
  <2>20. ASSUME NEW g \in Planes, SignInSleeps(g) PROVE CtlInv'
    <3>1. CtlTypeOK'
      BY <2>20 DEF SignInSleeps, CtlInv, CtlTypeOK
    <3>2. MuInv'
      BY <2>20 DEF SignInSleeps, CtlInv, CtlTypeOK, MuInv
    <3>3. RoomInv'
      BY <2>20 DEF SignInSleeps, CtlInv, CtlTypeOK, RoomInv, ToBuild
    <3>4. RestInv'
      BY <2>20 DEF SignInSleeps, CtlInv, CtlTypeOK, MuInv, RestInv
    <3>5. SearchInv'
      BY <2>20 DEF SignInSleeps, CtlInv, CtlTypeOK, SearchInv
    <3>6. CurrentInv'
      BY <2>20 DEF SignInSleeps, CtlInv, CtlTypeOK, MuInv, CurrentInv
    <3>7. GaveUpInv'
      BY <2>20 DEF SignInSleeps, CtlInv, CtlTypeOK, MuInv, GaveUpInv
    <3>8. QED
      BY <3>1, <3>2, <3>3, <3>4, <3>5, <3>6, <3>7 DEF CtlInv
  <2>21. ASSUME NEW g \in Planes, RefreshSelects(g) PROVE CtlInv'
    <3>1. CtlTypeOK'
      BY SMTT(30), <2>21 DEF RefreshSelects, Spend, CtlInv, CtlTypeOK
    <3>2. MuInv'
      BY <2>21 DEF RefreshSelects, Spend, CtlInv, CtlTypeOK, MuInv
    <3>3. RoomInv'
      BY <2>21 DEF RefreshSelects, Spend, CtlInv, CtlTypeOK, RoomInv, ToBuild
    <3>4. RestInv'
      BY SMTT(30), <2>21 DEF RefreshSelects, Spend, CtlInv, CtlTypeOK, MuInv, RestInv
    <3>5. SearchInv'
      BY <2>21 DEF RefreshSelects, Spend, CtlInv, CtlTypeOK, SearchInv
    <3>6. CurrentInv'
      BY <2>21 DEF RefreshSelects, Spend, CtlInv, CtlTypeOK, MuInv, CurrentInv
    <3>7. GaveUpInv'
      BY <2>21 DEF RefreshSelects, Spend, CtlInv, CtlTypeOK, MuInv, GaveUpInv
    <3>8. QED
      BY <3>1, <3>2, <3>3, <3>4, <3>5, <3>6, <3>7 DEF CtlInv
  <2>22. ASSUME NEW g \in Planes, RefreshAnswers(g) PROVE CtlInv'
    <3>1. CtlTypeOK'
      BY SMTT(30), <2>22 DEF RefreshAnswers, CtlInv, CtlTypeOK
    <3>2. MuInv'
      BY <2>22 DEF RefreshAnswers, CtlInv, CtlTypeOK, MuInv
    <3>3. RoomInv'
      BY <2>22 DEF RefreshAnswers, CtlInv, CtlTypeOK, RoomInv, ToBuild
    <3>4. RestInv'
      BY <2>22 DEF RefreshAnswers, CtlInv, CtlTypeOK, MuInv, RestInv
    <3>5. SearchInv'
      BY <2>22 DEF RefreshAnswers, CtlInv, CtlTypeOK, SearchInv
    <3>6. CurrentInv'
      BY <2>22 DEF RefreshAnswers, CtlInv, CtlTypeOK, MuInv, CurrentInv
    <3>7. GaveUpInv'
      BY <2>22 DEF RefreshAnswers, CtlInv, CtlTypeOK, MuInv, GaveUpInv
    <3>8. QED
      BY <3>1, <3>2, <3>3, <3>4, <3>5, <3>6, <3>7 DEF CtlInv
  <2>23. ASSUME NEW g \in Planes, ForwardEnds(g) PROVE CtlInv'
    <3>1. CtlTypeOK'
      BY <2>23 DEF ForwardEnds, CtlInv, CtlTypeOK
    <3>2. MuInv'
      BY <2>23 DEF ForwardEnds, CtlInv, CtlTypeOK, MuInv
    <3>3. RoomInv'
      BY <2>23 DEF ForwardEnds, CtlInv, CtlTypeOK, RoomInv, ToBuild
    <3>4. RestInv'
      BY <2>23 DEF ForwardEnds, CtlInv, CtlTypeOK, MuInv, RestInv
    <3>5. SearchInv'
      BY <2>23 DEF ForwardEnds, CtlInv, CtlTypeOK, SearchInv
    <3>6. CurrentInv'
      BY <2>23 DEF ForwardEnds, CtlInv, CtlTypeOK, MuInv, CurrentInv
    <3>7. GaveUpInv'
      BY <2>23 DEF ForwardEnds, CtlInv, CtlTypeOK, MuInv, GaveUpInv
    <3>8. QED
      BY <3>1, <3>2, <3>3, <3>4, <3>5, <3>6, <3>7 DEF CtlInv
  <2>24. ASSUME PressStart PROVE CtlInv'
    <3>1. /\ ctlLeft' \in LeftType /\ ctlLeft.searches > 0 /\ ctlLeft'.searches = ctlLeft.searches - 1
          /\ ctlLeft'.edits = ctlLeft.edits
      BY <2>24, <2>2 DEF PressStart, CtlInv, CtlTypeOK
    <3>2. CtlTypeOK'
      BY <2>24, <3>1 DEF PressStart, CtlInv, CtlTypeOK
    <3>3. MuInv'
      BY <2>24 DEF PressStart, CtlInv, CtlTypeOK, MuInv
    <3>4. RoomInv'
      <4>1. ToBuild' = ToBuild
        BY <2>24 DEF PressStart, ToBuild
      <4>2. QED
        BY <2>24, <3>1, <4>1, <2>6 DEF CtlInv, RoomInv, CtlTypeOK, PressStart
    <3>5. RestInv'
      BY <2>24 DEF PressStart, CtlInv, CtlTypeOK, MuInv, RestInv
    <3>6. SearchInv'
      BY <2>24 DEF PressStart, CtlInv, CtlTypeOK, SearchInv
    <3>7. CurrentInv'
      BY <2>24 DEF PressStart, CtlInv, CtlTypeOK, MuInv, CurrentInv
    <3>8. GaveUpInv'
      BY <2>24 DEF PressStart, CtlInv, CtlTypeOK, MuInv, GaveUpInv
    <3>9. QED
      BY <3>2, <3>3, <3>4, <3>5, <3>6, <3>7, <3>8 DEF CtlInv
  <2>25. ASSUME MaybeDiscover PROVE CtlInv'
    <3>1. UNCHANGED <<editVars, planeVars, clientVars, watching, candidates, ctlLeft>> /\ starting /\ ~ starting'
      BY <2>25 DEF MaybeDiscover, CtlInv, CtlTypeOK
    <3>2. /\ SearchPossible => /\ searches' = searches + 1 /\ searches' \in Searches /\ discovering' = TRUE
                               /\ search' = [search EXCEPT ![searches'] = [at |-> "reset", in |-> plane]]
                               /\ plane \in Planes /\ ~ discovering
          /\ ~ SearchPossible => UNCHANGED <<discovering, search, searches>>
      BY SMTT(30), <2>25 DEF MaybeDiscover, SearchPossible, CtlInv, CtlTypeOK, RoomInv
    <3>3. searches \in Nat /\ searches' \in Nat /\ searches' <= searches + 1
      BY <3>2 DEF CtlInv, CtlTypeOK
    <3>4. ToBuild' = ToBuild
      BY <3>1, <2>5
    <3>5. MuInv' /\ RoomInv' /\ CurrentInv' /\ GaveUpInv'
      <4>1. RoomInv'
        BY <3>1, <3>3, <3>4 DEF CtlInv, CtlTypeOK, RoomInv
      <4>2. QED
        BY <3>1, <4>1 DEF CtlInv, MuInv, CurrentInv, GaveUpInv
    <3>6. CASE SearchPossible
      <4>1. CtlTypeOK'
        <5>1. search' \in [Searches -> [at : {"none", "reset", "watch", "leave", "gone"},
                                        in : Planes \cup {NoPlane}]]
          BY <3>2, <3>6 DEF CtlInv, CtlTypeOK
        <5>2. discovering' \in BOOLEAN /\ starting' \in BOOLEAN /\ searches' \in 0 .. MaxSearches
          <6>1. discovering' = TRUE /\ starting' = FALSE /\ searches' \in Searches
            BY <2>25, <3>2, <3>6 DEF MaybeDiscover
          <6>2. discovering' \in BOOLEAN /\ starting' \in BOOLEAN
            BY <6>1, Zenon
          <6>3. searches' \in 0 .. MaxSearches
            BY <6>1
          <6>4. QED
            BY <6>2, <6>3
        <5>3. QED
          BY <3>1, <5>1, <5>2 DEF CtlInv, CtlTypeOK
      <4>2. \A d \in Searches : d # searches' => search'[d] = search[d]
        BY <3>2, <3>6 DEF CtlInv, CtlTypeOK
      <4>3. search'[searches'] = [at |-> "reset", in |-> plane]
        BY <3>2, <3>6 DEF CtlInv, CtlTypeOK
      <4>4. RestInv'
        BY <3>1, <3>2, <3>6, <4>2, <4>3 DEF CtlInv, RestInv
      <4>5. SearchInv'
        BY <3>1, <3>2, <3>3, <3>6, <4>2, <4>3 DEF CtlInv, SearchInv
      <4>6. QED
        BY <3>5, <4>1, <4>4, <4>5 DEF CtlInv
    <3>7. CASE ~ SearchPossible
      <4>1. starting' \in BOOLEAN
        BY <2>25 DEF MaybeDiscover
      <4>2. CtlTypeOK' /\ RestInv' /\ SearchInv'
        BY <3>1, <3>2, <3>7, <4>1 DEF CtlInv, CtlTypeOK, RestInv, SearchInv
      <4>3. QED
        BY <3>5, <4>2 DEF CtlInv
    <3>8. QED
      BY <3>6, <3>7
  <2>SearchMoves. ASSUME NEW d \in Searches, NEW label \in Ats,
                         search' = [search EXCEPT ![d].at = label]
                  PROVE  search' \in [Searches -> SearchTypes]
    <3>1. search \in [Searches -> SearchTypes] /\ search[d] \in SearchTypes
      BY DEF CtlInv, CtlTypeOK
    <3>2. [search[d] EXCEPT !.at = label] \in SearchTypes
      BY <3>1
    <3>3. QED
      BY <2>SearchMoves, <3>1, <3>2
  <2>26. ASSUME NEW d \in Searches, SearchResets(d) PROVE CtlInv'
    <3>1. CtlTypeOK'
      <4>1. search' \in [Searches -> SearchTypes]
        BY <2>26, <2>SearchMoves DEF SearchResets
      <4>2. QED
        BY <2>26, <4>1 DEF SearchResets, CtlInv, CtlTypeOK
    <3>2. MuInv'
      BY <2>26 DEF SearchResets, CtlInv, CtlTypeOK, MuInv
    <3>3. RoomInv'
      BY <2>26 DEF SearchResets, CtlInv, CtlTypeOK, RoomInv, ToBuild
    <3>4. RestInv'
      BY <2>26 DEF SearchResets, CtlInv, CtlTypeOK, MuInv, RestInv
    <3>5. SearchInv'
      BY <2>26 DEF SearchResets, CtlInv, CtlTypeOK, SearchInv
    <3>6. CurrentInv'
      BY <2>26 DEF SearchResets, CtlInv, CtlTypeOK, MuInv, CurrentInv
    <3>7. GaveUpInv'
      BY <2>26 DEF SearchResets, CtlInv, CtlTypeOK, MuInv, GaveUpInv
    <3>8. QED
      BY <3>1, <3>2, <3>3, <3>4, <3>5, <3>6, <3>7 DEF CtlInv
  <2>27. ASSUME NEW d \in Searches, SearchFinds(d) PROVE CtlInv'
    <3>1. CtlTypeOK'
      BY <2>27 DEF SearchFinds, CtlInv, CtlTypeOK
    <3>2. MuInv'
      BY <2>27 DEF SearchFinds, CtlInv, CtlTypeOK, MuInv
    <3>3. RoomInv'
      BY <2>27 DEF SearchFinds, CtlInv, CtlTypeOK, RoomInv, ToBuild
    <3>4. RestInv'
      BY <2>27 DEF SearchFinds, CtlInv, CtlTypeOK, MuInv, RestInv
    <3>5. SearchInv'
      BY <2>27 DEF SearchFinds, CtlInv, CtlTypeOK, SearchInv
    <3>6. CurrentInv'
      BY <2>27 DEF SearchFinds, CtlInv, CtlTypeOK, MuInv, CurrentInv
    <3>7. GaveUpInv'
      BY <2>27 DEF SearchFinds, CtlInv, CtlTypeOK, MuInv, GaveUpInv
    <3>8. QED
      BY <3>1, <3>2, <3>3, <3>4, <3>5, <3>6, <3>7 DEF CtlInv
  <2>28. ASSUME NEW d \in Searches, SearchEnds(d) PROVE CtlInv'
    <3>1. CtlTypeOK'
      <4>1. search' \in [Searches -> SearchTypes]
        BY <2>28, <2>SearchMoves DEF SearchEnds
      <4>2. QED
        BY <2>28, <4>1 DEF SearchEnds, CtlInv, CtlTypeOK
    <3>2. MuInv'
      BY <2>28 DEF SearchEnds, CtlInv, CtlTypeOK, MuInv
    <3>3. RoomInv'
      BY <2>28 DEF SearchEnds, CtlInv, CtlTypeOK, RoomInv, ToBuild
    <3>4. RestInv'
      BY <2>28 DEF SearchEnds, CtlInv, CtlTypeOK, MuInv, RestInv
    <3>5. SearchInv'
      BY <2>28 DEF SearchEnds, CtlInv, CtlTypeOK, SearchInv
    <3>6. CurrentInv'
      BY <2>28 DEF SearchEnds, CtlInv, CtlTypeOK, MuInv, CurrentInv
    <3>7. GaveUpInv'
      BY <2>28 DEF SearchEnds, CtlInv, CtlTypeOK, MuInv, GaveUpInv
    <3>8. QED
      BY <3>1, <3>2, <3>3, <3>4, <3>5, <3>6, <3>7 DEF CtlInv
  <2>29. ASSUME NEW d \in Searches, SearchLeaves(d) PROVE CtlInv'
    <3>1. CtlTypeOK'
      <4>1. search' \in [Searches -> SearchTypes]
        BY <2>29, <2>SearchMoves DEF SearchLeaves
      <4>2. QED
        BY <2>29, <4>1 DEF SearchLeaves, CtlInv, CtlTypeOK
    <3>2. MuInv'
      BY <2>29 DEF SearchLeaves, CtlInv, CtlTypeOK, MuInv
    <3>3. RoomInv'
      BY <2>29 DEF SearchLeaves, CtlInv, CtlTypeOK, RoomInv, ToBuild
    <3>4. RestInv'
      BY <2>29 DEF SearchLeaves, CtlInv, CtlTypeOK, MuInv, RestInv
    <3>5. SearchInv'
      BY <2>29 DEF SearchLeaves, CtlInv, CtlTypeOK, SearchInv
    <3>6. CurrentInv'
      BY <2>29 DEF SearchLeaves, CtlInv, CtlTypeOK, MuInv, CurrentInv
    <3>7. GaveUpInv'
      BY <2>29 DEF SearchLeaves, CtlInv, CtlTypeOK, MuInv, GaveUpInv
    <3>8. QED
      BY <3>1, <3>2, <3>3, <3>4, <3>5, <3>6, <3>7 DEF CtlInv
  <2>30. ASSUME UNCHANGED controlVars PROVE CtlInv'
    <3>1. CtlTypeOK'
      BY <2>30 DEF controlVars, CtlInv, CtlTypeOK
    <3>2. MuInv'
      BY <2>30 DEF controlVars, CtlInv, CtlTypeOK, MuInv
    <3>3. RoomInv'
      BY <2>30 DEF controlVars, CtlInv, CtlTypeOK, RoomInv, ToBuild
    <3>4. RestInv'
      BY <2>30 DEF controlVars, CtlInv, CtlTypeOK, MuInv, RestInv
    <3>5. SearchInv'
      BY <2>30 DEF controlVars, CtlInv, CtlTypeOK, SearchInv
    <3>6. CurrentInv'
      BY <2>30 DEF controlVars, CtlInv, CtlTypeOK, MuInv, CurrentInv
    <3>7. GaveUpInv'
      BY <2>30 DEF controlVars, CtlInv, CtlTypeOK, MuInv, GaveUpInv
    <3>8. QED
      BY <3>1, <3>2, <3>3, <3>4, <3>5, <3>6, <3>7 DEF CtlInv
  <2>31. QED
    BY <2>7, <2>8, <2>9, <2>10, <2>11, <2>12, <2>13, <2>14, <2>15, <2>16, <2>17, <2>18, <2>19,
       <2>20, <2>21, <2>22, <2>23, <2>24, <2>25, <2>26, <2>27, <2>28, <2>29, <2>30 DEF CtlNext
<1>1. ASSUME CtlInit PROVE CtlInv
  <2> USE <1>1, ControlAssumption DEF CtlInit, Planes, NoPlane, Searches, Restarters, NoConf
  <2>1. ctlLeft \in [edits : 0 .. MaxPlanes - 1, searches : 0 .. MaxSearches, renewals : Nat]
    OBVIOUS
  <2>2. CtlTypeOK
    <3>1. discovering \in BOOLEAN /\ starting \in BOOLEAN /\ {ctlClosing, excused} \subseteq BOOLEAN
      BY Zenon
    <3>2. restart \in [Restarters -> [at : {"idle", "read", "lock", "close", "join", "build"},
                                      conf : Configs \cup {NoConf}]]
      OBVIOUS
    <3>3. QED
      BY <2>1, <3>1, <3>2 DEF CtlTypeOK
  <2>3. MuInv /\ RestInv /\ SearchInv /\ GaveUpInv
    BY DEF MuInv, RestInv, SearchInv, GaveUpInv, Inside, Active, Rereading
  <2>4. RoomInv
    <3>1. ToBuild = {"launch"}
      BY DEF ToBuild
    <3>2. IsFiniteSet(ToBuild) /\ Cardinality(ToBuild) = 1
      BY <3>1, FS_Singleton
    <3>3. QED
      BY <2>1, <3>2 DEF RoomInv
  <2>5. CurrentInv
    <3>1. Rereading
      BY DEF Rereading
    <3>2. QED
      BY <3>1 DEF CurrentInv, Pending
  <2>6. QED
    BY <2>2, <2>3, <2>4, <2>5 DEF CtlInv
<1>2. QED
  BY <1>1, <1>CtlStep, PTL DEF CtlSpec

\* What a generation that is being replaced has under way is over before its
\* successor exists (stopControlPlaneLocked), and one search publishes at a time.
THEOREM OneSpeaksAtATime == CtlSpec => []OneControlPlane
<1>1. ASSUME CtlInv PROVE OneControlPlane
  <2>1. \A g \in Planes : Speaking(g) => g = plane
    BY <1>1 DEF CtlInv, RestInv, Speaking, Active
  <2>2. \A d \in Searches : search[d].at = "watch" => candidates \in {0, d}
    BY <1>1 DEF CtlInv, SearchInv
  <2>3. Cardinality({d \in Searches : search[d].at \in {"reset", "watch"}}) <= 1
    <3> DEFINE S == {d \in Searches : search[d].at \in {"reset", "watch"}}
    <3>1. S = {} \/ \E d \in Searches : S = {d}
      BY <1>1 DEF CtlInv, SearchInv, Active
    <3>2. CASE S = {}
      BY <3>2, FS_EmptySet
    <3>3. CASE \E d \in Searches : S = {d}
      <4>1. PICK d \in Searches : S = {d}
        BY <3>3
      <4>2. Cardinality(S) = 1
        BY <4>1, FS_Singleton
      <4>3. QED
        BY <4>2
    <3>4. QED
      BY <3>1, <3>2, <3>3
  <2>4. QED
    BY <2>1, <2>2, <2>3 DEF OneControlPlane
<1>2. QED
  BY <1>1, CtlInvariance, PTL

\* And when every call has returned, what runs is what is shown, and it has not given up
\* for want of a password that is stored.
THEOREM RunsWhatIsShown == CtlSpec => []ControlPlaneIsRight
<1>1. ASSUME CtlInv PROVE PlaneIsCurrent
  BY <1>1 DEF CtlInv, CurrentInv, GaveUpInv, PlaneIsCurrent, Settled, Current, Rereading, Inside
<1>2. QED
  BY <1>1, CtlInvariance, OneSpeaksAtATime, PTL DEF ControlPlaneIsRight

\* The types, and that the bounds on generations and searches are never exceeded.
THEOREM ControlTypes == CtlSpec => []CtlTypeOK
<1>1. CtlInv => CtlTypeOK
  BY DEF CtlInv
<1>2. QED
  BY <1>1, CtlInvariance, PTL

-----------------------------------------------------------------------------
(* SecondWindow.                                                           *)

\* Of the types, what the invariant needs; how many launches there can be is left open.
Runs == {"none", "made", "never", "starting", "waiting", "killing", "failed", "up", "following",
         "asleep", "over"}
HostTypes == [told : BOOLEAN, marked : BOOLEAN, stdin : {"none", "open", "closed"},
              writer : {"none", "idle", "writing", "done"}, out : Nat, piped : Nat,
              ready : BOOLEAN, done : BOOLEAN, once : {"free", "held", "done"}]
ChildTypes == [is : {"none", "booting", "up", "frozen", "leaving", "gone"},
               code : {"none", "clean", "crash", "killed"}, said : BOOLEAN]
ActTypes == [at : {"idle", "begin", "once", "writer", "grace", "kill", "killWriter", "killReap",
                   "reap", "launch", "over"}, on : Nat]

WinTypes ==
  /\ gen \in Nat
  /\ run \in [Launches -> Runs]
  /\ host \in [Launches -> HostTypes]
  /\ child \in [Launches -> ChildTypes]
  /\ act \in [Actors -> ActTypes]

\* A launch that is still to come has left no trace, one that has been superseded is over.
LaunchInv ==
  /\ \A g \in Launches : g > gen => run[g] = "none" /\ act[Follower(g)].at = "idle"
  /\ \A g \in Launches : g < gen => host[g].done

\* The process of a launch is there between its start and its reaping, and speaks only
\* then; whoever has been reaped is not started again.
ProcessInv ==
  \A g \in Launches :
    /\ run[g] \in {"none", "made", "never", "starting"} =>
         child[g].is = "none" /\ ~ child[g].said /\ ~ host[g].done
    /\ host[g].done => child[g].is \in {"none", "gone"} /\ ~ child[g].said
    /\ run[g] \in {"failed", "asleep", "over"} => host[g].done
    /\ act[Follower(g)].at # "idle" =>
         /\ run[g] = "killing" /\ act[Follower(g)].on = g
         /\ act[Follower(g)].at \in {"kill", "killWriter", "killReap"}

\* What is said of the window is said of the last launch.
SaidInv ==
  /\ \A g \in Launches : g = gen /\ process \in {"closed", "failed"} => host[g].done
  /\ process = "running" => gen \in Launches /\ run[gen] = "following"
  /\ kvs \in {0, gen}

WinInv == WinTypes /\ LaunchInv /\ ProcessInv /\ SaidInv

\* There is one window at most, that of the last launch, and what is said of it was
\* said by it (app_monitor.go: launchMonitor, runMonitor, monitorEvent): for any number
\* of launches, of callers, and any depth of queue and pipe.
THEOREM OneWindowAtATime == WinSpec => []OneWindow
\* Every step of SecondWindow keeps the launches apart.
<1>WinStep. WinInv /\ [WinNext]_winVars => WinInv'
  <2> SUFFICES ASSUME WinInv, [WinNext]_winVars PROVE WinInv'
    OBVIOUS
  <2>1. /\ \A g \in Launches : Follower(g) \in Actors /\ Follower(g) \notin Pressers \cup {Shutdown}
        /\ \A g, h \in Launches : Follower(g) = Follower(h) => g = h
        /\ Pressers \subseteq Actors /\ Shutdown \in Actors
        /\ \A a \in Actors : a \in Pressers \/ a = Shutdown \/ \E g \in Launches : a = Follower(g)
    BY WindowAssumption DEF Actors, Follower
  <2>2. Launches \subseteq Nat \ {0}
    BY DEF Launches
  <2>3. ASSUME NEW h
        PROVE  /\ CloseStdin(h) \in [Launches -> HostTypes]
               /\ \A g \in Launches : CloseStdin(h)[g].done = host[g].done
    <3>1. host \in [Launches -> HostTypes]
      BY DEF WinInv, WinTypes
    <3>2. CASE h \in Launches
      <4>1. \A m, t \in BOOLEAN : /\ [host[h] EXCEPT !.marked = m, !.told = t] \in HostTypes
                                  /\ [host[h] EXCEPT !.marked = m, !.told = t].done = host[h].done
        BY ZenonT(30), <3>1, <3>2 DEF HostTypes
      <4>2. (host[h].told \/ ClosesFirst(h)) \in BOOLEAN
        BY Zenon
      <4>3. CloseStdin(h) = [host EXCEPT ![h] = [host[h] EXCEPT !.marked = TRUE,
                                                   !.told = host[h].told \/ ClosesFirst(h)]]
        BY <3>1, <3>2, Zenon DEF CloseStdin
      <4>4. QED
        BY <3>1, <3>2, <4>1, <4>2, <4>3
    <3>3. CASE h \notin Launches
      <4>1. CloseStdin(h) = host
        BY <3>1, <3>3 DEF CloseStdin
      <4>2. QED
        BY <3>1, <4>1
    <3>4. QED
      BY <3>2, <3>3
  <2>4. ASSUME NEW h
        PROVE  /\ KillProcess(h) \in [Launches -> ChildTypes]
               /\ \A g \in Launches :
                    /\ KillProcess(h)[g].said = child[g].said
                    /\ \/ KillProcess(h)[g].is = child[g].is
                       \/ Alive(g) /\ KillProcess(h)[g].is = "gone"
    <3>1. child \in [Launches -> ChildTypes]
      BY DEF WinInv, WinTypes
    <3>2. CASE h \in Launches /\ Alive(h)
      <4> DEFINE killed == [child[h] EXCEPT !.is = "gone", !.code = "killed"]
      <4>1. killed \in ChildTypes /\ killed.said = child[h].said /\ killed.is = "gone"
        BY <3>1, <3>2 DEF ChildTypes
      <4>2. KillProcess(h) = [child EXCEPT ![h] = killed]
        BY <3>1, <3>2 DEF KillProcess
      <4> HIDE DEF killed
      <4>3. KillProcess(h) \in [Launches -> ChildTypes]
        BY <3>1, <3>2, <4>1, <4>2
      <4>4. ASSUME NEW g \in Launches
            PROVE  /\ KillProcess(h)[g].said = child[g].said
                   /\ \/ KillProcess(h)[g].is = child[g].is
                      \/ Alive(g) /\ KillProcess(h)[g].is = "gone"
        <5>1. CASE g = h
          BY <3>1, <3>2, <4>1, <4>2, <5>1
        <5>2. CASE g # h
          <6>1. KillProcess(h)[g] = child[g]
            BY <3>1, <3>2, <4>2, <5>2
          <6>2. QED
            BY <6>1, Zenon
        <5>3. QED
          BY <5>1, <5>2
      <4>5. QED
        BY <4>3, <4>4
    <3>3. CASE ~(h \in Launches /\ Alive(h))
      <4>1. KillProcess(h) = child
        <5>1. CASE h \notin Launches
          BY <3>1, <5>1 DEF KillProcess
        <5>2. CASE ~Alive(h)
          BY <5>2, Zenon DEF KillProcess
        <5>3. QED
          BY <3>3, <5>1, <5>2, Zenon
      <4>2. QED
        BY <3>1, <4>1, Zenon
    <3>4. QED
      BY <3>2, <3>3, Zenon
  <2>5. ASSUME NEW a \in Actors, NEW where \in {"writer", "grace", "kill", "killWriter", "killReap", "reap"},
               Goes(a, where)
        PROVE  /\ act' \in [Actors -> ActTypes] /\ act'[a].at = where /\ act'[a].on = act[a].on
               /\ \A b \in Actors : b # a => act'[b] = act[b]
    BY <2>5 DEF Goes, WinInv, WinTypes, ActTypes
  <2>6. \A m, n \in Nat : Min({m, n}) \in Nat
    BY DEF Min
  <2>7. ASSUME NEW c \in Pressers, OpenMonitor(c) PROVE WinInv'
    <3>1. WinTypes'
      <4>1. gen' \in Nat
        BY <2>7, <2>1, <2>2 DEF OpenMonitor, LaunchMonitor, Made, WinInv, WinTypes
      <4>2. run' \in [Launches -> Runs]
        BY <2>7, <2>1, <2>2 DEF OpenMonitor, LaunchMonitor, Made, WinInv, WinTypes, Runs
      <4>3. QED
        BY <2>7, <4>1, <4>2 DEF OpenMonitor, LaunchMonitor, Made, WinInv, WinTypes
    <3>2. LaunchInv'
      <4>1. /\ \/ gen' = gen /\ run' = run
               \/ /\ gen' = gen + 1 /\ run' = [run EXCEPT ![gen + 1] = "made"]
                  /\ gen # 0 => host[gen].done
            /\ UNCHANGED <<host, child, act>> /\ gen \in Nat
        BY <2>7 DEF OpenMonitor, LaunchMonitor, Made, Exited, WinInv, WinTypes
      <4>2. QED
        BY <4>1, <2>2 DEF WinInv, WinTypes, LaunchInv
    <3>3. ProcessInv'
      BY <2>7, <2>1, <2>2
         DEF OpenMonitor, LaunchMonitor, Made, Alive, Exited, Here, WinInv, WinTypes, HostTypes,
             ChildTypes, ActTypes, LaunchInv, ProcessInv
    <3>4. SaidInv'
      BY <2>7, <2>1, <2>2
         DEF OpenMonitor, LaunchMonitor, Made, Alive, Exited, Here, WinInv, WinTypes, HostTypes,
             ChildTypes, ActTypes, LaunchInv, ProcessInv, SaidInv
    <3>5. QED
      BY <3>1, <3>2, <3>3, <3>4 DEF WinInv
  <2>8. ASSUME DomReady PROVE WinInv'
    <3>1. WinTypes'
      <4>1. gen' \in Nat
        BY <2>8, <2>1, <2>2 DEF DomReady, LaunchMonitor, Made, WinInv, WinTypes
      <4>2. run' \in [Launches -> Runs]
        BY <2>8, <2>1, <2>2 DEF DomReady, LaunchMonitor, Made, WinInv, WinTypes, Runs
      <4>3. QED
        BY <2>8, <4>1, <4>2 DEF DomReady, LaunchMonitor, Made, WinInv, WinTypes
    <3>2. LaunchInv'
      BY <2>8, <2>1, <2>2
         DEF DomReady, LaunchMonitor, Made, Alive, Exited, Here, WinInv, WinTypes, HostTypes,
             ChildTypes, ActTypes, LaunchInv, ProcessInv
    <3>3. ProcessInv'
      BY <2>8, <2>1, <2>2
         DEF DomReady, LaunchMonitor, Made, Alive, Exited, Here, WinInv, WinTypes, HostTypes,
             ChildTypes, ActTypes, LaunchInv, ProcessInv
    <3>4. SaidInv'
      BY <2>8, <2>1, <2>2
         DEF DomReady, LaunchMonitor, Made, Alive, Exited, Here, WinInv, WinTypes, HostTypes,
             ChildTypes, ActTypes, LaunchInv, ProcessInv, SaidInv
    <3>5. QED
      BY <3>1, <3>2, <3>3, <3>4 DEF WinInv
  <2>9. ASSUME NEW c \in Pressers, RestartMonitor(c) PROVE WinInv'
    <3>1. WinTypes'
      BY <2>9, <2>1, <2>2
         DEF RestartMonitor, Alive, Exited, Here, WinInv, WinTypes, HostTypes, ChildTypes,
             ActTypes, Runs
    <3>2. LaunchInv'
      BY <2>9, <2>1, <2>2
         DEF RestartMonitor, Alive, Exited, Here, WinInv, WinTypes, HostTypes, ChildTypes,
             ActTypes, LaunchInv, ProcessInv
    <3>3. ProcessInv'
      BY <2>9, <2>1, <2>2
         DEF RestartMonitor, Alive, Exited, Here, WinInv, WinTypes, HostTypes, ChildTypes,
             ActTypes, LaunchInv, ProcessInv
    <3>4. SaidInv'
      BY <2>9, <2>1, <2>2
         DEF RestartMonitor, Alive, Exited, Here, WinInv, WinTypes, HostTypes, ChildTypes,
             ActTypes, LaunchInv, ProcessInv, SaidInv
    <3>5. QED
      BY <3>1, <3>2, <3>3, <3>4 DEF WinInv
  <2>10. ASSUME NEW c \in Pressers, RestartLaunches(c) PROVE WinInv'
    <3>1. WinTypes'
      <4>1. gen' \in Nat
        BY <2>10, <2>1, <2>2 DEF RestartLaunches, Idle, LaunchMonitor, Made, WinInv, WinTypes
      <4>2. run' \in [Launches -> Runs]
        BY <2>10, <2>1, <2>2
           DEF RestartLaunches, Idle, LaunchMonitor, Made, WinInv, WinTypes, Runs
      <4>3. act' \in [Actors -> ActTypes]
        BY <2>10, <2>1, <2>2
           DEF RestartLaunches, Idle, LaunchMonitor, Made, WinInv, WinTypes, ActTypes
      <4>4. QED
        BY <2>10, <4>1, <4>2, <4>3
           DEF RestartLaunches, Idle, LaunchMonitor, Made, WinInv, WinTypes
    <3>2. LaunchInv'
      BY <2>10, <2>1, <2>2
         DEF RestartLaunches, Idle, LaunchMonitor, Made, Alive, Exited, Here, WinInv, WinTypes,
             HostTypes, ChildTypes, ActTypes, LaunchInv, ProcessInv
    <3>3. ProcessInv'
      BY <2>10, <2>1, <2>2
         DEF RestartLaunches, Idle, LaunchMonitor, Made, Alive, Exited, Here, WinInv, WinTypes,
             HostTypes, ChildTypes, ActTypes, LaunchInv, ProcessInv
    <3>4. SaidInv'
      BY <2>10, <2>1, <2>2
         DEF RestartLaunches, Idle, LaunchMonitor, Made, Alive, Exited, Here, WinInv, WinTypes,
             HostTypes, ChildTypes, ActTypes, LaunchInv, ProcessInv, SaidInv
    <3>5. QED
      BY <3>1, <3>2, <3>3, <3>4 DEF WinInv
  <2>11. ASSUME NEW g \in Launches, GoRun(g) PROVE WinInv'
    <3>1. WinTypes'
      BY <2>11, <2>1, <2>2
         DEF GoRun, Alive, Exited, Here, WinInv, WinTypes, HostTypes, ChildTypes, ActTypes, Runs
    <3>2. LaunchInv'
      BY <2>11, <2>1, <2>2
         DEF GoRun, Alive, Exited, Here, WinInv, WinTypes, HostTypes, ChildTypes, ActTypes,
             LaunchInv, ProcessInv
    <3>3. ProcessInv'
      BY <2>11, <2>1, <2>2
         DEF GoRun, Alive, Exited, Here, WinInv, WinTypes, HostTypes, ChildTypes, ActTypes,
             LaunchInv, ProcessInv
    <3>4. SaidInv'
      BY <2>11, <2>1, <2>2
         DEF GoRun, Alive, Exited, Here, WinInv, WinTypes, HostTypes, ChildTypes, ActTypes,
             LaunchInv, ProcessInv, SaidInv
    <3>5. QED
      BY <3>1, <3>2, <3>3, <3>4 DEF WinInv
  <2>12. ASSUME NEW g \in Launches, StartFails(g) PROVE WinInv'
    <3>1. WinTypes'
      <4>1. run' \in [Launches -> Runs]
        BY <2>12, <2>1, <2>2 DEF StartFails, WinInv, WinTypes, Runs
      <4>2. host' \in [Launches -> HostTypes]
        <5>1. host \in [Launches -> HostTypes] /\ host[g] \in HostTypes
          BY <2>12 DEF StartFails, WinInv, WinTypes
        <5>2. \A t_told, t_done \in BOOLEAN : [host[g] EXCEPT !.told = t_told, !.writer = "done", !.done = t_done] \in HostTypes
          BY <2>12, <5>1 DEF StartFails, HostTypes
        <5>3. host' = [host EXCEPT ![g] = [host[g] EXCEPT !.told = TRUE, !.writer = "done", !.done = TRUE]]
          BY <2>12, <5>1 DEF StartFails
        <5>4. QED
          BY <5>1, <5>2, <5>3
      <4>3. QED
        BY <2>12, <4>1, <4>2 DEF StartFails, WinInv, WinTypes
    <3>2. LaunchInv'
      BY <2>12, <2>1, <2>2
         DEF StartFails, Alive, Exited, Here, WinInv, WinTypes, HostTypes, ChildTypes, ActTypes,
             LaunchInv, ProcessInv
    <3>3. ProcessInv'
      BY <2>12, <2>1, <2>2
         DEF StartFails, Alive, Exited, Here, WinInv, WinTypes, HostTypes, ChildTypes, ActTypes,
             LaunchInv, ProcessInv
    <3>4. SaidInv'
      BY <2>12, <2>1, <2>2
         DEF StartFails, Alive, Exited, Here, WinInv, WinTypes, HostTypes, ChildTypes, ActTypes,
             LaunchInv, ProcessInv, SaidInv
    <3>5. QED
      BY <3>1, <3>2, <3>3, <3>4 DEF WinInv
  <2>13. ASSUME NEW g \in Launches, StartSpawns(g) PROVE WinInv'
    <3>1. WinTypes'
      <4>1. run' \in [Launches -> Runs]
        BY <2>13, <2>1, <2>2 DEF StartSpawns, WinInv, WinTypes, Runs
      <4>2. host' \in [Launches -> HostTypes]
        <5>1. host \in [Launches -> HostTypes] /\ host[g] \in HostTypes
          BY <2>13 DEF StartSpawns, WinInv, WinTypes
        <5>2. [host[g] EXCEPT !.stdin = "open", !.writer = "idle"] \in HostTypes
          BY <2>13, <5>1 DEF StartSpawns, HostTypes
        <5>3. host' = [host EXCEPT ![g] = [host[g] EXCEPT !.stdin = "open", !.writer = "idle"]]
          BY <2>13, <5>1 DEF StartSpawns
        <5>4. QED
          BY <5>1, <5>2, <5>3
      <4>3. child' \in [Launches -> ChildTypes]
        BY <2>13, <2>1, <2>2 DEF StartSpawns, WinInv, WinTypes, ChildTypes
      <4>4. QED
        BY <2>13, <4>1, <4>2, <4>3 DEF StartSpawns, WinInv, WinTypes
    <3>2. LaunchInv'
      BY <2>13, <2>1, <2>2
         DEF StartSpawns, Alive, Exited, Here, WinInv, WinTypes, HostTypes, ChildTypes,
             ActTypes, LaunchInv, ProcessInv
    <3>3. ProcessInv'
      BY <2>13, <2>1, <2>2
         DEF StartSpawns, Alive, Exited, Here, WinInv, WinTypes, HostTypes, ChildTypes,
             ActTypes, LaunchInv, ProcessInv
    <3>4. SaidInv'
      BY <2>13, <2>1, <2>2
         DEF StartSpawns, Alive, Exited, Here, WinInv, WinTypes, HostTypes, ChildTypes,
             ActTypes, LaunchInv, ProcessInv, SaidInv
    <3>5. QED
      BY <3>1, <3>2, <3>3, <3>4 DEF WinInv
  <2>14. ASSUME NEW g \in Launches, StartReturns(g) PROVE WinInv'
    <3>1. WinTypes'
      <4>1. run' \in [Launches -> Runs]
        BY <2>14, <2>1, <2>2 DEF StartReturns, WinInv, WinTypes, Runs
      <4>2. act' \in [Actors -> ActTypes]
        BY <2>14, <2>1, <2>2 DEF StartReturns, WinInv, WinTypes, ActTypes
      <4>3. QED
        BY <2>14, <4>1, <4>2 DEF StartReturns, WinInv, WinTypes
    <3>2. LaunchInv'
      BY <2>14, <2>1, <2>2
         DEF StartReturns, Alive, Exited, Here, WinInv, WinTypes, HostTypes, ChildTypes,
             ActTypes, LaunchInv, ProcessInv
    <3>3. ProcessInv'
      BY <2>14, <2>1, <2>2
         DEF StartReturns, Alive, Exited, Here, WinInv, WinTypes, HostTypes, ChildTypes,
             ActTypes, LaunchInv, ProcessInv
    <3>4. SaidInv'
      BY <2>14, <2>1, <2>2
         DEF StartReturns, Alive, Exited, Here, WinInv, WinTypes, HostTypes, ChildTypes,
             ActTypes, LaunchInv, ProcessInv, SaidInv
    <3>5. QED
      BY <3>1, <3>2, <3>3, <3>4 DEF WinInv
  <2>15. ASSUME NEW g \in Launches, RunFails(g) PROVE WinInv'
    <3>1. WinTypes'
      BY <2>15, <2>1, <2>2
         DEF RunFails, Alive, Exited, Here, WinInv, WinTypes, HostTypes, ChildTypes, ActTypes,
             Runs
    <3>2. LaunchInv'
      BY <2>15, <2>1, <2>2
         DEF RunFails, Alive, Exited, Here, WinInv, WinTypes, HostTypes, ChildTypes, ActTypes,
             LaunchInv, ProcessInv
    <3>3. ProcessInv'
      BY <2>15, <2>1, <2>2
         DEF RunFails, Alive, Exited, Here, WinInv, WinTypes, HostTypes, ChildTypes, ActTypes,
             LaunchInv, ProcessInv
    <3>4. SaidInv'
      BY <2>15, <2>1, <2>2
         DEF RunFails, Alive, Exited, Here, WinInv, WinTypes, HostTypes, ChildTypes, ActTypes,
             LaunchInv, ProcessInv, SaidInv
    <3>5. QED
      BY <3>1, <3>2, <3>3, <3>4 DEF WinInv
  <2>16. ASSUME NEW g \in Launches, RunIsUp(g) PROVE WinInv'
    <3>1. WinTypes'
      BY <2>16, <2>1, <2>2
         DEF RunIsUp, Alive, Exited, Here, WinInv, WinTypes, HostTypes, ChildTypes, ActTypes,
             Runs
    <3>2. LaunchInv'
      BY <2>16, <2>1, <2>2
         DEF RunIsUp, Alive, Exited, Here, WinInv, WinTypes, HostTypes, ChildTypes, ActTypes,
             LaunchInv, ProcessInv
    <3>3. ProcessInv'
      BY <2>16, <2>1, <2>2
         DEF RunIsUp, Alive, Exited, Here, WinInv, WinTypes, HostTypes, ChildTypes, ActTypes,
             LaunchInv, ProcessInv
    <3>4. SaidInv'
      BY <2>16, <2>1, <2>2
         DEF RunIsUp, Alive, Exited, Here, WinInv, WinTypes, HostTypes, ChildTypes, ActTypes,
             LaunchInv, ProcessInv, SaidInv
    <3>5. QED
      BY <3>1, <3>2, <3>3, <3>4 DEF WinInv
  <2>17. ASSUME NEW g \in Launches, RunEnds(g) PROVE WinInv'
    <3>1. WinTypes'
      BY <2>17, <2>1, <2>2
         DEF RunEnds, Alive, Exited, Here, WinInv, WinTypes, HostTypes, ChildTypes, ActTypes,
             Runs
    <3>2. LaunchInv'
      BY <2>17, <2>1, <2>2
         DEF RunEnds, Alive, Exited, Here, WinInv, WinTypes, HostTypes, ChildTypes, ActTypes,
             LaunchInv, ProcessInv
    <3>3. ProcessInv'
      BY <2>17, <2>1, <2>2
         DEF RunEnds, Alive, Exited, Here, WinInv, WinTypes, HostTypes, ChildTypes, ActTypes,
             LaunchInv, ProcessInv
    <3>4. SaidInv'
      BY <2>17, <2>1, <2>2
         DEF RunEnds, Alive, Exited, Here, WinInv, WinTypes, HostTypes, ChildTypes, ActTypes,
             LaunchInv, ProcessInv, SaidInv
    <3>5. QED
      BY <3>1, <3>2, <3>3, <3>4 DEF WinInv
  <2>18. ASSUME NEW g \in Launches, RunRelaunches(g) PROVE WinInv'
    <3>1. WinTypes'
      BY <2>18, <2>1, <2>2
         DEF RunRelaunches, LaunchMonitor, Made, Alive, Exited, Here, WinInv, WinTypes,
             HostTypes, ChildTypes, ActTypes, Runs
    <3>2. LaunchInv'
      BY <2>18, <2>1, <2>2
         DEF RunRelaunches, LaunchMonitor, Made, Alive, Exited, Here, WinInv, WinTypes,
             HostTypes, ChildTypes, ActTypes, LaunchInv, ProcessInv
    <3>3. ProcessInv'
      BY <2>18, <2>1, <2>2
         DEF RunRelaunches, LaunchMonitor, Made, Alive, Exited, Here, WinInv, WinTypes,
             HostTypes, ChildTypes, ActTypes, LaunchInv, ProcessInv
    <3>4. SaidInv'
      BY <2>18, <2>1, <2>2
         DEF RunRelaunches, LaunchMonitor, Made, Alive, Exited, Here, WinInv, WinTypes,
             HostTypes, ChildTypes, ActTypes, LaunchInv, ProcessInv, SaidInv
    <3>5. QED
      BY <3>1, <3>2, <3>3, <3>4 DEF WinInv
  <2>19. ASSUME RelaunchWindowPasses PROVE WinInv'
    <3>1. WinTypes'
      BY <2>19, <2>1, <2>2
         DEF RelaunchWindowPasses, Alive, Exited, Here, WinInv, WinTypes, HostTypes, ChildTypes,
             ActTypes, Runs
    <3>2. LaunchInv'
      BY <2>19, <2>1, <2>2
         DEF RelaunchWindowPasses, Alive, Exited, Here, WinInv, WinTypes, HostTypes, ChildTypes,
             ActTypes, LaunchInv, ProcessInv
    <3>3. ProcessInv'
      BY <2>19, <2>1, <2>2
         DEF RelaunchWindowPasses, Alive, Exited, Here, WinInv, WinTypes, HostTypes, ChildTypes,
             ActTypes, LaunchInv, ProcessInv
    <3>4. SaidInv'
      BY <2>19, <2>1, <2>2
         DEF RelaunchWindowPasses, Alive, Exited, Here, WinInv, WinTypes, HostTypes, ChildTypes,
             ActTypes, LaunchInv, ProcessInv, SaidInv
    <3>5. QED
      BY <3>1, <3>2, <3>3, <3>4 DEF WinInv
  <2>20. ASSUME NEW g \in Launches, ReaderHears(g) PROVE WinInv'
    <3>1. WinTypes'
      <4>1. child' \in [Launches -> ChildTypes]
        <5>1. child \in [Launches -> ChildTypes] /\ child[g] \in ChildTypes
          BY <2>20 DEF ReaderHears, WinInv, WinTypes
        <5>2. \A t_said \in BOOLEAN : [child[g] EXCEPT !.said = t_said] \in ChildTypes
          BY <2>20, <5>1 DEF ReaderHears, ChildTypes
        <5>3. child' = [child EXCEPT ![g] = [child[g] EXCEPT !.said = FALSE]]
          BY <2>20, <5>1 DEF ReaderHears
        <5>4. QED
          BY <5>1, <5>2, <5>3
      <4>2. QED
        BY <2>20, <4>1 DEF ReaderHears, WinInv, WinTypes
    <3>2. LaunchInv'
      BY <2>20, <2>1, <2>2
         DEF ReaderHears, Alive, Exited, Here, WinInv, WinTypes, HostTypes, ChildTypes,
             ActTypes, LaunchInv, ProcessInv
    <3>3. ProcessInv'
      BY <2>20, <2>1, <2>2
         DEF ReaderHears, Alive, Exited, Here, WinInv, WinTypes, HostTypes, ChildTypes,
             ActTypes, LaunchInv, ProcessInv
    <3>4. SaidInv'
      <4>1. ~(g < gen) /\ ~(g > gen)
        BY <2>20 DEF ReaderHears, WinInv, LaunchInv, ProcessInv
      <4>2. g = gen
        BY <4>1, <2>2 DEF WinInv, WinTypes
      <4>3. QED
        BY <2>20, <4>2 DEF ReaderHears, WinInv, SaidInv
    <3>5. QED
      BY <3>1, <3>2, <3>3, <3>4 DEF WinInv
  <2>21. ASSUME NEW g \in Launches, ReaderEnds(g) PROVE WinInv'
    <3>1. WinTypes'
      BY <2>21, <2>1, <2>2
         DEF ReaderEnds, Alive, Exited, Here, WinInv, WinTypes, HostTypes, ChildTypes, ActTypes,
             Runs
    <3>2. LaunchInv'
      BY <2>21, <2>1, <2>2
         DEF ReaderEnds, Alive, Exited, Here, WinInv, WinTypes, HostTypes, ChildTypes, ActTypes,
             LaunchInv, ProcessInv
    <3>3. ProcessInv'
      BY <2>21, <2>1, <2>2
         DEF ReaderEnds, Alive, Exited, Here, WinInv, WinTypes, HostTypes, ChildTypes, ActTypes,
             LaunchInv, ProcessInv
    <3>4. SaidInv'
      BY <2>21, <2>1, <2>2
         DEF ReaderEnds, Alive, Exited, Here, WinInv, WinTypes, HostTypes, ChildTypes, ActTypes,
             LaunchInv, ProcessInv, SaidInv
    <3>5. QED
      BY <3>1, <3>2, <3>3, <3>4 DEF WinInv
  <2>22. ASSUME MonitorSend PROVE WinInv'
    <3>1. host' \in [Launches -> HostTypes] /\ \A h \in Launches : host'[h].done = host[h].done
      <4>1. host \in [Launches -> HostTypes]
        BY DEF WinInv, WinTypes
      <4>2. CASE gen \in Launches
        <5> DEFINE n == Min({host[gen].out + 1, QueueDepth})
        <5>1. host[gen].out + 1 \in Nat
          BY <4>1, <4>2 DEF HostTypes
        <5>2. n \in Nat
          BY <2>6, <5>1, WindowAssumption
        <5>3. host' = [host EXCEPT ![gen].out = n]
          BY <2>22, Zenon DEF MonitorSend
        <5> HIDE DEF n
        <5>4. QED
          BY <4>1, <4>2, <5>2, <5>3 DEF HostTypes
      <4>3. CASE gen \notin Launches
        <5>1. host' = host
          BY <2>22, <4>1, <4>3 DEF MonitorSend
        <5>2. QED
          BY <4>1, <5>1
      <4>4. QED
        BY <4>2, <4>3
    <3>rest. UNCHANGED <<gen, process, kvs, run, child, act>>
      BY <2>22 DEF MonitorSend
    <3>2. WinTypes'
      BY <3>1, <3>rest DEF WinInv, WinTypes
    <3>3. LaunchInv'
      BY <3>1, <3>rest DEF WinInv, LaunchInv
    <3>4. ProcessInv'
      BY <3>1, <3>rest DEF WinInv, ProcessInv
    <3>5. SaidInv'
      BY <3>1, <3>rest DEF WinInv, SaidInv
    <3>6. QED
      BY <3>2, <3>3, <3>4, <3>5 DEF WinInv
  <2>23. ASSUME NEW g \in Launches, WriterTakes(g) PROVE WinInv'
    <3>1. WinTypes'
      BY SMTT(30), <2>23, <2>1, <2>2
         DEF WriterTakes, hostVarsOnly, Alive, Exited, Here, WinInv, WinTypes, HostTypes,
             ChildTypes, ActTypes, Runs
    <3>2. LaunchInv'
      BY <2>23, <2>1, <2>2
         DEF WriterTakes, hostVarsOnly, Alive, Exited, Here, WinInv, WinTypes, HostTypes,
             ChildTypes, ActTypes, LaunchInv, ProcessInv
    <3>3. ProcessInv'
      BY <2>23, <2>1, <2>2
         DEF WriterTakes, hostVarsOnly, Alive, Exited, Here, WinInv, WinTypes, HostTypes,
             ChildTypes, ActTypes, LaunchInv, ProcessInv
    <3>4. SaidInv'
      BY <2>23, <2>1, <2>2
         DEF WriterTakes, hostVarsOnly, Alive, Exited, Here, WinInv, WinTypes, HostTypes,
             ChildTypes, ActTypes, LaunchInv, ProcessInv, SaidInv
    <3>5. QED
      BY <3>1, <3>2, <3>3, <3>4 DEF WinInv
  <2>24. ASSUME NEW g \in Launches, WriterWrites(g) PROVE WinInv'
    <3>1. host' \in [Launches -> HostTypes] /\ \A h \in Launches : host'[h].done = host[h].done
      <4>1. host \in [Launches -> HostTypes] /\ host[g].piped + 1 \in Nat
        BY DEF WinInv, WinTypes, HostTypes
      <4>2. CASE host' = [host EXCEPT ![g].writer = "idle", ![g].piped = host[g].piped + 1]
        <5> DEFINE n == host[g].piped + 1
        <5>1. host' = [host EXCEPT ![g].writer = "idle", ![g].piped = n]
          BY <4>2, Zenon
        <5>2. n \in Nat
          BY <4>1
        <5> HIDE DEF n
        <5> DEFINE r == [host[g] EXCEPT !.writer = "idle", !.piped = n]
        <5>3. r \in HostTypes /\ r.done = host[g].done
          BY <4>1, <5>2 DEF HostTypes
        <5>4. host' = [host EXCEPT ![g] = r]
          BY <4>1, <5>1
        <5> HIDE DEF r
        <5>5. QED
          BY <4>1, <5>3, <5>4
      <4>3. CASE host' = [host EXCEPT ![g].writer = "done"]
        BY <4>1, <4>3 DEF HostTypes
      <4>4. \/ host' = [host EXCEPT ![g].writer = "idle", ![g].piped = host[g].piped + 1]
            \/ host' = [host EXCEPT ![g].writer = "done"]
        BY <2>24, Zenon DEF WriterWrites
      <4>5. QED
        BY <4>2, <4>3, <4>4, Zenon
    <3>rest. UNCHANGED hostVarsOnly
      BY <2>24 DEF WriterWrites
    <3>2. WinTypes'
      BY <3>1, <3>rest DEF hostVarsOnly, WinInv, WinTypes
    <3>3. LaunchInv'
      BY <3>1, <3>rest DEF hostVarsOnly, WinInv, LaunchInv
    <3>4. ProcessInv'
      BY <3>1, <3>rest DEF hostVarsOnly, WinInv, ProcessInv
    <3>5. SaidInv'
      BY <3>1, <3>rest DEF hostVarsOnly, WinInv, SaidInv
    <3>6. QED
      BY <3>2, <3>3, <3>4, <3>5 DEF WinInv
  <2>25. ASSUME NEW g \in Launches, WriterStops(g) PROVE WinInv'
    <3>1. WinTypes'
      <4>1. host' \in [Launches -> HostTypes]
        <5>1. host \in [Launches -> HostTypes] /\ host[g] \in HostTypes
          BY <2>25 DEF WriterStops, hostVarsOnly, WinInv, WinTypes
        <5>2. [host[g] EXCEPT !.writer = "done"] \in HostTypes
          BY <2>25, <5>1 DEF WriterStops, hostVarsOnly, HostTypes
        <5>3. host' = [host EXCEPT ![g] = [host[g] EXCEPT !.writer = "done"]]
          BY <2>25, <5>1 DEF WriterStops, hostVarsOnly
        <5>4. QED
          BY <5>1, <5>2, <5>3
      <4>2. QED
        BY <2>25, <4>1 DEF WriterStops, hostVarsOnly, WinInv, WinTypes
    <3>2. LaunchInv'
      BY <2>25, <2>1, <2>2
         DEF WriterStops, hostVarsOnly, Alive, Exited, Here, WinInv, WinTypes, HostTypes,
             ChildTypes, ActTypes, LaunchInv, ProcessInv
    <3>3. ProcessInv'
      BY <2>25, <2>1, <2>2
         DEF WriterStops, hostVarsOnly, Alive, Exited, Here, WinInv, WinTypes, HostTypes,
             ChildTypes, ActTypes, LaunchInv, ProcessInv
    <3>4. SaidInv'
      BY <2>25, <2>1, <2>2
         DEF WriterStops, hostVarsOnly, Alive, Exited, Here, WinInv, WinTypes, HostTypes,
             ChildTypes, ActTypes, LaunchInv, ProcessInv, SaidInv
    <3>5. QED
      BY <3>1, <3>2, <3>3, <3>4 DEF WinInv
  <2>26. ASSUME NEW a \in Actors, StopEnters(a) PROVE WinInv'
    <3>1. /\ host' \in [Launches -> HostTypes] /\ \A g \in Launches : host'[g].done = host[g].done
          /\ child' \in [Launches -> ChildTypes]
          /\ \A g \in Launches : /\ child'[g].said = child[g].said
                                 /\ child'[g].is = child[g].is \/ (Alive(g) /\ child'[g].is = "gone")
          /\ act' \in [Actors -> ActTypes] /\ act'[a].on = act[a].on
          /\ \A b \in Actors : b # a => act'[b] = act[b]
      <4>1. /\ host \in [Launches -> HostTypes] /\ child \in [Launches -> ChildTypes]
            /\ act \in [Actors -> ActTypes]
        BY DEF WinInv, WinTypes
      <4>2. host' \in [Launches -> HostTypes] /\ \A g \in Launches : host'[g].done = host[g].done
        <5>1. CASE host' = [CloseStdin(act[a].on) EXCEPT ![act[a].on].once = "held"]
          <6> DEFINE H == CloseStdin(act[a].on)
          <6>1. H \in [Launches -> HostTypes] /\ \A g \in Launches : H[g].done = host[g].done
            BY <2>3
          <6>2. host' = [H EXCEPT ![act[a].on].once = "held"]
            BY <5>1
          <6> HIDE DEF H
          <6>3. QED
            <7>1. CASE act[a].on \in Launches
              BY <6>1, <6>2, <7>1 DEF HostTypes
            <7>2. CASE act[a].on \notin Launches
              <8>1. host' = H
                BY <6>1, <6>2, <7>2
              <8>2. QED
                BY <6>1, <6>2, <8>1
            <7>3. QED
              BY <7>1, <7>2
        <5>2. CASE UNCHANGED host
          BY <4>1, <5>2
        <5>3. QED
          BY <2>26, <5>1, <5>2 DEF StopEnters
      <4>3. child' \in [Launches -> ChildTypes]
            /\ \A g \in Launches : /\ child'[g].said = child[g].said
                                   /\ child'[g].is = child[g].is \/ (Alive(g) /\ child'[g].is = "gone")
        BY <2>26, <4>1 DEF StopEnters
      <4>4. act' \in [Actors -> ActTypes] /\ act'[a].on = act[a].on
            /\ \A b \in Actors : b # a => act'[b] = act[b]
        BY <2>26, <2>5 DEF StopEnters
      <4>5. QED
        BY <4>2, <4>3, <4>4, Zenon
    <3>rest. /\ act[a].at # "idle" /\ UNCHANGED restOfStop /\ UNCHANGED run
           /\ \A g \in Launches : a = Follower(g) => act'[a].at \in {"kill", "killWriter", "killReap"}
      BY <2>26, <2>5 DEF StopEnters, At, WinInv, WinTypes, ProcessInv
    <3>2. WinTypes'
      BY <3>1, <3>rest DEF restOfStop, WinInv, WinTypes
    <3>3. LaunchInv'
      BY <3>1, <3>rest, <2>1, <2>2 DEF restOfStop, WinInv, WinTypes, LaunchInv, ProcessInv
    <3>4. ProcessInv'
      BY <3>1, <3>rest, <2>1 DEF Alive, restOfStop, WinInv, ProcessInv
    <3>5. SaidInv'
      BY <3>1, <3>rest DEF restOfStop, WinInv, SaidInv
    <3>6. QED
      BY <3>2, <3>3, <3>4, <3>5 DEF WinInv
  <2>27. ASSUME NEW a \in Actors, WriterIsDone(a) PROVE WinInv'
    <3>1. /\ host' \in [Launches -> HostTypes] /\ \A g \in Launches : host'[g].done = host[g].done
          /\ child' \in [Launches -> ChildTypes]
          /\ \A g \in Launches : /\ child'[g].said = child[g].said
                                 /\ child'[g].is = child[g].is \/ (Alive(g) /\ child'[g].is = "gone")
          /\ act' \in [Actors -> ActTypes] /\ act'[a].on = act[a].on
          /\ \A b \in Actors : b # a => act'[b] = act[b]
      <4>1. /\ host \in [Launches -> HostTypes] /\ child \in [Launches -> ChildTypes]
            /\ act \in [Actors -> ActTypes]
        BY DEF WinInv, WinTypes
      <4>2. host' \in [Launches -> HostTypes] /\ \A g \in Launches : host'[g].done = host[g].done
        <5>1. host' = [host EXCEPT ![act[a].on].stdin = "closed"]
          BY <2>27, Zenon DEF WriterIsDone
        <5>2. QED
          <6>1. CASE act[a].on \in Launches
            BY <4>1, <5>1, <6>1 DEF HostTypes
          <6>2. CASE act[a].on \notin Launches
            <7>1. host' = host
              BY <4>1, <5>1, <6>2
            <7>2. QED
              BY <4>1, <5>1, <7>1
          <6>3. QED
            BY <6>1, <6>2
      <4>3. child' \in [Launches -> ChildTypes]
            /\ \A g \in Launches : /\ child'[g].said = child[g].said
                                   /\ child'[g].is = child[g].is \/ (Alive(g) /\ child'[g].is = "gone")
        <5>1. CASE UNCHANGED child
          BY <4>1, <5>1, Zenon
        <5>2. CASE child' = KillProcess(act[a].on)
          BY <5>2, <2>4, Zenon
        <5>3. QED
          BY <2>27, <5>1, <5>2, Zenon DEF WriterIsDone
      <4>4. act' \in [Actors -> ActTypes] /\ act'[a].on = act[a].on
            /\ \A b \in Actors : b # a => act'[b] = act[b]
        BY <2>27, <2>5 DEF WriterIsDone
      <4>5. QED
        BY <4>2, <4>3, <4>4, Zenon
    <3>rest. /\ act[a].at # "idle" /\ UNCHANGED restOfStop /\ UNCHANGED run
           /\ \A g \in Launches : a = Follower(g) => act'[a].at \in {"kill", "killWriter", "killReap"}
      BY <2>27, <2>5 DEF WriterIsDone, At, WinInv, WinTypes, ProcessInv
    <3>2. WinTypes'
      BY <3>1, <3>rest DEF restOfStop, WinInv, WinTypes
    <3>3. LaunchInv'
      BY <3>1, <3>rest, <2>1, <2>2 DEF restOfStop, WinInv, WinTypes, LaunchInv, ProcessInv
    <3>4. ProcessInv'
      BY <3>1, <3>rest, <2>1 DEF Alive, restOfStop, WinInv, ProcessInv
    <3>5. SaidInv'
      BY <3>1, <3>rest DEF restOfStop, WinInv, SaidInv
    <3>6. QED
      BY <3>2, <3>3, <3>4, <3>5 DEF WinInv
  <2>28. ASSUME NEW a \in Actors, GraceEnds(a) PROVE WinInv'
    <3>1. /\ host' \in [Launches -> HostTypes] /\ \A g \in Launches : host'[g].done = host[g].done
          /\ child' \in [Launches -> ChildTypes]
          /\ \A g \in Launches : /\ child'[g].said = child[g].said
                                 /\ child'[g].is = child[g].is \/ (Alive(g) /\ child'[g].is = "gone")
          /\ act' \in [Actors -> ActTypes] /\ act'[a].on = act[a].on
          /\ \A b \in Actors : b # a => act'[b] = act[b]
      <4>1. /\ host \in [Launches -> HostTypes] /\ child \in [Launches -> ChildTypes]
            /\ act \in [Actors -> ActTypes]
        BY DEF WinInv, WinTypes
      <4>2. host' \in [Launches -> HostTypes] /\ \A g \in Launches : host'[g].done = host[g].done
        <5>1. CASE host' = [host EXCEPT ![act[a].on].once = "done"]
          <6>1. CASE act[a].on \in Launches
            BY <4>1, <5>1, <6>1 DEF HostTypes
          <6>2. CASE act[a].on \notin Launches
            <7>1. host' = host
              BY <4>1, <5>1, <6>2
            <7>2. QED
              BY <4>1, <5>1, <7>1
          <6>3. QED
            BY <6>1, <6>2
        <5>2. CASE UNCHANGED host
          BY <4>1, <5>2
        <5>3. QED
          BY <2>28, <5>1, <5>2, Zenon DEF GraceEnds
      <4>3. child' \in [Launches -> ChildTypes]
            /\ \A g \in Launches : /\ child'[g].said = child[g].said
                                   /\ child'[g].is = child[g].is \/ (Alive(g) /\ child'[g].is = "gone")
        BY <2>28, <4>1 DEF GraceEnds
      <4>4. act' \in [Actors -> ActTypes] /\ act'[a].on = act[a].on
            /\ \A b \in Actors : b # a => act'[b] = act[b]
        BY <2>28, <2>5 DEF GraceEnds
      <4>5. QED
        BY <4>2, <4>3, <4>4, Zenon
    <3>rest. /\ act[a].at # "idle" /\ UNCHANGED restOfStop /\ UNCHANGED run
           /\ \A g \in Launches : a = Follower(g) => act'[a].at \in {"kill", "killWriter", "killReap"}
      BY <2>28, <2>5 DEF GraceEnds, At, WinInv, WinTypes, ProcessInv
    <3>2. WinTypes'
      BY <3>1, <3>rest DEF restOfStop, WinInv, WinTypes
    <3>3. LaunchInv'
      BY <3>1, <3>rest, <2>1, <2>2 DEF restOfStop, WinInv, WinTypes, LaunchInv, ProcessInv
    <3>4. ProcessInv'
      BY <3>1, <3>rest, <2>1 DEF Alive, restOfStop, WinInv, ProcessInv
    <3>5. SaidInv'
      BY <3>1, <3>rest DEF restOfStop, WinInv, SaidInv
    <3>6. QED
      BY <3>2, <3>3, <3>4, <3>5 DEF WinInv
  <2>29. ASSUME NEW a \in Actors, Kill(a) PROVE WinInv'
    <3>1. /\ host' \in [Launches -> HostTypes] /\ \A g \in Launches : host'[g].done = host[g].done
          /\ child' \in [Launches -> ChildTypes]
          /\ \A g \in Launches : /\ child'[g].said = child[g].said
                                 /\ child'[g].is = child[g].is \/ (Alive(g) /\ child'[g].is = "gone")
          /\ act' \in [Actors -> ActTypes] /\ act'[a].on = act[a].on
          /\ \A b \in Actors : b # a => act'[b] = act[b]
      <4>1. /\ host \in [Launches -> HostTypes] /\ child \in [Launches -> ChildTypes]
            /\ act \in [Actors -> ActTypes]
        BY DEF WinInv, WinTypes
      <4>2. host' \in [Launches -> HostTypes] /\ \A g \in Launches : host'[g].done = host[g].done
        <5>1. host' = CloseStdin(act[a].on)
          BY <2>29, Zenon DEF Kill
        <5>2. QED
          BY <5>1, <2>3
      <4>3. child' \in [Launches -> ChildTypes]
            /\ \A g \in Launches : /\ child'[g].said = child[g].said
                                   /\ child'[g].is = child[g].is \/ (Alive(g) /\ child'[g].is = "gone")
        <5>1. CASE UNCHANGED child
          BY <4>1, <5>1, Zenon
        <5>2. CASE child' = KillProcess(act[a].on)
          BY <5>2, <2>4, Zenon
        <5>3. QED
          BY <2>29, <5>1, <5>2, Zenon DEF Kill
      <4>4. act' \in [Actors -> ActTypes] /\ act'[a].on = act[a].on
            /\ \A b \in Actors : b # a => act'[b] = act[b]
        BY <2>29, <2>5 DEF Kill
      <4>5. QED
        BY <4>2, <4>3, <4>4, Zenon
    <3>rest. /\ act[a].at # "idle" /\ UNCHANGED restOfStop /\ UNCHANGED run
           /\ \A g \in Launches : a = Follower(g) => act'[a].at \in {"kill", "killWriter", "killReap"}
      BY <2>29, <2>5 DEF Kill, At, WinInv, WinTypes, ProcessInv
    <3>2. WinTypes'
      BY <3>1, <3>rest DEF restOfStop, WinInv, WinTypes
    <3>3. LaunchInv'
      BY <3>1, <3>rest, <2>1, <2>2 DEF restOfStop, WinInv, WinTypes, LaunchInv, ProcessInv
    <3>4. ProcessInv'
      BY <3>1, <3>rest, <2>1 DEF Alive, restOfStop, WinInv, ProcessInv
    <3>5. SaidInv'
      BY <3>1, <3>rest DEF restOfStop, WinInv, SaidInv
    <3>6. QED
      BY <3>2, <3>3, <3>4, <3>5 DEF WinInv
  <2>30. ASSUME NEW a \in Actors, KillReturns(a) PROVE WinInv'
    <3>1. act[a].at # "idle" /\ UNCHANGED restOfStop /\ UNCHANGED child /\ host[act[a].on].done
      BY <2>30 DEF KillReturns, At, Exited
    <3>2. CASE a \in Pressers \cup {Shutdown}
      <4>1. /\ host' = [host EXCEPT ![act[a].on].once = "done"]
            /\ Goes(a, "reap") /\ UNCHANGED run
        BY <2>30, <3>2 DEF KillReturns
      <4>2. host' \in [Launches -> HostTypes] /\ \A g \in Launches : host'[g].done = host[g].done
        <5>1. host \in [Launches -> HostTypes]
          BY DEF WinInv, WinTypes
        <5>2. QED
          <6>1. CASE act[a].on \in Launches
            BY <4>1, <5>1, <6>1 DEF HostTypes
          <6>2. CASE act[a].on \notin Launches
            <7>1. host' = host
              BY <4>1, <5>1, <6>2
            <7>2. QED
              BY <4>1, <5>1, <7>1
          <6>3. QED
            BY <6>1, <6>2
      <4>3. act' \in [Actors -> ActTypes] /\ act'[a].on = act[a].on
            /\ \A b \in Actors : b # a => act'[b] = act[b]
        BY <4>1, <2>5
      <4>4. WinTypes' /\ LaunchInv' /\ ProcessInv' /\ SaidInv'
        <5>1. WinTypes'
          BY <3>1, <4>1, <4>2, <4>3 DEF restOfStop, WinInv, WinTypes
        <5>2. LaunchInv'
          BY <3>1, <3>2, <4>1, <4>2, <4>3, <2>1 DEF restOfStop, WinInv, LaunchInv
        <5>3. ProcessInv'
          BY <3>1, <3>2, <4>1, <4>2, <4>3, <2>1 DEF restOfStop, WinInv, ProcessInv
        <5>4. SaidInv'
          BY <3>1, <4>1, <4>2 DEF restOfStop, WinInv, SaidInv
        <5>5. QED
          BY <5>1, <5>2, <5>3, <5>4
      <4>5. QED
        BY <4>4 DEF WinInv
    <3>3. CASE a \notin Pressers \cup {Shutdown}
      <4>1. PICK g \in Launches : a = Follower(g)
        BY <2>1, <3>3
      <4>2. act[a].on = g /\ run[g] = "killing"
        BY <3>1, <4>1 DEF WinInv, ProcessInv
      <4>3. /\ run' = [run EXCEPT ![g] = "failed"] /\ act' = [act EXCEPT ![a] = Idle]
            /\ UNCHANGED <<host, child>>
        BY <2>30, <3>1, <3>3, <4>2 DEF KillReturns
      <4>4. WinTypes'
        BY <3>1, <4>3 DEF restOfStop, Idle, WinInv, WinTypes, Runs, ActTypes
      <4>5. LaunchInv'
        BY <3>1, <4>1, <4>2, <4>3, <2>1 DEF restOfStop, Idle, WinInv, WinTypes, LaunchInv
      <4>6. ProcessInv'
        BY <3>1, <4>1, <4>2, <4>3, <2>1 DEF restOfStop, Idle, WinInv, WinTypes, ProcessInv
      <4>7. SaidInv'
        BY <3>1, <4>2, <4>3 DEF restOfStop, WinInv, WinTypes, SaidInv
      <4>8. QED
        BY <4>4, <4>5, <4>6, <4>7 DEF WinInv
    <3>4. QED
      BY <3>2, <3>3
  <2>31. ASSUME NEW a \in Actors, StopReturns(a) PROVE WinInv'
    <3>1. WinTypes'
      BY SMTT(30), <2>31, <2>1, <2>2
         DEF StopReturns, restOfStop, At, Goes, Alive, Exited, Here, WinInv, WinTypes,
             HostTypes, ChildTypes, ActTypes, Runs
    <3>2. LaunchInv'
      BY <2>31, <2>1, <2>2
         DEF StopReturns, restOfStop, At, Goes, Alive, Exited, Here, WinInv, WinTypes,
             HostTypes, ChildTypes, ActTypes, LaunchInv, ProcessInv
    <3>3. ProcessInv'
      BY <2>31, <2>1, <2>2
         DEF StopReturns, restOfStop, At, Goes, Alive, Exited, Here, WinInv, WinTypes,
             HostTypes, ChildTypes, ActTypes, LaunchInv, ProcessInv
    <3>4. SaidInv'
      BY <2>31, <2>1, <2>2
         DEF StopReturns, restOfStop, At, Goes, Alive, Exited, Here, WinInv, WinTypes,
             HostTypes, ChildTypes, ActTypes, LaunchInv, ProcessInv, SaidInv
    <3>5. QED
      BY <3>1, <3>2, <3>3, <3>4 DEF WinInv
  <2>32. ASSUME ShutdownBegins PROVE WinInv'
    <3>1. WinTypes'
      BY <2>32, <2>1, <2>2
         DEF ShutdownBegins, Alive, Exited, Here, WinInv, WinTypes, HostTypes, ChildTypes,
             ActTypes, Runs
    <3>2. LaunchInv'
      BY <2>32, <2>1, <2>2
         DEF ShutdownBegins, Alive, Exited, Here, WinInv, WinTypes, HostTypes, ChildTypes,
             ActTypes, LaunchInv, ProcessInv
    <3>3. ProcessInv'
      BY <2>32, <2>1, <2>2
         DEF ShutdownBegins, Alive, Exited, Here, WinInv, WinTypes, HostTypes, ChildTypes,
             ActTypes, LaunchInv, ProcessInv
    <3>4. SaidInv'
      BY <2>32, <2>1, <2>2
         DEF ShutdownBegins, Alive, Exited, Here, WinInv, WinTypes, HostTypes, ChildTypes,
             ActTypes, LaunchInv, ProcessInv, SaidInv
    <3>5. QED
      BY <3>1, <3>2, <3>3, <3>4 DEF WinInv
  <2>33. ASSUME StopMonitorForTeardown PROVE WinInv'
    <3>1. WinTypes'
      BY <2>33, <2>1, <2>2
         DEF StopMonitorForTeardown, At, Alive, Exited, Here, WinInv, WinTypes, HostTypes,
             ChildTypes, ActTypes, Runs
    <3>2. LaunchInv'
      BY <2>33, <2>1, <2>2
         DEF StopMonitorForTeardown, At, Alive, Exited, Here, WinInv, WinTypes, HostTypes,
             ChildTypes, ActTypes, LaunchInv, ProcessInv
    <3>3. ProcessInv'
      BY <2>33, <2>1, <2>2
         DEF StopMonitorForTeardown, At, Alive, Exited, Here, WinInv, WinTypes, HostTypes,
             ChildTypes, ActTypes, LaunchInv, ProcessInv
    <3>4. SaidInv'
      BY <2>33, <2>1, <2>2
         DEF StopMonitorForTeardown, At, Alive, Exited, Here, WinInv, WinTypes, HostTypes,
             ChildTypes, ActTypes, LaunchInv, ProcessInv, SaidInv
    <3>5. QED
      BY <3>1, <3>2, <3>3, <3>4 DEF WinInv
  <2>34. ASSUME ShutdownGoesOn PROVE WinInv'
    <3>1. WinTypes'
      BY <2>34, <2>1, <2>2
         DEF ShutdownGoesOn, Alive, Exited, Here, WinInv, WinTypes, HostTypes, ChildTypes,
             ActTypes, Runs
    <3>2. LaunchInv'
      BY <2>34, <2>1, <2>2
         DEF ShutdownGoesOn, Alive, Exited, Here, WinInv, WinTypes, HostTypes, ChildTypes,
             ActTypes, LaunchInv, ProcessInv
    <3>3. ProcessInv'
      BY <2>34, <2>1, <2>2
         DEF ShutdownGoesOn, Alive, Exited, Here, WinInv, WinTypes, HostTypes, ChildTypes,
             ActTypes, LaunchInv, ProcessInv
    <3>4. SaidInv'
      BY <2>34, <2>1, <2>2
         DEF ShutdownGoesOn, Alive, Exited, Here, WinInv, WinTypes, HostTypes, ChildTypes,
             ActTypes, LaunchInv, ProcessInv, SaidInv
    <3>5. QED
      BY <3>1, <3>2, <3>3, <3>4 DEF WinInv
  <2>35. ASSUME ApplicationEnds PROVE WinInv'
    <3>1. host' \in [Launches -> HostTypes] /\ \A g \in Launches : host'[g].done = host[g].done
      BY SMTT(30), <2>35 DEF ApplicationEnds, WinInv, WinTypes, HostTypes
    <3>rest. UNCHANGED <<gen, process, kvs, run, child, act>>
      BY <2>35 DEF ApplicationEnds
    <3>2. WinTypes'
      BY <3>1, <3>rest DEF WinInv, WinTypes
    <3>3. LaunchInv'
      BY <3>1, <3>rest DEF WinInv, LaunchInv
    <3>4. ProcessInv'
      BY <3>1, <3>rest DEF WinInv, ProcessInv
    <3>5. SaidInv'
      BY <3>1, <3>rest DEF WinInv, SaidInv
    <3>6. QED
      BY <3>2, <3>3, <3>4, <3>5 DEF WinInv
  <2>36. ASSUME NEW g \in Launches, ChildIsReady(g) PROVE WinInv'
    <3>1. WinTypes'
      <4>1. host' \in [Launches -> HostTypes]
        <5>1. host \in [Launches -> HostTypes] /\ host[g] \in HostTypes
          BY <2>36 DEF ChildIsReady, childOnly, WinInv, WinTypes
        <5>2. \A t_ready \in BOOLEAN : [host[g] EXCEPT !.ready = t_ready] \in HostTypes
          BY <2>36, <5>1 DEF ChildIsReady, childOnly, HostTypes
        <5>3. host' = [host EXCEPT ![g] = [host[g] EXCEPT !.ready = TRUE]]
          BY <2>36, <5>1 DEF ChildIsReady, childOnly
        <5>4. QED
          BY <5>1, <5>2, <5>3
      <4>2. child' \in [Launches -> ChildTypes]
        BY <2>36, <2>1, <2>2 DEF ChildIsReady, childOnly, WinInv, WinTypes, ChildTypes
      <4>3. QED
        BY <2>36, <4>1, <4>2 DEF ChildIsReady, childOnly, WinInv, WinTypes
    <3>2. LaunchInv'
      BY <2>36, <2>1, <2>2
         DEF ChildIsReady, childOnly, Alive, Exited, Here, WinInv, WinTypes, HostTypes,
             ChildTypes, ActTypes, LaunchInv, ProcessInv
    <3>3. ProcessInv'
      BY <2>36, <2>1, <2>2
         DEF ChildIsReady, childOnly, Alive, Exited, Here, WinInv, WinTypes, HostTypes,
             ChildTypes, ActTypes, LaunchInv, ProcessInv
    <3>4. SaidInv'
      BY <2>36, <2>1, <2>2
         DEF ChildIsReady, childOnly, Alive, Exited, Here, WinInv, WinTypes, HostTypes,
             ChildTypes, ActTypes, LaunchInv, ProcessInv, SaidInv
    <3>5. QED
      BY <3>1, <3>2, <3>3, <3>4 DEF WinInv
  <2>37. ASSUME NEW g \in Launches, ChildReports(g) PROVE WinInv'
    <3>1. WinTypes'
      <4>1. child' \in [Launches -> ChildTypes]
        <5>1. child \in [Launches -> ChildTypes] /\ child[g] \in ChildTypes
          BY <2>37 DEF ChildReports, childOnly, WinInv, WinTypes
        <5>2. \A t_said \in BOOLEAN : [child[g] EXCEPT !.said = t_said] \in ChildTypes
          BY <2>37, <5>1 DEF ChildReports, childOnly, ChildTypes
        <5>3. child' = [child EXCEPT ![g] = [child[g] EXCEPT !.said = TRUE]]
          BY <2>37, <5>1 DEF ChildReports, childOnly
        <5>4. QED
          BY <5>1, <5>2, <5>3
      <4>2. QED
        BY <2>37, <4>1 DEF ChildReports, childOnly, WinInv, WinTypes
    <3>2. LaunchInv'
      BY <2>37, <2>1, <2>2
         DEF ChildReports, childOnly, Alive, Exited, Here, WinInv, WinTypes, HostTypes,
             ChildTypes, ActTypes, LaunchInv, ProcessInv
    <3>3. ProcessInv'
      BY <2>37, <2>1, <2>2
         DEF ChildReports, childOnly, Alive, Exited, Here, WinInv, WinTypes, HostTypes,
             ChildTypes, ActTypes, LaunchInv, ProcessInv
    <3>4. SaidInv'
      BY <2>37, <2>1, <2>2
         DEF ChildReports, childOnly, Alive, Exited, Here, WinInv, WinTypes, HostTypes,
             ChildTypes, ActTypes, LaunchInv, ProcessInv, SaidInv
    <3>5. QED
      BY <3>1, <3>2, <3>3, <3>4 DEF WinInv
  <2>38. ASSUME NEW g \in Launches, ChildReads(g) PROVE WinInv'
    <3>1. WinTypes'
      <4>1. host' \in [Launches -> HostTypes]
        <5>1. host \in [Launches -> HostTypes] /\ host[g] \in HostTypes
          BY <2>38 DEF ChildReads, childOnly, WinInv, WinTypes
        <5>2. [host[g] EXCEPT !.piped = host[g].piped - 1] \in HostTypes
          BY <2>38, <5>1 DEF ChildReads, childOnly, HostTypes
        <5>3. host' = [host EXCEPT ![g] = [host[g] EXCEPT !.piped = host[g].piped - 1]]
          BY <2>38, <5>1 DEF ChildReads, childOnly
        <5>4. QED
          BY <5>1, <5>2, <5>3
      <4>2. QED
        BY <2>38, <4>1 DEF ChildReads, childOnly, WinInv, WinTypes
    <3>2. LaunchInv'
      BY <2>38, <2>1, <2>2
         DEF ChildReads, childOnly, Alive, Exited, Here, WinInv, WinTypes, HostTypes,
             ChildTypes, ActTypes, LaunchInv, ProcessInv
    <3>3. ProcessInv'
      BY <2>38, <2>1, <2>2
         DEF ChildReads, childOnly, Alive, Exited, Here, WinInv, WinTypes, HostTypes,
             ChildTypes, ActTypes, LaunchInv, ProcessInv
    <3>4. SaidInv'
      BY <2>38, <2>1, <2>2
         DEF ChildReads, childOnly, Alive, Exited, Here, WinInv, WinTypes, HostTypes,
             ChildTypes, ActTypes, LaunchInv, ProcessInv, SaidInv
    <3>5. QED
      BY <3>1, <3>2, <3>3, <3>4 DEF WinInv
  <2>39. ASSUME NEW g \in Launches, ChildIsToLeave(g) PROVE WinInv'
    <3>1. WinTypes'
      <4>1. child' \in [Launches -> ChildTypes]
        <5>1. child \in [Launches -> ChildTypes] /\ child[g] \in ChildTypes
          BY <2>39 DEF ChildIsToLeave, childOnly, WinInv, WinTypes
        <5>2. [child[g] EXCEPT !.is = "leaving"] \in ChildTypes
          BY <2>39, <5>1 DEF ChildIsToLeave, childOnly, ChildTypes
        <5>3. child' = [child EXCEPT ![g] = [child[g] EXCEPT !.is = "leaving"]]
          BY <2>39, <5>1 DEF ChildIsToLeave, childOnly
        <5>4. QED
          BY <5>1, <5>2, <5>3
      <4>2. QED
        BY <2>39, <4>1 DEF ChildIsToLeave, childOnly, WinInv, WinTypes
    <3>2. LaunchInv'
      BY <2>39, <2>1, <2>2
         DEF ChildIsToLeave, childOnly, Alive, Exited, Here, WinInv, WinTypes, HostTypes,
             ChildTypes, ActTypes, LaunchInv, ProcessInv
    <3>3. ProcessInv'
      BY <2>39, <2>1, <2>2
         DEF ChildIsToLeave, childOnly, Alive, Exited, Here, WinInv, WinTypes, HostTypes,
             ChildTypes, ActTypes, LaunchInv, ProcessInv
    <3>4. SaidInv'
      BY <2>39, <2>1, <2>2
         DEF ChildIsToLeave, childOnly, Alive, Exited, Here, WinInv, WinTypes, HostTypes,
             ChildTypes, ActTypes, LaunchInv, ProcessInv, SaidInv
    <3>5. QED
      BY <3>1, <3>2, <3>3, <3>4 DEF WinInv
  <2>40. ASSUME NEW g \in Launches, ChildLeaves(g) PROVE WinInv'
    <3>1. WinTypes'
      <4>1. child' \in [Launches -> ChildTypes]
        <5>1. child \in [Launches -> ChildTypes] /\ child[g] \in ChildTypes
          BY <2>40 DEF ChildLeaves, childOnly, WinInv, WinTypes
        <5>2. [child[g] EXCEPT !.is = "gone", !.code = "clean"] \in ChildTypes
          BY <2>40, <5>1 DEF ChildLeaves, childOnly, ChildTypes
        <5>3. child' = [child EXCEPT ![g] = [child[g] EXCEPT !.is = "gone", !.code = "clean"]]
          BY <2>40, <5>1 DEF ChildLeaves, childOnly
        <5>4. QED
          BY <5>1, <5>2, <5>3
      <4>2. QED
        BY <2>40, <4>1 DEF ChildLeaves, childOnly, WinInv, WinTypes
    <3>2. LaunchInv'
      BY <2>40, <2>1, <2>2
         DEF ChildLeaves, childOnly, Alive, Exited, Here, WinInv, WinTypes, HostTypes,
             ChildTypes, ActTypes, LaunchInv, ProcessInv
    <3>3. ProcessInv'
      BY <2>40, <2>1, <2>2
         DEF ChildLeaves, childOnly, Alive, Exited, Here, WinInv, WinTypes, HostTypes,
             ChildTypes, ActTypes, LaunchInv, ProcessInv
    <3>4. SaidInv'
      BY <2>40, <2>1, <2>2
         DEF ChildLeaves, childOnly, Alive, Exited, Here, WinInv, WinTypes, HostTypes,
             ChildTypes, ActTypes, LaunchInv, ProcessInv, SaidInv
    <3>5. QED
      BY <3>1, <3>2, <3>3, <3>4 DEF WinInv
  <2>41. ASSUME NEW g \in Launches, ChildCrashes(g) PROVE WinInv'
    <3>1. WinTypes'
      <4>1. child' \in [Launches -> ChildTypes]
        <5>1. child \in [Launches -> ChildTypes] /\ child[g] \in ChildTypes
          BY <2>41 DEF ChildCrashes, childOnly, WinInv, WinTypes
        <5>2. [child[g] EXCEPT !.is = "gone", !.code = "crash"] \in ChildTypes
          BY <2>41, <5>1 DEF ChildCrashes, childOnly, ChildTypes
        <5>3. child' = [child EXCEPT ![g] = [child[g] EXCEPT !.is = "gone", !.code = "crash"]]
          BY <2>41, <5>1 DEF ChildCrashes, childOnly
        <5>4. QED
          BY <5>1, <5>2, <5>3
      <4>2. QED
        BY <2>41, <4>1 DEF ChildCrashes, childOnly, WinInv, WinTypes
    <3>2. LaunchInv'
      BY <2>41, <2>1, <2>2
         DEF ChildCrashes, childOnly, Alive, Exited, Here, WinInv, WinTypes, HostTypes,
             ChildTypes, ActTypes, LaunchInv, ProcessInv
    <3>3. ProcessInv'
      BY <2>41, <2>1, <2>2
         DEF ChildCrashes, childOnly, Alive, Exited, Here, WinInv, WinTypes, HostTypes,
             ChildTypes, ActTypes, LaunchInv, ProcessInv
    <3>4. SaidInv'
      BY <2>41, <2>1, <2>2
         DEF ChildCrashes, childOnly, Alive, Exited, Here, WinInv, WinTypes, HostTypes,
             ChildTypes, ActTypes, LaunchInv, ProcessInv, SaidInv
    <3>5. QED
      BY <3>1, <3>2, <3>3, <3>4 DEF WinInv
  <2>42. ASSUME NEW g \in Launches, ChildFreezes(g) PROVE WinInv'
    <3>1. WinTypes'
      <4>1. child' \in [Launches -> ChildTypes]
        BY SMTT(30), <2>42, <2>1, <2>2 DEF ChildFreezes, childOnly, WinInv, WinTypes, ChildTypes
      <4>2. QED
        BY <2>42, <4>1 DEF ChildFreezes, childOnly, WinInv, WinTypes
    <3>2. LaunchInv'
      BY <2>42, <2>1, <2>2
         DEF ChildFreezes, childOnly, Alive, Exited, Here, WinInv, WinTypes, HostTypes,
             ChildTypes, ActTypes, LaunchInv, ProcessInv
    <3>3. ProcessInv'
      BY <2>42, <2>1, <2>2
         DEF ChildFreezes, childOnly, Alive, Exited, Here, WinInv, WinTypes, HostTypes,
             ChildTypes, ActTypes, LaunchInv, ProcessInv
    <3>4. SaidInv'
      BY <2>42, <2>1, <2>2
         DEF ChildFreezes, childOnly, Alive, Exited, Here, WinInv, WinTypes, HostTypes,
             ChildTypes, ActTypes, LaunchInv, ProcessInv, SaidInv
    <3>5. QED
      BY <3>1, <3>2, <3>3, <3>4 DEF WinInv
  <2>43. ASSUME UNCHANGED winVars PROVE WinInv'
    <3>1. WinTypes'
      BY <2>43, <2>1, <2>2
         DEF winVars, Alive, Exited, Here, WinInv, WinTypes, HostTypes, ChildTypes, ActTypes,
             Runs
    <3>2. LaunchInv'
      BY <2>43, <2>1, <2>2
         DEF winVars, Alive, Exited, Here, WinInv, WinTypes, HostTypes, ChildTypes, ActTypes,
             LaunchInv, ProcessInv
    <3>3. ProcessInv'
      BY <2>43, <2>1, <2>2
         DEF winVars, Alive, Exited, Here, WinInv, WinTypes, HostTypes, ChildTypes, ActTypes,
             LaunchInv, ProcessInv
    <3>4. SaidInv'
      BY <2>43, <2>1, <2>2
         DEF winVars, Alive, Exited, Here, WinInv, WinTypes, HostTypes, ChildTypes, ActTypes,
             LaunchInv, ProcessInv, SaidInv
    <3>5. QED
      BY <3>1, <3>2, <3>3, <3>4 DEF WinInv
  <2>44. QED
    BY <2>7, <2>8, <2>9, <2>10, <2>11, <2>12, <2>13, <2>14, <2>15, <2>16, <2>17, <2>18, <2>19,
       <2>20, <2>21, <2>22, <2>23, <2>24, <2>25, <2>26, <2>27, <2>28, <2>29, <2>30, <2>31,
       <2>32, <2>33, <2>34, <2>35, <2>36, <2>37, <2>38, <2>39, <2>40, <2>41, <2>42, <2>43
       DEF WinNext
<1>1. WinInit => WinInv
  <2> SUFFICES ASSUME WinInit PROVE WinInv
    OBVIOUS
  <2>1. \A g \in Launches : Follower(g) \in Actors
    BY DEF Actors
  <2>2. /\ run = [g \in Launches |-> "none"] /\ host = [g \in Launches |-> NewHost]
        /\ child = [g \in Launches |-> NoChild] /\ act = [a \in Actors |-> Idle]
        /\ gen = 0 /\ kvs = 0 /\ process = "closed"
    BY DEF WinInit
  <2>3. NewHost \in HostTypes /\ NewHost.done = FALSE /\ NoChild.is = "none" /\ NoChild.said = FALSE
    <3>1. \A t \in BOOLEAN :
            [told |-> t, marked |-> t, stdin |-> "none", writer |-> "none", out |-> 0,
             piped |-> 0, ready |-> t, done |-> t, once |-> "free"] \in HostTypes
      BY DEF HostTypes
    <3>2. NewHost \in HostTypes
      BY <3>1 DEF NewHost
    <3>3. QED
      BY <3>2 DEF NewHost, NoChild
  <2>4. NoChild \in ChildTypes
    <3>1. \A t \in BOOLEAN : [is |-> "none", code |-> "none", said |-> t] \in ChildTypes
      BY DEF ChildTypes
    <3>2. QED
      BY <3>1 DEF NoChild
  <2>5. Idle \in ActTypes /\ Idle.at = "idle"
    BY DEF Idle, ActTypes
  <2>6. WinTypes
    BY <2>2, <2>3, <2>4, <2>5 DEF WinTypes, Runs
  <2>7. LaunchInv
    BY <2>1, <2>2, <2>5 DEF LaunchInv, Launches
  <2>8. ProcessInv
    BY <2>1, <2>2, <2>3, <2>5 DEF ProcessInv
  <2>9. SaidInv
    BY <2>2 DEF SaidInv, Launches
  <2>10. QED
    BY <2>6, <2>7, <2>8, <2>9 DEF WinInv
<1>2. WinInv => OneWindow
  <2> SUFFICES ASSUME WinInv PROVE OneWindow
    OBVIOUS
  <2>1. ASSUME NEW g \in Launches, Alive(g)
        PROVE  g = gen /\ process \notin {"closed", "failed"}
    <3>1. ~host[g].done /\ child[g].is # "none"
      BY <2>1 DEF Alive, WinInv, ProcessInv
    <3>2. ~(g < gen) /\ ~(g > gen)
      BY <3>1 DEF WinInv, LaunchInv, ProcessInv
    <3>3. g = gen
      BY <3>2 DEF WinInv, WinTypes, Launches
    <3>4. QED
      BY <3>1, <3>3 DEF WinInv, SaidInv
  <2>2. QED
    BY <2>1 DEF WinInv, SaidInv, OneWindow
<1>3. QED
  BY <1>1, <1>2, <1>WinStep, PTL DEF WinSpec

-----------------------------------------------------------------------------
(* MixerDesk and MixerDrawer.                                              *)

\* A key of a JSON object that is missing, null or of another type is no object itself.
NoObject(v) == v # [x \in DOMAIN v |-> v[x]]
Markers == NoObject(Absent) /\ NoObject(Null) /\ NoObject(Odd)

\* A desk: the strips it has, the buses each is on, and which are muted.
IsDesk(d) ==
  /\ DOMAIN d.route \subseteq Strips /\ d.route \in [DOMAIN d.route -> SUBSET AllBuses]
  /\ d.muted \in [DOMAIN d.route -> BOOLEAN]

\* A reading of a desk: its strips and no others, each on the buses it is on.
Snap(v, d) ==
  /\ v.ok /\ DOMAIN v.strips = DOMAIN d.route
  /\ \A n \in DOMAIN d.route : v.strips[n].outputs = d.route[n] /\ (v.strips[n].muted => d.muted[n])

\* The status of a desk, with nothing lost or one field.
States(d) ==
  {TrueState(d)} \cup {Lose(TrueState(d), p, v) : p \in Places(d), v \in {Absent, Null, Odd}}

\* What a reader makes of the routing and the strips of a state.
Names(state) == StripNames(Obj(Get(state, "inputs")), Obj(Get(state, "matrix")))
Routing(state, n) == Field(Obj(Get(Obj(Get(state, "matrix")), n)), "outputs", {})

\* Whatever one field of the status is missing, null or of another type, a reading without
\* a critical warning names every strip of the desk and no other, each on the buses it is
\* on and none muted that is not (state.go: ParseSnapshotWithWarnings), for any desk and any
\* names of strips.
THEOREM NothingIsMadeUp ==
  ASSUME Markers, NEW d, IsDesk(d), NEW state \in States(d), Critical(state) = {}
  PROVE  /\ Names(state) = DOMAIN d.route
         /\ \A n \in DOMAIN d.route : /\ Routing(state, n) = d.route[n]
                                      /\ BuildStrip(state, n).muted => d.muted[n]
<1> DEFINE T == TrueState(d)
           Keys(i) == {n \in DOMAIN d.route : InputOf[n] = i} \cup {"assign_list"}
           Strip(k) == [muted |-> d.muted[k], display_name |-> k]
           I == [i \in Inputs |-> [k \in Keys(i) |-> IF k = "assign_list" THEN Odd ELSE Strip(k)]]
           M == [n \in DOMAIN d.route |-> [outputs |-> d.route[n], pfl_outputs |-> {}]]
<1>1. /\ DOMAIN T = {"inputs", "matrix", "outputs", "levels"}
      /\ T.inputs = I /\ T.matrix = M
  BY DEF TrueState
<1>2. /\ \A o, a, v : Lose(o, <<a>>, v) = Spoil(o, a, v)
      /\ \A o, a, b, v : Lose(o, <<a, b>>, v) = [o EXCEPT ![a] = Spoil(o[a], b, v)]
      /\ \A o, a, b, c, v : Lose(o, <<a, b, c>>, v) = [o EXCEPT ![a][b] = Spoil(o[a][b], c, v)]
      /\ \A o, a, b, c, e, v :
           Lose(o, <<a, b, c, e>>, v) = [o EXCEPT ![a][b][c] = Spoil(o[a][b][c], e, v)]
  BY DEF Lose
<1> DEFINE Mute(x, k) == LooksLikeStrip(x) /\ Field(x, "muted", FALSE) => d.muted[k]
           Shape(P) == \A i \in DOMAIN Obj(P) : \A k \in DOMAIN Obj(Obj(P)[i]) :
                         LooksLikeStrip(Obj(Obj(P)[i])[k]) => k \in DOMAIN d.route /\ Mute(Obj(Obj(P)[i])[k], k)
           Listed(Q) == ~Readable(Q) \/ /\ DOMAIN Q \subseteq DOMAIN d.route
                                        /\ \A n \in DOMAIN Q : RoutingIsKnown(Q, n) => Readable(Q[n]) /\ Q[n].outputs = d.route[n]
           Right(s) == \/ Get(s, "matrix") = M /\ Shape(Get(s, "inputs"))
                       \/ Get(s, "inputs") = I /\ Listed(Get(s, "matrix"))
<1>3. /\ Readable(I) /\ Readable(M)
      /\ \A n \in DOMAIN d.route : /\ M[n] = [outputs |-> d.route[n], pfl_outputs |-> {}]
                                   /\ Readable(M[n]) /\ Readable(d.route[n])
                                   /\ M[n].outputs = d.route[n] /\ DOMAIN M[n] = {"outputs", "pfl_outputs"}
      /\ \A i \in Inputs : DOMAIN I[i] = Keys(i) /\ Readable(I[i]) /\ I[i]["assign_list"] = Odd
      /\ \A i \in Inputs : \A k \in Keys(i) \ {"assign_list"} :
           /\ I[i][k] = Strip(k) /\ k \in DOMAIN d.route
           /\ LooksLikeStrip(I[i][k]) /\ Mute(I[i][k], k)
      /\ DOMAIN M = DOMAIN d.route /\ DOMAIN I = Inputs
      /\ \A n \in DOMAIN d.route : n # "assign_list" /\ InputOf[n] \in Inputs /\ n \in Keys(InputOf[n])
  <2>1. \A n \in DOMAIN d.route : n # "assign_list" /\ InputOf[n] \in Inputs /\ n \in Keys(InputOf[n])
    BY DeskAssumption DEF IsDesk, Inputs
  <2>2. /\ DOMAIN M = DOMAIN d.route /\ Readable(M)
        /\ \A n \in DOMAIN d.route : /\ M[n] = [outputs |-> d.route[n], pfl_outputs |-> {}]
                                     /\ Readable(M[n]) /\ Readable(d.route[n])
                                     /\ M[n].outputs = d.route[n] /\ DOMAIN M[n] = {"outputs", "pfl_outputs"}
    BY DeskAssumption DEF Markers, NoObject, Readable, IsDesk
  <2>3. DOMAIN I = Inputs /\ Readable(I)
    BY DEF Markers, NoObject, Readable
  <2>4. \A i \in Inputs : DOMAIN I[i] = Keys(i) /\ Readable(I[i]) /\ I[i]["assign_list"] = Odd
    BY DEF Markers, NoObject, Readable
  <2>5. ASSUME NEW i \in Inputs, NEW k \in Keys(i) \ {"assign_list"}
        PROVE  /\ I[i][k] = Strip(k) /\ k \in DOMAIN d.route /\ LooksLikeStrip(I[i][k])
               /\ Mute(I[i][k], k)
    <3>1. k \in DOMAIN d.route /\ I[i][k] = Strip(k) /\ DOMAIN Strip(k) = {"muted", "display_name"}
      BY <2>5
    <3>2. Strip(k) \notin {Absent, Null, Odd}
      BY DEF Markers, NoObject
    <3>3. Strip(k).muted = d.muted[k] /\ d.muted[k] \in BOOLEAN /\ Strip(k).display_name \in Strips
      BY <3>1 DEF IsDesk
    <3> HIDE DEF Strip
    <3>4. LooksLikeStrip(I[i][k])
      BY <3>1, <3>2, <3>3, DeskAssumption DEF LooksLikeStrip, Get, Readable
    <3>5. Field(I[i][k], "muted", FALSE) = d.muted[k]
      BY <3>1, <3>3, DeskAssumption DEF Field, Or, Get
    <3>6. QED
      BY <3>1, <3>4, <3>5
  <2>6. QED
    <3> HIDE DEF I, M, Strip, Mute
    <3>1. QED
      BY <2>1, <2>2, <2>3, <2>4, <2>5
<1>4. Get(T, "matrix") = M /\ Get(T, "inputs") = I
  BY <1>1 DEF Get
<1> HIDE DEF I, M, Strip, T, Mute
<1>5. DOMAIN <<>> = {} /\ Obj(<<>>) = <<>> /\ \A Q : ~Readable(Q) => Obj(Q) = <<>>
  BY DEF Obj
<1>6. \A Q : ~Readable(Q) => Shape(Q) /\ Listed(Q)
  BY <1>5
<1>7. ASSUME NEW P, Readable(P), DOMAIN P \subseteq Inputs,
             \A i \in DOMAIN P : \/ ~Readable(P[i])
                                 \/ /\ DOMAIN P[i] \subseteq Keys(i)
                                    /\ "assign_list" \in DOMAIN P[i] => P[i]["assign_list"] = Odd
                                    /\ \A k \in DOMAIN P[i] \ {"assign_list"} : Mute(P[i][k], k)
      PROVE  Shape(P)
  <2>1. Obj(P) = P /\ ~Readable(Odd)
    BY <1>7 DEF Obj, Readable
  <2>2. ASSUME NEW i \in DOMAIN P, NEW k \in DOMAIN Obj(P[i]), LooksLikeStrip(Obj(P[i])[k])
        PROVE  k \in DOMAIN d.route /\ Mute(Obj(P[i])[k], k)
    <3>1. Readable(P[i]) /\ Obj(P[i]) = P[i]
      BY <1>5, <2>2 DEF Obj
    <3>2. k # "assign_list"
      BY <1>7, <2>1, <2>2, <3>1 DEF LooksLikeStrip
    <3>3. QED
      BY <1>7, <2>2, <3>1, <3>2
  <2>3. QED
    BY <2>1, <2>2
<1>8. Shape(I) /\ Listed(M)
  <2>1. Shape(I)
    BY <1>3, <1>7
  <2>2. \A n \in DOMAIN d.route : M[n].outputs = d.route[n]
    BY <1>3
  <2>3. Listed(M)
    BY <1>3, <2>2
  <2>4. QED
    BY <2>1, <2>3
<1> HIDE DEF Shape, Listed
<1>9. ASSUME NEW k, NEW v \in {Absent, Null, Odd}, state = Spoil(T, k, v) PROVE Right(state)
  <2>1. ~Readable(v)
    BY DEF Readable
  <2>2. CASE k = "matrix"
    BY <2>1, <2>2, <1>1, <1>4, <1>6, <1>9 DEF Spoil, Get
  <2>3. CASE k = "inputs"
    BY <2>1, <2>3, <1>1, <1>4, <1>6, <1>9 DEF Spoil, Get
  <2>4. CASE k # "matrix" /\ k # "inputs"
    <3>1. Get(state, "matrix") = Get(T, "matrix") /\ Get(state, "inputs") = Get(T, "inputs")
      BY <2>4, <1>9 DEF Spoil, Get
    <3>2. QED
      BY <3>1, <1>4, <1>8
  <2>5. QED
    BY <2>2, <2>3, <2>4
<1>10. ASSUME NEW k, NEW x, state = [T EXCEPT ![k] = x],
              k = "matrix" => Listed(x), k = "inputs" => Shape(x) PROVE Right(state)
  <2>1. CASE k = "matrix"
    <3>1. Get(state, "matrix") = x /\ Get(state, "inputs") = I
      BY <2>1, <1>10, <1>1 DEF Get
    <3>2. QED
      BY <2>1, <3>1, <1>10
  <2>2. CASE k = "inputs"
    <3>1. Get(state, "matrix") = M /\ Get(state, "inputs") = x
      BY <2>2, <1>10, <1>1 DEF Get
    <3>2. QED
      BY <2>2, <3>1, <1>10
  <2>3. CASE k # "matrix" /\ k # "inputs"
    <3>1. Get(state, "matrix") = Get(T, "matrix") /\ Get(state, "inputs") = Get(T, "inputs")
      BY <2>3, <1>10 DEF Get
    <3>2. QED
      BY <3>1, <1>4, <1>8
  <2>4. QED
    BY <2>1, <2>2, <2>3
<1>11. ASSUME NEW n \in DOMAIN d.route, NEW v \in {Absent, Null, Odd}
       PROVE  /\ Listed(Spoil(M, n, v)) /\ Shape(Spoil(I, InputOf[n], v))
              /\ Listed([M EXCEPT ![n] = Spoil(M[n], "outputs", v)])
              /\ Listed([M EXCEPT ![n] = Spoil(M[n], "pfl_outputs", v)])
              /\ Shape([I EXCEPT ![InputOf[n]] = Spoil(I[InputOf[n]], n, v)])
              /\ \A f \in {"muted", "display_name"} :
                   Shape([I EXCEPT ![InputOf[n]][n] = Spoil(I[InputOf[n]][n], f, v)])
  <2>1. ~Readable(v)
    BY DEF Readable
  <2>2. \A m \in DOMAIN d.route : M[m].outputs = d.route[m] /\ DOMAIN M[m] = {"outputs", "pfl_outputs"}
    BY <1>3
  <2>3. ASSUME NEW Q, DOMAIN Q \subseteq DOMAIN d.route, \A m \in DOMAIN Q : m # n => Q[m] = M[m],
               n \in DOMAIN Q => ~RoutingIsKnown(Q, n) \/ (Readable(Q[n]) /\ Q[n].outputs = d.route[n])
        PROVE  Listed(Q)
    BY <1>3, <2>2, <2>3 DEF Listed
  <2>4. /\ Listed(Spoil(M, n, v)) /\ Listed([M EXCEPT ![n] = Spoil(M[n], "outputs", v)])
        /\ Listed([M EXCEPT ![n] = Spoil(M[n], "pfl_outputs", v)])
    <3>1. ASSUME NEW Q, Q = Spoil(M, n, v) PROVE Listed(Q)
      <4>1. DOMAIN Q \subseteq DOMAIN d.route /\ \A m \in DOMAIN Q : m # n => Q[m] = M[m]
        BY <1>3, <1>11, <3>1 DEF Spoil
      <4>2. n \in DOMAIN Q => Q[n] \in {Null, Odd}
        BY <1>3, <1>11, <3>1 DEF Spoil
      <4>3. QED
        BY <2>1, <2>3, <4>1, <4>2 DEF RoutingIsKnown, Readable, Get
    <3>2. ASSUME NEW f \in {"outputs", "pfl_outputs"}, NEW Q, Q = [M EXCEPT ![n] = Spoil(M[n], f, v)] PROVE Listed(Q)
      <4>1. /\ DOMAIN Q \subseteq DOMAIN d.route /\ \A m \in DOMAIN Q : m # n => Q[m] = M[m]
            /\ Q[n] = Spoil(M[n], f, v)
        BY <1>3, <1>11, <3>2
      <4>2. CASE f = "outputs"
        <5>1. ~Readable(Get(Q[n], "outputs"))
          BY <2>1, <2>2, <4>1, <4>2 DEF Spoil, Get, Readable
        <5>2. QED
          BY <2>3, <4>1, <5>1 DEF RoutingIsKnown
      <4>3. CASE f = "pfl_outputs"
        <5>1. Q[n].outputs = d.route[n] /\ Readable(Q[n])
          BY <2>2, <4>1, <4>3 DEF Spoil, Readable, Markers, NoObject
        <5>2. QED
          BY <2>3, <4>1, <5>1
      <4>4. QED
        BY <3>2, <4>2, <4>3
    <3>3. QED
      BY <3>1, <3>2
  <2>5. ASSUME NEW J, J \in {Spoil(I, InputOf[n], v), [I EXCEPT ![InputOf[n]] = Spoil(I[InputOf[n]], n, v)]}
        PROVE  Shape(J)
    <3>1. Readable(J) /\ DOMAIN J \subseteq Inputs
      BY <1>3, <1>11, <2>5 DEF Spoil, Readable, Markers, NoObject
    <3>2. \A i \in DOMAIN J : i # InputOf[n] => J[i] = I[i]
      BY <1>3, <1>11, <2>5 DEF Spoil
    <3>3. ASSUME InputOf[n] \in DOMAIN J, Readable(J[InputOf[n]])
          PROVE  /\ DOMAIN J[InputOf[n]] \subseteq Keys(InputOf[n])
                 /\ "assign_list" \in DOMAIN J[InputOf[n]] => J[InputOf[n]]["assign_list"] = Odd
                 /\ \A k \in DOMAIN J[InputOf[n]] \ {"assign_list"} : J[InputOf[n]][k] \in {I[InputOf[n]][k], v}
      BY <1>3, <1>11, <2>1, <2>5, <3>3 DEF Spoil
    <3>4. \A k : Mute(v, k)
      BY <2>1 DEF Mute, LooksLikeStrip
    <3>5. \A k \in Keys(InputOf[n]) \ {"assign_list"} : Mute(I[InputOf[n]][k], k)
      BY <1>3
    <3>6. ASSUME InputOf[n] \in DOMAIN J, Readable(J[InputOf[n]])
          PROVE  \A k \in DOMAIN J[InputOf[n]] \ {"assign_list"} : Mute(J[InputOf[n]][k], k)
      BY <3>3, <3>4, <3>5, <3>6
    <3>7. QED
      BY <1>3, <1>7, <3>1, <3>2, <3>3, <3>6
  <2>6. ASSUME NEW f \in {"muted", "display_name"}, NEW x, x = Spoil(I[InputOf[n]][n], f, v),
               NEW J, J = [I EXCEPT ![InputOf[n]][n] = x]
        PROVE  Shape(J)
    <3>1. Readable(J) /\ DOMAIN J = Inputs
      BY <1>3, <1>11, <2>6 DEF Readable, Markers, NoObject
    <3>2. \A i \in DOMAIN J : i # InputOf[n] => J[i] = I[i]
      BY <1>3, <1>11, <2>6
    <3>3. /\ DOMAIN J[InputOf[n]] = Keys(InputOf[n]) /\ J[InputOf[n]]["assign_list"] = Odd
          /\ J[InputOf[n]][n] = x
          /\ \A k \in Keys(InputOf[n]) \ {"assign_list", n} : J[InputOf[n]][k] = I[InputOf[n]][k]
      BY <1>3, <1>11, <2>6
    <3>4. Mute(x, n)
      <4>1. /\ I[InputOf[n]][n] = Strip(n) /\ Mute(Strip(n), n) /\ LooksLikeStrip(Strip(n))
        BY <1>3, <1>11
      <4>2. DOMAIN Strip(n) = {"muted", "display_name"}
        BY DEF Strip
      <4>3. CASE v = Absent
        <5>1. DOMAIN x = {"muted", "display_name"} \ {f}
          BY <2>6, <4>1, <4>2, <4>3 DEF Spoil
        <5>2. Get(x, f) = Absent
          BY <5>1 DEF Get
        <5>3. QED
          BY <2>6, <5>2 DEF Mute, LooksLikeStrip
      <4>4. CASE v # Absent
        <5>1. x = [Strip(n) EXCEPT ![f] = v]
          BY <2>6, <4>1, <4>4 DEF Spoil
        <5>2. CASE f = "muted"
          <6>1. ~Readable(Get(x, "muted"))
            BY <2>1, <4>2, <5>1, <5>2 DEF Get
          <6>2. Field(x, "muted", FALSE) = FALSE
            BY <6>1 DEF Field, Or
          <6>3. QED
            BY <6>2 DEF Mute
        <5>3. CASE f = "display_name"
          <6>1. Get(x, "muted") = Get(Strip(n), "muted")
            BY <4>2, <5>1, <5>3 DEF Get
          <6>2. QED
            BY <4>1, <6>1 DEF Mute, Field
        <5>4. QED
          BY <2>6, <5>2, <5>3
      <4>5. QED
        BY <4>3, <4>4
    <3>5. \A k \in DOMAIN J[InputOf[n]] \ {"assign_list"} : Mute(J[InputOf[n]][k], k)
      BY <1>3, <3>3, <3>4
    <3>6. QED
      BY <1>3, <1>7, <3>1, <3>2, <3>3, <3>5
  <2>7. QED
    BY <2>4, <2>5, <2>6
<1>12. Right(state)
  <2>1. CASE state = T
    BY <2>1, <1>4, <1>8
  <2>2. CASE state # T
    <3>1. PICK p \in Places(d), v \in {Absent, Null, Odd} : state = Lose(T, p, v)
      BY <2>2 DEF States, T
    <3>2. CASE \E a : p = <<a>>
      <4>1. PICK a : p = <<a>>
        BY <3>2
      <4>2. state = Spoil(T, a, v)
        BY <3>1, <4>1, <1>2
      <4>3. QED
        BY <4>2, <1>9
    <3>3. CASE \E n \in DOMAIN d.route, f \in {"outputs", "pfl_outputs"} :
                 p = <<"matrix", n>> \/ p = <<"matrix", n, f>>
      <4>1. PICK n \in DOMAIN d.route, f \in {"outputs", "pfl_outputs"} :
                 p = <<"matrix", n>> \/ p = <<"matrix", n, f>>
        BY <3>3
      <4>2. CASE p = <<"matrix", n>>
        <5>1. state = [T EXCEPT !["matrix"] = Spoil(T["matrix"], n, v)]
          BY <3>1, <4>2, <1>2
        <5>2. QED
          BY <5>1, <1>1, <1>10, <1>11
      <4>3. CASE p = <<"matrix", n, f>>
        <5>1. state = [T EXCEPT !["matrix"][n] = Spoil(T["matrix"][n], f, v)]
          BY <3>1, <4>3, <1>2
        <5>2. state = [T EXCEPT !["matrix"] = [M EXCEPT ![n] = Spoil(M[n], f, v)]]
          BY <5>1, <1>1
        <5>3. QED
          BY <5>2, <1>10, <1>11
      <4>4. QED
        BY <4>1, <4>2, <4>3
    <3>4. CASE \E n \in DOMAIN d.route, f \in {"muted", "display_name"} :
                 \/ p = <<"inputs", InputOf[n]>> \/ p = <<"inputs", InputOf[n], n>>
                 \/ p = <<"inputs", InputOf[n], n, f>>
      <4>1. PICK n \in DOMAIN d.route, f \in {"muted", "display_name"} :
                 \/ p = <<"inputs", InputOf[n]>> \/ p = <<"inputs", InputOf[n], n>>
                 \/ p = <<"inputs", InputOf[n], n, f>>
        BY <3>4
      <4>2. CASE p = <<"inputs", InputOf[n]>>
        <5>1. state = [T EXCEPT !["inputs"] = Spoil(T["inputs"], InputOf[n], v)]
          BY <3>1, <4>2, <1>2
        <5>2. QED
          BY <5>1, <1>1, <1>10, <1>11
      <4>3. CASE p = <<"inputs", InputOf[n], n>>
        <5>1. state = [T EXCEPT !["inputs"][InputOf[n]] = Spoil(T["inputs"][InputOf[n]], n, v)]
          BY <3>1, <4>3, <1>2
        <5>2. state = [T EXCEPT !["inputs"] = [I EXCEPT ![InputOf[n]] = Spoil(I[InputOf[n]], n, v)]]
          BY <5>1, <1>1
        <5>3. QED
          BY <5>2, <1>10, <1>11
      <4>4. CASE p = <<"inputs", InputOf[n], n, f>>
        <5> DEFINE x == Spoil(I[InputOf[n]][n], f, v)
        <5>1. state = [T EXCEPT !["inputs"][InputOf[n]][n] = Spoil(T["inputs"][InputOf[n]][n], f, v)]
          BY <3>1, <4>4, <1>2
        <5>2. state = [T EXCEPT !["inputs"] = [I EXCEPT ![InputOf[n]][n] = x]]
          BY <5>1, <1>1
        <5>3. Shape([I EXCEPT ![InputOf[n]][n] = x])
          BY <1>11, <4>1
        <5> HIDE DEF x
        <5>4. QED
          BY <5>2, <5>3, <1>10
      <4>5. QED
        BY <4>1, <4>2, <4>3, <4>4
    <3>5. CASE \E a, b, c, e : /\ a \notin {"matrix", "inputs"}
                               /\ p = <<a, b>> \/ p = <<a, b, c>> \/ p = <<a, b, c, e>>
      <4>1. PICK a, b, c, e : /\ a \notin {"matrix", "inputs"}
                              /\ p = <<a, b>> \/ p = <<a, b, c>> \/ p = <<a, b, c, e>>
        BY <3>5
      <4>2. \E x : state = [T EXCEPT ![a] = x]
        <5>1. CASE p = <<a, b>>
          <6>1. state = [T EXCEPT ![a] = Spoil(T[a], b, v)]
            BY <3>1, <5>1, <1>2
          <6>2. QED
            BY <6>1
        <5>2. CASE p = <<a, b, c>>
          <6>1. state = [T EXCEPT ![a][b] = Spoil(T[a][b], c, v)]
            BY <3>1, <5>2, <1>2
          <6>2. QED
            BY <6>1
        <5>3. CASE p = <<a, b, c, e>>
          <6>1. state = [T EXCEPT ![a][b][c] = Spoil(T[a][b][c], e, v)]
            BY <3>1, <5>3, <1>2
          <6>2. QED
            BY <6>1
        <5>4. QED
          BY <4>1, <5>1, <5>2, <5>3
      <4>3. QED
        BY <4>1, <4>2, <1>10
    <3>6. QED
      <4>1. \/ \E k : p = <<k>>
            \/ p \in {<<"outputs", "master">>, <<"outputs", "master", "muted">>}
            \/ \E n \in DOMAIN d.route : p \in StripPlaces(n)
        <5> DEFINE A == {<<k>> : k \in {"inputs", "matrix", "outputs", "levels"}}
                   C == {<<"outputs", "master">>, <<"outputs", "master", "muted">>}
                   B == UNION {StripPlaces(n) : n \in DOMAIN d.route}
        <5>1. Places(d) = A \cup B \cup C
          BY DEF Places
        <5>2. p \in A => \E k : p = <<k>>
          OBVIOUS
        <5>3. p \in B => \E n \in DOMAIN d.route : p \in StripPlaces(n)
          OBVIOUS
        <5> HIDE DEF A, B, C
        <5>4. p \in A \/ p \in B \/ p \in C
          BY <3>1, <5>1
        <5>5. QED
          BY <5>2, <5>3, <5>4 DEF C
      <4>2. CASE p \in {<<"outputs", "master">>, <<"outputs", "master", "muted">>}
        BY <4>2, <3>5
      <4>3. ASSUME NEW n \in DOMAIN d.route,
                   p = <<"levels", n>>
            PROVE  Right(state)
        BY <4>3, <3>5
      <4>4. ASSUME NEW n \in DOMAIN d.route,
                   p \in {<<"matrix", n>>, <<"matrix", n, "outputs">>, <<"matrix", n, "pfl_outputs">>}
            PROVE  Right(state)
        BY <4>4, <3>3
      <4>5. ASSUME NEW n \in DOMAIN d.route,
                   p \in {<<"inputs", InputOf[n]>>, <<"inputs", InputOf[n], n>>,
                          <<"inputs", InputOf[n], n, "muted">>, <<"inputs", InputOf[n], n, "display_name">>}
            PROVE  Right(state)
        BY <4>5, <3>4
      <4>6. QED
        BY <4>1, <4>2, <4>3, <4>4, <4>5, <3>2 DEF StripPlaces
  <2>3. QED
    BY <2>1, <2>2
<1>13. ASSUME Shape(Get(state, "inputs")), NEW n \in DOMAIN d.route, BuildStrip(state, n).muted
        PROVE  d.muted[n]
  <2> DEFINE P == Obj(Get(state, "inputs"))
             under == {i \in DOMAIN P : StripIn(P, i, n)}
  <2>1. BuildStrip(state, n).muted =
          Field(IF under = {} THEN <<>> ELSE P[CHOOSE i \in under : TRUE][n], "muted", FALSE)
    BY DEF BuildStrip, NoStrip
  <2>2. CASE under = {}
    <3>1. Field(<<>>, "muted", FALSE) = FALSE
      BY <1>5 DEF Field, Get, Or, Readable
    <3>2. QED
      BY <1>13, <2>1, <2>2, <3>1
  <2>3. CASE under # {}
    <3>1. PICK i \in under : BuildStrip(state, n).muted = Field(P[i][n], "muted", FALSE)
      BY <2>1, <2>3
    <3>2. LooksLikeStrip(Get(Obj(P[i]), n))
      BY <3>1 DEF StripIn
    <3>3. n \in DOMAIN Obj(P[i]) /\ Obj(P[i]) = P[i]
      BY <1>5, <3>2 DEF LooksLikeStrip, Get, Readable, Obj
    <3>4. Mute(P[i][n], n)
      BY <1>13, <3>1, <3>2, <3>3 DEF Shape, Get
    <3>5. QED
      BY <1>13, <3>1, <3>2, <3>3, <3>4 DEF Mute, Get
  <2>4. QED
    BY <2>2, <2>3
\* What is known of the routing is right, and what is not known is a critical warning.
<1>14. CASE Get(state, "matrix") = M /\ Shape(Get(state, "inputs"))
  <2> DEFINE P == Obj(Get(state, "inputs"))
  <2>1. Obj(Get(state, "matrix")) = M
    BY <1>3, <1>14 DEF Obj
  <2>2. \A i \in DOMAIN P : \A n : StripIn(P, i, n) /\ n \in DOMAIN Obj(P[i]) => n \in DOMAIN d.route
    BY <1>14 DEF Shape, StripIn, Get
  <2>3. Names(state) = DOMAIN d.route
    <3> HIDE DEF P
    <3>1. StripNames(P, M) = DOMAIN d.route
      BY <1>3, <2>2 DEF StripNames
    <3>2. QED
      BY <2>1, <3>1 DEF Names, P
  <2>4. ASSUME NEW n \in DOMAIN d.route PROVE Routing(state, n) = d.route[n]
    BY <1>3, <2>1 DEF Routing, Field, Or, Get, Obj
  <2>5. QED
    BY <1>14, <1>13, <2>3, <2>4
<1>15. CASE Get(state, "inputs") = I /\ Listed(Get(state, "matrix"))
  <2> DEFINE Q == Get(state, "matrix")
  <2>1. Readable(Q) /\ Obj(Q) = Q /\ Obj(Get(state, "inputs")) = I
    BY <1>3, <1>15 DEF Critical, When, Obj
  <2> HIDE DEF Q
  <2>2. DOMAIN Q \subseteq DOMAIN d.route /\ \A n \in DOMAIN Q : RoutingIsKnown(Q, n) => Readable(Q[n]) /\ Q[n].outputs = d.route[n]
    BY <1>15, <2>1 DEF Listed, Q
  <2>3. \A n \in DOMAIN d.route : /\ StripIn(I, InputOf[n], n) /\ InputOf[n] \in DOMAIN I
                                  /\ n \in DOMAIN Obj(I[InputOf[n]])
    BY <1>3 DEF StripIn, Get, Obj
  <2>4. ASSUME NEW i \in DOMAIN I, NEW n \in DOMAIN Obj(I[i]), StripIn(I, i, n) PROVE n \in DOMAIN d.route
    BY <1>8, <1>3, <2>4 DEF Shape, StripIn, Get, Obj
  <2>5. StripNames(I, Q) = DOMAIN d.route
    BY <2>2, <2>3, <2>4 DEF StripNames
  <2>6. \A n \in DOMAIN d.route : RoutingIsKnown(Q, n)
    BY <2>1, <2>5 DEF Critical, Q
  <2>7. ASSUME NEW n \in DOMAIN d.route PROVE Routing(state, n) = d.route[n]
    <3>1. /\ n \in DOMAIN Q /\ Q[n] \notin {Null, Odd} /\ Readable(Get(Q[n], "outputs"))
          /\ Readable(Q[n]) /\ Q[n].outputs = d.route[n]
      BY <2>2, <2>6 DEF RoutingIsKnown
    <3>2. Obj(Get(Q, n)) = Q[n] /\ Get(Q[n], "outputs") = d.route[n]
      BY <3>1, <1>3 DEF Obj, Get, Readable
    <3>3. QED
      BY <2>1, <3>1, <3>2 DEF Routing, Field, Or, Q
  <2>8. Shape(Get(state, "inputs"))
    BY <1>8, <1>15
  <2>9. QED
    BY <1>13, <2>1, <2>5, <2>7, <2>8 DEF Names, Q
<1>16. QED
  BY <1>12, <1>14, <1>15

\* A frame the desk may send: each whole entry of the mixer that can be read is one of its
\* states.
FrameOf(f, d) ==
  DOMAIN f \subseteq {1, 2} /\ \A i \in WholeMixers(f) : f[i].state \in States(d)

\* What a call brought from a desk, if it brought anything.
Came(c) == IsDesk(c.of) /\ (c.snap.ok => Snap(c.snap, c.of))

DrawerInv ==
  /\ IsDesk(device) /\ IsDesk(seen) /\ (shown.ok => Snap(shown, seen))
  /\ DOMAIN reads = Readers /\ \A r \in Readers : reads[r].at = "come" => Came(reads[r])
  /\ click.at # "idle" => click.strip \in Strips /\ click.bus \in AllBuses /\ click.want \in BOOLEAN
  /\ click.at = "read" => Came(click)
  /\ click.at = "sending" => click.msg.kind = "setRouting"
  /\ ClickIsMeant

\* A click on a crosspoint changes that crosspoint of the desk of its own reading and no
\* other, the way the operator saw it would, and what is on the screen claims no strip to be
\* off a bus or muted that is not (drawer.js: onCrosspoint; app_mixer.go: GetMixerSnapshot,
\* SendMixerCommands): whatever the desk, other seats and other readings do in the meantime
\* and whichever field of a frame is lost, for any strips, columns and numbers of readings
\* (Markers: what stands for a missing value is no JSON object).
THEOREM EveryClickIsMeant == Markers => (DrawerSpec => []OneCrosspointChanges)
<1> SUFFICES ASSUME Markers PROVE DrawerSpec => []OneCrosspointChanges
  OBVIOUS
<1>1. ASSUME NEW d, IsDesk(d), NEW f, FrameOf(f, d), Reading(f).ok
      PROVE  Snap(Reading(f), d)
  <2> DEFINE m == Min(WholeMixers(f))
             state == f[m].state
  <2>1. WholeMixers(f) # {} /\ WholeMixers(f) \subseteq {1, 2} /\ IsWhole(f)
    BY <1>1 DEF Reading, Unread, FrameOf, WholeMixers
  <2>2. m \in WholeMixers(f)
    <3>1. \E x \in WholeMixers(f) : \A y \in WholeMixers(f) : x <= y
      BY <2>1
    <3>2. QED
      BY <3>1 DEF Min
  <2>3. state \in States(d)
    BY <1>1, <2>2 DEF FrameOf
  <2>4. Critical(state) = {} /\ Reading(f) = Parsed(state)
    BY <1>1, <2>1 DEF Reading, Unread
  <2> HIDE DEF state
  <2>5. /\ Names(state) = DOMAIN d.route
        /\ \A n \in DOMAIN d.route : Routing(state, n) = d.route[n] /\ (BuildStrip(state, n).muted => d.muted[n])
    BY <1>1, <2>3, <2>4, NothingIsMadeUp
  <2>6. \A n : BuildStrip(state, n).outputs = Routing(state, n)
    BY DEF BuildStrip, NoStrip, Routing
  <2>7. /\ Parsed(state).ok /\ DOMAIN Parsed(state).strips = Names(state)
        /\ \A n \in Names(state) : Parsed(state).strips[n] = BuildStrip(state, n)
    BY DEF Parsed, Names
  <2>8. QED
    BY <2>4, <2>5, <2>6, <2>7 DEF Snap
<1>2. ASSUME NEW c \in Connections, IsDesk(device) PROVE Came([snap |-> GetMixerSnapshot(c), of |-> device])
  <2> DEFINE fs == c.frames
  <2>1. \/ fs = <<<<Delta>>, <<OtherNode, Entry("/", TrueState(device))>>>>
        \/ \E f \in Frames(device) : fs = <<f>>
    BY <1>2 DEF Connections, WholeAtLast
  <2> HIDE DEF fs
  <2> DEFINE whole == Entry("/", TrueState(device))
             Fine(e) == e.node = MixerNode /\ e.path = "/" /\ Readable(e.state) => e.state \in States(device)
  <2>2. /\ FrameOf(<<>>, device) /\ \A e : Fine(e) => FrameOf(<<e>>, device)
        /\ \A e, g : Fine(e) /\ Fine(g) => FrameOf(<<e, g>>, device)
    <3>1. DOMAIN <<>> = {} /\ (\A e : DOMAIN <<e>> = {1}) /\ \A e, g : DOMAIN <<e, g>> = {1, 2}
      OBVIOUS
    <3>2. \A e : <<e>>[1] = e
      OBVIOUS
    <3>3. \A e, g : <<e, g>>[1] = e /\ <<e, g>>[2] = g
      OBVIOUS
    <3>4. QED
      BY <3>1, <3>2, <3>3 DEF FrameOf, WholeMixers
  <2>3. /\ Fine(whole) /\ Fine(Delta) /\ Fine(OtherNode)
        /\ Fine(Entry("/", Null)) /\ Fine(Entry("/", Odd)) /\ Fine(Entry(Odd, Odd))
        /\ Fine(Entry(Absent, TrueState(device)))
        /\ \A p \in Places(device), v \in {Absent, Null, Odd} :
             Fine(Entry("/", Lose(TrueState(device), p, v)))
    <3>1. OtherNode.node # MixerNode
      BY DeskAssumption DEF OtherNode, Inputs
    <3>2. Delta.path = "/levels"
      BY DEF Delta, Entry
    <3>3. \A path, state : Entry(path, state).path = path /\ Entry(path, state).state = state
      BY DEF Entry
    <3>4. QED
      BY <3>1, <3>2, <3>3 DEF States, Readable
  <2>4. \A f \in Frames(device) : FrameOf(f, device)
    <3> HIDE DEF Fine, whole
    <3>1. ASSUME NEW f \in Frames(device)
          PROVE  \/ f \in {<<OtherNode, whole>>, <<whole, Delta>>, <<Delta, whole>>, <<Delta>>, <<OtherNode, Delta>>,
                           <<OtherNode>>, <<Entry("/", Null), whole>>, <<Entry("/", Odd)>>,
                           <<Entry(Absent, TrueState(device))>>, <<Entry(Odd, Odd), whole>>}
                 \/ \E p \in Places(device), v \in {Absent, Null, Odd} :
                      f = <<Entry("/", Lose(TrueState(device), p, v))>>
      BY <3>1 DEF Frames, whole
    <3>2. QED
      BY <3>1, <2>2, <2>3
  <2>5. FrameOf(RawSnapshot(fs), device)
    <3>1. CASE RawSnapshot(fs) = <<>>
      BY <3>1, <2>2
    <3>2. CASE RawSnapshot(fs) # <<>>
      <4> DEFINE found == {i \in DOMAIN fs : HasWholeNodeEntry(fs[i])}
      <4>1. found # {} /\ RawSnapshot(fs) = fs[Min(found)]
        BY <3>2 DEF RawSnapshot
      <4>2. DOMAIN fs \subseteq {1, 2} /\ \A i \in DOMAIN fs : FrameOf(fs[i], device)
        BY <2>1, <2>2, <2>3, <2>4
      <4>3. Min(found) \in found
        <5>1. found \subseteq {1, 2}
          BY <4>2
        <5> HIDE DEF found
        <5>2. \E x \in found : \A y \in found : x <= y
          <6>1. CASE 1 \in found
            BY <5>1, <6>1
          <6>2. CASE 1 \notin found
            <7>1. \E y \in found : TRUE
              BY <4>1
            <7>2. \A y \in found : y = 2
              BY <5>1, <6>2
            <7>3. QED
              BY <7>1, <7>2
          <6>3. QED
            BY <6>1, <6>2
        <5>3. QED
          BY <5>2 DEF Min
      <4>4. QED
        BY <4>1, <4>2, <4>3
    <3>3. QED
      BY <3>1, <3>2
  <2>6. GetMixerSnapshot(c) = Reading(RawSnapshot(fs))
    BY DEF GetMixerSnapshot, fs
  <2>7. QED
    BY <1>1, <1>2, <2>5, <2>6 DEF Came
\* What the page sends lists exactly the buses that are wanted.
<1>3. ASSUME NEW n \in Strips, NEW S \in SUBSET AllBuses
      PROVE  LET m == RoutingCommand(n, S) IN
             /\ m.kind = "setRouting" /\ Accepted(<<m>>)
             /\ Decoded(m).matrix = "output" /\ Decoded(m).input = n /\ ToSet(Decoded(m).outputs) = S
  <2> DEFINE l == SetToSeq(S)
             m == RoutingCommand(n, S)
             N == Cardinality(S)
  <2>1. IsFiniteSet(S) /\ N \in Nat /\ ExistsBijection(1..N, S)
    <3>1. IsFiniteSet(AllBuses)
      <4> DEFINE seven == <<"master", "aux1", "aux2", "mon1", "mon2", "mon3", "mon4">>
      <4>1. seven \in Surjection(1..7, AllBuses)
        BY DEF Surjection, AllBuses
      <4>2. \A k \in Nat : IsFiniteSet(1..k)
        BY FS_Interval
      <4> HIDE DEF seven
      <4>3. ASSUME NEW k \in Nat, NEW f \in Surjection(1..k, AllBuses) PROVE IsFiniteSet(AllBuses)
        BY <4>2, FS_Surjection
      <4>4. QED
        BY <4>1, <4>3
    <3>2. IsFiniteSet(S)
      BY <3>1, FS_Subset
    <3>3. QED
      BY <3>2, FS_CardinalityType
  <2>2. l \in [1..N -> S] /\ IsInjective(l)
    <3>1. PICK f \in [1..N -> S] : IsInjective(f)
      BY <2>1 DEF ExistsBijection, Bijection, Injection, IsInjective
    <3>2. QED
      BY <3>1 DEF SetToSeq
  <2>3. l \in Surjection(1..N, S)
    <3>1. l \in Injection(1..N, S)
      BY <2>2 DEF Injection, IsInjective
    <3>2. IsFiniteSet(1..N) /\ Cardinality(1..N) = N
      BY <2>1, FS_Interval
    <3>3. QED
      BY <2>1, <3>1, <3>2, FS_Injection
  <2>4. ToSet(l) = S /\ Readable(l) /\ l # Absent /\ l # Odd
    <3>1. ToSet(l) = S
      BY <2>2, <2>3 DEF ToSet, Surjection
    <3>2. l = [x \in DOMAIN l |-> l[x]]
      BY <2>2
    <3>3. QED
      BY <3>1, <3>2 DEF Readable, Markers, NoObject
  <2> HIDE DEF l
  <2>5. /\ m.kind = "setRouting" /\ m.args = [matrix |-> "output", input |-> n, outputs |-> l]
        /\ ArgsOf["setRouting"] = {"matrix", "input", "outputs"} /\ "setRouting" \in DOMAIN ArgsOf
    BY DEF RoutingCommand, l, ArgsOf
  <2> HIDE DEF m
  <2>6. Readable(m.args) /\ Obj(m.args) = m.args /\ DOMAIN m.args = {"matrix", "input", "outputs"}
    BY <2>5 DEF Obj, Readable, Markers, NoObject
  <2>7. Readable(n) /\ n # Nameless /\ Readable("output")
    BY DeskAssumption
  <2>8. /\ Decoded(m).matrix = "output" /\ Decoded(m).input = n /\ Decoded(m).outputs = l
    <3>1. \A k \in {"matrix", "input", "outputs"} : Decoded(m)[k] = Field(m.args, k, Zero[k])
      BY <2>5, <2>6 DEF Decoded
    <3>2. \A z : /\ Field(m.args, "matrix", z) = "output" /\ Field(m.args, "input", z) = n
                 /\ Field(m.args, "outputs", z) = l
      BY <2>4, <2>5, <2>6, <2>7 DEF Field, Or, Get
    <3>3. QED
      BY <3>1, <3>2
  <2>9. Decodes(m)
    <3>1. m.args \notin {Absent, Odd}
      BY <2>6 DEF Readable
    <3>2. \A k \in DOMAIN m.args : m.args[k] # Odd
      BY <2>4, <2>5, <2>6, <2>7 DEF Readable
    <3>3. QED
      BY <2>5, <2>6, <3>1, <3>2 DEF Decodes
  <2>10. Valid("setRouting", Decoded(m))
    BY <2>2, <2>4, <2>7, <2>8 DEF Valid, ValidRouting, CheckBusSet
  <2>11. Accepted(<<m>>)
    BY <2>5, <2>9, <2>10 DEF Accepted
  <2>12. QED
    BY <2>4, <2>5, <2>8, <2>11 DEF m
\* And does to the desk it was planned for what the operator saw it would.
<1>4. ASSUME NEW d, IsDesk(d), NEW n \in DOMAIN d.route, NEW b \in AllBuses, NEW want \in BOOLEAN,
             RoutingAfterToggle(d.route[n], b, want) # d.route[n]
      PROVE  LET m == RoutingCommand(n, RoutingAfterToggle(d.route[n], b, want)) IN
             /\ m.kind = "setRouting" /\ Accepted(<<m>>) /\ (want <=> b \notin d.route[n])
             /\ Applied(d, m.kind, Decoded(m)) =
                  [d EXCEPT !.route[n] = IF want THEN d.route[n] \cup {b} ELSE d.route[n] \ {b}]
  <2> DEFINE S == RoutingAfterToggle(d.route[n], b, want)
             m == RoutingCommand(n, S)
  <2>1. S = IF want THEN d.route[n] \cup {b} ELSE d.route[n] \ {b}
    BY DEF RoutingAfterToggle
  <2>2. S \in SUBSET AllBuses /\ n \in Strips
    BY <1>4, <2>1 DEF IsDesk
  <2>3. want <=> b \notin d.route[n]
    BY <1>4, <2>1
  <2> HIDE DEF S
  <2>4. /\ m.kind = "setRouting" /\ Accepted(<<m>>)
        /\ Decoded(m).matrix = "output" /\ Decoded(m).input = n /\ ToSet(Decoded(m).outputs) = S
    BY <1>3, <2>2
  <2> HIDE DEF m
  <2>5. Applied(d, m.kind, Decoded(m)) = [d EXCEPT !.route[n] = S]
    BY <2>4 DEF Applied
  <2>6. QED
    BY <2>1, <2>3, <2>4, <2>5 DEF S, m
<1>5. DrawerInv => OneCrosspointChanges
  BY DEF DrawerInv, OneCrosspointChanges, ScreenIsTrue, Snap, Rows
<1>6. DrawerInit => DrawerInv
  <2> SUFFICES ASSUME DrawerInit PROVE DrawerInv
    OBVIOUS
  <2>1. IsDesk(device) /\ seen = device
    BY DeskAssumption DEF DrawerInit, DeskInit, IsDesk
  <2>2. /\ ~shown.ok /\ DOMAIN reads = Readers /\ (\A r \in Readers : reads[r].at = "idle")
        /\ click.at = "idle"
    BY DEF DrawerInit, Unread, AtRest
  <2>3. QED
    BY <2>1, <2>2 DEF DrawerInv, ClickIsMeant
\* The desk stays one, whoever moves it.
<1>7. ASSUME IsDesk(device), DeskMoves PROVE IsDesk(device')
  <2> DEFINE others(n) == DOMAIN device.route \ {n}
             all(n) == DOMAIN device.route \cup {n}
             Rerouted == \E n \in DOMAIN device.route, r \in Routes : device' = [device EXCEPT !.route[n] = r]
             Muted == \E n \in DOMAIN device.route : device' = [device EXCEPT !.muted[n] = ~@]
             Removed == \E n \in DOMAIN device.route :
               device' = [device EXCEPT !.route = [x \in others(n) |-> @[x]], !.muted = [x \in others(n) |-> @[x]]]
             Added == \E n \in Strips \ DOMAIN device.route :
               device' = [device EXCEPT !.route = [x \in all(n) |-> IF x = n THEN {"master", "aux1", "aux2"} ELSE @[x]],
                                        !.muted = [x \in all(n) |-> x # n /\ @[x]]]
  <2>1. Rerouted \/ Muted \/ Removed \/ Added
    BY <1>7, Zenon DEF DeskMoves
  <2>2. CASE Rerouted
    BY <1>7, <2>2, DeskAssumption DEF IsDesk
  <2>3. CASE Muted
    BY <1>7, <2>3 DEF IsDesk
  <2>4. CASE Removed
    BY <1>7, <2>4 DEF IsDesk
  <2>5. CASE Added
    BY <1>7, <2>5 DEF IsDesk, AllBuses
  <2> HIDE DEF Rerouted, Muted, Removed, Added
  <2>6. QED
    BY <2>1, <2>2, <2>3, <2>4, <2>5
<1>8. ASSUME IsDesk(device), NEW m, Decodes(m), Valid(m.kind, Decoded(m)),
             device' = Applied(device, m.kind, Decoded(m)),
             m.kind = "setInputMuted" /\ Readable(Get(Obj(m.args), "muted")) => m.args["muted"] \in BOOLEAN
      PROVE  IsDesk(device')
  <2> DEFINE c == Decoded(m)
  <2>1. ASSUME m.kind = "setRouting", c.matrix = "output", c.input \in DOMAIN device.route
        PROVE  IsDesk(device')
    <3>1. device' = [device EXCEPT !.route[c.input] = ToSet(c.outputs)]
      BY <1>8, <2>1 DEF Applied
    <3>2. ToSet(c.outputs) \subseteq AllBuses
      BY <1>8, <2>1 DEF Valid, ValidRouting, CheckBusSet
    <3> DEFINE i == c.input
               S == ToSet(c.outputs)
    <3>3. IsDesk(device) /\ i \in DOMAIN device.route /\ device' = [device EXCEPT !.route[i] = S] /\ S \subseteq AllBuses
      BY <1>8, <2>1, <3>1, <3>2
    <3> HIDE DEF i, S
    <3>4. QED
      BY <3>3 DEF IsDesk
  <2>2. ASSUME m.kind = "setInputMuted", c.name \in DOMAIN device.route
        PROVE  IsDesk(device')
    <3>1. device' = [device EXCEPT !.muted[c.name] = c.muted]
      BY <1>8, <2>2 DEF Applied
    <3>2. c.muted \in BOOLEAN
      <4>1. c.muted = Or(Get(Obj(m.args), "muted"), FALSE)
        <5>1. ArgsOf["setInputMuted"] = {"name", "muted"}
          BY DEF ArgsOf
        <5>2. Zero.muted = FALSE
          BY DEF Zero
        <5>3. c.muted = Field(Obj(m.args), "muted", Zero.muted)
          BY <2>2, <5>1 DEF Decoded
        <5>4. QED
          BY <5>2, <5>3 DEF Field
      <4>2. Readable(Get(Obj(m.args), "muted")) => Get(Obj(m.args), "muted") \in BOOLEAN
        <5>1. Readable(Get(Obj(m.args), "muted")) => m.args.muted \in BOOLEAN /\ "muted" \in DOMAIN Obj(m.args)
          <6>1. Readable(Get(Obj(m.args), "muted")) => "muted" \in DOMAIN Obj(m.args)
            BY DEF Get, Readable
          <6>2. Readable(Get(Obj(m.args), "muted")) => m.args["muted"] \in BOOLEAN
            BY <1>8, <2>2, Zenon
          <6>3. QED
            BY <6>1, <6>2
        <5>2. "muted" \in DOMAIN Obj(m.args) => Obj(m.args) = m.args
          BY DEF Obj
        <5>3. QED
          BY <5>1, <5>2 DEF Get
      <4>3. QED
        BY <4>1, <4>2 DEF Or
    <3> DEFINE i == c.name
               q == c.muted
    <3>3. IsDesk(device) /\ i \in DOMAIN device.route /\ device' = [device EXCEPT !.muted[i] = q] /\ q \in BOOLEAN
      BY <1>8, <2>2, <3>1, <3>2
    <3> HIDE DEF i, q
    <3>4. QED
      BY <3>3 DEF IsDesk
  <2>3. ASSUME device'.route = device.route, device'.muted = device.muted
        PROVE  IsDesk(device')
    BY <1>8, <2>3 DEF IsDesk
  <2>4. QED
    <3>1. ASSUME ~ (m.kind = "setRouting" /\ c.matrix = "output" /\ c.input \in DOMAIN device.route),
                 ~ (m.kind = "setInputMuted" /\ c.name \in DOMAIN device.route)
          PROVE  device'.route = device.route /\ device'.muted = device.muted
      BY <1>8, <3>1 DEF Applied
    <3>2. QED
      BY <2>1, <2>2, <2>3, <3>1
<1>9. DrawerInv /\ [DrawerNext]_<<deskVars, drawerVars>> => DrawerInv'
  <2> SUFFICES ASSUME DrawerInv, [DrawerNext]_<<deskVars, drawerVars>> PROVE DrawerInv'
    OBVIOUS
  <2>1. ASSUME IsDesk(device'), UNCHANGED drawerVars PROVE DrawerInv'
    BY <2>1 DEF DrawerInv, drawerVars, ClickIsMeant
  \* A step that leaves the desk and the click alone.
  <2>2. ASSUME UNCHANGED <<device, click>>, IsDesk(seen'), shown'.ok => Snap(shown', seen'),
               DOMAIN reads' = Readers, \A r \in Readers : reads'[r].at = "come" => Came(reads'[r])
        PROVE  DrawerInv'
    BY <2>2 DEF DrawerInv, ClickIsMeant
  \* What comes is shown as it came.
  <2>3. ASSUME NEW c, Came(c), ApplySnapshot(c.snap, c.of) PROVE IsDesk(seen') /\ (shown'.ok => Snap(shown', seen'))
    BY <2>3 DEF ApplySnapshot, DrawerInv, Came
  <2>4. CASE UNCHANGED <<deskVars, drawerVars>>
    BY <2>1, <2>4 DEF DrawerInv, deskVars
  <2>5. CASE DeskMoves /\ UNCHANGED drawerVars
    BY <1>7, <2>1, <2>5 DEF DrawerInv
  <2>6. CASE SendMixerCommands /\ UNCHANGED drawerVars
    <3>1. PICK b \in Batches : /\ Accepted(b)
                               /\ \E i \in DOMAIN b : device' = Applied(device, b[i].kind, Decoded(b[i]))
      BY <2>6 DEF SendMixerCommands
    <3>2. PICK i \in DOMAIN b : device' = Applied(device, b[i].kind, Decoded(b[i]))
      BY <3>1
    <3>3. Valid(b[i].kind, Decoded(b[i])) /\ Decodes(b[i])
      BY <3>1 DEF Accepted
    <3>4. Readable(Get(Obj(b[i].args), "muted")) => b[i].args["muted"] \in BOOLEAN
      BY DeskAssumption
    <3>5. IsDesk(device')
      BY <1>8, <3>2, <3>3, <3>4 DEF DrawerInv
    <3>6. QED
      BY <2>1, <2>6, <3>5
  <2>7. CASE Close \/ SetArmed \/ GoesStale
    <3>1. UNCHANGED <<device, shown, seen, reads, click>>
      BY <2>7 DEF Close, SetArmed, GoesStale, Silent
    <3>2. QED
      BY <2>2, <3>1 DEF DrawerInv
  <2>8. CASE Open \/ PollMixer
    <3>1. /\ UNCHANGED <<device, shown, seen, click>>
          /\ \E r \in Readers : reads' = [reads EXCEPT ![r] = [at |-> "asked"]]
      BY <2>8 DEF Open, PollMixer, Silent, Readers
    <3>2. DOMAIN reads' = Readers /\ \A r \in Readers : reads'[r].at = "come" => Came(reads'[r])
      BY <3>1 DEF DrawerInv
    <3>3. QED
      BY <2>2, <3>1, <3>2 DEF DrawerInv
  <2>9. ASSUME NEW r \in Readers, ReadIsTaken(r) PROVE DrawerInv'
    <3>1. PICK c \in Connections :
            reads' = [reads EXCEPT ![r] = [at |-> "come", snap |-> GetMixerSnapshot(c), of |-> device]]
      BY <2>9 DEF ReadIsTaken
    <3>2. Came([snap |-> GetMixerSnapshot(c), of |-> device])
      BY <1>2 DEF DrawerInv
    <3>3. Came([at |-> "come", snap |-> GetMixerSnapshot(c), of |-> device])
      BY <3>2 DEF Came
    <3>4. DOMAIN reads' = Readers /\ \A x \in Readers : reads'[x].at = "come" => Came(reads'[x])
      BY <3>1, <3>3 DEF DrawerInv
    <3>5. UNCHANGED <<device, shown, seen, click>>
      BY <2>9 DEF ReadIsTaken, Silent
    <3>6. QED
      BY <2>2, <3>4, <3>5 DEF DrawerInv
  <2>10. ASSUME NEW r \in Readers, ReadReturns(r) PROVE DrawerInv'
    <3>1. Came(reads[r]) /\ ApplySnapshot(reads[r].snap, reads[r].of)
      BY <2>10 DEF ReadReturns, DrawerInv
    <3>2. DOMAIN reads' = Readers /\ \A x \in Readers : reads'[x].at = "come" => Came(reads'[x])
      BY <2>10 DEF ReadReturns, DrawerInv, AtRest
    <3>3. UNCHANGED <<device, click>>
      BY <2>10 DEF ReadReturns, Silent
    <3>4. QED
      BY <2>2, <2>3, <3>1, <3>2, <3>3
  \* A step of the click that leaves the rest alone.
  <2>11. ASSUME UNCHANGED <<device, shown, seen, reads>>,
                click'.at # "idle" => click'.strip \in Strips /\ click'.bus \in AllBuses /\ click'.want \in BOOLEAN,
                click'.at = "read" => Came(click'), click'.at # "sending"
         PROVE  DrawerInv'
    BY <2>11 DEF DrawerInv, ClickIsMeant
  <2>12. ASSUME NEW n \in Strips, NEW b \in Columns, Click(n, b) PROVE DrawerInv'
    <3>1. /\ click'.at = "reading" /\ click'.strip = n /\ click'.bus = b /\ click'.want \in BOOLEAN
          /\ UNCHANGED <<device, shown, seen, reads>>
      BY <2>12 DEF Click, Silent
    <3>2. QED
      BY <2>11, <3>1, DrawerAssumption
  <2>13. CASE ClickIsRead
    <3>1. PICK c \in Connections :
            click' = [at |-> "read", strip |-> click.strip, bus |-> click.bus, want |-> click.want,
                      snap |-> GetMixerSnapshot(c), of |-> device]
      BY <2>13 DEF ClickIsRead
    <3>2. Came([snap |-> GetMixerSnapshot(c), of |-> device])
      BY <1>2 DEF DrawerInv
    <3>3. Came(click')
      BY <3>1, <3>2 DEF Came
    <3>4. /\ click.at = "reading" /\ click'.strip = click.strip /\ click'.bus = click.bus
          /\ click'.want = click.want /\ click'.at = "read" /\ UNCHANGED <<device, shown, seen, reads>>
      BY <2>13, <3>1 DEF ClickIsRead, Silent
    <3>5. QED
      BY <2>11, <3>3, <3>4 DEF DrawerInv
  <2>14. CASE ClickPlans
    <3>1. click.at = "read" /\ Came(click) /\ ApplySnapshot(click.snap, click.of)
      BY <2>14 DEF ClickPlans, DrawerInv
    <3>2. UNCHANGED <<device, reads>> /\ IsDesk(seen') /\ (shown'.ok => Snap(shown', seen'))
      BY <2>3, <2>14, <3>1 DEF ClickPlans, Silent
    <3>3. CASE ~Plans
      <4>1. click'.at = "idle"
        BY <2>14, <3>3 DEF ClickPlans, AtRest
      <4>2. QED
        BY <3>2, <4>1 DEF DrawerInv, ClickIsMeant
    <3>4. CASE Plans
      <4> DEFINE d == click.of
                 n == click.strip
                 m == RoutingCommand(n, Desired)
      <4>1. /\ IsDesk(d) /\ n \in DOMAIN d.route /\ click.snap.strips[n].outputs = d.route[n]
            /\ click.bus \in AllBuses /\ click.want \in BOOLEAN
        BY <3>1, <3>4 DEF Plans, Rows, Came, Snap, DrawerInv
      <4>2. Desired = RoutingAfterToggle(d.route[n], click.bus, click.want) /\ Desired # d.route[n]
        BY <3>4, <4>1 DEF Plans, Desired, Row
      <4>3. /\ m.kind = "setRouting" /\ Accepted(<<m>>) /\ (click.want <=> click.bus \notin d.route[n])
            /\ Applied(d, m.kind, Decoded(m)) =
                 [d EXCEPT !.route[n] = IF click.want THEN d.route[n] \cup {click.bus} ELSE d.route[n] \ {click.bus}]
        BY <1>4, <4>1, <4>2
      <4> HIDE DEF m
      <4>4. click' = [at |-> "sending", strip |-> n, bus |-> click.bus, want |-> click.want, of |-> d, msg |-> m]
        BY <2>14, <3>4 DEF ClickPlans, m
      <4>5. /\ click'.at = "sending" /\ click'.strip = n /\ click'.bus = click.bus /\ click'.want = click.want
            /\ click'.of = d /\ click'.msg = m
        BY <4>4
      <4> HIDE DEF d, n
      <4>6. ClickIsMeant'
        BY <4>1, <4>3, <4>5 DEF ClickIsMeant
      <4>7. n \in Strips
        BY <4>1 DEF IsDesk
      <4>8. /\ IsDesk(device') /\ DOMAIN reads' = Readers
            /\ \A r \in Readers : reads'[r].at = "come" => Came(reads'[r])
        BY <3>2 DEF DrawerInv
      <4>9. QED
        BY <3>2, <4>1, <4>3, <4>5, <4>6, <4>7, <4>8 DEF DrawerInv
    <3>5. QED
      BY <3>3, <3>4
  <2>15. CASE ClickSends
    <3>1. /\ Accepted(<<click.msg>>) /\ device' = Applied(device, click.msg.kind, Decoded(click.msg))
          /\ click'.at = "idle" /\ UNCHANGED <<shown, seen, reads>>
      BY <2>15 DEF ClickSends, AtRest
    <3>2. Decodes(click.msg) /\ Valid(click.msg.kind, Decoded(click.msg))
      BY <3>1 DEF Accepted
    <3>3. click.msg.kind = "setRouting"
      BY <2>15 DEF ClickSends, DrawerInv
    <3>4. IsDesk(device')
      BY <1>8, <3>1, <3>2, <3>3 DEF DrawerInv
    <3>5. QED
      BY <3>1, <3>4 DEF DrawerInv, ClickIsMeant
  <2>16. CASE ClickFails
    <3>1. click'.at = "idle" /\ UNCHANGED <<device, shown, seen, reads>>
      BY <2>16 DEF ClickFails, Silent, AtRest
    <3>2. QED
      BY <2>11, <3>1
  <2>17. QED
    BY <2>4, <2>5, <2>6, <2>7, <2>8, <2>9, <2>10, <2>12, <2>13, <2>14, <2>15, <2>16 DEF DrawerNext
<1>10. QED
  BY <1>5, <1>6, <1>9, PTL DEF DrawerSpec

\* A routing that reaches the switcher carries the buses its message listed and never none
\* for a list that was missing, null or of another type; a limiter's threshold is there
\* exactly when the limiter is on, and is one the message named (app_mixer.go:
\* decodeMixerCommand; commands.go: Envelope): for any batches of commands, and for the
\* page's own clicks.  Of the other arguments nothing is said: a muted that is missing is
\* sent as false, and a gain as 0 dB.
THEOREM NothingIsMisread == DrawerSpec => []SentIsMeant
<1>1. ASSUME NEW m, Decodes(m), Valid(m.kind, Decoded(m)), sent' = [msg |-> m, cmd |-> Decoded(m)]
      PROVE  SentIsMeant'
  <2> DEFINE said == Obj(m.args)
             c == Decoded(m)
  <2>1. sent'.msg = m /\ sent'.cmd = c
    BY <1>1
  <2>2. CASE m.kind = "setRouting"
    <3>1. c.outputs = Field(said, "outputs", Zero.outputs)
      <4>1. "outputs" \in ArgsOf["setRouting"]
        BY DEF ArgsOf
      <4>2. QED
        BY <2>2, <4>1 DEF Decoded
    <3>2. Zero.outputs = Absent
      BY DEF Zero
    <3>3. c.outputs # Absent
      BY <1>1, <2>2 DEF Valid, ValidRouting
    <3> HIDE DEF said, c
    <3>4. Readable(Get(said, "outputs")) /\ c.outputs = said.outputs
      BY <3>1, <3>2, <3>3 DEF Field, Or, Get, Readable
    <3>5. QED
      BY <2>1, <2>2, <3>4 DEF SentIsMeant, said
  <2>3. CASE m.kind = "setCompLimit"
    <3>1. c.limiter_th = Field(said, "limiter_th", Zero.limiter_th)
      <4>1. "limiter_th" \in ArgsOf["setCompLimit"]
        BY DEF ArgsOf
      <4>2. QED
        BY <2>3, <4>1 DEF Decoded
    <3>2. Zero.limiter_th = Absent
      BY DEF Zero
    <3>3. (c.limiter_th # Absent) <=> (c.agc_mode = "limiter")
      BY <1>1, <2>3 DEF Valid, ValidCompLimit
    <3> HIDE DEF said, c
    <3>4. Readable(Get(said, "limiter_th")) <=> c.limiter_th # Absent
      BY <3>1, <3>2 DEF Field, Or, Readable
    <3>5. QED
      BY <2>1, <2>3, <3>3, <3>4 DEF SentIsMeant, said
  <2>4. CASE m.kind \notin {"setRouting", "setCompLimit"}
    BY <2>1, <2>4 DEF SentIsMeant
  <2>5. QED
    BY <2>2, <2>3, <2>4
<1>2. DrawerInit => SentIsMeant
  BY DEF DrawerInit, DeskInit, SentIsMeant
<1>3. SentIsMeant /\ [DrawerNext]_<<deskVars, drawerVars>> => SentIsMeant'
  <2> SUFFICES ASSUME SentIsMeant, [DrawerNext]_<<deskVars, drawerVars>> PROVE SentIsMeant'
    OBVIOUS
  <2>1. CASE SendMixerCommands
    <3>1. PICK batch \in Batches : Accepted(batch) /\ \E i \in DOMAIN batch :
                                     sent' = [msg |-> batch[i], cmd |-> Decoded(batch[i])]
      BY <2>1 DEF SendMixerCommands, Writes
    <3>2. QED
      BY <3>1, <1>1 DEF Accepted
  <2>2. CASE ClickSends
    BY <1>1, <2>2 DEF ClickSends, Writes, Accepted
  <2>3. CASE sent' = Absent \/ sent' = sent
    BY <2>3 DEF SentIsMeant
  <2>4. CASE \/ DeskMoves \/ Open \/ Close \/ SetArmed \/ GoesStale \/ PollMixer
             \/ ClickIsRead \/ ClickPlans \/ ClickFails
    <3>1. DeskMoves => sent' = Absent
      <4>1. DeskMoves => Writes(Absent)
        BY Zenon DEF DeskMoves
      <4>2. QED
        BY <4>1 DEF Writes
    <3>2. Open \/ Close \/ SetArmed \/ GoesStale \/ PollMixer => sent' = Absent
      BY DEF Open, Close, SetArmed, GoesStale, PollMixer, Silent, Writes
    <3>3. ClickIsRead \/ ClickPlans \/ ClickFails => sent' = Absent
      BY DEF ClickIsRead, ClickPlans, ClickFails, Silent, Writes
    <3>4. QED
      BY <2>3, <2>4, <3>1, <3>2, <3>3
  <2>5. CASE \/ \E r \in Readers : ReadIsTaken(r) \/ ReadReturns(r)
             \/ \E n \in Strips, b \in Columns : Click(n, b)
    <3>1. sent' = Absent
      BY <2>5 DEF ReadIsTaken, ReadReturns, Click, Silent, Writes
    <3>2. QED
      BY <2>3, <3>1
  <2>6. CASE UNCHANGED <<deskVars, drawerVars>>
    BY <2>3, <2>6 DEF deskVars
  <2>7. QED
    BY <2>1, <2>2, <2>4, <2>5, <2>6 DEF DrawerNext
<1>4. QED
  BY <1>2, <1>3, PTL DEF DrawerSpec
=============================================================================
