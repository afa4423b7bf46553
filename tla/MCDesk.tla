------------------------------- MODULE MCDesk -------------------------------
(***************************************************************************)
(* The desk on small instances: the arming of the switcher's mixer, what    *)
(* an operator is told of it, the control plane, and the second window.     *)
(* They are explored one at a time: `part` says which one moves.            *)
(***************************************************************************)
EXTENDS MixerArm, ControlPlane, MixerDrawer, SecondWindow, TLC

Symmetry == Permutations(Seats)
MCConfigs == {[host |-> Blank, key |-> Blank], [host |-> "a", key |-> Blank],
              [host |-> "a", key |-> "k"]}
\* Two edits, or one with two searches, or one with two renewals of the token.
MCCtlBudgets == {[edits |-> 2, searches |-> 0, renewals |-> 0],
                 [edits |-> 1, searches |-> 2, renewals |-> 0],
                 [edits |-> 1, searches |-> 0, renewals |-> 2]}

MCInputOf == [n \in {"cam1-1", "cam2-1"} |-> IF n = "cam1-1" THEN "cam1" ELSE "cam2"]
D(m, f, c) == [moves |-> m, faults |-> f, clicks |-> c]
\* A click and two changes at the desk, or one and something that goes wrong; two clicks.
MCDeskBudgets == {D(2, 0, 1), D(1, 1, 1), D(0, 1, 2)}
MCRoutes == {{}, {"master"}, {"master", "aux1", "aux2"}}

Msg(kind, args) == [kind |-> kind, args |-> args]
Route(matrix, buses) ==
  Msg("setRouting", [matrix |-> matrix, input |-> "cam1-1", outputs |-> buses])
MCBatches ==
  {<<>>, <<Route("output", <<"master">>), Msg("setInputMuted", [name |-> "cam1-1", muted |-> FALSE])>>}
  \cup {<<m>> : m \in
    {Route("output", o) : o \in {<<>>, Null, Odd, <<"master", "master">>, <<"aux9">>}}
    \cup {Route("MAIN", <<"master">>),
          Msg("setRouting", [matrix |-> "output", input |-> "cam1-1"]),
          Msg("setRouting", [matrix |-> "output", input |-> "cam1-1", output |-> <<"master">>]),
          Msg("setRouting", Null), Msg("setRouting", Absent), Msg("setGain", Null)}
    \cup {Msg("setOutputMuted", [buses |-> o, muted |-> TRUE]) : o \in {<<"master">>, <<>>}}
    \cup {Msg("setChFader", [name |-> "cam1-1", gain |-> <<0, 0>>])}
    \cup {Msg("setCompLimit", [name |-> "cam1-1", agc_mode |-> mode, limiter_th |-> 0])
            : mode \in {"off", "limiter"}}
    \cup {Msg("setCompLimit", [name |-> "cam1-1", agc_mode |-> mode]) : mode \in {"off", "limiter"}}}

B(p, t, s, q) == [presses |-> p, troubles |-> t, sends |-> s, quits |-> q]
\* A press, a crash, both, two crashes, and a shutdown over each.
MCWinBudgets == {B(1, 0, 2, FALSE), B(1, 1, 0, FALSE), B(0, 2, 1, FALSE), B(0, 1, 0, TRUE),
                 B(1, 0, 0, TRUE)}

VARIABLE part

allVars == <<part, vars, controlVars, deskVars, drawerVars, winVars>>

\* A part that does not move starts from one state only; the desk has one of its strips.
MCInit ==
  /\ part \in {"arm", "control", "mixer", "window"}
  /\ Init /\ CtlInit /\ DrawerInit /\ WinInit
  /\ part # "control" => /\ ctlConf = CHOOSE c \in Configs : TRUE
                         /\ ~password /\ ctlLeft = CHOOSE b \in CtlBudgets : TRUE
  /\ "cam1-1" \in DOMAIN device.route
  /\ part # "mixer" => /\ deskLeft = CHOOSE b \in DeskBudgets : TRUE
                       /\ device.route = CHOOSE f \in [{"cam1-1"} -> Routes] : TRUE
  /\ part # "window" => left = CHOOSE b \in WinBudgets : TRUE

\* Bound: a preset is applied or the application is shut down, not both.
ArmMoves ==
  /\ part = "arm" /\ Next /\ UNCHANGED <<part, controlVars, deskVars, drawerVars, winVars>>
  /\ preset' = "idle" \/ ~closing'
ControlMoves == part = "control" /\ CtlNext /\ UNCHANGED <<part, vars, deskVars, drawerVars, winVars>>
MixerMoves   == part = "mixer" /\ DrawerNext /\ UNCHANGED <<part, vars, controlVars, winVars>>
WindowMoves  == part = "window" /\ WinNext /\ UNCHANGED <<part, vars, controlVars, deskVars, drawerVars>>

MCNext == ArmMoves \/ ControlMoves \/ MixerMoves \/ WindowMoves
MCSpec == MCInit /\ [][MCNext]_allVars

\* The moving component's state is of its type.
TypesOK ==
  CASE part = "arm" -> TypeOK [] part = "control" -> CtlTypeOK
    [] part = "mixer" -> DeskTypeOK /\ DrawerTypeOK [] part = "window" -> WinTypeOK
=============================================================================
