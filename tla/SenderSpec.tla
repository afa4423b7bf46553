----------------------------- MODULE SenderSpec -----------------------------
(***************************************************************************)
(* What internal/sender promises, output by output, to whoever watches the *)
(* lamps (internal/sender/sender.go, the State constants and Sender).      *)
(*                                                                         *)
(* An output is dialled, carries media, is drained when its peer is lost,  *)
(* waits, and is dialled again; the wait happens only once our own socket  *)
(* is gone, because the listener at the far end accepts one peer and       *)
(* refuses a second for seconds after it lost the first.  Every output is  *)
(* stopped together, once none of them has a socket, and stays stopped.    *)
(***************************************************************************)
EXTENDS Naturals

CONSTANT NumOutputs   \* SRT outputs of the session: one, or two behind the tee

Outputs == 0 .. NumOutputs - 1
Primary == 0

States == {"CONNECTING", "CONNECTED", "DRAINING", "BACKOFF", "STOPPED"}

VARIABLES
  life,    \* of the session: "new", "running", "stopping", "closed"
  lamp,    \* the state each output was last announced in
  socket   \* is a sink installed on the output?

specVars == <<life, lamp, socket>>

SpecTypeOK ==
  /\ life \in {"new", "running", "stopping", "closed"}
  /\ lamp \in [Outputs -> States]
  /\ socket \in [Outputs -> BOOLEAN]

SpecInit ==
  /\ life = "new"
  /\ lamp = [i \in Outputs |-> "STOPPED"]
  /\ socket = [i \in Outputs |-> FALSE]

Announce(i, from, to) ==
  /\ lamp[i] \in from
  /\ lamp' = [lamp EXCEPT ![i] = to]

Begin ==
  /\ life = "new"
  /\ life' = "running"
  /\ UNCHANGED <<lamp, socket>>

\* An output is dialled first, and again after each wait; never with a socket.
Dial(i) ==
  /\ life = "running"
  /\ Announce(i, {"STOPPED", "BACKOFF"}, "CONNECTING")
  /\ ~ socket[i]
  /\ UNCHANGED <<life, socket>>

Open(i) ==
  /\ life = "running"
  /\ lamp[i] = "CONNECTING"
  /\ socket' = [socket EXCEPT ![i] = TRUE]
  /\ UNCHANGED <<life, lamp>>

Carry(i) ==
  /\ life = "running"
  /\ socket[i]
  /\ Announce(i, {"CONNECTING"}, "CONNECTED")
  /\ UNCHANGED <<life, socket>>

Lose(i) ==
  /\ life = "running"
  /\ Announce(i, {"CONNECTED"}, "DRAINING")
  /\ UNCHANGED <<life, socket>>

Shut(i) ==
  /\ life = "running"
  /\ lamp[i] = "DRAINING"
  /\ socket' = [socket EXCEPT ![i] = FALSE]
  /\ UNCHANGED <<life, lamp>>

\* The wait starts only when the far end can already see our socket gone.
Wait(i) ==
  /\ life = "running"
  /\ ~ socket[i]
  /\ Announce(i, {"CONNECTING", "DRAINING"}, "BACKOFF")
  /\ UNCHANGED <<life, socket>>

\* Every socket goes at once, whatever the outputs were doing.
Cease ==
  /\ life = "running"
  /\ life' = "stopping"
  /\ socket' = [i \in Outputs |-> FALSE]
  /\ UNCHANGED lamp

Rest(i) ==
  /\ life = "stopping"
  /\ Announce(i, States, "STOPPED")
  /\ UNCHANGED <<life, socket>>

Close ==
  /\ life = "stopping"
  /\ \A i \in Outputs : lamp[i] = "STOPPED"
  /\ life' = "closed"
  /\ UNCHANGED <<lamp, socket>>

SpecNext ==
  \/ Begin \/ Cease \/ Close
  \/ \E i \in Outputs : \/ Dial(i) \/ Open(i) \/ Carry(i) \/ Lose(i)
                        \/ Shut(i) \/ Wait(i) \/ Rest(i)

SpecSpec == SpecInit /\ [][SpecNext]_specVars
=============================================================================
