----------------------------- MODULE MCSenderLive -----------------------------
(***************************************************************************)
(* The sender's liveness on small instances: of its loops over the         *)
(* pipeline, and of the channels behind them.  The two are explored one at *)
(* a time: `part` says which one moves.                                    *)
(***************************************************************************)
EXTENDS Sender

CONSTANTS StatesBuffer, TaggedBuffer
VARIABLES part, life, socket, announced, emit, states, tagged, seen

channelVars == <<life, socket, announced, emit, states, tagged, seen>>

Channels == INSTANCE StateStream WITH lamp <- announced

LiveInit ==
  /\ part \in {"loops", "channels"}
  /\ Init /\ Channels!Init

LoopsMove    == part = "loops" /\ Next /\ UNCHANGED <<part, channelVars>>
ChannelsMove == part = "channels" /\ Channels!Next /\ UNCHANGED <<part, vars>>

LiveNext == LoopsMove \/ ChannelsMove

\* Of the part that does not move, no step that is fair is ever possible.
LiveSpec ==
  /\ LiveInit /\ [][LiveNext]_<<part, vars, channelVars>>
  /\ Fairness /\ Channels!Fairness

\* For the channels behind the loops: the last state an output announced is still
\* in its channel, on its way there, or was read (emitOutput's drop-oldest).
CurrentStateIsKept == Channels!CurrentStateIsKept
\* No loop stays with a peer that is lost or a pipeline that has failed (Sender), nor
\* in an announcement, whether or not anyone reads (emitOutput must not block a loop).
NothingIsHeldUp == FailuresAreNoticed /\ Channels!EmitCompletes
=============================================================================
