------------------------------- MODULE MCSeats -------------------------------
(***************************************************************************)
(* What the seats at the commentary share, on small instances.  The four    *)
(* parts are explored one at a time: `part` says which one moves.           *)
(***************************************************************************)
EXTENDS CommentaryMute, EventFeed, RemoteSession, RemoteServer

VARIABLE part

seatsVars == <<part, muteVars, feedVars, seatVars, srvVars>>

Init ==
  /\ part \in {"mute", "feed", "seat", "server"}
  /\ MuteInit /\ FeedInit /\ SeatInit /\ SrvInit

MuteMoves   == part = "mute"   /\ MuteNext /\ UNCHANGED <<part, feedVars, seatVars, srvVars>>
FeedMoves   == part = "feed"   /\ FeedNext /\ UNCHANGED <<part, muteVars, seatVars, srvVars>>
SeatMoves   == part = "seat"   /\ SeatNext /\ UNCHANGED <<part, muteVars, feedVars, srvVars>>
ServerMoves == part = "server" /\ SrvNext  /\ UNCHANGED <<part, muteVars, feedVars, seatVars>>

Next == MuteMoves \/ FeedMoves \/ SeatMoves \/ ServerMoves

\* What a part that is not moving is fair about cannot happen to it at all.
Fairness == MuteFairness /\ SeatFairness /\ SrvFairness

Spec == Init /\ [][Next]_seatsVars /\ Fairness

\* Every component's state is of its type, whichever moves.
TypesOK == MuteTypeOK /\ FeedTypeOK /\ SeatTypeOK /\ SrvTypeOK
=============================================================================
