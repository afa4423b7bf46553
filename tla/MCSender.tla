------------------------------ MODULE MCSender ------------------------------
(* The reconnect machine on small instances; see the cfg of each run. *)
EXTENDS Sender
=============================================================================
