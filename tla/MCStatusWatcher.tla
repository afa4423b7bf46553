--------------------------- MODULE MCStatusWatcher ---------------------------
(* The status loop on small instances; see the cfg of each run. *)
EXTENDS StatusWatcher
OneRung == <<1>>
TwoRungs == <<1, 2>>
=============================================================================
