------------------------------- MODULE MCMixer -------------------------------
(* The mixer's write path on small instances; see the cfg of each run. *)
EXTENDS MixerController, TLC
Symmetry == Permutations(Senders) \cup Permutations(Closers)
=============================================================================
