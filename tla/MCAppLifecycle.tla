--------------------------- MODULE MCAppLifecycle ---------------------------
(***************************************************************************)
(* Instances of AppLifecycle for TLC.                                      *)
(***************************************************************************)
EXTENDS AppLifecycle, TLC

\* Goroutines and components are interchangeable: sound for safety only.
Symmetry == Permutations(Procs) \cup Permutations(Components)
=============================================================================
