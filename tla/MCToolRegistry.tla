--------------------------- MODULE MCToolRegistry ---------------------------
(***************************************************************************)
(* An instance of ToolRegistry for TLC.                                    *)
(***************************************************************************)
EXTENDS ToolRegistry, TLC

Symmetry == Permutations(Procs) \cup Permutations(Names) \cup Permutations(Kits)
=============================================================================
