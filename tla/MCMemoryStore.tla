---------------------------- MODULE MCMemoryStore ----------------------------
(***************************************************************************)
(* Instances of MemoryStore for TLC.                                       *)
(***************************************************************************)
EXTENDS MemoryStore, TLC

\* Runs, sessions, users and conversations are interchangeable.
Symmetry == Permutations(Runs) \cup Permutations(Sessions)
            \cup Permutations(Users) \cup Permutations(Conversations)
=============================================================================
