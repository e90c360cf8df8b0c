----------------------------- MODULE MCReasoning -----------------------------
(***************************************************************************)
(* Instances of Reasoning for TLC.                                         *)
(***************************************************************************)
EXTENDS Reasoning
=============================================================================
