---------------------------- MODULE MCStreamText ----------------------------
(***************************************************************************)
(* An instance of StreamText for TLC.                                      *)
(***************************************************************************)
EXTENDS StreamText
=============================================================================
