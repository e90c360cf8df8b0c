----------------------------- MODULE MCDemoApp -----------------------------
(***************************************************************************)
(* An instance of DemoApp for TLC: one agent and one workflow, ready or    *)
(* made by a factory, and names nothing is registered under.               *)
(***************************************************************************)
EXTENDS DemoApp

MCAgents  == {1}
MCFlows   == {2}
MCUnknown == 3
=============================================================================
