----------------------------- MODULE AppContract -----------------------------
(***************************************************************************)
(* What an App promises about its lifecycle, whoever calls it and however  *)
(* often (specs/031-app-instance.md 9.1, 11.1 and 11.3): servers come up   *)
(* one by one in the order in which they were registered, the App runs     *)
(* only when all of them are up, they go down in the reverse order, the    *)
(* App is stopped only when none is up, and stopped is final.              *)
(***************************************************************************)
EXTENDS Naturals

CONSTANT N

VARIABLES
  phase,  \* created, starting, running, stopping or stopped
  up,     \* the servers that are up
  void    \* the callers broke the contract: nothing is promised any more

vars == <<phase, up, void>>

Init == phase = "created" /\ up = {} /\ void = FALSE

Begin ==
  /\ phase = "created"
  /\ phase' \in {"starting", "stopped"}
  /\ UNCHANGED up

BringUp(s) ==
  /\ phase = "starting"
  /\ up = 1..(s - 1)
  /\ up' = 1..s
  /\ UNCHANGED phase

BecomeReady ==
  /\ phase = "starting"
  /\ up = 1..N
  /\ phase' = "running"
  /\ UNCHANGED up

\* A shutdown, or the rollback of a startup that failed.
Leave ==
  /\ phase \in {"starting", "running"}
  /\ phase' = "stopping"
  /\ UNCHANGED up

TakeDown(s) ==
  /\ phase = "stopping"
  /\ up = 1..s
  /\ up' = 1..(s - 1)
  /\ UNCHANGED phase

Rest ==
  /\ phase = "stopping"
  /\ up = {}
  /\ phase' = "stopped"
  /\ UNCHANGED up

Next ==
  \/ Begin \/ BecomeReady \/ Leave \/ Rest
  \/ \E s \in 1..N : BringUp(s) \/ TakeDown(s)

Spec == Init /\ [][Next \/ void']_vars
=============================================================================
