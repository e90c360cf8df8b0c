----------------------------- MODULE AppJournal -----------------------------
(***************************************************************************)
(* What the hooks of an App may rely on (specs/031-app-instance.md, the    *)
(* test TestAppHooksRecoverPanicAndPreserveOrder): the events of one       *)
(* lifecycle come in one order, each carries the state it announces, and   *)
(* every registered component is announced once, between app.starting and  *)
(* app.started, agents before workflows and each kind by name.             *)
(***************************************************************************)
EXTENDS Naturals, Sequences

VARIABLES
  registered,  \* the registered components, as numbers in announcement order
  log,         \* the events delivered, each [type, name, state]
  void         \* a Shutdown began before the startup had returned

vars == <<registered, log, void>>

\* The name of an event that is about the App itself.
NoName == 0

LastType == IF log = <<>> THEN "none" ELSE log[Len(log)].type

Announced == {log[i].name : i \in 1..Len(log)} \ {NoName}

Say(type, name, state) ==
  /\ log' = Append(log, [type |-> type, name |-> name, state |-> state])
  /\ UNCHANGED registered

Opened == LastType \in {"starting", "registered"}

Starting == log = <<>> /\ Say("starting", NoName, "starting")

Announce(c) ==
  /\ Opened
  /\ Announced = {d \in registered : d < c}
  /\ Say("registered", c, "starting")

Started ==
  /\ Opened
  /\ Announced = registered
  /\ Say("started", NoName, "running")

\* A startup fails before the first announcement or after the last.
BootstrapFailed ==
  /\ Opened
  /\ Announced \in {{}, registered}
  /\ Say("bootstrap_failed", NoName, "stopped")

Stopping == LastType = "started" /\ Say("stopping", NoName, "stopping")

Stopped == LastType = "stopping" /\ Say("stopped", NoName, "stopped")

Init == log = <<>> /\ void = FALSE

Next ==
  \/ Starting \/ Started \/ BootstrapFailed \/ Stopping \/ Stopped
  \/ \E c \in registered : Announce(c)

Spec == Init /\ [][Next \/ void']_vars
=============================================================================
