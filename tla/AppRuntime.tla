----------------------------- MODULE AppRuntime -----------------------------
(***************************************************************************)
(* An App (pkg/app/app.go) as its hooks and the users of its Runtime see   *)
(* it: the events it emits and the names it resolves while one goroutine   *)
(* starts it and others shut it down.                                      *)
(*                                                                         *)
(* AppLifecycle has the races between callers and any number of servers;   *)
(* here one Server is registered, and what it does is left to the module   *)
(* that composes this one with it (DemoApp).  The actions ServerStarted,   *)
(* ServerFailed and ServerDown are the returns of calls to it.             *)
(***************************************************************************)
EXTENDS Naturals, Sequences, FiniteSets, FiniteSetsExt

CONSTANTS
  Agents, Flows,  \* names, numbered in the order in which they are announced
  Starter,        \* the goroutine that calls Start
  Stoppers        \* the goroutines that call Shutdown, once each

ASSUME NamesAssumption ==
  /\ Agents \in SUBSET (Nat \ {0}) /\ IsFiniteSet(Agents)
  /\ Flows \in SUBSET (Nat \ {0}) /\ IsFiniteSet(Flows)
  /\ \A a \in Agents, f \in Flows : a < f

ASSUME CallersAssumption == Starter \notin Stoppers

VARIABLES
  state,          \* a.state
  ready,          \* a.readyAgents and a.readyWorkflows
  factory,        \* a.agentFactories and a.workflowFactories
  built,          \* the locals startedAgents and startedWorkflows of start
  started,        \* a.startedAgents and a.startedWorkflows ({} is nil)
  servers,        \* len(a.startedServers): the one Server or none
  pc,             \* where each goroutine is
  todo,           \* the names the announcing loop of start has still to emit
  snapshot,       \* what a Shutdown copied from a.startedServers
  failed,         \* the local err of start, firstErr of Shutdown
  pending,        \* the event a goroutine has composed and not yet delivered
  log,            \* the events the hooks have received
  raced,          \* has a Shutdown caught the App starting?
  overlapped      \* has a Shutdown begun before Start had returned?

mapVars == <<ready, factory, built, started>>
appVars == <<state, mapVars, servers, todo, snapshot, failed, raced, overlapped>>
vars    == <<appVars, pc, pending, log>>

Names      == Agents \cup Flows
Registered == ready \cup factory
Callers    == {Starter} \cup Stoppers

\* The name of an event that is about the App itself.
NoName == 0
Events == [type : {"starting", "registered", "started", "stopping", "stopped",
                   "bootstrap_failed"},
           name : Names \cup {NoName},
           state : {"created", "starting", "running", "stopping", "stopped"}]

StarterPCs == {"idle", "starting", "agents", "flows", "publish", "listAgents",
               "announceAgents", "listFlows", "announceFlows", "servers",
               "startServer", "publishServer", "coldStart", "rollback", "clear",
               "failStart", "failed", "running", "started", "done"}
StopperPCs == {"idle", "stopping", "drain", "stop", "stopped", "done"}

AppTypeOK ==
  /\ state \in {"created", "starting", "running", "stopping", "stopped"}
  /\ ready \in SUBSET Names /\ factory \in SUBSET Names
  /\ built \in SUBSET Registered /\ started \in SUBSET Registered
  /\ servers \in 0..1
  /\ pc[Starter] \in StarterPCs /\ \A p \in Stoppers : pc[p] \in StopperPCs
  /\ todo \in SUBSET Registered
  /\ snapshot \in [Stoppers -> 0..1]
  /\ failed \in [Callers -> BOOLEAN]
  /\ \A p \in Callers : pending[p] = <<>> \/ pending[p] \in [1..1 -> Events]
  /\ \A i \in 1..Len(log) : log[i] \in Events
  /\ raced \in BOOLEAN /\ overlapped \in BOOLEAN

\* New: the registries are filled from the options.
AppInit ==
  /\ state = "created"
  /\ ready \in SUBSET Names
  /\ factory \in SUBSET Names
  /\ built = {} /\ started = {}
  /\ servers = 0
  /\ pc = [p \in Callers |-> "idle"]
  /\ todo = {}
  /\ snapshot = [p \in Stoppers |-> 0]
  /\ failed = [p \in Callers |-> FALSE]
  /\ pending = [p \in Callers |-> <<>>]
  /\ log = <<>>
  /\ raced = FALSE /\ overlapped = FALSE

-----------------------------------------------------------------------------
(* Steps and events. *)

\* A goroutine goes on only when the event it composed has been delivered.
Goto(p, from, to) ==
  /\ pc[p] = from
  /\ pending[p] = <<>>
  /\ pc' = [pc EXCEPT ![p] = to]

Step(p, from, to) == Goto(p, from, to) /\ UNCHANGED <<pending, log>>

\* emitEvent composes the event: eventMetadata reads the state for itself,
\* after the critical section that changed it.
Emit(p, from, to, type, name) ==
  /\ Goto(p, from, to)
  /\ pending' = [pending EXCEPT ![p] =
                   <<[type |-> type, name |-> name, state |-> state]>>]
  /\ UNCHANGED log

\* ... and then calls the hooks, without a lock.
Deliver(p) ==
  /\ pending[p] # <<>>
  /\ log' = log \o pending[p]
  /\ pending' = [pending EXCEPT ![p] = <<>>]
  /\ UNCHANGED <<appVars, pc>>

-----------------------------------------------------------------------------
(* start *)

\* EnsureStarted finds the App created; start emits app.starting.
Begin ==
  /\ state = "created"
  /\ Step(Starter, "idle", "starting")
  /\ state' = "starting"
  /\ UNCHANGED <<mapVars, servers, todo, snapshot, failed, raced, overlapped>>

EmitStarting ==
  /\ Emit(Starter, "starting", "agents", "starting", NoName)
  /\ UNCHANGED appVars

\* EnsureStarted finds the App shut down before it was started.
StartRefused ==
  /\ state \in {"stopping", "stopped"}
  /\ Step(Starter, "idle", "done")
  /\ UNCHANGED appVars

Fail(from, to) ==
  /\ Step(Starter, from, to)
  /\ failed' = [failed EXCEPT ![Starter] = TRUE]
  /\ UNCHANGED <<state, mapVars, servers, todo, snapshot, raced, overlapped>>

\* materializeAgents and materializeWorkflows: a name that is both ready and
\* made by a factory is refused, and any factory may fail.
Materialize(kind, from, to) ==
  /\ ready \cap factory \cap kind = {}
  /\ Step(Starter, from, to)
  /\ built' = built \cup (Registered \cap kind)
  /\ UNCHANGED <<state, ready, factory, started, servers, todo, snapshot, failed,
                 raced, overlapped>>

MaterializeFails(kind, from) ==
  /\ factory \cap kind # {}
  /\ Fail(from, "failStart")

\* Mutant: only what was registered ready is published.
PublishReady == started' = built \cap ready
PublishBuilt == started' = built

Publish ==
  /\ Step(Starter, "publish", "listAgents")
  /\ PublishBuilt
  /\ UNCHANGED <<state, ready, factory, built, servers, todo, snapshot, failed,
                 raced, overlapped>>

\* resolveAgent, resolveWorkflow: the started map first, then the ready one.
Resolves(name) == name \in started \/ name \in ready

\* Mutant: what a factory has made is not listed.
ListReady(kind) == ready \cap kind

\* listAgents, listWorkflows.
List(kind) == IF started \cap kind # {} THEN started \cap kind ELSE ready \cap kind

\* start ranges over what listAgents or listWorkflows returned ...
Enumerate(kind, from, to) ==
  /\ Step(Starter, from, to)
  /\ todo' = List(kind)
  /\ UNCHANGED <<state, mapVars, servers, snapshot, failed, raced, overlapped>>

\* ... in the order of the names, which both have sorted.
Announce(at) ==
  /\ todo # {}
  /\ Emit(Starter, at, at, "registered", Min(todo))
  /\ todo' = todo \ {Min(todo)}
  /\ UNCHANGED <<state, mapVars, servers, snapshot, failed, raced, overlapped>>

Announced(at, to) ==
  /\ todo = {}
  /\ Step(Starter, at, to)
  /\ UNCHANGED appVars

\* The loop over a.servers, which has one element.
CheckStopping ==
  \/ /\ state # "stopping"
     /\ Step(Starter, "servers", "startServer")
     /\ UNCHANGED appVars
  \/ /\ state = "stopping"
     /\ Fail("servers", "failStart")

ServerStarted == Step(Starter, "startServer", "publishServer") /\ UNCHANGED appVars

\* The Server did not start: there is nothing to roll back.
ServerFailed == Fail("startServer", "clear")

PublishServer ==
  /\ Step(Starter, "publishServer", "coldStart")
  /\ servers' = 1
  /\ UNCHANGED <<state, mapVars, todo, snapshot, failed, raced, overlapped>>

\* Mutant: the Server is left up.
SkipRollback == "clear"
RollBack     == "rollback"

ColdStart ==
  \/ Step(Starter, "coldStart", "running") /\ UNCHANGED appVars
  \/ Fail("coldStart", RollBack)

\* The critical section between a rollback and failStart.
Clear ==
  /\ Step(Starter, "clear", "failStart")
  /\ started' = {}
  /\ state' = "stopped"
  /\ UNCHANGED <<ready, factory, built, servers, todo, snapshot, failed, raced, overlapped>>

FailStart ==
  /\ Step(Starter, "failStart", "failed")
  /\ state' = "stopped"
  /\ UNCHANGED <<mapVars, servers, todo, snapshot, failed, raced, overlapped>>

EmitBootstrapFailed ==
  /\ Emit(Starter, "failed", "done", "bootstrap_failed", NoName)
  /\ UNCHANGED appVars

\* Mutant: the servers are appended to the list that has them already.
AppendStarted == servers' = servers + 1
RecordStarted == servers' = 1

SetRunning ==
  /\ Step(Starter, "running", "started")
  /\ RecordStarted
  /\ state' = "running"
  /\ UNCHANGED <<mapVars, todo, snapshot, failed, raced, overlapped>>

EmitStarted ==
  /\ Emit(Starter, "started", "done", "started", NoName)
  /\ UNCHANGED appVars

-----------------------------------------------------------------------------
(* Shutdown *)

ShutdownNoop(p) ==
  /\ \/ state \in {"stopped", "stopping"} /\ UNCHANGED state
     \/ state = "created" /\ state' = "stopped"
  /\ Step(p, "idle", "done")
  /\ UNCHANGED <<mapVars, servers, todo, snapshot, failed, raced, overlapped>>

\* Start has not returned: it runs, or its last event is not delivered yet.
StartActive == pc[Starter] \notin {"idle", "done"} \/ pending[Starter] # <<>>

ShutdownBegin(p) ==
  /\ state \in {"starting", "running"}
  /\ Step(p, "idle", "stopping")
  /\ state' = "stopping"
  /\ snapshot' = [snapshot EXCEPT ![p] = servers]
  /\ raced' = (raced \/ state = "starting")
  /\ overlapped' = (overlapped \/ StartActive)
  /\ UNCHANGED <<mapVars, servers, todo, failed>>

EmitStopping(p) ==
  /\ Emit(p, "stopping", IF snapshot[p] = 0 THEN "stop" ELSE "drain", "stopping", NoName)
  /\ UNCHANGED appVars

\* Mutant: an error of the Server is dropped.
DropError(p, error)   == UNCHANGED failed
RecordError(p, error) == failed' = [failed EXCEPT ![p] = @ \/ error]

\* Server.Shutdown returns, to the Shutdown or the rollback that called it.
ServerDown(p, error) ==
  /\ IF p = Starter THEN Step(p, "rollback", "clear") ELSE Step(p, "drain", "stop")
  /\ RecordError(p, error)
  /\ UNCHANGED <<state, mapVars, servers, todo, snapshot, raced, overlapped>>

\* The shutdown context may have ended meanwhile.
Stop(p) ==
  /\ Step(p, "stop", "stopped")
  /\ \E expired \in BOOLEAN : RecordError(p, expired)
  /\ state' = "stopped"
  /\ servers' = 0
  /\ UNCHANGED <<mapVars, todo, snapshot, raced, overlapped>>

EmitStopped(p) ==
  /\ Emit(p, "stopped", "done", "stopped", NoName)
  /\ UNCHANGED appVars

-----------------------------------------------------------------------------
\* Every step but the calls and the steps of the Server.
Boot ==
  \/ Deliver(Starter) \/ EmitStarting
  \/ Materialize(Agents, "agents", "flows") \/ MaterializeFails(Agents, "agents")
  \/ Materialize(Flows, "flows", "publish") \/ MaterializeFails(Flows, "flows")
  \/ Publish
  \/ Enumerate(Agents, "listAgents", "announceAgents")
  \/ Announce("announceAgents") \/ Announced("announceAgents", "listFlows")
  \/ Enumerate(Flows, "listFlows", "announceFlows")
  \/ Announce("announceFlows") \/ Announced("announceFlows", "servers")
  \/ CheckStopping \/ PublishServer \/ ColdStart \/ Clear \/ FailStart
  \/ EmitBootstrapFailed \/ SetRunning \/ EmitStarted

Halt(p) == Deliver(p) \/ EmitStopping(p) \/ Stop(p) \/ EmitStopped(p)
=============================================================================
