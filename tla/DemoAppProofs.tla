---------------------------- MODULE DemoAppProofs ----------------------------
(***************************************************************************)
(* Proofs about DemoApp, for any agents, workflows, callers of Shutdown    *)
(* and requests: types, what handlers find, what a drain waits for, the    *)
(* port, and the events the hooks see.                                     *)
(*                                                                         *)
(* Three invariants, each resting on the ones before it: DemoInv holds     *)
(* whatever happens, LifeInv says most until a Shutdown catches the App    *)
(* starting, and JournalInv until one begins before Start has returned.    *)
(***************************************************************************)
EXTENDS DemoApp, WellFoundedInduction, TLAPS

-----------------------------------------------------------------------------
(***************************************************************************)
(* Types.  TypeOK says nothing of the shape of the functions that are      *)
(* updated pointwise (ShapeInv).                                           *)
(***************************************************************************)
Pendings == {<<>>} \cup {<<e>> : e \in Events}

ShapeInv ==
  /\ pc \in [Callers -> StarterPCs \cup StopperPCs]
  /\ pending \in [Callers -> Pendings]
  /\ log \in Seq(Events)

-----------------------------------------------------------------------------
(***************************************************************************)
(* The startup.  Where the goroutine that starts the App is tells what it  *)
(* has built and published, and how far the Server's Start has come.       *)
(***************************************************************************)
\* The straight path of start, after its maps are published ...
Straight == {"listAgents", "announceAgents", "listFlows", "announceFlows", "servers",
             "startServer", "publishServer", "coldStart", "running", "started"}
\* ... and where it has left it.
Failing == {"rollback", "clear", "failStart", "failed"}

\* Start of the Server has returned nil.
PastStart == {"publishServer", "coldStart", "rollback", "clear", "failStart", "failed",
              "running", "started", "done"}

MapInv ==
  /\ pc[Starter] \in {"idle", "starting", "agents"} => built = {}
  /\ pc[Starter] = "flows" => built = Registered \cap Agents
  /\ pc[Starter] = "publish" => built = Registered
  /\ pc[Starter] \in Straight \cup {"rollback", "clear"} => started = Registered
  /\ pc[Starter] = "done" /\ startAt = "done" /\ ~failed[Starter] => started = Registered
  /\ pc[Starter] \in Failing => failed[Starter]

ServingInv ==
  /\ serve # "none" \/ startAt = "spawn" => fields
  /\ serve # "none" => startAt = "done" /\ listener # "none" /\ pc[Starter] \in PastStart
  /\ startAt = "done" /\ serve = "none" => listener = "none" /\ failed[Starter]
  /\ startAt = "listen" => listener = "none" /\ ~fields
  /\ startAt \in {"fields", "spawn"} => pc[Starter] = "startServer" /\ listener # "none"
  /\ startAt = "done" => pc[Starter] \in PastStart
  /\ pc[Starter] \in {"publishServer", "coldStart", "rollback", "running", "started"} =>
       serve # "none"

RequestInv ==
  \A r \in Requests :
    /\ req[r].answer # "panic"
    /\ req[r].at \notin {"idle", "done"} => serve # "none"

-----------------------------------------------------------------------------
(***************************************************************************)
(* The Shutdowns.                                                          *)
(***************************************************************************)
DrainPCs == {"stop", "stopped", "done"}

StopperInv(p) ==
  /\ pc[p] = "idle" => snapshot[p] = 0
  /\ pc[p] = "drain" => snapshot[p] = 1
  /\ snapshot[p] = 1 => fields
  /\ p \in draining => pc[p] = "drain" /\ inShutdown
  /\ pc[p] \in DrainPCs /\ snapshot[p] = 1 /\ ~failed[p] => inShutdown /\ InFlight = {}

DrainInv ==
  /\ servers = 1 => fields
  /\ inShutdown => fields
  /\ Starter \in draining => pc[Starter] = "rollback" /\ inShutdown
  /\ \A p \in Stoppers : StopperInv(p)

DemoInv == TypeOK /\ ShapeInv /\ MapInv /\ ServingInv /\ RequestInv /\ DrainInv

-----------------------------------------------------------------------------
(***************************************************************************)
(* The lifecycle, as long as no Shutdown has caught the App starting.      *)
(***************************************************************************)
Booting == {"starting", "agents", "flows", "publish", "listAgents", "announceAgents",
            "listFlows", "announceFlows", "servers", "startServer", "publishServer",
            "coldStart", "rollback", "clear", "running"}

\* Where the App is when start is where it is.
StageInv ==
  /\ pc[Starter] = "idle" => state \in {"created", "stopped"}
  /\ pc[Starter] \in Booting => state = "starting"
  /\ pc[Starter] = "failStart" => state \in {"starting", "stopped"}
  /\ pc[Starter] = "failed" => state = "stopped"
  /\ pc[Starter] \in {"started", "done"} => state \in {"running", "stopping", "stopped"}
  /\ state \in {"running", "stopping"} => serve # "none"
  /\ state = "running" => servers = 1

Active(p) == pc[p] \in {"stopping", "drain", "stop"}

\* One Shutdown stops the App, and it has the Server.
ActiveInv ==
  /\ \A p \in Stoppers : Active(p) => state = "stopping" /\ snapshot[p] = 1
  /\ \A p, q \in Stoppers : Active(p) /\ Active(q) => p = q
  /\ \A p \in Stoppers : pc[p] = "stop" => inShutdown

PortOpen == listener = "open" /\ ~inShutdown

PortInv ==
  /\ state \in {"created", "starting", "running"} /\ pc[Starter] \notin {"rollback", "clear"} =>
       ~inShutdown
  /\ state = "stopped" \/ pc[Starter] \in {"clear", "failStart"} => ~PortOpen

\* A server that is shut down has an open port only until Serve runs.
HandoverInv ==
  /\ serve = "ended" => inShutdown
  /\ inShutdown /\ listener = "open" => serve = "spawned"

LifeInv ==
  /\ listener = "closed" => inShutdown
  /\ raced => overlapped
  /\ ~raced => StageInv /\ ActiveInv /\ PortInv /\ HandoverInv

-----------------------------------------------------------------------------
(***************************************************************************)
(* The events, as long as no Shutdown has begun before Start had returned. *)
(***************************************************************************)
Told == Journal!Announced
Last == Journal!LastType

\* p has composed this event, and has not delivered it yet.
Composed(p, type, name, at) == pending[p] = <<[type |-> type, name |-> name, state |-> at]>>

\* The components of S are announced, or the last of them is composed.
Telling(S) ==
  /\ Journal!Opened
  /\ \/ pending[Starter] = <<>> /\ Told = S
     \/ \E c \in Registered :
          /\ Composed(Starter, "registered", c, "starting")
          /\ Told = {d \in Registered : d < c}
          /\ S = Told \cup {c}

\* The components in S are announced before those of todo.
Ahead(S) == todo \subseteq Registered /\ \A c \in S, d \in todo : c < d

BootJournal ==
  /\ pc[Starter] \in {"idle", "starting"} => log = <<>> /\ pending[Starter] = <<>>
  /\ pc[Starter] = "agents" =>
       Telling({}) \/ (log = <<>> /\ Composed(Starter, "starting", NoName, "starting"))
  /\ pc[Starter] \in {"flows", "publish", "listAgents"} => Telling({})
  /\ pc[Starter] = "announceAgents" =>
       todo \subseteq Agents /\ LET S == (Registered \cap Agents) \ todo IN Telling(S) /\ Ahead(S)
  /\ pc[Starter] = "listFlows" => Telling(Registered \cap Agents)
  /\ pc[Starter] = "announceFlows" => LET S == Registered \ todo IN Telling(S) /\ Ahead(S)
  /\ pc[Starter] \in {"servers", "startServer", "publishServer", "coldStart", "rollback",
                      "clear", "running", "started"} => Telling(Registered)
  /\ pc[Starter] \in {"failStart", "failed"} => Telling({}) \/ Telling(Registered)
  /\ pc[Starter] = "started" => state = "running"

\* start has returned, or will when its last event is delivered.
DoneJournal ==
  /\ pending[Starter] = <<>> /\ state = "running" => Last = "started"
  /\ pending[Starter] # <<>> =>
       /\ Journal!Opened
       /\ \/ Composed(Starter, "started", NoName, "running") /\ Told = Registered
          \/ /\ Composed(Starter, "bootstrap_failed", NoName, "stopped")
             /\ Told \in {{}, Registered} /\ state = "stopped"

\* p shuts the App down, or its last event is not delivered yet.
Busy(p) == Active(p) \/ pc[p] = "stopped" \/ pending[p] # <<>>

HaltJournal ==
  /\ \A p \in Stoppers : Busy(p) =>
       /\ pc[Starter] = "done" /\ pending[Starter] = <<>>
       /\ state \in {"stopping", "stopped"}
       /\ pc[p] = "stopped" => state = "stopped"
       /\ IF pending[p] = <<>>
          THEN Last = IF pc[p] = "stopping" THEN "started" ELSE "stopping"
          ELSE \/ pc[p] \in {"drain", "stop"} /\ Last = "started"
                  /\ Composed(p, "stopping", NoName, "stopping")
               \/ pc[p] = "done" /\ Last = "stopping"
                  /\ Composed(p, "stopped", NoName, "stopped")
  /\ \A p, q \in Stoppers : Busy(p) /\ Busy(q) => p = q

JournalInv ==
  ~overlapped =>
    /\ BootJournal
    /\ pc[Starter] = "done" => DoneJournal
    /\ HaltJournal

FullInv == DemoInv /\ LifeInv /\ JournalInv
-----------------------------------------------------------------------------
\* A set of natural numbers has a least element.
LEMMA LeastElement ==
  ASSUME NEW S \in SUBSET Nat, S # {}
  PROVE  Min(S) \in S /\ \A x \in S : Min(S) <= x
  <1> DEFINE R == {ss \in Nat \X Nat : ss[1] < ss[2]}
  <1>1. IsWellFoundedOn(R, Nat) BY NatLessThanWellFounded DEF OpToRel
  <1>2. \A x, m \in Nat : x < m => <<x, m>> \in R OBVIOUS
  <1> HIDE DEF R
  <1>3. PICK m \in S : \A x \in S : ~ (<<x, m>> \in R) BY <1>1, WFMin
  <1>4. \A x \in S : m <= x
    <2>1. ASSUME NEW x \in S PROVE m <= x
      <3>1. x \in Nat /\ m \in Nat OBVIOUS
      <3>2. ~(x < m) BY <1>2, <1>3, <3>1
      <3>3. QED BY <3>1, <3>2
    <2>2. QED BY <2>1
  <1>5. QED BY <1>3, <1>4 DEF Min

-----------------------------------------------------------------------------
(* The parts of a step. *)

AppAction ==
  \/ Begin \/ StartRefused \/ Boot \/ ServerStarted \/ ServerFailed
  \/ \E p \in Stoppers : ShutdownNoop(p) \/ ShutdownBegin(p) \/ Halt(p)
  \/ \E p \in Callers, error \in BOOLEAN : ServerDown(p, error)

ServerAction ==
  \/ Listen \/ ListenFails \/ PublishFields \/ Spawn \/ Serve \/ ServeEnds
  \/ \E p \in Callers : ShutdownEnter(p)
  \/ \E p \in Callers, error \in BOOLEAN : ShutdownLeave(p, error)
  \/ \E r \in Requests : Handle(r)

\* A step is one of the App, of the server, or of both.
LEMMA StepParts ==
  ASSUME [Next]_allVars
  PROVE  /\ AppAction \/ UNCHANGED vars
         /\ ServerAction \/ UNCHANGED serverVars
  <1> USE DEF AppAction, ServerAction, Callers
  <1>1. CASE CallStep BY <1>1 DEF CallStep, Quiet
  <1>2. CASE BootStep
    BY <1>2 DEF BootStep, Quiet, StartServer, ShutdownServer, Inside, Calling
  <1>3. CASE ServeStep BY <1>3 DEF ServeStep
  <1>4. ASSUME NEW p \in Stoppers, HaltStep(p)
        PROVE  /\ AppAction \/ UNCHANGED vars
               /\ ServerAction \/ UNCHANGED serverVars
    BY <1>4 DEF HaltStep, Quiet, ShutdownServer, Inside, Calling
  <1>5. ASSUME NEW r \in Requests, RequestStep(r)
        PROVE  /\ AppAction \/ UNCHANGED vars
               /\ ServerAction \/ UNCHANGED serverVars
    BY <1>5 DEF RequestStep
  <1>6. CASE UNCHANGED allVars BY <1>6 DEF allVars
  <1>7. QED BY <1>1, <1>2, <1>3, <1>4, <1>5, <1>6 DEF Next

\* What is registered does not change.
LEMMA Frozen ==
  ASSUME [Next]_allVars
  PROVE  UNCHANGED <<ready, factory>> /\ Registered' = Registered
  <1>1. AppAction => UNCHANGED <<ready, factory>>
    <2> USE DEF appVars, mapVars
    <2>1. Boot => UNCHANGED <<ready, factory>>
      BY DEF Boot, Deliver, EmitStarting, Materialize, MaterializeFails, Fail, Publish, Enumerate,
             Announce, Announced, CheckStopping, PublishServer, ColdStart, Clear, FailStart,
             EmitBootstrapFailed, SetRunning, EmitStarted
    <2>2. Begin \/ StartRefused \/ ServerStarted \/ ServerFailed => UNCHANGED <<ready, factory>>
      BY DEF Begin, StartRefused, ServerStarted, ServerFailed, Fail
    <2>3. \A p : ShutdownNoop(p) \/ ShutdownBegin(p) \/ Halt(p) => UNCHANGED <<ready, factory>>
      BY DEF ShutdownNoop, ShutdownBegin, Halt, Deliver, EmitStopping, Stop, EmitStopped
    <2>4. \A p, error : ServerDown(p, error) => UNCHANGED <<ready, factory>>
      BY DEF ServerDown
    <2>5. QED BY <2>1, <2>2, <2>3, <2>4 DEF AppAction
  <1>2. UNCHANGED <<ready, factory>>
    BY <1>1, StepParts DEF vars, appVars, mapVars
  <1>3. QED BY <1>2 DEF Registered

-----------------------------------------------------------------------------
(* Types. *)

LEMMA TypeInit == Init => TypeOK /\ ShapeInv
  <1> SUFFICES ASSUME Init PROVE TypeOK /\ ShapeInv OBVIOUS
  <1>1. AppTypeOK
    <2>1. built \in SUBSET Registered /\ started \in SUBSET Registered
          /\ ready \in SUBSET Names /\ factory \in SUBSET Names
          /\ todo \in SUBSET Registered /\ servers \in 0..1
      BY DEF Init, AppInit
    <2>2. pc[Starter] \in StarterPCs /\ \A p \in Stoppers : pc[p] \in StopperPCs
      BY DEF Init, AppInit, Callers, StarterPCs, StopperPCs
    <2>3. snapshot \in [Stoppers -> 0..1] /\ failed \in [Callers -> BOOLEAN]
      BY DEF Init, AppInit
    <2>4. \A p \in Callers : pending[p] = <<>> BY DEF Init, AppInit
    <2>5. \A i \in 1..Len(log) : log[i] \in Events BY DEF Init, AppInit
    <2>6. QED BY <2>1, <2>2, <2>3, <2>4, <2>5 DEF Init, AppInit, AppTypeOK
  <1>2. ServerTypeOK BY DEF Init, ServerInit, ServerTypeOK, Answers
  <1>3. ShapeInv
    BY DEF Init, AppInit, ShapeInv, Callers, StarterPCs, StopperPCs, Pendings
  <1>4. QED BY <1>1, <1>2, <1>3 DEF TypeOK

\* The positions of the starter and of the others, one goroutine moving.
LEMMA GotoType ==
  ASSUME AppTypeOK, ShapeInv, NEW p \in Callers, NEW from, NEW to, Goto(p, from, to),
         to \in IF p = Starter THEN StarterPCs ELSE StopperPCs
  PROVE  /\ pc'[Starter] \in StarterPCs /\ \A q \in Stoppers : pc'[q] \in StopperPCs
         /\ pc' \in [Callers -> StarterPCs \cup StopperPCs]
  BY CallersAssumption DEF AppTypeOK, ShapeInv, Goto, Callers

LEMMA StepType ==
  ASSUME AppTypeOK, ShapeInv, UNCHANGED <<ready, factory>>,
         NEW p \in Callers, NEW from, NEW to, Step(p, from, to),
         to \in IF p = Starter THEN StarterPCs ELSE StopperPCs,
         state' \in {"created", "starting", "running", "stopping", "stopped"},
         built' \in SUBSET Registered, started' \in SUBSET Registered,
         servers' \in 0..1, todo' \in SUBSET Registered, snapshot' \in [Stoppers -> 0..1],
         failed' \in [Callers -> BOOLEAN], raced' \in BOOLEAN, overlapped' \in BOOLEAN
  PROVE  AppTypeOK' /\ ShapeInv'
  BY GotoType DEF AppTypeOK, ShapeInv, Step, Registered

LEMMA EmitType ==
  ASSUME AppTypeOK, ShapeInv, UNCHANGED <<ready, factory, state, built, started, servers,
                                          snapshot, failed, raced, overlapped>>,
         todo' \in SUBSET Registered,
         NEW p \in Callers, NEW from, NEW to, NEW type, NEW name \in Names \cup {NoName},
         Emit(p, from, to, type, name),
         to \in IF p = Starter THEN StarterPCs ELSE StopperPCs,
         type \in {"starting", "registered", "started", "stopping", "stopped",
                   "bootstrap_failed"}
  PROVE  AppTypeOK' /\ ShapeInv'
  <1> DEFINE e == [type |-> type, name |-> name, state |-> state]
  <1>1. e \in Events BY DEF Events, AppTypeOK
  <1>2. /\ pending' = [pending EXCEPT ![p] = <<e>>]
        /\ Goto(p, from, to) /\ log' = log
    BY DEF Emit
  <1> HIDE DEF e
  <1>3. <<e>> \in Pendings /\ <<e>> \in [1..1 -> Events] BY <1>1 DEF Pendings
  <1>4. pending' \in [Callers -> Pendings] BY <1>2, <1>3 DEF ShapeInv
  <1>5. \A q \in Callers : pending'[q] = <<>> \/ pending'[q] \in [1..1 -> Events]
    BY <1>2, <1>3 DEF AppTypeOK, ShapeInv
  <1>6. QED BY <1>2, <1>4, <1>5, GotoType DEF AppTypeOK, ShapeInv, Registered

LEMMA DeliverType ==
  ASSUME AppTypeOK, ShapeInv, NEW p \in Callers, Deliver(p)
  PROVE  AppTypeOK' /\ ShapeInv'
  <1>1. PICK e \in Events : pending[p] = <<e>> BY DEF Deliver, ShapeInv, Pendings
  <1>2. log' = Append(log, e) /\ log' \in Seq(Events)
    <2>1. log \in Seq(Events) BY DEF ShapeInv
    <2>2. log \o <<e>> = Append(log, e) BY <2>1
    <2>3. QED BY <1>1, <2>1, <2>2 DEF Deliver
  <1>3. \A i \in 1..Len(log') : log'[i] \in Events BY <1>2
  <1>4. /\ pending' \in [Callers -> Pendings]
        /\ \A q \in Callers : pending'[q] = <<>> \/ pending'[q] \in [1..1 -> Events]
    BY DEF Deliver, ShapeInv, Pendings, AppTypeOK
  <1>5. QED BY <1>2, <1>3, <1>4 DEF Deliver, appVars, mapVars, AppTypeOK, ShapeInv, Registered

LEMMA AppTypeNext ==
  ASSUME AppTypeOK, ShapeInv, AppAction, UNCHANGED <<ready, factory>>
  PROVE  AppTypeOK' /\ ShapeInv'
  <1> USE DEF Callers, StarterPCs, StopperPCs
  <1> DEFINE Rest == UNCHANGED <<state, built, started, servers, snapshot, raced, overlapped>>
  <1>1. /\ state \in {"created", "starting", "running", "stopping", "stopped"}
        /\ built \in SUBSET Registered /\ started \in SUBSET Registered
        /\ servers \in 0..1 /\ todo \in SUBSET Registered /\ snapshot \in [Stoppers -> 0..1]
        /\ failed \in [Callers -> BOOLEAN] /\ raced \in BOOLEAN /\ overlapped \in BOOLEAN
    BY DEF AppTypeOK
  <1>2. CASE Begin BY <1>1, <1>2, StepType DEF Begin, mapVars
  <1>3. CASE StartRefused BY <1>1, <1>3, StepType DEF StartRefused, appVars, mapVars
  <1>4. CASE ServerStarted BY <1>1, <1>4, StepType DEF ServerStarted, appVars, mapVars
  <1>5. ASSUME NEW from, NEW to \in StarterPCs, Fail(from, to) PROVE AppTypeOK' /\ ShapeInv'
    BY <1>1, <1>5, StepType DEF Fail, mapVars
  <1>6. CASE ServerFailed BY <1>5, <1>6 DEF ServerFailed
  <1>7. CASE Boot
    <2>1. CASE Deliver(Starter) BY <2>1, DeliverType
    <2>2. CASE EmitStarting \/ EmitBootstrapFailed \/ EmitStarted
      BY <1>1, <2>2, EmitType
      DEF EmitStarting, EmitBootstrapFailed, EmitStarted, appVars, mapVars
    <2>3. ASSUME NEW kind, NEW from, NEW to \in StarterPCs, Materialize(kind, from, to)
          PROVE  AppTypeOK' /\ ShapeInv'
      BY <1>1, <2>3, StepType DEF Materialize
    <2>4. ASSUME NEW kind, NEW from, MaterializeFails(kind, from) PROVE AppTypeOK' /\ ShapeInv'
      BY <1>5, <2>4 DEF MaterializeFails
    <2>5. CASE Publish BY <1>1, <2>5, StepType DEF Publish, PublishBuilt
    <2>6. ASSUME NEW kind, NEW from, NEW to \in StarterPCs, Enumerate(kind, from, to)
          PROVE  AppTypeOK' /\ ShapeInv'
      <3>1. List(kind) \in SUBSET Registered BY <1>1 DEF List, Registered
      <3>2. QED BY <1>1, <2>6, <3>1, StepType DEF Enumerate, mapVars
    <2>7. ASSUME NEW at \in StarterPCs, Announce(at) PROVE AppTypeOK' /\ ShapeInv'
      <3>1. todo \subseteq Names BY DEF AppTypeOK, Registered
      <3>2. todo \subseteq Nat /\ todo # {}
        BY <2>7, <3>1, NamesAssumption DEF Announce, Names
      <3>3. Min(todo) \in Names BY <3>1, <3>2, LeastElement
      <3>4. todo' \in SUBSET Registered BY <1>1, <2>7 DEF Announce
      <3>5. QED BY <2>7, <3>3, <3>4, EmitType DEF Announce, mapVars
    <2>8. ASSUME NEW at, NEW to \in StarterPCs, Announced(at, to) PROVE AppTypeOK' /\ ShapeInv'
      BY <1>1, <2>8, StepType DEF Announced, appVars, mapVars
    <2>9. CASE CheckStopping \/ ColdStart
      BY <1>1, <1>5, <2>9, StepType DEF CheckStopping, ColdStart, RollBack, appVars, mapVars
    <2>10. CASE PublishServer \/ SetRunning
      BY <1>1, <2>10, StepType DEF PublishServer, SetRunning, RecordStarted, mapVars
    <2>11. CASE Clear \/ FailStart
      BY <1>1, <2>11, StepType DEF Clear, FailStart, mapVars
    <2>12. QED
      BY <1>7, <2>1, <2>2, <2>3, <2>4, <2>5, <2>6, <2>7, <2>8, <2>9, <2>10, <2>11 DEF Boot
  <1>8. ASSUME NEW p \in Stoppers, ShutdownNoop(p) \/ ShutdownBegin(p) \/ Halt(p)
        PROVE  AppTypeOK' /\ ShapeInv'
    <2> USE CallersAssumption
    <2>1. CASE ShutdownNoop(p) BY <1>1, <2>1, StepType DEF ShutdownNoop, mapVars
    <2>2. CASE ShutdownBegin(p)
      BY <1>1, <2>2, StepType DEF ShutdownBegin, mapVars, StartActive
    <2>3. CASE Deliver(p) BY <2>3, DeliverType
    <2>4. CASE EmitStopping(p) \/ EmitStopped(p)
      BY <1>1, <2>4, EmitType DEF EmitStopping, EmitStopped, appVars, mapVars
    <2>5. CASE Stop(p)
      BY <1>1, <2>5, StepType DEF Stop, RecordError, mapVars
    <2>6. QED BY <1>8, <2>1, <2>2, <2>3, <2>4, <2>5 DEF Halt
  <1>9. ASSUME NEW p \in Callers, NEW error \in BOOLEAN, ServerDown(p, error)
        PROVE  AppTypeOK' /\ ShapeInv'
    BY <1>1, <1>9, StepType, CallersAssumption DEF ServerDown, RecordError, mapVars
  <1>10. QED
    BY <1>2, <1>3, <1>4, <1>6, <1>7, <1>8, <1>9 DEF AppAction

LEMMA ServerTypeNext ==
  ASSUME ServerTypeOK, ServerAction
  PROVE  ServerTypeOK'
  <1> USE DEF ServerTypeOK, startVars
  <1>1. CASE Listen \/ ListenFails \/ PublishFields \/ Spawn
    BY <1>1 DEF Listen, ListenFails, PublishFields, SetFields, Spawn
  <1>2. CASE Serve \/ ServeEnds BY <1>2 DEF Serve, ServeEnds
  <1>3. ASSUME NEW p \in Callers, ShutdownEnter(p) PROVE ServerTypeOK'
    BY <1>3 DEF ShutdownEnter
  <1>4. ASSUME NEW p \in Callers, NEW error, ShutdownLeave(p, error) PROVE ServerTypeOK'
    BY <1>4 DEF ShutdownLeave
  <1>5. ASSUME NEW r \in Requests, Handle(r) PROVE ServerTypeOK'
    <2>1. ASSUME NEW from, NEW to \in {"decode", "run", "stream", "close"}, Move(r, from, to)
          PROVE  ServerTypeOK'
      BY <2>1 DEF Move
    <2>2. ASSUME NEW from, NEW answer \in Answers, Reply(r, from, answer) PROVE ServerTypeOK'
      BY <2>2 DEF Reply
    <2>3. CASE Accept(r)
      <3>1. PICK route \in Routes \cup {NoRoute} :
              req' = [req EXCEPT ![r].at = "resolve", ![r].route = route]
        BY <2>3 DEF Accept
      <3>2. req' \in [Requests -> [at : {"idle", "resolve", "decode", "run", "stream", "close",
                                         "done"},
                                   route : Routes \cup {NoRoute}, answer : Answers]]
        BY <3>1
      <3>3. QED BY <2>3, <3>1, <3>2 DEF Accept
    <2>4. CASE Probe(r) \/ ListNames(r) \/ Resolve(r) \/ Decode(r)
      BY <2>1, <2>2, <2>4 DEF Probe, ListNames, Resolve, Decode, Answers
    <2>5. CASE RunReturns(r) \/ OpenFails(r)
      BY <2>2, <2>5 DEF RunReturns, OpenFails, ErrorAnswers, Answers
    <2>6. CASE Open(r) \/ NoFlusher(r) BY <2>6 DEF Open, NoFlusher, Write, Answers
    <2>7. CASE StreamEnds(r) \/ StreamClosed(r)
      BY <2>1, <2>2, <2>7 DEF StreamEnds, StreamClosed
    <2>8. QED BY <1>5, <2>3, <2>4, <2>5, <2>6, <2>7 DEF Handle
  <1>6. QED BY <1>1, <1>2, <1>3, <1>4, <1>5 DEF ServerAction

LEMMA TypeNext ==
  ASSUME TypeOK, ShapeInv, [Next]_allVars
  PROVE  TypeOK' /\ ShapeInv'
  <1>1. AppTypeOK' /\ ShapeInv'
    <2>1. CASE AppAction BY <2>1, AppTypeNext, Frozen DEF TypeOK
    <2>2. CASE UNCHANGED vars
      BY <2>2 DEF TypeOK, AppTypeOK, ShapeInv, vars, appVars, mapVars, Registered
    <2>3. QED BY <2>1, <2>2, StepParts
  <1>2. ServerTypeOK'
    <2>1. CASE ServerAction BY <2>1, ServerTypeNext DEF TypeOK
    <2>2. CASE UNCHANGED serverVars
      BY <2>2 DEF TypeOK, ServerTypeOK, serverVars, startVars
    <2>3. QED BY <2>1, <2>2, StepParts
  <1>3. QED BY <1>1, <1>2 DEF TypeOK

-----------------------------------------------------------------------------
(* The steps of the App apart from the server's, and the joint steps. *)

\* A step of goroutine p that is no return of a call of the Server.
StarterOnly == Begin \/ StartRefused \/ Boot
StopperOnly(p) == ShutdownNoop(p) \/ ShutdownBegin(p) \/ Halt(p)

AppOnly ==
  \/ StarterOnly
  \/ \E p \in Stoppers : StopperOnly(p)
  \/ UNCHANGED vars

LEMMA JointCases ==
  ASSUME [Next]_allVars
  PROVE  \/ AppOnly /\ UNCHANGED serverVars
         \/ pc[Starter] = "startServer" /\ UNCHANGED vars /\ (Listen \/ PublishFields)
         \/ ServerStarted /\ Spawn
         \/ ServerFailed /\ ListenFails
         \/ \E p \in Callers : Calling(p) /\ ShutdownEnter(p)
         \/ \E p \in Callers, error \in BOOLEAN : ServerDown(p, error) /\ ShutdownLeave(p, error)
         \/ UNCHANGED vars /\ (Serve \/ ServeEnds)
         \/ UNCHANGED vars /\ \E r \in Requests : Handle(r)
  <1> USE DEF AppOnly, StarterOnly, StopperOnly, Callers
  <1>1. CASE CallStep BY <1>1 DEF CallStep, Quiet
  <1>2. CASE BootStep
    BY <1>2 DEF BootStep, Quiet, StartServer, ShutdownServer, Inside
  <1>3. CASE ServeStep BY <1>3 DEF ServeStep
  <1>4. CASE \E p \in Stoppers : HaltStep(p)
    BY <1>4 DEF HaltStep, Quiet, ShutdownServer
  <1>5. CASE \E r \in Requests : RequestStep(r) BY <1>5 DEF RequestStep
  <1>6. CASE UNCHANGED allVars BY <1>6 DEF allVars
  <1>7. QED BY <1>1, <1>2, <1>3, <1>4, <1>5, <1>6 DEF Next

\* A goroutine keeps its locals while another one moves.
Stays(q) ==
  /\ pc'[q] = pc[q] /\ pending'[q] = pending[q] /\ failed'[q] = failed[q]
  /\ q \in Stoppers => snapshot'[q] = snapshot[q]

LEMMA StopperStays ==
  ASSUME TypeOK, ShapeInv, NEW p \in Stoppers,
         StopperOnly(p) \/ \E error : ServerDown(p, error),
         NEW q \in Callers, q # p
  PROVE  Stays(q) /\ UNCHANGED <<built, started, todo>>
  <1> USE CallersAssumption
      DEF TypeOK, AppTypeOK, ShapeInv, Callers, Stays, Step, Goto, Emit, appVars, mapVars
  <1>1. CASE ShutdownNoop(p) BY <1>1 DEF ShutdownNoop
  <1>2. CASE ShutdownBegin(p) BY <1>2 DEF ShutdownBegin
  <1>3. CASE Deliver(p) BY <1>3 DEF Deliver
  <1>4. CASE EmitStopping(p) BY <1>4 DEF EmitStopping
  <1>5. CASE Stop(p) BY <1>5 DEF Stop, RecordError
  <1>6. CASE EmitStopped(p) BY <1>6 DEF EmitStopped
  <1>7. CASE \E error : ServerDown(p, error) BY <1>7 DEF ServerDown, RecordError
  <1>8. QED BY <1>1, <1>2, <1>3, <1>4, <1>5, <1>6, <1>7 DEF StopperOnly, Halt

LEMMA StarterStays ==
  ASSUME TypeOK, ShapeInv,
         StarterOnly \/ ServerStarted \/ ServerFailed \/ (\E error : ServerDown(Starter, error)),
         NEW q \in Stoppers
  PROVE  Stays(q)
  <1> USE CallersAssumption
      DEF TypeOK, AppTypeOK, ShapeInv, Callers, Stays, Step, Goto, Emit, appVars, mapVars
  <1>1. CASE Begin \/ StartRefused BY <1>1 DEF Begin, StartRefused
  <1>2. CASE ServerStarted BY <1>2 DEF ServerStarted
  <1>3. ASSUME NEW from, NEW to, Fail(from, to) PROVE Stays(q) BY <1>3 DEF Fail
  <1>4. CASE ServerFailed BY <1>3, <1>4 DEF ServerFailed
  <1>5. CASE \E error : ServerDown(Starter, error) BY <1>5 DEF ServerDown, RecordError
  <1>6. CASE Boot
    <2>1. CASE Deliver(Starter) BY <2>1 DEF Deliver
    <2>2. CASE EmitStarting \/ EmitBootstrapFailed \/ EmitStarted
      BY <2>2 DEF EmitStarting, EmitBootstrapFailed, EmitStarted
    <2>3. ASSUME NEW kind, NEW from, NEW to, Materialize(kind, from, to) PROVE Stays(q)
      BY <2>3 DEF Materialize
    <2>4. ASSUME NEW kind, NEW from, MaterializeFails(kind, from) PROVE Stays(q)
      BY <1>3, <2>4 DEF MaterializeFails
    <2>5. ASSUME NEW kind, NEW from, NEW to, Enumerate(kind, from, to) PROVE Stays(q)
      BY <2>5 DEF Enumerate
    <2>6. ASSUME NEW at, Announce(at) PROVE Stays(q) BY <2>6 DEF Announce
    <2>7. ASSUME NEW at, NEW to, Announced(at, to) PROVE Stays(q) BY <2>7 DEF Announced
    <2>8. CASE CheckStopping \/ ColdStart BY <1>3, <2>8 DEF CheckStopping, ColdStart
    <2>9. CASE Publish \/ PublishServer \/ SetRunning
      BY <2>9 DEF Publish, PublishServer, SetRunning
    <2>10. CASE Clear \/ FailStart BY <2>10 DEF Clear, FailStart
    <2>11. QED
      BY <1>6, <2>1, <2>2, <2>3, <2>4, <2>5, <2>6, <2>7, <2>8, <2>9, <2>10 DEF Boot
  <1>7. QED BY <1>1, <1>2, <1>4, <1>5, <1>6 DEF StarterOnly

-----------------------------------------------------------------------------
(* The startup. *)

\* Where a goroutine is after its step.
LEMMA Moved ==
  ASSUME ShapeInv, NEW p \in Callers, NEW from, NEW to, Goto(p, from, to)
  PROVE  pc[p] = from /\ pc'[p] = to
  BY DEF ShapeInv, Goto

LEMMA StarterMapNext ==
  ASSUME TypeOK, ShapeInv, MapInv, ServingInv, Registered' = Registered, StarterOnly,
         UNCHANGED serverVars
  PROVE  MapInv'
  <1> USE DEF MapInv, Straight, Failing, Step, Emit, appVars, mapVars, serverVars, startVars
  <1>1. Starter \in Callers BY DEF Callers
  <1>2. /\ failed[Starter] \in BOOLEAN
        /\ failed' = [failed EXCEPT ![Starter] = TRUE] => failed'[Starter]
    BY <1>1 DEF TypeOK, AppTypeOK
  <1>3. ASSUME NEW from, NEW to, Goto(Starter, from, to)
        PROVE  pc[Starter] = from /\ pc'[Starter] = to
    BY <1>1, <1>3, Moved
  <1>4. CASE Begin BY <1>3, <1>4 DEF Begin
  <1>5. CASE StartRefused BY <1>3, <1>5 DEF StartRefused, ServingInv, PastStart
  <1>6. ASSUME NEW from, NEW to \in {"clear", "rollback", "failStart"}, Fail(from, to),
               to = "failStart" \/ started = Registered
        PROVE  MapInv'
    BY <1>2, <1>3, <1>6 DEF Fail
  <1>7. CASE Boot
    <2>1. CASE Deliver(Starter) BY <2>1 DEF Deliver
    <2>2. CASE EmitStarting BY <1>3, <2>2 DEF EmitStarting
    <2>3. CASE EmitBootstrapFailed BY <1>3, <2>3 DEF EmitBootstrapFailed
    <2>4. CASE EmitStarted BY <1>3, <2>4 DEF EmitStarted
    <2>5. CASE Materialize(Agents, "agents", "flows") BY <1>3, <2>5 DEF Materialize
    <2>6. CASE Materialize(Flows, "flows", "publish")
      <3>1. Registered = (Registered \cap Agents) \cup (Registered \cap Flows)
        BY DEF TypeOK, AppTypeOK, Registered, Names
      <3>2. QED BY <1>3, <2>6, <3>1 DEF Materialize
    <2>7. ASSUME NEW kind, NEW from, MaterializeFails(kind, from) PROVE MapInv'
      BY <1>6, <2>7 DEF MaterializeFails
    <2>8. CASE Publish BY <1>3, <2>8 DEF Publish, PublishBuilt
    <2>9. ASSUME NEW kind, NEW from \in Straight, NEW to \in Straight, Enumerate(kind, from, to)
          PROVE  MapInv'
      BY <1>3, <2>9 DEF Enumerate
    <2>10. ASSUME NEW at \in Straight, Announce(at) PROVE MapInv'
      BY <1>3, <2>10 DEF Announce
    <2>11. ASSUME NEW from \in Straight, NEW to \in Straight, Announced(from, to) PROVE MapInv'
      BY <1>3, <2>11 DEF Announced
    <2>12. CASE CheckStopping BY <1>3, <1>6, <2>12 DEF CheckStopping
    <2>13. CASE PublishServer \/ SetRunning BY <1>3, <2>13 DEF PublishServer, SetRunning
    <2>14. CASE ColdStart
      <3>1. pc[Starter] = "coldStart" BY <1>3, <2>14 DEF ColdStart, Fail
      <3>2. QED BY <1>3, <1>6, <2>14, <3>1 DEF ColdStart, RollBack
    <2>15. CASE Clear \/ FailStart BY <1>3, <2>15 DEF Clear, FailStart
    <2>16. QED
      BY <1>7, <2>1, <2>2, <2>3, <2>4, <2>5, <2>6, <2>7, <2>8, <2>9, <2>10, <2>11, <2>12,
         <2>13, <2>14, <2>15
      DEF Boot
  <1>8. QED BY <1>4, <1>5, <1>7 DEF StarterOnly

LEMMA MapNext ==
  ASSUME TypeOK, ShapeInv, MapInv, ServingInv, [Next]_allVars
  PROVE  MapInv'
  <1> USE DEF MapInv, Straight, Failing, Step, appVars, mapVars, vars
  <1>1. Registered' = Registered BY Frozen
  <1>2. ASSUME NEW from, NEW to, Goto(Starter, from, to)
        PROVE  pc[Starter] = from /\ pc'[Starter] = to
    BY <1>2, Moved DEF Callers
  <1>3. ASSUME NEW p \in Stoppers, startAt' = startAt,
               StopperOnly(p) \/ \E error : ServerDown(p, error)
        PROVE  MapInv'
    <2>1. Stays(Starter) /\ UNCHANGED <<built, started, todo>>
      BY <1>3, StopperStays, CallersAssumption DEF Callers
    <2>2. QED BY <1>1, <1>3, <2>1 DEF Stays
  <1>4. CASE UNCHANGED vars /\ (startAt' = startAt \/ pc[Starter] = "startServer")
    BY <1>1, <1>4
  <1>5. CASE AppOnly /\ UNCHANGED serverVars
    <2>1. CASE StarterOnly BY <1>1, <1>5, <2>1, StarterMapNext
    <2>2. CASE \E p \in Stoppers : StopperOnly(p)
      BY <1>3, <1>5, <2>2 DEF serverVars, startVars
    <2>3. QED BY <1>4, <1>5, <2>1, <2>2 DEF AppOnly, serverVars, startVars
  <1>6. CASE ServerStarted /\ Spawn BY <1>1, <1>2, <1>6 DEF ServerStarted
  <1>7. CASE ServerFailed /\ ListenFails
    BY <1>1, <1>2, <1>7 DEF ServerFailed, Fail, TypeOK, AppTypeOK, Callers
  <1>8. ASSUME NEW p \in Callers, NEW error \in BOOLEAN,
               ServerDown(p, error), ShutdownLeave(p, error)
        PROVE  MapInv'
    <2>1. startAt' = startAt BY <1>8 DEF ShutdownLeave, startVars
    <2>2. CASE p = Starter
      <3>1. pc[Starter] = "rollback" /\ pc'[Starter] = "clear" BY <1>2, <1>8, <2>2 DEF ServerDown
      <3>2. failed'[Starter]
        BY <1>8, <2>2, <3>1 DEF ServerDown, RecordError, TypeOK, AppTypeOK, Callers
      <3>3. QED BY <1>1, <1>8, <3>1, <3>2 DEF ServerDown
    <2>3. QED BY <1>3, <1>8, <2>1, <2>2 DEF Callers
  <1>9. ASSUME NEW p \in Callers, Calling(p), ShutdownEnter(p) PROVE MapInv'
    BY <1>4, <1>9 DEF Calling, Inside, ShutdownEnter, startVars
  <1>10. CASE UNCHANGED vars /\ (Serve \/ ServeEnds)
    BY <1>4, <1>10 DEF Serve, ServeEnds, startVars
  <1>11. ASSUME NEW r \in Requests, Handle(r) PROVE startAt' = startAt
    BY <1>11 DEF Handle, Accept, Probe, ListNames, Resolve, Decode, RunReturns, Open,
                 NoFlusher, OpenFails, StreamEnds, StreamClosed, Move, Write, Reply, startVars
  <1>12. QED BY <1>4, <1>5, <1>6, <1>7, <1>8, <1>9, <1>10, <1>11, JointCases

\* The calls of the Server return.
Returns == \E p \in Callers, error \in BOOLEAN : ServerDown(p, error)

\* start leaves the Server only when the Server has returned, and does not go
\* back.
Serving == {"publishServer", "coldStart", "rollback", "running", "started"}

Progress ==
  /\ pc[Starter] \in PastStart => pc'[Starter] \in PastStart
  /\ pc[Starter] = "startServer" => pc'[Starter] = "startServer"
  /\ pc'[Starter] \in Serving => pc[Starter] \in Serving
  /\ failed[Starter] => failed'[Starter]

LEMMA StarterProgress ==
  ASSUME TypeOK, ShapeInv, AppOnly \/ Returns
  PROVE  Progress
  <1> USE DEF Progress, PastStart, Serving, Step, Emit, appVars, mapVars
  <1>1. Starter \in Callers BY DEF Callers
  <1>2. ASSUME NEW from, NEW to, Goto(Starter, from, to)
        PROVE  pc[Starter] = from /\ pc'[Starter] = to
    BY <1>1, <1>2, Moved
  <1>3. ASSUME NEW p \in Stoppers, StopperOnly(p) \/ \E error : ServerDown(p, error)
        PROVE  Progress
    <2>1. Stays(Starter) BY <1>3, StopperStays, CallersAssumption DEF Callers
    <2>2. QED BY <2>1 DEF Stays
  <1>4. ASSUME NEW error \in BOOLEAN, ServerDown(Starter, error) PROVE Progress
    BY <1>1, <1>2, <1>4 DEF ServerDown, RecordError, TypeOK, AppTypeOK
  <1>5. CASE UNCHANGED vars BY <1>5 DEF vars
  <1>6. ASSUME NEW from, NEW to, Fail(from, to),
               \/ from # "startServer" /\ to = "failStart"
               \/ from = "coldStart" /\ to = "rollback"
        PROVE  Progress
    <2>1. failed'[Starter] BY <1>1, <1>6 DEF Fail, TypeOK, AppTypeOK
    <2>2. pc[Starter] = from /\ pc'[Starter] = to BY <1>2, <1>6 DEF Fail
    <2>3. QED BY <1>6, <2>1, <2>2
  <1>7. CASE Begin \/ StartRefused BY <1>2, <1>7 DEF Begin, StartRefused
  <1>8. CASE Boot
    <2>1. CASE Deliver(Starter) BY <2>1 DEF Deliver
    <2>2. CASE EmitStarting \/ EmitBootstrapFailed \/ EmitStarted
      BY <1>2, <2>2 DEF EmitStarting, EmitBootstrapFailed, EmitStarted
    <2>3. CASE Materialize(Agents, "agents", "flows") \/ Materialize(Flows, "flows", "publish")
      BY <1>2, <2>3 DEF Materialize
    <2>4. CASE MaterializeFails(Agents, "agents") \/ MaterializeFails(Flows, "flows")
      <3>1. pc[Starter] \in {"agents", "flows"} BY <1>2, <2>4 DEF MaterializeFails, Fail
      <3>2. QED BY <1>6, <2>4, <3>1 DEF MaterializeFails
    <2>5. CASE Publish BY <1>2, <2>5 DEF Publish
    <2>6. CASE \/ Enumerate(Agents, "listAgents", "announceAgents")
               \/ Enumerate(Flows, "listFlows", "announceFlows")
      BY <1>2, <2>6 DEF Enumerate
    <2>7. CASE Announce("announceAgents") \/ Announce("announceFlows")
      BY <1>2, <2>7 DEF Announce
    <2>8. CASE \/ Announced("announceAgents", "listFlows")
               \/ Announced("announceFlows", "servers")
      BY <1>2, <2>8 DEF Announced
    <2>9. CASE CheckStopping
      <3>1. CASE Fail("servers", "failStart") BY <1>6, <3>1
      <3>2. CASE Step(Starter, "servers", "startServer") /\ UNCHANGED appVars BY <1>2, <3>2
      <3>3. QED BY <2>9, <3>1, <3>2 DEF CheckStopping
    <2>10. CASE ColdStart
      <3>1. CASE Fail("coldStart", RollBack) BY <1>6, <3>1 DEF RollBack
      <3>2. CASE Step(Starter, "coldStart", "running") /\ UNCHANGED appVars BY <1>2, <3>2
      <3>3. QED BY <2>10, <3>1, <3>2 DEF ColdStart
    <2>11. CASE PublishServer \/ SetRunning BY <1>2, <2>11 DEF PublishServer, SetRunning
    <2>12. CASE Clear \/ FailStart BY <1>2, <2>12 DEF Clear, FailStart
    <2>13. QED
      BY <1>8, <2>1, <2>2, <2>3, <2>4, <2>5, <2>6, <2>7, <2>8, <2>9, <2>10, <2>11, <2>12
      DEF Boot
  <1>9. CASE AppOnly BY <1>3, <1>5, <1>7, <1>8, <1>9 DEF AppOnly, StarterOnly
  <1>10. QED BY <1>3, <1>4, <1>9 DEF Returns, Callers

LEMMA HandlerOnly ==
  ASSUME NEW r \in Requests, Handle(r)
  PROVE  UNCHANGED <<startVars, listener, serve, inShutdown, draining>>
  BY DEF Handle, Accept, Probe, ListNames, Resolve, Decode, RunReturns, Open, NoFlusher,
         OpenFails, StreamEnds, StreamClosed, Move, Write, Reply

LEMMA ServingNext ==
  ASSUME TypeOK, ShapeInv, MapInv, ServingInv, DrainInv, [Next]_allVars
  PROVE  ServingInv'
  <1> USE DEF ServingInv, PastStart, startVars, serverVars
  <1>1. Starter \in Callers BY DEF Callers
  <1>2. ASSUME Progress, UNCHANGED <<startVars, listener, serve>> PROVE ServingInv'
    BY <1>2 DEF Progress, Serving
  <1>3. UNCHANGED vars => Progress BY DEF vars, appVars, Progress, Serving
  <1>4. CASE AppOnly /\ UNCHANGED serverVars BY <1>2, <1>4, StarterProgress
  <1>5. CASE pc[Starter] = "startServer" /\ UNCHANGED vars /\ (Listen \/ PublishFields)
    BY <1>5 DEF vars, appVars, Listen, PublishFields, SetFields
  <1>6. CASE ServerStarted /\ Spawn
    <2>1. pc'[Starter] = "publishServer" BY <1>1, <1>6, Moved DEF ServerStarted, Step
    <2>2. QED BY <1>6, <2>1 DEF Spawn
  <1>7. CASE ServerFailed /\ ListenFails
    <2>1. pc'[Starter] = "clear" BY <1>1, <1>7, Moved DEF ServerFailed, Fail, Step
    <2>2. failed'[Starter] BY <1>1, <1>7 DEF ServerFailed, Fail, TypeOK, AppTypeOK
    <2>3. serve = "none" BY <1>7 DEF ListenFails
    <2>4. QED BY <1>7, <2>1, <2>2, <2>3 DEF ListenFails
  <1>8. ASSUME NEW p \in Callers, Calling(p), ShutdownEnter(p) PROVE ServingInv'
    <2>1. UNCHANGED vars BY <1>8 DEF Calling, Inside
    <2>2. /\ UNCHANGED <<startVars, serve>>
          /\ listener' = listener \/ (serve = "serving" /\ listener' = "closed")
      BY <1>8 DEF ShutdownEnter
    <2>3. Progress BY <1>3, <2>1
    <2>4. QED BY <1>2, <2>2, <2>3 DEF Progress, Serving
  <1>9. ASSUME NEW p \in Callers, NEW error \in BOOLEAN,
               ServerDown(p, error), ShutdownLeave(p, error)
        PROVE  ServingInv'
    BY <1>2, <1>9, StarterProgress DEF Returns, ShutdownLeave
  <1>10. CASE UNCHANGED vars /\ (Serve \/ ServeEnds)
    <2>1. Progress BY <1>3, <1>10
    <2>2. /\ UNCHANGED startVars
          /\ serve # "none" /\ serve' # "none"
          /\ listener' = listener \/ listener' = "closed"
      BY <1>10 DEF Serve, ServeEnds
    <2>3. QED BY <2>1, <2>2 DEF Progress
  <1>11. ASSUME UNCHANGED vars, NEW r \in Requests, Handle(r) PROVE ServingInv'
    BY <1>2, <1>3, <1>11, HandlerOnly
  <1>12. QED BY <1>4, <1>5, <1>6, <1>7, <1>8, <1>9, <1>10, <1>11, JointCases

-----------------------------------------------------------------------------
(* The requests. *)

LEMMA RequestNext ==
  ASSUME TypeOK, ShapeInv, ServingInv, RequestInv, [Next]_allVars
  PROVE  RequestInv'
  <1>1. req' = req \/ \E r \in Requests : Handle(r)
    BY StepParts DEF ServerAction, Listen, ListenFails, PublishFields, Spawn, Serve, ServeEnds,
                     ShutdownEnter, ShutdownLeave, serverVars
  <1>2. serve # "none" => serve' # "none"
    <2>1. CASE \E r \in Requests : Handle(r) BY <2>1, HandlerOnly
    <2>2. QED
      BY <2>1, StepParts
      DEF ServerAction, Listen, ListenFails, PublishFields, Spawn, Serve, ServeEnds,
          ShutdownEnter, ShutdownLeave, serverVars
  <1>3. CASE req' = req BY <1>2, <1>3 DEF RequestInv
  <1>4. ASSUME NEW r \in Requests, Handle(r) PROVE RequestInv'
    <2> USE DEF RequestInv
    <2>1. req \in [Requests ->
               [at : {"idle", "resolve", "decode", "run", "stream", "close", "done"},
                route : Routes \cup {NoRoute}, answer : Answers]]
      BY DEF TypeOK, ServerTypeOK
    <2>2. ASSUME NEW from \in {"resolve", "decode", "run", "stream", "close"}, NEW to,
               Move(r, from, to)
          PROVE  RequestInv'
      BY <1>2, <2>1, <2>2 DEF Move
    <2>3. ASSUME NEW from, NEW answer \in Answers \ {"panic"}, Reply(r, from, answer)
          PROVE  RequestInv'
      BY <1>2, <2>1, <2>3 DEF Reply
    <2>4. ASSUME req[r].at = "resolve" PROVE fields BY <2>4 DEF ServingInv
    <2>5. CASE Accept(r)
      <3>1. PICK route \in Routes : req' = [req EXCEPT ![r].at = "resolve", ![r].route = route]
        BY <2>5 DEF Accept
      <3>2. \A q \in Requests : req'[q].answer = req[q].answer BY <2>1, <3>1
      <3>3. \A q \in Requests \ {r} : req'[q] = req[q] BY <2>1, <3>1
      <3>4. serve # "none" BY <2>5 DEF Accept
      <3>5. QED BY <1>2, <3>2, <3>3, <3>4
    <2>6. CASE Probe(r) BY <2>3, <2>6 DEF Probe, Answers
    <2>7. CASE ListNames(r)
      <3>1. Reply(r, "resolve", "200") BY <2>4, <2>7 DEF ListNames, Reply
      <3>2. QED BY <2>3, <3>1 DEF Answers
    <2>8. CASE Resolve(r)
      <3>1. Move(r, "resolve", "decode") \/ Reply(r, "resolve", "404")
        BY <2>4, <2>8 DEF Resolve, Reply, Move
      <3>2. QED BY <2>2, <2>3, <3>1 DEF Answers
    <2>9. CASE Decode(r) BY <2>2, <2>3, <2>9 DEF Decode, Answers
    <2>10. CASE RunReturns(r) \/ OpenFails(r)
      BY <2>3, <2>10 DEF RunReturns, OpenFails, ErrorAnswers, Answers
    <2>11. CASE Open(r) \/ NoFlusher(r) BY <1>2, <2>1, <2>11 DEF Open, NoFlusher, Write
    <2>12. CASE StreamEnds(r) \/ StreamClosed(r)
      <3>1. req[r].answer \in Answers \ {"panic"} BY <2>1
      <3>2. QED BY <2>2, <2>3, <2>12, <3>1 DEF StreamEnds, StreamClosed
    <2>13. QED BY <1>4, <2>5, <2>6, <2>7, <2>8, <2>9, <2>10, <2>11, <2>12 DEF Handle
  <1>5. QED BY <1>1, <1>3, <1>4

-----------------------------------------------------------------------------
(* The Shutdowns. *)

\* A goroutine that is inside a call of the Server stays there, and a step that
\* is none of the Server's records no Server that has not started.
LEMMA CallersWait ==
  ASSUME TypeOK, ShapeInv, AppOnly
  PROVE  /\ pc[Starter] = "rollback" => pc'[Starter] = "rollback"
         /\ servers' # servers => servers' = 0 \/ pc[Starter] \in Serving
  <1> USE DEF Step, Emit, appVars, mapVars, Serving
  <1> DEFINE Kept == /\ pc[Starter] = "rollback" => pc'[Starter] = "rollback"
                     /\ servers' # servers => servers' = 0 \/ pc[Starter] \in Serving
  <1>1. ASSUME NEW from, NEW to, Goto(Starter, from, to)
        PROVE  pc[Starter] = from /\ pc'[Starter] = to
    BY <1>1, Moved DEF Callers
  <1>2. CASE UNCHANGED vars BY <1>2 DEF vars
  <1>3. ASSUME NEW p \in Stoppers, StopperOnly(p) PROVE Kept
    <2>1. pc'[Starter] = pc[Starter] BY <1>3, StopperStays, CallersAssumption DEF Callers, Stays
    <2>2. servers' = servers \/ servers' = 0
      BY <1>3 DEF StopperOnly, ShutdownNoop, ShutdownBegin, Halt, Deliver, EmitStopping, Stop,
                  EmitStopped
    <2>3. QED BY <2>1, <2>2
  <1>4. CASE Begin \/ StartRefused BY <1>1, <1>4 DEF Begin, StartRefused
  <1>5. CASE Boot
    <2>1. CASE PublishServer \/ SetRunning BY <1>1, <2>1 DEF PublishServer, SetRunning
    <2>2. ASSUME NEW from, NEW to, Fail(from, to), from # "rollback" PROVE Kept
      BY <1>1, <2>2 DEF Fail
    <2>3. CASE Deliver(Starter) BY <2>3 DEF Deliver
    <2>4. CASE EmitStarting \/ EmitBootstrapFailed \/ EmitStarted
      BY <1>1, <2>4 DEF EmitStarting, EmitBootstrapFailed, EmitStarted
    <2>5. CASE Materialize(Agents, "agents", "flows") \/ Materialize(Flows, "flows", "publish")
      BY <1>1, <2>5 DEF Materialize
    <2>6. CASE MaterializeFails(Agents, "agents") \/ MaterializeFails(Flows, "flows")
      BY <2>2, <2>6 DEF MaterializeFails
    <2>7. CASE Publish BY <1>1, <2>7 DEF Publish
    <2>8. CASE \/ Enumerate(Agents, "listAgents", "announceAgents")
               \/ Enumerate(Flows, "listFlows", "announceFlows")
      BY <1>1, <2>8 DEF Enumerate
    <2>9. CASE Announce("announceAgents") \/ Announce("announceFlows")
      BY <1>1, <2>9 DEF Announce
    <2>10. CASE \/ Announced("announceAgents", "listFlows")
                \/ Announced("announceFlows", "servers")
      BY <1>1, <2>10 DEF Announced
    <2>11. CASE CheckStopping BY <1>1, <2>2, <2>11 DEF CheckStopping
    <2>12. CASE ColdStart BY <1>1, <2>2, <2>12 DEF ColdStart
    <2>13. CASE Clear \/ FailStart BY <1>1, <2>13 DEF Clear, FailStart
    <2>14. QED
      BY <1>5, <2>1, <2>3, <2>4, <2>5, <2>6, <2>7, <2>8, <2>9, <2>10, <2>11, <2>12, <2>13
      DEF Boot
  <1>6. QED BY <1>2, <1>3, <1>4, <1>5 DEF AppOnly, StarterOnly

\* What the server does not take back, and that nothing is accepted once it has
\* been told to shut down.
ServerKeeps ==
  /\ fields => fields'
  /\ inShutdown => inShutdown'
  /\ inShutdown /\ InFlight = {} => InFlight' = {}

LEMMA ServerStep ==
  ASSUME TypeOK, [Next]_allVars
  PROVE  ServerKeeps
  <1> USE DEF ServerKeeps, InFlight
  <1>1. CASE UNCHANGED serverVars BY <1>1 DEF serverVars, startVars
  <1>2. CASE Listen \/ ListenFails \/ PublishFields \/ Spawn \/ Serve \/ ServeEnds
    BY <1>2 DEF Listen, ListenFails, PublishFields, SetFields, Spawn, Serve, ServeEnds, startVars
  <1>3. ASSUME NEW p, NEW error, ShutdownEnter(p) \/ ShutdownLeave(p, error) PROVE ServerKeeps
    <2>1. UNCHANGED <<fields, req>> BY <1>3 DEF ShutdownEnter, ShutdownLeave, startVars
    <2>2. inShutdown => inShutdown'
      BY <1>3 DEF ShutdownEnter, ShutdownLeave, TypeOK, ServerTypeOK
    <2>3. QED BY <2>1, <2>2
  <1>4. ASSUME NEW r \in Requests, Handle(r) PROVE ServerKeeps
    <2>1. UNCHANGED <<fields, inShutdown>> BY <1>4, HandlerOnly DEF startVars
    <2>2. ASSUME inShutdown, InFlight = {} PROVE FALSE
      <3>1. req[r].at \in {"idle", "done"} BY <2>2
      <3>2. ~Accept(r) BY <2>2 DEF Accept
      <3>3. QED
        BY <1>4, <3>1, <3>2
        DEF Handle, Probe, ListNames, Resolve, Decode, RunReturns, Open, NoFlusher, OpenFails,
            StreamEnds, StreamClosed, Move, Write, Reply
    <2>3. QED BY <2>1, <2>2
  <1>5. QED BY <1>1, <1>2, <1>3, <1>4, StepParts DEF ServerAction

LEMMA StopperKept ==
  ASSUME TypeOK, [Next]_allVars, NEW p \in Stoppers, StopperInv(p), Stays(p),
         p \in draining' => p \in draining
  PROVE  StopperInv(p)'
  BY ServerStep DEF StopperInv, Stays, ServerKeeps, DrainPCs

LEMMA StopperNext ==
  ASSUME TypeOK, ShapeInv, DrainInv, [Next]_allVars, NEW p \in Stoppers, StopperOnly(p),
         UNCHANGED serverVars
  PROVE  StopperInv(p)'
  <1> USE DEF StopperInv, DrainPCs, Step, Emit, appVars, mapVars
  <1>1. p \in Callers /\ p # Starter BY CallersAssumption DEF Callers
  <1>2. ASSUME NEW from, NEW to, Goto(p, from, to) PROVE pc[p] = from /\ pc'[p] = to
    BY <1>1, <1>2, Moved
  <1>3. StopperInv(p) BY DEF DrainInv
  <1>4. UNCHANGED <<fields, inShutdown, draining>> /\ InFlight' = InFlight
    BY DEF serverVars, startVars, InFlight
  <1>5. snapshot[p] \in 0..1 /\ failed[p] \in BOOLEAN BY <1>1 DEF TypeOK, AppTypeOK
  <1>6. CASE ShutdownNoop(p)
    BY <1>2, <1>3, <1>4, <1>6 DEF ShutdownNoop
  <1>7. CASE ShutdownBegin(p)
    <2>1. pc[p] = "idle" /\ pc'[p] = "stopping" BY <1>2, <1>7 DEF ShutdownBegin
    <2>2. snapshot'[p] = servers BY <1>7 DEF ShutdownBegin, TypeOK, AppTypeOK
    <2>3. QED BY <1>3, <1>4, <2>1, <2>2 DEF DrainInv
  <1>8. CASE Deliver(p) BY <1>3, <1>4, <1>8 DEF Deliver
  <1>9. CASE EmitStopping(p)
    <2>1. pc[p] = "stopping" /\ pc'[p] = IF snapshot[p] = 0 THEN "stop" ELSE "drain"
      BY <1>2, <1>9 DEF EmitStopping
    <2>2. UNCHANGED <<snapshot, failed>> BY <1>9 DEF EmitStopping
    <2>3. snapshot[p] = 0 \/ snapshot[p] = 1 BY <1>5
    <2>4. QED BY <1>3, <1>4, <2>1, <2>2, <2>3
  <1>10. CASE Stop(p)
    <2>1. pc[p] = "stop" /\ pc'[p] = "stopped" BY <1>2, <1>10 DEF Stop
    <2>2. snapshot' = snapshot /\ (failed[p] => failed'[p])
      BY <1>1, <1>10 DEF Stop, RecordError, TypeOK, AppTypeOK
    <2>3. QED BY <1>3, <1>4, <2>1, <2>2
  <1>11. CASE EmitStopped(p) BY <1>2, <1>3, <1>4, <1>11 DEF EmitStopped
  <1>12. QED BY <1>6, <1>7, <1>8, <1>9, <1>10, <1>11 DEF StopperOnly, Halt

LEMMA DrainNext ==
  ASSUME TypeOK, ShapeInv, ServingInv, DrainInv, [Next]_allVars
  PROVE  DrainInv'
  <1>1. Starter \in Callers BY DEF Callers
  <1>2. fields => fields' BY ServerStep DEF ServerKeeps
  <1>3. inShutdown => inShutdown' BY ServerStep DEF ServerKeeps
  <1>4. pc[Starter] \in Serving => fields BY DEF ServingInv, Serving
  <1>5. servers' = 1 => fields'
    <2>1. CASE AppOnly BY <1>2, <1>4, <2>1, CallersWait DEF DrainInv
    <2>2. CASE servers' = servers BY <1>2, <2>2 DEF DrainInv
    <2>3. QED
      BY <2>1, <2>2, JointCases
      DEF vars, appVars, ServerStarted, ServerFailed, Fail, Calling, Inside, ServerDown
  <1>6. inShutdown' => fields'
    <2>1. inShutdown' => inShutdown \/ fields
      <3>1. CASE \E r \in Requests : Handle(r) BY <3>1, HandlerOnly
      <3>2. QED
        BY <3>1, StepParts
        DEF ServerAction, Listen, ListenFails, PublishFields, Spawn, Serve, ServeEnds,
            ShutdownEnter, ShutdownLeave, serverVars
    <2>2. QED BY <1>2, <2>1 DEF DrainInv
  <1> DEFINE Inv(p) == StopperInv(p)
             Rolling == Starter \in draining => pc[Starter] = "rollback" /\ inShutdown
  <1>7. Rolling /\ \A p \in Stoppers : Inv(p) BY DEF DrainInv
  <1> SUFFICES Rolling' /\ \A p \in Stoppers : Inv(p)' BY <1>5, <1>6 DEF DrainInv
  <1>8. ASSUME draining' = draining, pc'[Starter] = pc[Starter], \A p \in Stoppers : Stays(p)
        PROVE  Rolling' /\ \A p \in Stoppers : Inv(p)'
    BY <1>3, <1>7, <1>8, StopperKept
  <1>9. UNCHANGED vars => pc'[Starter] = pc[Starter] /\ \A p \in Stoppers : Stays(p)
    BY DEF vars, appVars, Stays
  <1>10. CASE AppOnly /\ UNCHANGED serverVars
    <2>1. draining' = draining BY <1>10 DEF serverVars
    <2>2. Rolling' BY <1>3, <1>7, <1>10, <2>1, CallersWait
    <2>3. CASE StarterOnly BY <1>7, <2>1, <2>2, <2>3, StarterStays, StopperKept
    <2>4. ASSUME NEW q \in Stoppers, StopperOnly(q), NEW p \in Stoppers PROVE Inv(p)'
      <3>1. CASE p = q BY <1>10, <2>4, <3>1, StopperNext
      <3>2. CASE p # q
        <4>1. Stays(p) BY <2>4, <3>2, StopperStays DEF Callers
        <4>2. QED BY <1>7, <2>1, <4>1, StopperKept
      <3>3. QED BY <3>1, <3>2
    <2>5. CASE UNCHANGED vars BY <1>8, <1>9, <2>1, <2>5
    <2>6. QED BY <1>10, <2>2, <2>3, <2>4, <2>5 DEF AppOnly
  <1>11. CASE pc[Starter] = "startServer" /\ UNCHANGED vars /\ (Listen \/ PublishFields)
    BY <1>8, <1>9, <1>11 DEF Listen, PublishFields
  <1>12. CASE (ServerStarted /\ Spawn) \/ (ServerFailed /\ ListenFails)
    <2>1. draining' = draining BY <1>12 DEF Spawn, ListenFails
    <2>2. pc[Starter] = "startServer" BY <1>12 DEF ServerStarted, ServerFailed, Fail, Step, Goto
    <2>3. Rolling' BY <1>7, <2>1, <2>2
    <2>4. QED BY <1>7, <1>12, <2>1, <2>3, StarterStays, StopperKept
  <1>13. ASSUME NEW q \in Callers, Calling(q), ShutdownEnter(q)
         PROVE  Rolling' /\ \A p \in Stoppers : Inv(p)'
    <2>1. UNCHANGED vars BY <1>13 DEF Calling, Inside
    <2>2. draining' = draining \cup {q} /\ inShutdown' = (inShutdown \/ fields)
      BY <1>13 DEF ShutdownEnter
    <2>3. CASE q = Starter
      <3>1. pc[Starter] = "rollback" BY <1>13, <2>3 DEF Calling, Inside
      <3>2. fields BY <1>4, <3>1 DEF Serving
      <3>3. \A p \in Stoppers : p \in draining' => p \in draining
        BY <2>2, <2>3, CallersAssumption
      <3>4. QED BY <1>7, <1>9, <2>1, <2>2, <3>1, <3>2, <3>3, StopperKept
    <2>4. CASE q # Starter
      <3>1. pc[q] = "drain" /\ q \in Stoppers BY <1>13, <2>4 DEF Calling, Inside, Callers
      <3>2. snapshot[q] = 1 /\ fields BY <1>7, <3>1 DEF StopperInv
      <3>3. StopperInv(q)'
        <4>1. /\ pc'[q] = "drain" /\ snapshot'[q] = 1
          BY <1>9, <2>1, <3>1, <3>2 DEF Stays
        <4>2. fields' /\ inShutdown' BY <1>2, <2>2, <3>2
        <4>3. QED BY <4>1, <4>2 DEF StopperInv, DrainPCs
      <3>4. ASSUME NEW p \in Stoppers, p # q PROVE StopperInv(p)'
        BY <1>7, <1>9, <2>1, <2>2, <3>4, StopperKept
      <3>5. Rolling' BY <1>3, <1>7, <1>9, <2>1, <2>2, <2>4
      <3>6. QED BY <3>3, <3>4, <3>5
    <2>5. QED BY <2>3, <2>4
  <1>14. ASSUME NEW q \in Callers, NEW error \in BOOLEAN,
               ServerDown(q, error), ShutdownLeave(q, error)
         PROVE  Rolling' /\ \A p \in Stoppers : Inv(p)'
    <2>1. /\ q \in draining /\ draining' = draining \ {q}
          /\ error \/ InFlight = {} \/ ~inShutdown
          /\ UNCHANGED <<fields, inShutdown>> /\ InFlight' = InFlight
      BY <1>14 DEF ShutdownLeave, startVars, InFlight
    <2>2. CASE q = Starter
      <3>1. \A p \in Stoppers : Stays(p) BY <1>14, <2>2, StarterStays
      <3>2. QED BY <1>7, <2>1, <2>2, <3>1, StopperKept
    <2>3. CASE q # Starter
      <3>1. q \in Stoppers BY <2>3 DEF Callers
      <3>2. pc[q] = "drain" /\ pc'[q] = "stop" BY <1>14, <2>3, Moved DEF ServerDown, Step
      <3>3. snapshot' = snapshot /\ (failed'[q] <=> failed[q] \/ error)
        BY <1>14 DEF ServerDown, RecordError, TypeOK, AppTypeOK
      <3>4. StopperInv(q)'
        BY <1>7, <2>1, <3>1, <3>2, <3>3 DEF StopperInv, DrainPCs
      <3>5. ASSUME NEW p \in Callers, p # q PROVE Stays(p) BY <1>14, <3>1, <3>5, StopperStays
      <3>6. ASSUME NEW p \in Stoppers, p # q PROVE StopperInv(p)'
        BY <1>7, <2>1, <3>5, <3>6, StopperKept DEF Callers
      <3>7. Rolling' BY <1>1, <1>3, <1>7, <2>1, <2>3, <3>5 DEF Stays
      <3>8. QED BY <3>4, <3>6, <3>7
    <2>4. QED BY <2>2, <2>3
  <1>15. CASE UNCHANGED vars /\ (Serve \/ ServeEnds)
    BY <1>8, <1>9, <1>15 DEF Serve, ServeEnds
  <1>16. CASE UNCHANGED vars /\ \E r \in Requests : Handle(r)
    BY <1>8, <1>9, <1>16, HandlerOnly
  <1>17. QED BY <1>10, <1>11, <1>12, <1>13, <1>14, <1>15, <1>16, JointCases

-----------------------------------------------------------------------------
(***************************************************************************)
(* The invariant, and what it shows.                                       *)
(***************************************************************************)
LEMMA DemoInit == Init => DemoInv
  <1> SUFFICES ASSUME Init PROVE DemoInv OBVIOUS
  <1>1. TypeOK /\ ShapeInv BY TypeInit
  <1>2. MapInv BY DEF Init, AppInit, MapInv, Straight, Failing, Callers
  <1>3. ServingInv BY DEF Init, AppInit, ServerInit, ServingInv, PastStart, Callers
  <1>4. RequestInv BY DEF Init, ServerInit, RequestInv
  <1>5. DrainInv BY DEF Init, AppInit, ServerInit, DrainInv, StopperInv, DrainPCs, Callers
  <1>6. QED BY <1>1, <1>2, <1>3, <1>4, <1>5 DEF DemoInv

LEMMA DemoNext == DemoInv /\ [Next]_allVars => DemoInv'
  BY TypeNext, MapNext, ServingNext, RequestNext, DrainNext DEF DemoInv

LEMMA DemoInvariant == Spec => []DemoInv
  BY DemoInit, DemoNext, PTL DEF Spec

\* The types of the composed App and server, whatever they do.
THEOREM TypeCorrect == Spec => []TypeOK
  BY DemoInvariant, PTL DEF DemoInv

\* A Shutdown that reported success has waited for every request (DrainWaits):
\* it found the server that Start had published, entered its Shutdown, from where
\* nothing is accepted, and left it with nothing in flight.
THEOREM DrainsAll == Spec => []DrainWaits
  <1>1. DemoInv => DrainWaits
    BY DEF DemoInv, DrainInv, StopperInv, DrainPCs, DrainWaits, ShutDownBy
  <1>2. QED BY <1>1, DemoInvariant, PTL

\* A handler finds the Runtime and what is registered (ResolvesWhileServed), from
\* the step where the server accepts until a startup has been rolled back.
THEOREM HandlersResolve == Spec => ResolvesWhileServed
  <1> DEFINE Finds(r) ==
        /\ req'[r].answer # "panic"
        /\ req[r].answer = "none" /\ req'[r].answer = "404" =>
             \/ req[r].route.name \notin Registered
             \/ failed[Starter] /\ pc[Starter] \in {"failStart", "failed", "done"}
  <1>1. ASSUME DemoInv, [Next]_allVars, NEW r \in Requests PROVE Finds(r)
    <2>1. req'[r].answer # "panic" BY <1>1, DemoNext DEF DemoInv, RequestInv
    <2>2. ASSUME req[r].answer = "none", req'[r].answer = "404"
          PROVE  \/ req[r].route.name \notin Registered
                 \/ failed[Starter] /\ pc[Starter] \in {"failStart", "failed", "done"}
      <3>1. req \in [Requests ->
               [at : {"idle", "resolve", "decode", "run", "stream", "close", "done"},
                route : Routes \cup {NoRoute}, answer : Answers]]
        BY <1>1 DEF DemoInv, TypeOK, ServerTypeOK
      <3>2. PICK q \in Requests : Handle(q)
        BY <1>1, <2>2, StepParts
        DEF ServerAction, Listen, ListenFails, PublishFields, Spawn, Serve, ServeEnds,
            ShutdownEnter, ShutdownLeave, serverVars
      <3>3. ASSUME NEW from, NEW to, Move(q, from, to) PROVE FALSE
        BY <2>2, <3>1, <3>3 DEF Move
      <3>4. ASSUME NEW from, NEW answer, Reply(q, from, answer) PROVE q = r /\ answer = "404"
        BY <2>2, <3>1, <3>4 DEF Reply
      <3>5. ~Accept(q)
        <4>1. ASSUME NEW route, req' = [req EXCEPT ![q].at = "resolve", ![q].route = route]
              PROVE  req'[r].answer = req[r].answer
          BY <3>1, <4>1
        <4>2. QED BY <2>2, <4>1 DEF Accept
      <3>6. ~Open(q) /\ ~NoFlusher(q)
        BY <2>2, <3>1 DEF Open, NoFlusher, Write
      <3>7. q = r /\ Resolve(r)
        BY <2>2, <3>2, <3>3, <3>4, <3>5, <3>6
        DEF Handle, Probe, ListNames, Resolve, Decode, RunReturns, OpenFails, ErrorAnswers,
            StreamEnds, StreamClosed
      <3>8. req[r].at = "resolve" /\ ~(fields /\ Resolves(req[r].route.name))
        BY <3>3, <3>7 DEF Resolve, Reply
      <3>9. serve # "none" BY <1>1, <3>8 DEF DemoInv, RequestInv
      <3>10. fields /\ startAt = "done" /\ pc[Starter] \in PastStart
        BY <1>1, <3>9 DEF DemoInv, ServingInv
      <3>11. req[r].route.name \notin started BY <3>8, <3>10 DEF Resolves
      <3>12. failed[Starter] \in BOOLEAN BY <1>1 DEF DemoInv, TypeOK, AppTypeOK, Callers
      <3>13. QED
        BY <1>1, <3>10, <3>11, <3>12 DEF DemoInv, MapInv, Straight, Failing, PastStart
    <2>3. QED BY <2>1, <2>2
  <1>2. DemoInv /\ [Next]_allVars => [\A r \in Requests : Finds(r)]_req BY <1>1
  <1>3. QED BY <1>2, DemoInvariant, PTL DEF Spec, ResolvesWhileServed

-----------------------------------------------------------------------------
(* The lifecycle. *)

LEMMA RacesOnlyBegin ==
  ASSUME [Next]_allVars
  PROVE  UNCHANGED <<raced, overlapped>> \/ \E p \in Stoppers : ShutdownBegin(p)
  <1> USE DEF appVars, mapVars
  <1>1. Boot => UNCHANGED <<raced, overlapped>>
    BY DEF Boot, Deliver, EmitStarting, Materialize, MaterializeFails, Fail, Publish, Enumerate,
           Announce, Announced, CheckStopping, PublishServer, ColdStart, Clear, FailStart,
           EmitBootstrapFailed, SetRunning, EmitStarted
  <1>2. Begin \/ StartRefused \/ ServerStarted \/ ServerFailed => UNCHANGED <<raced, overlapped>>
    BY DEF Begin, StartRefused, ServerStarted, ServerFailed, Fail
  <1>3. \A p : ShutdownNoop(p) \/ Halt(p) => UNCHANGED <<raced, overlapped>>
    BY DEF ShutdownNoop, Halt, Deliver, EmitStopping, Stop, EmitStopped
  <1>4. \A p, error : ServerDown(p, error) => UNCHANGED <<raced, overlapped>>
    BY DEF ServerDown
  <1>5. QED BY <1>1, <1>2, <1>3, <1>4, StepParts DEF AppAction, vars

\* A step of start goes on through the states of the App, and comes from where
\* the port can be as it is.
Ongoing == {"created", "starting", "running"}

Forward ==
  /\ state = "stopping" => state' = "stopping"
  /\ state' = "stopped" => state = "stopped" \/ pc[Starter] \in {"clear", "failStart"}
  /\ state' \in Ongoing => state \in Ongoing
  /\ pc[Starter] = "clear" => pc'[Starter] = "clear" \/ state' = "stopped"
  /\ pc'[Starter] = "clear" => pc[Starter] = "clear"
  /\ pc'[Starter] = "failStart" =>
       pc[Starter] \in {"clear", "failStart"} \/ pc[Starter] \notin PastStart \cup {"startServer"}

LEMMA StarterStage ==
  ASSUME TypeOK, ShapeInv, ServingInv, StageInv, StarterOnly, serve' = serve
  PROVE  StageInv' /\ Forward
  <1> USE DEF StageInv, Forward, Ongoing, Booting, Step, Emit, appVars, mapVars
  <1>1. Starter \in Callers BY DEF Callers
  <1>2. pc[Starter] \in StarterPCs
        /\ state \in {"created", "starting", "running", "stopping", "stopped"}
    BY DEF TypeOK, AppTypeOK
  <1>3. ASSUME NEW from, NEW to, Goto(Starter, from, to)
        PROVE  pc[Starter] = from /\ pc'[Starter] = to
    BY <1>1, <1>3, Moved
  <1>4. ASSUME NEW from \in Booting, Fail(from, "failStart"),
               from \notin PastStart \cup {"startServer"}
        PROVE  StageInv' /\ Forward
    BY <1>3, <1>4 DEF Fail, PastStart
  <1>5. CASE Begin BY <1>3, <1>5 DEF Begin
  <1>6. CASE StartRefused
    BY <1>3, <1>6 DEF StartRefused
  <1>7. CASE Boot
    <2>1. CASE Deliver(Starter) BY <2>1 DEF Deliver
    <2>2. CASE EmitStarting BY <1>3, <2>2 DEF EmitStarting
    <2>3. CASE EmitBootstrapFailed BY <1>3, <2>3 DEF EmitBootstrapFailed
    <2>4. CASE EmitStarted BY <1>3, <2>4 DEF EmitStarted
    <2>5. CASE Materialize(Agents, "agents", "flows") \/ Materialize(Flows, "flows", "publish")
      BY <1>3, <2>5 DEF Materialize
    <2>6. CASE MaterializeFails(Agents, "agents") \/ MaterializeFails(Flows, "flows")
      BY <1>4, <2>6 DEF MaterializeFails, PastStart
    <2>7. CASE Publish BY <1>3, <2>7 DEF Publish
    <2>8. CASE \/ Enumerate(Agents, "listAgents", "announceAgents")
               \/ Enumerate(Flows, "listFlows", "announceFlows")
      BY <1>3, <2>8 DEF Enumerate
    <2>9. CASE Announce("announceAgents") \/ Announce("announceFlows")
      BY <1>3, <2>9 DEF Announce
    <2>10. CASE \/ Announced("announceAgents", "listFlows")
                \/ Announced("announceFlows", "servers")
      BY <1>3, <2>10 DEF Announced
    <2>11. CASE CheckStopping
      <3>1. CASE Fail("servers", "failStart") BY <1>4, <3>1 DEF PastStart
      <3>2. CASE Step(Starter, "servers", "startServer") /\ UNCHANGED appVars BY <1>3, <3>2
      <3>3. QED BY <2>11, <3>1, <3>2 DEF CheckStopping
    <2>12. CASE ColdStart BY <1>3, <2>12 DEF ColdStart, Fail, RollBack
    <2>13. CASE PublishServer BY <1>3, <2>13 DEF PublishServer
    <2>14. CASE SetRunning
      BY <1>3, <2>14 DEF SetRunning, RecordStarted, ServingInv
    <2>15. CASE Clear BY <1>3, <2>15 DEF Clear
    <2>16. CASE FailStart BY <1>3, <2>16 DEF FailStart
    <2>17. QED
      BY <1>7, <2>1, <2>2, <2>3, <2>4, <2>5, <2>6, <2>7, <2>8, <2>9, <2>10, <2>11, <2>12,
         <2>13, <2>14, <2>15, <2>16
      DEF Boot
  <1>8. QED BY <1>5, <1>6, <1>7 DEF StarterOnly

\* While the Server's Start has nothing to show, the port is closed.
LEMMA NothingOpen ==
  ASSUME TypeOK, ServingInv, \/ pc[Starter] \notin PastStart \cup {"startServer"}
                             \/ startAt = "listen"
  PROVE  listener = "none"
  BY DEF TypeOK, ServerTypeOK, ServingInv

LEMMA StarterLife ==
  ASSUME DemoInv, StageInv, ActiveInv, PortInv, StarterOnly, UNCHANGED serverVars
  PROVE  StageInv' /\ ActiveInv' /\ PortInv'
  <1> USE DEF DemoInv, serverVars, startVars
  <1>1. StageInv' /\ Forward BY StarterStage
  <1>2. \A p \in Stoppers : Stays(p) BY StarterStays
  <1>3. ActiveInv' BY <1>1, <1>2 DEF ActiveInv, Active, Stays, Forward
  <1>4. PortOpen' = PortOpen BY DEF PortOpen
  <1>5. pc[Starter] = "rollback" => pc'[Starter] = "rollback" BY CallersWait DEF AppOnly
  <1>6. PortInv'
    <2>1. ASSUME state' \in Ongoing, pc'[Starter] \notin {"rollback", "clear"} PROVE ~inShutdown'
      BY <1>1, <1>5, <2>1 DEF Forward, Ongoing, PortInv
    <2>2. ASSUME state' = "stopped" \/ pc'[Starter] \in {"clear", "failStart"} PROVE ~PortOpen'
      <3>1. CASE pc[Starter] \notin PastStart \cup {"startServer"}
        BY <1>4, <3>1, NothingOpen DEF PortOpen
      <3>2. CASE state = "stopped" \/ pc[Starter] \in {"clear", "failStart"}
        BY <1>4, <3>2 DEF PortInv
      <3>3. QED BY <1>1, <2>2, <3>1, <3>2 DEF Forward
    <2>3. QED BY <2>1, <2>2 DEF PortInv, Ongoing
  <1>7. QED BY <1>1, <1>3, <1>6

LEMMA StopperLife ==
  ASSUME DemoInv, StageInv, ActiveInv, PortInv, NEW p \in Stoppers, StopperOnly(p),
         UNCHANGED serverVars, ~raced'
  PROVE  StageInv' /\ ActiveInv' /\ PortInv'
  <1> USE DEF DemoInv, serverVars, startVars, Step, Emit, appVars, mapVars
  <1>1. p \in Callers /\ p # Starter BY CallersAssumption DEF Callers
  <1>2. ASSUME NEW from, NEW to, Goto(p, from, to) PROVE pc[p] = from /\ pc'[p] = to
    BY <1>1, <1>2, Moved
  <1>3. \A q \in Stoppers \ {p} : Stays(q) BY StopperStays DEF Callers
  <1>4. pc'[Starter] = pc[Starter] BY <1>1, StopperStays DEF Callers, Stays
  <1>5. pc[Starter] \in StarterPCs
        /\ state \in {"created", "starting", "running", "stopping", "stopped"}
        /\ snapshot \in [Stoppers -> 0..1] /\ servers \in 0..1
    BY DEF TypeOK, AppTypeOK
  <1>6. PortOpen' = PortOpen BY DEF PortOpen
  <1>7. CASE ShutdownNoop(p)
    <2>1. pc[p] = "idle" /\ pc'[p] = "done" /\ UNCHANGED <<servers, snapshot>>
      BY <1>2, <1>7 DEF ShutdownNoop
    <2>2. state' = state \/ (state = "created" /\ state' = "stopped") BY <1>7 DEF ShutdownNoop
    <2>3. state = "created" => pc[Starter] = "idle" BY <1>5 DEF StageInv, Booting, StarterPCs
    <2>4. StageInv' BY <1>4, <2>1, <2>2, <2>3 DEF StageInv, Booting
    <2>5. ActiveInv' BY <1>3, <2>1, <2>2 DEF ActiveInv, Active, Stays
    <2>6. PortInv'
      <3>1. CASE state' = state BY <1>4, <1>6, <3>1 DEF PortInv
      <3>2. CASE state = "created" /\ state' = "stopped"
        <4>1. ~PortOpen BY <2>3, <3>2, NothingOpen DEF PortOpen, PastStart
        <4>2. QED BY <1>6, <3>2, <4>1 DEF PortInv
      <3>3. QED BY <2>2, <3>1, <3>2
    <2>7. QED BY <2>4, <2>5, <2>6
  <1>8. CASE ShutdownBegin(p)
    <2>1. pc[p] = "idle" /\ pc'[p] = "stopping" BY <1>2, <1>8 DEF ShutdownBegin
    <2>2. state = "running" /\ state' = "stopping" BY <1>8 DEF ShutdownBegin
    <2>3. servers = 1 /\ snapshot'[p] = 1 /\ \A q \in Stoppers \ {p} : snapshot'[q] = snapshot[q]
      BY <1>5, <1>8, <2>2 DEF ShutdownBegin, StageInv
    <2>4. StageInv' BY <1>4, <2>2 DEF StageInv, Booting
    <2>5. ActiveInv' BY <1>3, <2>1, <2>2, <2>3 DEF ActiveInv, Active, Stays
    <2>6. pc[Starter] \notin {"clear", "failStart"} BY <2>2 DEF StageInv, Booting
    <2>7. PortInv' BY <1>4, <2>2, <2>6 DEF PortInv
    <2>8. QED BY <2>4, <2>5, <2>7
  <1>9. CASE Deliver(p)
    BY <1>9 DEF Deliver, StageInv, ActiveInv, Active, PortInv, PortOpen
  <1>10. CASE EmitStopping(p)
    <2>1. pc[p] = "stopping" /\ pc'[p] \in {"stop", "drain"}
          /\ (pc'[p] = "stop" => snapshot[p] = 0)
      BY <1>2, <1>10 DEF EmitStopping
    <2>2. UNCHANGED <<state, servers, snapshot>> BY <1>10 DEF EmitStopping
    <2>3. pc'[p] = "drain" BY <2>1 DEF ActiveInv, Active
    <2>4. StageInv' BY <1>4, <2>2 DEF StageInv
    <2>5. ActiveInv' BY <1>3, <2>1, <2>2, <2>3 DEF ActiveInv, Active, Stays
    <2>6. PortInv' BY <1>4, <1>6, <2>2 DEF PortInv
    <2>7. QED BY <2>4, <2>5, <2>6
  <1>11. CASE Stop(p)
    <2>1. pc[p] = "stop" /\ pc'[p] = "stopped" /\ snapshot' = snapshot /\ state' = "stopped"
      BY <1>2, <1>11 DEF Stop
    <2>2. state = "stopping" /\ inShutdown BY <2>1 DEF ActiveInv, Active
    <2>3. StageInv' BY <1>4, <2>1, <2>2 DEF StageInv, Booting
    <2>4. ActiveInv'
      <3>1. \A q \in Stoppers : ~Active(q)' BY <1>3, <2>1 DEF ActiveInv, Active, Stays
      <3>2. QED BY <3>1 DEF ActiveInv, Active
    <2>5. PortInv' BY <1>4, <2>1, <2>2 DEF PortInv, PortOpen
    <2>6. QED BY <2>3, <2>4, <2>5
  <1>12. CASE EmitStopped(p)
    <2>1. pc[p] = "stopped" /\ pc'[p] = "done" /\ UNCHANGED <<state, servers, snapshot>>
      BY <1>2, <1>12 DEF EmitStopped
    <2>2. QED BY <1>3, <1>4, <1>6, <2>1 DEF StageInv, ActiveInv, Active, PortInv, Stays
  <1>13. QED BY <1>7, <1>8, <1>9, <1>10, <1>11, <1>12 DEF StopperOnly, Halt

LEMMA HandoverNext ==
  ASSUME DemoInv, StageInv, ActiveInv, PortInv, HandoverInv, [Next]_allVars
  PROVE  HandoverInv'
  <1> USE DEF DemoInv, HandoverInv
  <1>1. ASSUME UNCHANGED <<serve, inShutdown, listener>> PROVE HandoverInv' BY <1>1
  <1>2. CASE AppOnly /\ UNCHANGED serverVars BY <1>1, <1>2 DEF serverVars
  <1>3. CASE pc[Starter] = "startServer" /\ UNCHANGED vars /\ (Listen \/ PublishFields)
    <2>1. ~inShutdown BY <1>3 DEF StageInv, Booting, PortInv
    <2>2. UNCHANGED <<serve, inShutdown>> BY <1>3 DEF Listen, PublishFields
    <2>3. QED BY <2>1, <2>2
  <1>4. CASE ServerStarted /\ Spawn BY <1>4 DEF Spawn
  <1>5. CASE ServerFailed /\ ListenFails BY <1>1, <1>5 DEF ListenFails
  <1>6. ASSUME NEW q \in Callers, Calling(q), ShutdownEnter(q) PROVE HandoverInv'
    <2>1. serve # "none"
      <3>1. CASE q = Starter
        BY <1>6, <3>1 DEF Calling, Inside, ServingInv
      <3>2. CASE q # Starter
        BY <1>6, <3>2 DEF Calling, Inside, Callers, ActiveInv, Active, StageInv
      <3>3. QED BY <3>1, <3>2
    <2>2. serve \in {"spawned", "serving", "ended"} /\ fields
      BY <2>1 DEF TypeOK, ServerTypeOK, ServingInv
    <2>3. QED BY <1>6, <2>2 DEF ShutdownEnter
  <1>7. ASSUME NEW q \in Callers, NEW error \in BOOLEAN,
               ServerDown(q, error), ShutdownLeave(q, error)
        PROVE  HandoverInv'
    BY <1>1, <1>7 DEF ShutdownLeave
  <1>8. CASE UNCHANGED vars /\ (Serve \/ ServeEnds) BY <1>8 DEF Serve, ServeEnds
  <1>9. ASSUME UNCHANGED vars, NEW r \in Requests, Handle(r) PROVE HandoverInv'
    BY <1>1, <1>9, HandlerOnly
  <1>10. QED BY <1>2, <1>3, <1>4, <1>5, <1>6, <1>7, <1>8, <1>9, JointCases

LEMMA LifeNext ==
  ASSUME DemoInv, LifeInv, [Next]_allVars
  PROVE  LifeInv'
  <1> USE DEF DemoInv
  <1>1. Starter \in Callers BY DEF Callers
  <1>2. listener' = "closed" => inShutdown'
    <2>1. CASE \E r \in Requests : Handle(r) BY <2>1, HandlerOnly DEF LifeInv
    <2>2. ASSUME NEW p, ShutdownEnter(p), listener' = "closed" PROVE inShutdown'
      <3>1. inShutdown \/ fields BY <2>2 DEF ShutdownEnter, LifeInv, ServingInv
      <3>2. QED BY <2>2, <3>1 DEF ShutdownEnter
    <2>3. QED
      BY <2>1, <2>2, StepParts
      DEF ServerAction, Listen, ListenFails, PublishFields, Spawn, Serve, ServeEnds,
          ShutdownLeave, serverVars, LifeInv
  <1>3. state = "starting" /\ StageInv => StartActive
    BY DEF StageInv, StartActive
  <1>4. raced' => overlapped'
    <2>1. CASE UNCHANGED <<raced, overlapped>> BY <2>1 DEF LifeInv
    <2>2. ASSUME NEW p \in Stoppers, ShutdownBegin(p), raced' PROVE overlapped'
      <3>1. raced \/ state = "starting" BY <2>2 DEF ShutdownBegin
      <3>2. overlapped \/ StartActive BY <1>3, <3>1 DEF LifeInv
      <3>3. QED BY <2>2, <3>2 DEF ShutdownBegin
    <2>3. QED BY <2>1, <2>2, RacesOnlyBegin
  <1>0. ~raced' => ~raced BY RacesOnlyBegin DEF ShutdownBegin
  <1>5. SUFFICES ASSUME ~raced' PROVE StageInv' /\ ActiveInv' /\ PortInv'
    BY <1>0, <1>2, <1>4, HandoverNext DEF LifeInv
  <1>6. ~raced BY <1>0, <1>5
  <1>7. StageInv /\ ActiveInv /\ PortInv BY <1>6 DEF LifeInv
  <1>8. ASSUME UNCHANGED vars, serve' = "none" => serve = "none",
               PortOpen' => PortOpen, inShutdown' = inShutdown
        PROVE  StageInv' /\ ActiveInv' /\ PortInv'
    BY <1>7, <1>8 DEF vars, appVars, StageInv, ActiveInv, Active, PortInv
  <1>9. CASE AppOnly /\ UNCHANGED serverVars
    <2>1. CASE UNCHANGED vars BY <1>8, <1>9, <2>1 DEF serverVars, PortOpen
    <2>2. QED BY <1>5, <1>7, <1>9, <2>1, StarterLife, StopperLife DEF AppOnly
  <1>10. CASE pc[Starter] = "startServer" /\ UNCHANGED vars /\ (Listen \/ PublishFields)
    <2>1. UNCHANGED <<serve, inShutdown>> BY <1>10 DEF Listen, PublishFields
    <2>2. state = "starting" BY <1>7, <1>10 DEF StageInv, Booting
    <2>3. QED
      BY <1>7, <1>10, <2>1, <2>2 DEF vars, appVars, StageInv, ActiveInv, Active, PortInv
  <1>11. CASE ServerStarted /\ Spawn
    <2>1. pc[Starter] = "startServer" /\ pc'[Starter] = "publishServer"
      BY <1>1, <1>11, Moved DEF ServerStarted, Step
    <2>2. UNCHANGED <<state, servers, snapshot, inShutdown, listener>> /\ serve' # "none"
      BY <1>11 DEF ServerStarted, Spawn, appVars
    <2>3. \A p \in Stoppers : Stays(p) BY <1>11, StarterStays
    <2>4. StageInv' BY <1>7, <2>1, <2>2 DEF StageInv, Booting
    <2>5. ActiveInv' BY <1>7, <2>2, <2>3 DEF ActiveInv, Active, Stays
    <2>6. PortInv' BY <1>7, <2>1, <2>2 DEF PortInv, PortOpen
    <2>7. QED BY <2>4, <2>5, <2>6
  <1>12. CASE ServerFailed /\ ListenFails
    <2>1. pc[Starter] = "startServer" /\ pc'[Starter] = "clear"
      BY <1>1, <1>12, Moved DEF ServerFailed, Fail, Step
    <2>2. UNCHANGED <<state, servers, snapshot, inShutdown, listener, serve>>
      BY <1>12 DEF ServerFailed, Fail, ListenFails
    <2>3. \A p \in Stoppers : Stays(p) BY <1>12, StarterStays
    <2>4. StageInv' BY <1>7, <2>1, <2>2 DEF StageInv, Booting
    <2>5. ActiveInv' BY <1>7, <2>2, <2>3 DEF ActiveInv, Active, Stays
    <2>6. listener = "none" BY <1>12, NothingOpen DEF ListenFails
    <2>7. PortInv' BY <1>7, <2>1, <2>2, <2>6 DEF PortInv, PortOpen
    <2>8. QED BY <2>4, <2>5, <2>7
  <1>13. ASSUME NEW q \in Callers, Calling(q), ShutdownEnter(q)
         PROVE  StageInv' /\ ActiveInv' /\ PortInv'
    <2>1. UNCHANGED vars BY <1>13 DEF Calling, Inside
    <2>2. serve' = serve /\ (inShutdown => inShutdown') /\ (PortOpen' => PortOpen)
      BY <1>13 DEF ShutdownEnter, PortOpen, TypeOK, ServerTypeOK
    <2>3. StageInv' /\ ActiveInv'
      BY <1>7, <2>1, <2>2 DEF vars, appVars, StageInv, ActiveInv, Active
    <2>4. pc[Starter] = "rollback" \/ state = "stopping"
      BY <1>7, <1>13 DEF Calling, Inside, ActiveInv, Active, Callers
    <2>5. PortInv' BY <1>7, <2>1, <2>2, <2>4 DEF vars, appVars, PortInv
    <2>6. QED BY <2>3, <2>5
  <1>14. ASSUME NEW q \in Callers, NEW error \in BOOLEAN,
               ServerDown(q, error), ShutdownLeave(q, error)
         PROVE  StageInv' /\ ActiveInv' /\ PortInv'
    <2>1. /\ UNCHANGED <<state, servers, snapshot, serve, inShutdown>> /\ PortOpen' = PortOpen
          /\ q \in draining
      BY <1>14 DEF ServerDown, ShutdownLeave, PortOpen
    <2>2. CASE q = Starter
      <3>1. pc[Starter] = "rollback" /\ pc'[Starter] = "clear"
        BY <1>14, <2>2, Moved DEF ServerDown, Step
      <3>2. inShutdown BY <2>1, <2>2 DEF DrainInv
      <3>3. \A p \in Stoppers : Stays(p) BY <1>14, <2>2, StarterStays
      <3>4. StageInv' BY <1>7, <2>1, <3>1 DEF StageInv, Booting
      <3>5. ActiveInv' BY <1>7, <2>1, <3>3 DEF ActiveInv, Active, Stays
      <3>6. PortInv' BY <1>7, <2>1, <3>1, <3>2 DEF PortInv, PortOpen
      <3>7. QED BY <3>4, <3>5, <3>6
    <2>3. CASE q # Starter
      <3>1. q \in Stoppers BY <2>3 DEF Callers
      <3>2. pc[q] = "drain" /\ pc'[q] = "stop" BY <1>14, <2>3, Moved DEF ServerDown, Step
      <3>3. inShutdown BY <2>1, <3>1 DEF DrainInv, StopperInv
      <3>4. \A p \in Callers \ {q} : Stays(p) BY <1>14, <3>1, StopperStays
      <3>5. pc'[Starter] = pc[Starter] BY <1>1, <2>3, <3>4 DEF Stays
      <3>6. StageInv' BY <1>7, <2>1, <3>5 DEF StageInv
      <3>7. ActiveInv' BY <1>7, <2>1, <3>2, <3>3, <3>4 DEF ActiveInv, Active, Stays, Callers
      <3>8. PortInv' BY <1>7, <2>1, <3>5 DEF PortInv
      <3>9. QED BY <3>6, <3>7, <3>8
    <2>4. QED BY <2>2, <2>3
  <1>15. CASE UNCHANGED vars /\ (Serve \/ ServeEnds)
    BY <1>8, <1>15 DEF Serve, ServeEnds, PortOpen
  <1>16. ASSUME UNCHANGED vars, NEW r \in Requests, Handle(r)
         PROVE  StageInv' /\ ActiveInv' /\ PortInv'
    BY <1>8, <1>16, HandlerOnly DEF PortOpen
  <1>17. QED BY <1>9, <1>10, <1>11, <1>12, <1>13, <1>14, <1>15, <1>16, JointCases

-----------------------------------------------------------------------------
(***************************************************************************)
(* The App with its Server keeps the contract of the lifecycle.            *)
(***************************************************************************)
LEMMA LifeInit == Init => LifeInv
  BY DEF Init, AppInit, ServerInit, LifeInv, StageInv, Booting, ActiveInv, Active, PortInv,
         PortOpen, HandoverInv, Callers

LEMMA LifeInvariant == Spec => [](DemoInv /\ LifeInv)
  BY DemoInit, DemoNext, LifeInit, LifeNext, PTL DEF Spec

Up == IF ServerUp THEN {1} ELSE {}

LEMMA UpIsOpen ==
  ASSUME HandoverInv, HandoverInv'
  PROVE  /\ Up = IF PortOpen THEN 1..1 ELSE 1..0
         /\ Up' = IF PortOpen' THEN 1..1 ELSE 1..0
  <1>1. 1..1 = {1} /\ 1..0 = {} OBVIOUS
  <1>2. (ServerUp <=> PortOpen) /\ (ServerUp' <=> PortOpen')
    BY DEF HandoverInv, ServerUp, PortOpen
  <1>3. QED BY <1>1, <1>2 DEF Up

\* The steps of the contract, in terms of the port.
LifecycleStep ==
  /\ \/ Phase = "created" /\ Phase' \in {"starting", "stopped"}
     \/ Phase = "starting" /\ PortOpen /\ Phase' = "running"
     \/ Phase \in {"starting", "running"} /\ Phase' = "stopping"
     \/ Phase = "stopping" /\ ~PortOpen /\ Phase' = "stopped"
     \/ Phase' = Phase
  /\ \/ PortOpen' = PortOpen
     \/ Phase = "starting" /\ Phase' = "starting" /\ ~PortOpen /\ PortOpen'
     \/ Phase = "stopping" /\ Phase' = "stopping" /\ PortOpen /\ ~PortOpen'
  /\ Phase' # Phase => PortOpen' = PortOpen

LEMMA ContractSteps ==
  ASSUME HandoverInv, HandoverInv', LifecycleStep
  PROVE  Contract!Next \/ UNCHANGED <<Phase, Up>>
  <1>1. 1 \in 1..1 /\ 1 - 1 = 0 OBVIOUS
  <1>2. Up = (IF PortOpen THEN 1..1 ELSE 1..0) /\ Up' = IF PortOpen' THEN 1..1 ELSE 1..0 BY UpIsOpen
  <1>3. 1..0 = {} OBVIOUS
  <1>4. PortOpen \in BOOLEAN /\ PortOpen' \in BOOLEAN BY DEF PortOpen
  <1>5. ASSUME Phase' = Phase, PortOpen' = PortOpen PROVE UNCHANGED <<Phase, Up>>
    BY <1>2, <1>5
  <1>6. ASSUME Phase' # Phase, PortOpen' = PortOpen,
               \/ Phase = "created" /\ Phase' \in {"starting", "stopped"}
               \/ Phase = "starting" /\ PortOpen /\ Phase' = "running"
               \/ Phase \in {"starting", "running"} /\ Phase' = "stopping"
               \/ Phase = "stopping" /\ ~PortOpen /\ Phase' = "stopped"
        PROVE  Contract!Next
    <2>1. Up' = Up BY <1>2, <1>6
    <2>2. CASE Phase = "created" /\ Phase' \in {"starting", "stopped"}
      BY <2>1, <2>2 DEF Contract!Next, Contract!Begin, Up
    <2>3. CASE Phase = "starting" /\ PortOpen /\ Phase' = "running"
      BY <1>2, <2>1, <2>3 DEF Contract!Next, Contract!BecomeReady, Up
    <2>4. CASE Phase \in {"starting", "running"} /\ Phase' = "stopping"
      BY <2>1, <2>4 DEF Contract!Next, Contract!Leave, Up
    <2>5. CASE Phase = "stopping" /\ ~PortOpen /\ Phase' = "stopped"
      BY <1>2, <1>3, <2>1, <2>5 DEF Contract!Next, Contract!Rest, Up
    <2>6. QED BY <1>6, <2>2, <2>3, <2>4, <2>5
  <1>7. ASSUME Phase' = Phase, Phase = "starting", ~PortOpen, PortOpen' PROVE Contract!Next
    <2>1. Up = 1..(1 - 1) /\ Up' = 1..1 BY <1>1, <1>2, <1>7
    <2>2. Contract!BringUp(1) BY <1>7, <2>1 DEF Contract!BringUp, Up
    <2>3. QED BY <1>1, <2>2 DEF Contract!Next
  <1>8. ASSUME Phase' = Phase, Phase = "stopping", PortOpen, ~PortOpen' PROVE Contract!Next
    <2>1. Up = 1..1 /\ Up' = 1..(1 - 1) BY <1>1, <1>2, <1>8
    <2>2. Contract!TakeDown(1) BY <1>8, <2>1 DEF Contract!TakeDown, Up
    <2>3. QED BY <1>1, <2>2 DEF Contract!Next
  <1>9. QED BY <1>4, <1>5, <1>6, <1>7, <1>8 DEF LifecycleStep

\* The phases of start, step by step.
LEMMA StarterPhase ==
  ASSUME DemoInv, LifeInv, StageInv, PortInv, StarterOnly, UNCHANGED serverVars
  PROVE  LifecycleStep
  <1> USE DEF DemoInv, Step, Emit, appVars, mapVars
  <1>1. PortOpen' = PortOpen BY DEF PortOpen, serverVars
  <1>2. ASSUME NEW from, NEW to, Goto(Starter, from, to)
        PROVE  pc[Starter] = from /\ pc'[Starter] = to
    BY <1>2, Moved DEF Callers
  <1>3. ASSUME NEW from, NEW to, Goto(Starter, from, to), state' = state,
               from \notin {"rollback", "clear", "failStart"},
               to \notin {"rollback", "clear", "failStart"}
        PROVE  LifecycleStep
    BY <1>1, <1>2, <1>3 DEF LifecycleStep, Phase
  <1>4. ASSUME NEW from \in Booting \ {"rollback", "clear"}, NEW to \in {"rollback", "failStart"},
               Fail(from, to)
        PROVE  LifecycleStep
    <2>1. pc[Starter] = from /\ pc'[Starter] = to /\ state' = state BY <1>2, <1>4 DEF Fail
    <2>2. Phase = "starting" /\ Phase' = "stopping"
      BY <1>4, <2>1 DEF Phase, StageInv, Booting
    <2>3. QED BY <1>1, <2>2 DEF LifecycleStep
  <1>5. CASE Begin
    <2>1. Phase = "created" /\ Phase' = "starting"
      BY <1>2, <1>5 DEF Begin, Phase
    <2>2. QED BY <1>1, <2>1 DEF LifecycleStep
  <1>6. CASE StartRefused BY <1>3, <1>6 DEF StartRefused
  <1>7. CASE Boot
    <2>1. CASE Deliver(Starter) BY <1>1, <2>1 DEF Deliver, LifecycleStep, Phase
    <2>2. CASE EmitStarting \/ EmitBootstrapFailed \/ EmitStarted
      BY <1>3, <2>2 DEF EmitStarting, EmitBootstrapFailed, EmitStarted
    <2>3. CASE Materialize(Agents, "agents", "flows") \/ Materialize(Flows, "flows", "publish")
      BY <1>3, <2>3 DEF Materialize
    <2>4. CASE MaterializeFails(Agents, "agents") \/ MaterializeFails(Flows, "flows")
      BY <1>4, <2>4 DEF MaterializeFails, Booting
    <2>5. CASE Publish BY <1>3, <2>5 DEF Publish
    <2>6. CASE \/ Enumerate(Agents, "listAgents", "announceAgents")
               \/ Enumerate(Flows, "listFlows", "announceFlows")
      BY <1>3, <2>6 DEF Enumerate
    <2>7. CASE Announce("announceAgents") \/ Announce("announceFlows")
      BY <1>3, <2>7 DEF Announce
    <2>8. CASE \/ Announced("announceAgents", "listFlows")
               \/ Announced("announceFlows", "servers")
      BY <1>3, <2>8 DEF Announced
    <2>9. CASE CheckStopping BY <1>3, <1>4, <2>9 DEF CheckStopping, Booting
    <2>10. CASE PublishServer BY <1>3, <2>10 DEF PublishServer
    <2>11. CASE ColdStart BY <1>3, <1>4, <2>11 DEF ColdStart, RollBack, Booting
    <2>12. CASE Clear
      <3>1. pc[Starter] = "clear" /\ state' = "stopped" BY <1>2, <2>12 DEF Clear
      <3>2. Phase = "stopping" /\ ~PortOpen /\ Phase' = "stopped"
        BY <3>1 DEF Phase, StageInv, Booting, PortInv
      <3>3. QED BY <1>1, <3>2 DEF LifecycleStep
    <2>13. CASE FailStart
      <3>1. pc[Starter] = "failStart" /\ state' = "stopped" BY <1>2, <2>13 DEF FailStart
      <3>2. Phase \in {"stopping", "stopped"} /\ ~PortOpen /\ Phase' = "stopped"
        BY <3>1 DEF Phase, StageInv, PortInv
      <3>3. QED BY <1>1, <3>2 DEF LifecycleStep
    <2>14. CASE SetRunning
      <3>1. pc[Starter] = "running" /\ state' = "running" BY <1>2, <2>14 DEF SetRunning
      <3>2. state = "starting" BY <3>1 DEF StageInv, Booting
      <3>3. PortOpen
        <4>1. listener # "none" /\ ~inShutdown BY <3>1, <3>2 DEF ServingInv, PortInv
        <4>2. listener \in {"open", "closed"} BY <4>1 DEF TypeOK, ServerTypeOK
        <4>3. QED BY <4>1, <4>2 DEF PortOpen, LifeInv
      <3>4. Phase = "starting" /\ Phase' = "running" BY <3>1, <3>2 DEF Phase
      <3>5. QED BY <1>1, <3>3, <3>4 DEF LifecycleStep
    <2>15. QED
      BY <1>7, <2>1, <2>2, <2>3, <2>4, <2>5, <2>6, <2>7, <2>8, <2>9, <2>10, <2>11, <2>12,
         <2>13, <2>14
      DEF Boot
  <1>8. QED BY <1>5, <1>6, <1>7 DEF StarterOnly

LEMMA StopperPhase ==
  ASSUME DemoInv, StageInv, ActiveInv, PortInv, NEW p \in Stoppers, StopperOnly(p),
         UNCHANGED serverVars, ~raced'
  PROVE  LifecycleStep
  <1> USE DEF DemoInv, Step, Emit, appVars, mapVars
  <1>1. PortOpen' = PortOpen BY DEF PortOpen, serverVars
  <1>2. pc'[Starter] = pc[Starter] BY StopperStays, CallersAssumption DEF Callers, Stays
  <1>3. CASE state' = state BY <1>1, <1>2, <1>3 DEF LifecycleStep, Phase
  <1>4. CASE ShutdownNoop(p)
    <2>1. ASSUME state = "created", state' = "stopped" PROVE LifecycleStep
      <3>1. Phase = "created" /\ Phase' = "stopped" BY <2>1 DEF Phase
      <3>2. QED BY <1>1, <3>1 DEF LifecycleStep
    <2>2. QED BY <1>3, <1>4, <2>1 DEF ShutdownNoop
  <1>5. CASE ShutdownBegin(p)
    <2>1. state = "running" /\ state' = "stopping" BY <1>5 DEF ShutdownBegin
    <2>2. Phase = "running" /\ Phase' = "stopping" BY <2>1 DEF Phase
    <2>3. QED BY <1>1, <2>2 DEF LifecycleStep
  <1>6. CASE Stop(p)
    <2>1. pc[p] = "stop" /\ state' = "stopped" BY <1>6 DEF Stop, Goto
    <2>2. state = "stopping" /\ ~PortOpen BY <2>1 DEF ActiveInv, Active, PortOpen
    <2>3. Phase = "stopping" /\ Phase' = "stopped" BY <2>1, <2>2 DEF Phase
    <2>4. QED BY <1>1, <2>2, <2>3 DEF LifecycleStep
  <1>7. CASE Deliver(p) \/ EmitStopping(p) \/ EmitStopped(p)
    BY <1>3, <1>7 DEF Deliver, EmitStopping, EmitStopped
  <1>8. QED BY <1>4, <1>5, <1>6, <1>7 DEF StopperOnly, Halt

LEMMA LifecycleSteps ==
  ASSUME DemoInv, LifeInv, [Next]_allVars, ~raced'
  PROVE  LifecycleStep
  <1> USE DEF DemoInv
  <1>1. Starter \in Callers BY DEF Callers
  <1>2. ~raced BY RacesOnlyBegin DEF ShutdownBegin
  <1>3. StageInv /\ ActiveInv /\ PortInv BY <1>2 DEF LifeInv
  <1>4. ASSUME UNCHANGED vars, PortOpen' = PortOpen PROVE LifecycleStep
    BY <1>4 DEF vars, appVars, LifecycleStep, Phase
  <1>5. CASE AppOnly /\ UNCHANGED serverVars
    <2>1. CASE UNCHANGED vars BY <1>4, <1>5, <2>1 DEF serverVars, PortOpen
    <2>2. QED BY <1>3, <1>5, <2>1, StarterPhase, StopperPhase DEF AppOnly
  <1>6. CASE pc[Starter] = "startServer" /\ UNCHANGED vars /\ (Listen \/ PublishFields)
    <2>1. Phase = "starting" /\ Phase' = "starting"
      BY <1>3, <1>6 DEF Phase, StageInv, Booting, vars, appVars
    <2>2. CASE PublishFields BY <1>4, <1>6, <2>2 DEF PublishFields, PortOpen
    <2>3. CASE Listen
      <3>1. ~PortOpen BY <2>3, NothingOpen DEF Listen, PortOpen
      <3>2. ~inShutdown BY <1>3, <1>6 DEF PortInv, StageInv, Booting
      <3>3. PortOpen' BY <2>3, <3>2 DEF Listen, PortOpen
      <3>4. QED BY <2>1, <3>1, <3>3 DEF LifecycleStep
    <2>4. QED BY <1>6, <2>2, <2>3
  <1>7. CASE ServerStarted /\ Spawn
    <2>1. PortOpen' = PortOpen /\ state' = state
      BY <1>7 DEF ServerStarted, Spawn, PortOpen, appVars
    <2>2. pc[Starter] = "startServer" /\ pc'[Starter] = "publishServer"
      BY <1>1, <1>7, Moved DEF ServerStarted, Step
    <2>3. QED BY <2>1, <2>2 DEF LifecycleStep, Phase
  <1>8. CASE ServerFailed /\ ListenFails
    <2>1. PortOpen' = PortOpen /\ state' = state
      BY <1>8 DEF ServerFailed, Fail, ListenFails, PortOpen
    <2>2. pc[Starter] = "startServer" /\ pc'[Starter] = "clear"
      BY <1>1, <1>8, Moved DEF ServerFailed, Fail, Step
    <2>3. Phase = "starting" /\ Phase' = "stopping"
      BY <1>3, <2>1, <2>2 DEF Phase, StageInv, Booting
    <2>4. QED BY <2>1, <2>3 DEF LifecycleStep
  <1>9. ASSUME NEW q \in Callers, Calling(q), ShutdownEnter(q) PROVE LifecycleStep
    <2>1. UNCHANGED vars BY <1>9 DEF Calling, Inside
    <2>2. PortOpen' => PortOpen
      BY <1>9 DEF ShutdownEnter, PortOpen, TypeOK, ServerTypeOK
    <2>3. Phase = "stopping" /\ Phase' = "stopping"
      <3>1. CASE q = Starter
        BY <1>3, <1>9, <2>1, <3>1 DEF Calling, Inside, Phase, StageInv, Booting, vars, appVars
      <3>2. CASE q # Starter
        BY <1>3, <1>9, <2>1, <3>2
        DEF Calling, Inside, Callers, ActiveInv, Active, Phase, vars, appVars
      <3>3. QED BY <3>1, <3>2
    <2>4. PortOpen \in BOOLEAN /\ PortOpen' \in BOOLEAN BY DEF PortOpen
    <2>5. QED BY <2>2, <2>3, <2>4 DEF LifecycleStep
  <1>10. ASSUME NEW q \in Callers, NEW error \in BOOLEAN,
               ServerDown(q, error), ShutdownLeave(q, error)
         PROVE  LifecycleStep
    <2>1. PortOpen' = PortOpen /\ state' = state
      BY <1>10 DEF ServerDown, ShutdownLeave, PortOpen
    <2>2. CASE q = Starter
      <3>1. pc[Starter] = "rollback" /\ pc'[Starter] = "clear"
        BY <1>10, <2>2, Moved DEF ServerDown, Step
      <3>2. QED BY <2>1, <3>1 DEF LifecycleStep, Phase
    <2>3. CASE q # Starter
      <3>1. pc'[Starter] = pc[Starter] BY <1>1, <1>10, <2>3, StopperStays DEF Callers, Stays
      <3>2. QED BY <2>1, <3>1 DEF LifecycleStep, Phase
    <2>4. QED BY <2>2, <2>3
  <1>11. CASE UNCHANGED vars /\ (Serve \/ ServeEnds)
    BY <1>4, <1>11 DEF Serve, ServeEnds, PortOpen
  <1>12. ASSUME UNCHANGED vars, NEW r \in Requests, Handle(r) PROVE LifecycleStep
    BY <1>4, <1>12, HandlerOnly DEF PortOpen
  <1>13. QED BY <1>5, <1>6, <1>7, <1>8, <1>9, <1>10, <1>11, <1>12, JointCases

\* The demo application keeps the contract of an App with one server
\* (ImplementsContract), although its Start and its Shutdown take several steps:
\* every step maps to a step of AppContract or changes nothing in it, until a
\* Shutdown catches the App starting.
THEOREM KeepsContract == Spec => ImplementsContract
  <1>1. Init => Contract!Init
    BY DEF Init, AppInit, ServerInit, Contract!Init, Phase, Up, ServerUp
  <1>2. DemoInv /\ LifeInv /\ [Next]_allVars => [Contract!Next \/ raced']_(Contract!vars)
    <2> SUFFICES ASSUME DemoInv, LifeInv, [Next]_allVars, ~raced'
                 PROVE  Contract!Next \/ UNCHANGED Contract!vars
      OBVIOUS
    <2>1. UNCHANGED raced
      BY RacesOnlyBegin DEF ShutdownBegin, DemoInv, TypeOK, AppTypeOK
    <2>2. HandoverInv /\ HandoverInv' BY <2>1, LifeNext DEF LifeInv
    <2>3. Contract!Next \/ UNCHANGED <<Phase, Up>> BY <2>2, LifecycleSteps, ContractSteps
    <2>4. QED BY <2>1, <2>3 DEF Contract!vars, Up
  <1>3. QED BY <1>1, <1>2, LifeInvariant, PTL DEF Spec, ImplementsContract, Contract!Spec

-----------------------------------------------------------------------------
(***************************************************************************)
(* The hooks are told one lifecycle in order.                              *)
(***************************************************************************)

\* The log after an event is delivered.
LEMMA Delivered ==
  ASSUME TypeOK, ShapeInv, NEW p \in Callers, NEW type, NEW name, NEW at,
         Composed(p, type, name, at), Deliver(p)
  PROVE  /\ log' = Append(log, [type |-> type, name |-> name, state |-> at])
         /\ Last' = type /\ Told' = Told \cup ({name} \ {NoName})
         /\ pending'[p] = <<>> /\ \A q \in Callers \ {p} : pending'[q] = pending[q]
         /\ UNCHANGED <<appVars, pc>>
  <1> DEFINE e == [type |-> type, name |-> name, state |-> at]
  <1>1. pending[p] = <<e>> BY DEF Composed
  <1>2. e.type = type /\ e.name = name OBVIOUS
  <1>3. e \in Events
    <2> HIDE DEF e
    <2>1. PICK d \in Events : pending[p] = <<d>> BY DEF Deliver, ShapeInv, Pendings
    <2>2. d = e BY <1>1, <2>1
    <2>3. QED BY <2>1, <2>2
  <1> HIDE DEF e
  <1>4. log \in Seq(Events) BY DEF ShapeInv
  <1>5. log \o <<e>> = Append(log, e) BY <1>3, <1>4
  <1>6. log' = Append(log, e) BY <1>1, <1>5 DEF Deliver
  <1>7. Len(log') = Len(log) + 1 /\ Len(log) \in Nat /\ log'[Len(log) + 1] = e
        /\ \A i \in 1..Len(log) : log'[i] = log[i]
    BY <1>3, <1>4, <1>6
  <1>8. log' # <<>> BY <1>7
  <1>9. Last' = type BY <1>2, <1>7, <1>8 DEF Last, Journal!LastType
  <1>10. {log'[i].name : i \in 1..Len(log')} = {log[i].name : i \in 1..Len(log)} \cup {name}
    <2>1. \A n \in Nat : 1..(n + 1) = 1..n \cup {n + 1} OBVIOUS
    <2>2. 1..Len(log') = 1..Len(log) \cup {Len(log) + 1} BY <1>7, <2>1
    <2>3. QED BY <1>2, <1>7, <2>2
  <1>11. Told' = Told \cup ({name} \ {NoName})
    BY <1>10 DEF Told, Journal!Announced, Journal!NoName, NoName
  <1>12. pending'[p] = <<>> /\ \A q \in Callers \ {p} : pending'[q] = pending[q]
    BY DEF Deliver, ShapeInv
  <1>13. UNCHANGED <<appVars, pc>> BY DEF Deliver
  <1>14. QED BY <1>6, <1>9, <1>11, <1>12, <1>13 DEF e

\* An event of the log stays, and only deliveries add to it.
LEMMA LogKept ==
  ASSUME log' = log
  PROVE  Told' = Told /\ Last' = Last /\ Journal!Opened' = Journal!Opened
  BY DEF Told, Last, Journal!Announced, Journal!LastType, Journal!Opened

\* What is told when nothing is composed.
LEMMA NothingComposed ==
  ASSUME pending[Starter] = <<>>, NEW S, Telling(S)
  PROVE  Journal!Opened /\ Told = S
  BY DEF Telling, Composed

\* start announces the components in the order of their names.
LEMMA NextInOrder ==
  ASSUME TypeOK, NEW K \in SUBSET Registered, todo \in SUBSET K, todo # {},
         \A c \in K \ todo, d \in todo : c < d,
         \A c \in K, d \in Registered \ K : c < d
  PROVE  /\ Min(todo) \in todo
         /\ K \ todo = {d \in Registered : d < Min(todo)}
         /\ \A c \in (K \ todo) \cup {Min(todo)}, d \in todo \ {Min(todo)} : c < d
  <1> DEFINE m == Min(todo)
  <1>1. Registered \subseteq Nat BY NamesAssumption DEF TypeOK, AppTypeOK, Registered, Names
  <1>2. m \in todo /\ \A d \in todo : m <= d BY <1>1, LeastElement
  <1> HIDE DEF m
  <1>3. m \in K /\ m \in Nat BY <1>1, <1>2
  <1>4. \A c \in K \ todo : c < m BY <1>2
  <1>5. ASSUME NEW d \in Registered, d < m PROVE d \in K \ todo
    <2>1. d \in Nat BY <1>1
    <2>2. d \in K
      <3>1. CASE d \notin K
        <4>1. m < d BY <1>3, <3>1
        <4>2. QED BY <1>3, <1>5, <2>1, <4>1
      <3>2. QED BY <3>1
    <2>3. d \notin todo BY <1>2, <1>3, <1>5, <2>1
    <2>4. QED BY <2>2, <2>3
  <1>6. \A d \in todo \ {m} : m < d
    <2>1. ASSUME NEW d \in todo \ {m} PROVE m < d
      <3>1. d \in Nat /\ m <= d /\ d # m BY <1>1, <1>2
      <3>2. QED BY <1>3, <3>1
    <2>2. QED BY <2>1
  <1>7. K \ todo = {d \in Registered : d < m} BY <1>4, <1>5
  <1>8. QED BY <1>2, <1>6, <1>7 DEF m

\* start lists everything that is registered, agents before workflows.
LEMMA Listed ==
  ASSUME TypeOK, started = Registered, NEW kind
  PROVE  List(kind) = Registered \cap kind
  BY DEF List, Registered

LEMMA AgentsFirst ==
  ASSUME TypeOK
  PROVE  /\ Registered \ (Registered \cap Flows) = Registered \cap Agents
         /\ \A c \in Registered \cap Agents, d \in Registered \ (Registered \cap Agents) : c < d
  <1>1. \A a \in Agents, f \in Flows : a < f /\ a \in Nat BY NamesAssumption
  <1>2. Agents \cap Flows = {}
    <2>1. ASSUME NEW a \in Agents, a \in Flows PROVE FALSE
      <3>1. a < a /\ a \in Nat BY <1>1, <2>1
      <3>2. QED BY <3>1
    <2>2. QED BY <2>1
  <1>3. Registered \subseteq Agents \cup Flows BY DEF TypeOK, AppTypeOK, Registered, Names
  <1>4. QED BY <1>1, <1>2, <1>3

\* start is told of by its own steps only, each from where it is.
BootTold == BootJournal /\ (pc[Starter] = "done" => DoneJournal)

\* The steps of start that compose nothing, deliver nothing and leave the loops
\* over the components alone.
LEMMA QuietMove ==
  ASSUME Registered' = Registered, Goto(Starter, pc[Starter], pc'[Starter]), log' = log,
         pending' = pending,
         \/ /\ pc[Starter] \in {"agents", "flows", "publish"}
            /\ pc'[Starter] \in {"flows", "publish", "listAgents", "failStart"}
         \/ /\ pc[Starter] \in {"servers", "startServer", "publishServer", "coldStart", "rollback",
                                "clear", "running"}
            /\ pc'[Starter] \in {"startServer", "publishServer", "coldStart", "rollback",
                                 "clear", "running", "failStart"}
         \/ /\ pc[Starter] = "running" /\ pc'[Starter] = "started" /\ state' = "running"
         \/ /\ pc[Starter] = "failStart" /\ pc'[Starter] = "failed",
         BootJournal
  PROVE  BootTold'
  <1>1. pending[Starter] = <<>> BY DEF Goto
  <1>2. Told' = Told /\ Journal!Opened' = Journal!Opened BY LogKept
  <1>3. ASSUME Telling({}) PROVE Telling({})' BY <1>1, <1>2, <1>3, NothingComposed DEF Telling
  <1>4. ASSUME Telling(Registered) PROVE Telling(Registered)'
    BY <1>1, <1>2, <1>4, NothingComposed DEF Telling
  <1>5. CASE /\ pc[Starter] \in {"agents", "flows", "publish"}
             /\ pc'[Starter] \in {"flows", "publish", "listAgents", "failStart"}
    <2>1. Telling({}) BY <1>1, <1>5 DEF BootJournal, Composed
    <2>2. QED BY <1>3, <1>5, <2>1 DEF BootTold, BootJournal
  <1>6. CASE /\ pc[Starter] \in {"servers", "startServer", "publishServer", "coldStart", "rollback",
                                "clear", "running"}
             /\ pc'[Starter] \in {"startServer", "publishServer", "coldStart", "rollback",
                                 "clear", "running", "failStart"}
    BY <1>4, <1>6 DEF BootTold, BootJournal
  <1>7. CASE pc[Starter] = "running" /\ pc'[Starter] = "started" /\ state' = "running"
    BY <1>4, <1>7 DEF BootTold, BootJournal
  <1>8. CASE pc[Starter] = "failStart" /\ pc'[Starter] = "failed"
    BY <1>3, <1>4, <1>8 DEF BootTold, BootJournal
  <1>9. QED BY <1>5, <1>6, <1>7, <1>8

\* The loop over the components of K, of one kind.
LEMMA AnnouncedNext ==
  ASSUME DemoInv, StageInv, Registered' = Registered, NEW K \in SUBSET Registered,
         NEW at \in Booting, Announce(at), todo \in SUBSET K,
         \A c \in K, d \in Registered \ K : c < d,
         Telling(K \ todo), Ahead(K \ todo)
  PROVE  /\ \E c \in Registered :
              /\ Composed(Starter, "registered", c, "starting")'
              /\ Told' = {d \in Registered : d < c}
              /\ K \ todo' = Told' \cup {c}
         /\ Journal!Opened' /\ todo' \subseteq todo
         /\ \A c \in K \ todo', d \in todo' : c < d
  <1>1. todo # {} /\ todo' = todo \ {Min(todo)} /\ log' = log /\ pc[Starter] = at
        /\ pending[Starter] = <<>>
        /\ pending' = [pending EXCEPT ![Starter] =
                         <<[type |-> "registered", name |-> Min(todo), state |-> state]>>]
    BY DEF Announce, Emit, Goto
  <1>2. state = "starting" BY <1>1 DEF StageInv
  <1>3. Min(todo) \in todo /\ K \ todo = {d \in Registered : d < Min(todo)}
        /\ \A c \in (K \ todo) \cup {Min(todo)}, d \in todo \ {Min(todo)} : c < d
    BY <1>1, NextInOrder DEF Ahead, DemoInv, TypeOK
  <1>4. PICK m \in Registered : m = Min(todo) BY <1>3
  <1>5. m \in todo /\ todo' = todo \ {m} /\ K \ todo = {d \in Registered : d < m}
        /\ \A c \in (K \ todo) \cup {m}, d \in todo \ {m} : c < d
    BY <1>1, <1>3, <1>4
  <1>6. Told' = K \ todo /\ Journal!Opened' BY <1>1, LogKept, NothingComposed
  <1>7. Composed(Starter, "registered", m, "starting")'
    BY <1>1, <1>2, <1>4 DEF Composed, DemoInv, ShapeInv, Callers
  <1>8. K \ todo' = (K \ todo) \cup {m} BY <1>5
  <1>9. Told' = {d \in Registered : d < m} /\ K \ todo' = Told' \cup {m} BY <1>5, <1>6, <1>8
  <1>10. \A c \in K \ todo', d \in todo' : c < d BY <1>5, <1>8
  <1>11. todo' \subseteq todo BY <1>5
  <1>12. QED BY <1>6, <1>7, <1>9, <1>10, <1>11

LEMMA BootDelivers ==
  ASSUME DemoInv, Registered' = Registered, BootTold, Deliver(Starter)
  PROVE  BootTold'
  <1> USE DEF DemoInv
  <1>1. Starter \in Callers BY DEF Callers
  <1>2. UNCHANGED <<state, todo, pc>> /\ pending[Starter] # <<>> BY DEF Deliver, appVars
  <1>3. ASSUME NEW S, NEW c \in Registered, Journal!Opened,
               Composed(Starter, "registered", c, "starting"), S = Told \cup {c}
        PROVE  Journal!Opened' /\ pending'[Starter] = <<>> /\ Told' = S
    <2>1. c # NoName BY NamesAssumption DEF TypeOK, AppTypeOK, Registered, Names, NoName
    <2>2. Told' = Told \cup ({c} \ {NoName}) /\ Last' = "registered" /\ pending'[Starter] = <<>>
      BY <1>1, <1>3, Delivered
    <2>3. QED BY <1>3, <2>1, <2>2 DEF Last, Journal!Opened
  <1>4. ASSUME NEW S, Telling(S) PROVE Journal!Opened' /\ pending'[Starter] = <<>> /\ Told' = S
    BY <1>2, <1>3, <1>4 DEF Telling
  <1>5. ~Telling({}) BY <1>2 DEF Telling
  <1>6. CASE pc[Starter] = "agents"
    <2>1. log = <<>> /\ Composed(Starter, "starting", NoName, "starting")
      BY <1>5, <1>6 DEF BootTold, BootJournal
    <2>2. Told' = Told \cup ({NoName} \ {NoName}) /\ Last' = "starting" /\ pending'[Starter] = <<>>
      BY <1>1, <2>1, Delivered
    <2>3. Told = {} BY <2>1 DEF Told, Journal!Announced
    <2>4. Telling({})' BY <2>2, <2>3 DEF Telling, Last, Journal!Opened
    <2>5. QED BY <1>2, <1>6, <2>4 DEF BootTold, BootJournal
  <1>7. CASE pc[Starter] = "announceAgents"
    <2>1. Telling((Registered \cap Agents) \ todo)' 
      BY <1>2, <1>4, <1>7 DEF BootTold, BootJournal, Telling
    <2>2. QED BY <1>2, <1>7, <2>1 DEF BootTold, BootJournal, Ahead
  <1>8. CASE pc[Starter] = "announceFlows"
    <2>1. Telling(Registered \ todo)'
      BY <1>2, <1>4, <1>8 DEF BootTold, BootJournal, Telling
    <2>2. QED BY <1>2, <1>8, <2>1 DEF BootTold, BootJournal, Ahead
  <1>9. CASE pc[Starter] = "listFlows"
    <2>1. Telling(Registered \cap Agents)'
      BY <1>2, <1>4, <1>9 DEF BootTold, BootJournal, Telling
    <2>2. QED BY <1>2, <1>9, <2>1 DEF BootTold, BootJournal
  <1>10. CASE pc[Starter] \in {"servers", "startServer", "publishServer", "coldStart", "rollback",
                               "clear", "running", "started", "failStart", "failed"}
    <2>1. Telling(Registered) BY <1>5, <1>10 DEF BootTold, BootJournal
    <2>2. Telling(Registered)' BY <1>2, <1>4, <2>1 DEF Telling
    <2>3. QED BY <1>2, <1>10, <2>2 DEF BootTold, BootJournal
  <1>11. CASE pc[Starter] = "done"
    <2>1. /\ Journal!Opened
          /\ \/ Composed(Starter, "started", NoName, "running")
             \/ Composed(Starter, "bootstrap_failed", NoName, "stopped") /\ state = "stopped"
      BY <1>2, <1>11 DEF BootTold, DoneJournal
    <2>2. pending'[Starter] = <<>> /\ (state' = "running" => Last' = "started")
      BY <1>1, <1>2, <2>1, Delivered
    <2>3. QED BY <1>2, <1>11, <2>2 DEF BootTold, BootJournal, DoneJournal
  <1>12. pc[Starter] \notin {"idle", "starting", "flows", "publish", "listAgents"}
    BY <1>2, <1>5 DEF BootTold, BootJournal
  <1>13. pc[Starter] \in StarterPCs BY DEF TypeOK, AppTypeOK
  <1>14. QED BY <1>6, <1>7, <1>8, <1>9, <1>10, <1>11, <1>12, <1>13 DEF StarterPCs

LEMMA BootSteps ==
  ASSUME DemoInv, StageInv, Registered' = Registered, BootTold, UNCHANGED serverVars,
         StarterOnly, ~Deliver(Starter)
  PROVE  BootTold'
  <1> USE DEF DemoInv, Step, appVars, mapVars
  <1>1. Starter \in Callers BY DEF Callers
  <1>2. ASSUME NEW from, NEW to, Goto(Starter, from, to)
        PROVE  pc[Starter] = from /\ pc'[Starter] = to /\ pending[Starter] = <<>>
    BY <1>1, <1>2, Moved DEF Goto
  <1>3. Registered \cap Agents \in SUBSET Registered OBVIOUS
  <1>4. ASSUME NEW from, NEW to, Step(Starter, from, to),
               \/ from \in {"agents", "flows", "publish"}
                  /\ to \in {"flows", "publish", "listAgents", "failStart"}
               \/ from \in {"servers", "startServer", "publishServer", "coldStart", "rollback",
                            "clear", "running"}
                  /\ to \in {"startServer", "publishServer", "coldStart", "rollback",
                             "clear", "running", "failStart"}
               \/ from = "running" /\ to = "started" /\ state' = "running"
               \/ from = "failStart" /\ to = "failed"
        PROVE  BootTold'
    <2>1. pc[Starter] = from /\ pc'[Starter] = to BY <1>2, <1>4
    <2>2. Goto(Starter, pc[Starter], pc'[Starter]) /\ log' = log /\ pending' = pending
      BY <1>4, <2>1
    <2>3. QED BY <1>4, <2>1, <2>2, QuietMove DEF BootTold
  <1>5. CASE Begin
    BY <1>2, <1>5 DEF Begin, BootTold, BootJournal
  <1>6. CASE StartRefused
    <2>1. pc[Starter] = "idle" /\ pc'[Starter] = "done" /\ UNCHANGED <<pending, log, state>>
          /\ pending[Starter] = <<>> /\ state # "running"
      BY <1>2, <1>6 DEF StartRefused
    <2>2. QED BY <2>1 DEF BootTold, BootJournal, DoneJournal
  <1>7. ASSUME NEW from, NEW to, NEW type, NEW at, Emit(Starter, from, to, type, NoName), state = at
        PROVE  /\ Composed(Starter, type, NoName, at)' /\ pending'[Starter] # <<>>
               /\ pc[Starter] = from /\ pc'[Starter] = to /\ pending[Starter] = <<>> /\ log' = log
    <2>1. pc[Starter] = from /\ pc'[Starter] = to /\ pending[Starter] = <<>> /\ log' = log
      BY <1>2, <1>7 DEF Emit
    <2>2. Composed(Starter, type, NoName, at)'
      BY <1>1, <1>7 DEF Emit, Composed, ShapeInv
    <2>3. pending'[Starter] # <<>> BY <2>2 DEF Composed
    <2>4. QED BY <2>1, <2>2, <2>3
  <1>8. CASE EmitStarting
    <2>1. state = "starting" BY <1>2, <1>8 DEF EmitStarting, Emit, StageInv, Booting
    <2>2. Composed(Starter, "starting", NoName, "starting")' /\ log' = log
          /\ pc[Starter] = "starting" /\ pc'[Starter] = "agents"
      BY <1>7, <1>8, <2>1 DEF EmitStarting
    <2>3. log' = <<>> BY <2>2 DEF BootTold, BootJournal
    <2>4. QED BY <2>2, <2>3 DEF BootTold, BootJournal
  <1>9. CASE EmitBootstrapFailed
    <2>1. state = "stopped" /\ state' = state
      BY <1>2, <1>9 DEF EmitBootstrapFailed, Emit, StageInv
    <2>2. /\ Composed(Starter, "bootstrap_failed", NoName, "stopped")' /\ pending'[Starter] # <<>>
          /\ pc[Starter] = "failed" /\ pc'[Starter] = "done" /\ pending[Starter] = <<>>
          /\ log' = log
      BY <1>7, <1>9, <2>1 DEF EmitBootstrapFailed
    <2>3. Journal!Opened /\ Told \in {{}, Registered}
      BY <2>2, NothingComposed DEF BootTold, BootJournal
    <2>4. Journal!Opened' /\ Told' = Told BY <2>2, <2>3, LogKept
    <2>5. QED BY <2>1, <2>2, <2>3, <2>4 DEF BootTold, BootJournal, DoneJournal
  <1>10. CASE EmitStarted
    <2>1. state = "running" /\ state' = state
      BY <1>2, <1>10 DEF EmitStarted, Emit, BootTold, BootJournal
    <2>2. /\ Composed(Starter, "started", NoName, "running")' /\ pending'[Starter] # <<>>
          /\ pc[Starter] = "started" /\ pc'[Starter] = "done" /\ pending[Starter] = <<>>
          /\ log' = log
      BY <1>7, <1>10, <2>1 DEF EmitStarted
    <2>3. Journal!Opened /\ Told = Registered
      BY <2>2, NothingComposed DEF BootTold, BootJournal
    <2>4. Journal!Opened' /\ Told' = Told BY <2>2, <2>3, LogKept
    <2>5. QED BY <2>1, <2>2, <2>3, <2>4 DEF BootTold, BootJournal, DoneJournal
  <1>12. CASE Enumerate(Agents, "listAgents", "announceAgents")
    <2>1. pc[Starter] = "listAgents" /\ pc'[Starter] = "announceAgents"
          /\ pending[Starter] = <<>> /\ pending' = pending /\ log' = log /\ todo' = List(Agents)
      BY <1>2, <1>12 DEF Enumerate
    <2>2. todo' = Registered \cap Agents
      <3>1. started = Registered BY <2>1 DEF MapInv, Straight
      <3>2. QED BY <2>1, <3>1, Listed
    <2>3. Telling({}) BY <2>1 DEF BootTold, BootJournal
    <2>4. Journal!Opened' /\ Told' = {} /\ pending'[Starter] = <<>>
      BY <2>1, <2>3, LogKept, NothingComposed
    <2>5. ((Registered \cap Agents) \ todo)' = {} BY <2>2
    <2>6. Telling((Registered \cap Agents) \ todo)' BY <2>4, <2>5 DEF Telling
    <2>7. Ahead((Registered \cap Agents) \ todo)' BY <2>2, <2>5 DEF Ahead
    <2>8. QED BY <2>1, <2>2, <2>6, <2>7 DEF BootTold, BootJournal
  <1>13. CASE Enumerate(Flows, "listFlows", "announceFlows")
    <2>1. pc[Starter] = "listFlows" /\ pc'[Starter] = "announceFlows"
          /\ pending[Starter] = <<>> /\ pending' = pending /\ log' = log /\ todo' = List(Flows)
      BY <1>2, <1>13 DEF Enumerate
    <2>2. todo' = Registered \cap Flows
      <3>1. started = Registered BY <2>1 DEF MapInv, Straight
      <3>2. QED BY <2>1, <3>1, Listed
    <2>3. Telling(Registered \cap Agents) BY <2>1 DEF BootTold, BootJournal
    <2>4. Journal!Opened' /\ Told' = Registered \cap Agents /\ pending'[Starter] = <<>>
      BY <2>1, <2>3, LogKept, NothingComposed
    <2>5. (Registered \ todo)' = Registered \cap Agents BY <2>2, AgentsFirst
    <2>6. Telling(Registered \ todo)' BY <2>4, <2>5 DEF Telling
    <2>7. Ahead(Registered \ todo)'
      <3>1. \A c \in Registered \cap Agents, d \in Registered \cap Flows : c < d
        BY NamesAssumption
      <3>2. QED BY <2>2, <2>5, <3>1 DEF Ahead
    <2>8. QED BY <2>1, <2>6, <2>7 DEF BootTold, BootJournal
  <1>14. CASE Announce("announceAgents")
    <2>1. pc[Starter] = "announceAgents" /\ pc'[Starter] = "announceAgents"
      BY <1>2, <1>14 DEF Announce, Emit
    <2>2. /\ todo \in SUBSET (Registered \cap Agents)
          /\ Telling((Registered \cap Agents) \ todo) /\ Ahead((Registered \cap Agents) \ todo)
      BY <2>1 DEF BootTold, BootJournal, Ahead
    <2>3. PICK K \in SUBSET Registered : K = Registered \cap Agents OBVIOUS
    <2>4. /\ \E c \in Registered :
               /\ Composed(Starter, "registered", c, "starting")'
               /\ Told' = {d \in Registered : d < c}
               /\ K \ todo' = Told' \cup {c}
          /\ Journal!Opened' /\ todo' \subseteq todo
          /\ \A c \in K \ todo', d \in todo' : c < d
      BY <1>14, <2>2, <2>3, AnnouncedNext, AgentsFirst DEF Booting
    <2>5. ((Registered \cap Agents) \ todo)' = K \ todo' BY <2>3
    <2>6. Telling((Registered \cap Agents) \ todo)' BY <2>4, <2>5 DEF Telling
    <2>7. Ahead((Registered \cap Agents) \ todo)' BY <2>2, <2>4, <2>5 DEF Ahead
    <2>8. todo' \subseteq Agents BY <2>2, <2>4
    <2>9. QED BY <2>1, <2>6, <2>7, <2>8 DEF BootTold, BootJournal
  <1>15. CASE Announce("announceFlows")
    <2>1. pc[Starter] = "announceFlows" /\ pc'[Starter] = "announceFlows"
      BY <1>2, <1>15 DEF Announce, Emit
    <2>2. todo \in SUBSET Registered /\ Telling(Registered \ todo) /\ Ahead(Registered \ todo)
      BY <2>1 DEF BootTold, BootJournal, Ahead
    <2>3. PICK K \in SUBSET Registered : K = Registered OBVIOUS
    <2>4. /\ \E c \in Registered :
               /\ Composed(Starter, "registered", c, "starting")'
               /\ Told' = {d \in Registered : d < c}
               /\ K \ todo' = Told' \cup {c}
          /\ Journal!Opened' /\ todo' \subseteq todo
          /\ \A c \in K \ todo', d \in todo' : c < d
      BY <1>15, <2>2, <2>3, AnnouncedNext DEF Booting
    <2>5. (Registered \ todo)' = K \ todo' BY <2>3
    <2>6. Telling(Registered \ todo)' BY <2>4, <2>5 DEF Telling
    <2>7. Ahead(Registered \ todo)' BY <2>2, <2>4, <2>5 DEF Ahead
    <2>8. QED BY <2>1, <2>6, <2>7 DEF BootTold, BootJournal
  <1>16. CASE Announced("announceAgents", "listFlows")
    <2>1. pc[Starter] = "announceAgents" /\ pc'[Starter] = "listFlows" /\ todo = {}
          /\ pending[Starter] = <<>> /\ pending' = pending /\ log' = log
      BY <1>2, <1>16 DEF Announced
    <2>2. Telling((Registered \cap Agents) \ todo) BY <2>1 DEF BootTold, BootJournal
    <2>3. Journal!Opened' /\ Told' = Registered \cap Agents /\ pending'[Starter] = <<>>
      BY <2>1, <2>2, LogKept, NothingComposed
    <2>4. QED BY <2>1, <2>3 DEF BootTold, BootJournal, Telling
  <1>17. CASE Announced("announceFlows", "servers")
    <2>1. pc[Starter] = "announceFlows" /\ pc'[Starter] = "servers" /\ todo = {}
          /\ pending[Starter] = <<>> /\ pending' = pending /\ log' = log
      BY <1>2, <1>17 DEF Announced
    <2>2. Telling(Registered \ todo) BY <2>1 DEF BootTold, BootJournal
    <2>3. Journal!Opened' /\ Told' = Registered /\ pending'[Starter] = <<>>
      BY <2>1, <2>2, LogKept, NothingComposed
    <2>4. QED BY <2>1, <2>3 DEF BootTold, BootJournal, Telling
  <1>18. CASE \/ Materialize(Agents, "agents", "flows") \/ Materialize(Flows, "flows", "publish")
              \/ MaterializeFails(Agents, "agents") \/ MaterializeFails(Flows, "flows")
              \/ Publish
    BY <1>4, <1>18 DEF Materialize, MaterializeFails, Fail, Publish
  <1>19. CASE CheckStopping \/ PublishServer \/ ColdStart
    BY <1>4, <1>19 DEF CheckStopping, PublishServer, ColdStart, RollBack, Fail
  <1>20. CASE Clear \/ FailStart \/ SetRunning
    BY <1>4, <1>20 DEF Clear, FailStart, SetRunning
  <1>21. CASE Boot
    BY <1>8, <1>9, <1>10, <1>12, <1>13, <1>14, <1>15, <1>16, <1>17, <1>18, <1>19, <1>20, <1>21
    DEF Boot
  <1>22. QED BY <1>5, <1>6, <1>21 DEF StarterOnly

\* Once start has returned and told of it, it takes no step.
LEMMA StarterDone ==
  ASSUME TypeOK, ShapeInv, pc[Starter] = "done", pending[Starter] = <<>>
  PROVE  ~(StarterOnly \/ ServerStarted \/ ServerFailed \/ \E error : ServerDown(Starter, error))
  <1> USE DEF Step, Emit, Goto
  <1>1. ~(Begin \/ StartRefused \/ ServerStarted \/ ServerFailed
          \/ \E error : ServerDown(Starter, error))
    BY DEF Begin, StartRefused, ServerStarted, ServerFailed, Fail, ServerDown
  <1>2. ~Boot
    BY DEF Boot, Deliver, EmitStarting, Materialize, MaterializeFails, Fail, Publish, Enumerate,
           Announce, Announced, CheckStopping, PublishServer, ColdStart, Clear, FailStart,
           EmitBootstrapFailed, SetRunning, EmitStarted
  <1>3. QED BY <1>1, <1>2 DEF StarterOnly

\* While start runs no Shutdown is on its way, and none comes of its steps.
LEMMA HaltIdle ==
  ASSUME HaltJournal, \/ pc[Starter] # "done" \/ pending[Starter] # <<>>
                      \/ state \notin {"stopping", "stopped"},
         \A p \in Stoppers : Stays(p)
  PROVE  HaltJournal'
  <1>1. \A p \in Stoppers : ~Busy(p) BY DEF HaltJournal
  <1>2. \A p \in Stoppers : ~Busy(p)' BY <1>1 DEF Busy, Active, Stays
  <1>3. QED BY <1>2 DEF HaltJournal

LEMMA HaltSteps ==
  ASSUME DemoInv, StageInv, ActiveInv, BootTold, HaltJournal, Registered' = Registered,
         NEW p \in Stoppers, StopperOnly(p) \/ \E error : ServerDown(p, error), ~overlapped'
  PROVE  BootTold' /\ HaltJournal'
  <1> USE DEF DemoInv, Step, Emit, appVars, mapVars
  <1>1. p \in Callers /\ p # Starter /\ Starter \in Callers BY CallersAssumption DEF Callers
  <1>2. ASSUME NEW from, NEW to, Goto(p, from, to)
        PROVE  pc[p] = from /\ pc'[p] = to /\ pending[p] = <<>>
    BY <1>1, <1>2, Moved DEF Goto
  <1>3. \A q \in Callers \ {p} : Stays(q) BY StopperStays
  <1>4. pc'[Starter] = pc[Starter] /\ pending'[Starter] = pending[Starter] /\ todo' = todo
    BY <1>1, <1>3, StopperStays DEF Stays
  <1>5. \A q \in Stoppers \ {p} : Busy(q)' <=> Busy(q)
    BY <1>3 DEF Busy, Active, Stays, Callers
  <1>6. ASSUME log' = log, BootTold,
               state = "running" => state' = "running" \/ pc[Starter] \in {"idle", "done"},
               state' = state \/ state' # "running", state = "stopped" => state' = "stopped"
        PROVE  BootTold'
    <2>1. Told' = Told /\ Last' = Last /\ Journal!Opened' = Journal!Opened BY <1>6, LogKept
    <2>2. BootJournal'
      BY <1>4, <1>6, <2>1 DEF BootTold, BootJournal, Telling, Ahead, Composed
    <2>3. pc'[Starter] = "done" => DoneJournal'
      BY <1>4, <1>6, <2>1 DEF BootTold, DoneJournal, Composed
    <2>4. QED BY <2>2, <2>3 DEF BootTold
  <1>7. ASSUME \A q \in Stoppers \ {p} : ~Busy(q),
               Busy(p)' =>
                 /\ pc[Starter] = "done" /\ pending[Starter] = <<>>
                 /\ state' \in {"stopping", "stopped"}
                 /\ pc'[p] = "stopped" => state' = "stopped"
                 /\ IF pending'[p] = <<>>
                    THEN Last' = IF pc'[p] = "stopping" THEN "started" ELSE "stopping"
                    ELSE \/ pc'[p] \in {"drain", "stop"} /\ Last' = "started"
                            /\ Composed(p, "stopping", NoName, "stopping")'
                         \/ pc'[p] = "done" /\ Last' = "stopping"
                            /\ Composed(p, "stopped", NoName, "stopped")'
        PROVE  HaltJournal'
    <2>1. \A q \in Stoppers : Busy(q)' => q = p BY <1>5, <1>7
    <2>2. \A q, r \in Stoppers : Busy(q)' /\ Busy(r)' => q = r BY <2>1
    <2>3. CASE ~Busy(p)' BY <2>1, <2>3 DEF HaltJournal
    <2>4. CASE Busy(p)' BY <1>4, <1>7, <2>1, <2>2, <2>4 DEF HaltJournal
    <2>5. QED BY <2>3, <2>4
  <1>8. Busy(p) =>
          /\ pc[Starter] = "done" /\ pending[Starter] = <<>> /\ state \in {"stopping", "stopped"}
          /\ \A q \in Stoppers \ {p} : ~Busy(q)
    BY DEF HaltJournal
  <1>9. ASSUME Busy(p), state' \in {"stopping", "stopped"}, log' = log,
               state = "stopped" => state' = "stopped"
        PROVE  BootTold'
    BY <1>6, <1>8, <1>9
  <1>10. CASE ShutdownNoop(p)
    <2>1. pc[p] = "idle" /\ pc'[p] = "done" /\ pending[p] = <<>> /\ UNCHANGED <<pending, log>>
          /\ (state' = state \/ (state = "created" /\ state' = "stopped"))
      BY <1>2, <1>10 DEF ShutdownNoop
    <2>2. BootTold' BY <1>6, <2>1
    <2>3. ~Busy(p) /\ ~Busy(p)' BY <2>1 DEF Busy, Active
    <2>4. HaltJournal'
      <3>1. CASE \A q \in Stoppers : ~Busy(q) BY <1>7, <2>3, <3>1
      <3>2. ASSUME NEW q \in Stoppers, Busy(q) PROVE HaltJournal'
        <4>1. state' = state BY <2>1, <3>2 DEF HaltJournal
        <4>2. Last' = Last BY <2>1, LogKept
        <4>3. \A r \in Stoppers : Busy(r)' <=> Busy(r) BY <1>5, <2>3
        <4>4. ASSUME NEW r \in Stoppers, Busy(r)
              PROVE  /\ pc'[r] = pc[r] /\ pending'[r] = pending[r]
          BY <1>3, <2>3, <4>4 DEF Stays, Callers
        <4>5. QED BY <1>4, <4>1, <4>2, <4>3, <4>4 DEF HaltJournal, Composed
      <3>3. QED BY <3>1, <3>2
    <2>5. QED BY <2>2, <2>4
  <1>11. CASE ShutdownBegin(p)
    <2>1. pc[p] = "idle" /\ pc'[p] = "stopping" /\ pending[p] = <<>> /\ UNCHANGED <<pending, log>>
          /\ state \in {"starting", "running"} /\ state' = "stopping" /\ ~StartActive
      BY <1>2, <1>11 DEF ShutdownBegin
    <2>2. pc[Starter] = "done" /\ pending[Starter] = <<>> /\ state = "running"
      BY <2>1 DEF StartActive, StageInv
    <2>3. Last' = "started" BY <2>1, <2>2, LogKept DEF BootTold, DoneJournal
    <2>4. BootTold' BY <1>6, <2>1, <2>2
    <2>5. \A q \in Stoppers : ~Busy(q) BY <2>2 DEF HaltJournal
    <2>6. HaltJournal' BY <1>7, <2>1, <2>2, <2>3, <2>5
    <2>7. QED BY <2>4, <2>6
  <1>12. CASE EmitStopping(p)
    <2>1. pc[p] = "stopping" /\ pc'[p] \in {"drain", "stop"} /\ pending[p] = <<>>
          /\ log' = log /\ state' = state
      BY <1>2, <1>12 DEF EmitStopping
    <2>2. Busy(p) /\ state = "stopping" /\ Last = "started"
      BY <2>1 DEF Busy, Active, ActiveInv, HaltJournal
    <2>3. Composed(p, "stopping", NoName, "stopping")'
      BY <1>1, <1>12, <2>2 DEF EmitStopping, Composed, ShapeInv
    <2>4. pending'[p] # <<>> /\ Last' = "started" BY <2>1, <2>2, <2>3, LogKept DEF Composed
    <2>5. HaltJournal' BY <1>7, <1>8, <2>1, <2>2, <2>3, <2>4
    <2>6. QED BY <1>9, <2>1, <2>2, <2>5
  <1>13. CASE EmitStopped(p)
    <2>1. pc[p] = "stopped" /\ pc'[p] = "done" /\ pending[p] = <<>> /\ log' = log /\ state' = state
      BY <1>2, <1>13 DEF EmitStopped
    <2>2. Busy(p) /\ state = "stopped" /\ Last = "stopping"
      BY <2>1 DEF Busy, Active, HaltJournal
    <2>3. Composed(p, "stopped", NoName, "stopped")'
      BY <1>1, <1>13, <2>2 DEF EmitStopped, Composed, ShapeInv
    <2>4. pending'[p] # <<>> /\ Last' = "stopping" BY <2>1, <2>2, <2>3, LogKept DEF Composed
    <2>5. HaltJournal' BY <1>7, <1>8, <2>1, <2>2, <2>3, <2>4
    <2>6. QED BY <1>9, <2>1, <2>2, <2>5
  <1>14. ASSUME NEW error, ServerDown(p, error) PROVE BootTold' /\ HaltJournal'
    <2>1. pc[p] = "drain" /\ pc'[p] = "stop" /\ pending[p] = <<>> /\ UNCHANGED <<pending, log>>
          /\ state' = state
      BY <1>1, <1>2, <1>14 DEF ServerDown
    <2>2. Busy(p) /\ Last = "stopping" BY <2>1 DEF Busy, Active, HaltJournal
    <2>3. Last' = "stopping" BY <2>1, <2>2, LogKept
    <2>4. HaltJournal' BY <1>7, <1>8, <2>1, <2>2, <2>3
    <2>5. QED BY <1>8, <1>9, <2>1, <2>2, <2>4
  <1>15. CASE Stop(p)
    <2>1. pc[p] = "stop" /\ pc'[p] = "stopped" /\ pending[p] = <<>> /\ UNCHANGED <<pending, log>>
          /\ state' = "stopped"
      BY <1>2, <1>15 DEF Stop
    <2>2. Busy(p) /\ Last = "stopping" BY <2>1 DEF Busy, Active, HaltJournal
    <2>3. Last' = "stopping" BY <2>1, <2>2, LogKept
    <2>4. HaltJournal' BY <1>7, <1>8, <2>1, <2>2, <2>3
    <2>5. QED BY <1>9, <2>1, <2>2, <2>4
  <1>16. CASE Deliver(p)
    <2>1. Busy(p) /\ pending[p] # <<>> BY <1>16 DEF Busy, Deliver
    <2>2. UNCHANGED <<appVars, pc>> BY <1>16 DEF Deliver
    <2>3. BootTold'
      <3>1. pc[Starter] = "done" /\ pending[Starter] = <<>> /\ state # "running"
        BY <1>8, <2>1
      <3>2. QED BY <1>4, <2>2, <3>1 DEF BootTold, BootJournal, DoneJournal
    <2>4. CASE pc[p] \in {"drain", "stop"} /\ Composed(p, "stopping", NoName, "stopping")
      <3>1. Last' = "stopping" /\ pending'[p] = <<>> BY <1>1, <1>16, <2>4, Delivered
      <3>2. HaltJournal' BY <1>7, <1>8, <2>1, <2>2, <2>4, <3>1
      <3>3. QED BY <2>3, <3>2
    <2>5. CASE pc[p] = "done" /\ Composed(p, "stopped", NoName, "stopped")
      <3>1. pending'[p] = <<>> BY <1>1, <1>16, <2>5, Delivered
      <3>2. ~Busy(p)' BY <2>2, <2>5, <3>1 DEF Busy, Active
      <3>3. HaltJournal' BY <1>7, <1>8, <2>1, <3>2
      <3>4. QED BY <2>3, <3>3
    <2>6. QED BY <2>1, <2>4, <2>5 DEF HaltJournal
  <1>17. QED BY <1>10, <1>11, <1>12, <1>13, <1>14, <1>15, <1>16 DEF StopperOnly, Halt

LEMMA JournalNext ==
  ASSUME DemoInv, LifeInv, JournalInv, [Next]_allVars
  PROVE  JournalInv'
  <1> USE DEF DemoInv
  <1>1. SUFFICES ASSUME ~overlapped' PROVE BootTold' /\ HaltJournal'
    BY DEF JournalInv, BootTold
  <1>2. ~overlapped BY <1>1, RacesOnlyBegin DEF ShutdownBegin
  <1>3. BootTold /\ HaltJournal BY <1>2 DEF JournalInv, BootTold
  <1>4. StageInv /\ ActiveInv BY <1>2 DEF LifeInv
  <1>5. Registered' = Registered BY Frozen
  <1>6. Starter \in Callers BY DEF Callers
  <1>7. CASE UNCHANGED vars
    <2>1. Told' = Told /\ Last' = Last /\ Journal!Opened' = Journal!Opened
      BY <1>7, LogKept DEF vars
    <2>2. UNCHANGED <<pc, pending, log, todo, state>> BY <1>7 DEF vars, appVars
    <2>3. BootJournal'
      BY <1>3, <1>5, <2>1, <2>2 DEF BootTold, BootJournal, Telling, Ahead, Composed
    <2>4. pc[Starter] = "done" => DoneJournal'
      BY <1>3, <1>5, <2>1, <2>2 DEF BootTold, DoneJournal, Composed
    <2>5. HaltJournal' BY <1>3, <2>1, <2>2 DEF HaltJournal, Busy, Active, Composed
    <2>6. QED BY <2>2, <2>3, <2>4, <2>5 DEF BootTold
  <1>8. ASSUME StarterOnly \/ ServerStarted \/ ServerFailed
               \/ \E error : ServerDown(Starter, error)
        PROVE  HaltJournal'
    <2>1. pc[Starter] # "done" \/ pending[Starter] # <<>> BY <1>8, StarterDone
    <2>2. \A p \in Stoppers : Stays(p) BY <1>8, StarterStays
    <2>3. QED BY <1>3, <2>1, <2>2, HaltIdle
  <1>9. CASE AppOnly /\ UNCHANGED serverVars
    <2>1. CASE StarterOnly
      <3>1. BootTold' BY <1>3, <1>4, <1>5, <1>9, <2>1, BootDelivers, BootSteps
      <3>2. QED BY <1>8, <2>1, <3>1
    <2>2. ASSUME NEW p \in Stoppers, StopperOnly(p) PROVE BootTold' /\ HaltJournal'
      BY <1>1, <1>3, <1>4, <1>5, <2>2, HaltSteps
    <2>3. QED BY <1>7, <1>9, <2>1, <2>2 DEF AppOnly
  <1>10. ASSUME NEW from, NEW to, Step(Starter, from, to),
                from \in {"startServer", "rollback"}, to \in {"publishServer", "clear"}
         PROVE  BootTold'
    <2>1. pc[Starter] = from /\ pc'[Starter] = to BY <1>6, <1>10, Moved DEF Step
    <2>2. Goto(Starter, pc[Starter], pc'[Starter]) /\ log' = log /\ pending' = pending
      BY <1>10, <2>1 DEF Step
    <2>3. QED BY <1>3, <1>5, <1>10, <2>1, <2>2, QuietMove DEF BootTold
  <1>11. CASE ServerStarted \/ ServerFailed
    BY <1>8, <1>10, <1>11 DEF ServerStarted, ServerFailed, Fail
  <1>12. ASSUME NEW p \in Callers, NEW error \in BOOLEAN, ServerDown(p, error)
         PROVE  BootTold' /\ HaltJournal'
    <2>1. CASE p = Starter BY <1>8, <1>10, <1>12, <2>1 DEF ServerDown
    <2>2. CASE p # Starter
      BY <1>1, <1>3, <1>4, <1>5, <1>12, <2>2, HaltSteps DEF Callers
    <2>3. QED BY <2>1, <2>2
  <1>13. QED BY <1>7, <1>9, <1>11, <1>12, JointCases DEF Calling, Inside

LEMMA JournalInit == Init => JournalInv
  BY DEF Init, AppInit, JournalInv, BootJournal, HaltJournal, Busy, Active, Callers

LEMMA JournalInvariant == Spec => [](DemoInv /\ LifeInv /\ JournalInv)
  BY DemoInit, DemoNext, LifeInit, LifeNext, JournalInit, JournalNext, PTL DEF Spec

\* Every delivery is the next event of a journal.
LEMMA JournalSteps ==
  ASSUME DemoInv, LifeInv, JournalInv, ~overlapped, NEW p \in Callers, Deliver(p)
  PROVE  Journal!Next
  <1> USE DEF DemoInv
  <1>1. BootTold /\ HaltJournal BY DEF JournalInv, BootTold
  <1>2. StageInv BY DEF LifeInv
  <1>3. pending[p] # <<>> BY DEF Deliver
  <1>4. Registered' = Registered BY DEF Deliver, appVars, mapVars, Registered
  <1>5. ASSUME NEW type, NEW name, NEW at, Composed(p, type, name, at)
        PROVE  Journal!Say(type, name, at)
    <2>1. log' = Append(log, [type |-> type, name |-> name, state |-> at]) BY <1>5, Delivered
    <2>2. QED BY <1>4, <2>1 DEF Journal!Say
  <1>6. Journal!NoName = NoName BY DEF Journal!NoName, NoName
  <1>7. CASE p \in Stoppers
    <2>1. Busy(p) BY <1>3 DEF Busy
    <2>2. \/ Last = "started" /\ Composed(p, "stopping", NoName, "stopping")
          \/ Last = "stopping" /\ Composed(p, "stopped", NoName, "stopped")
      BY <1>1, <1>3, <1>7, <2>1 DEF HaltJournal
    <2>3. CASE Last = "started" /\ Composed(p, "stopping", NoName, "stopping")
      BY <1>5, <1>6, <2>3 DEF Journal!Next, Journal!Stopping, Last
    <2>4. CASE Last = "stopping" /\ Composed(p, "stopped", NoName, "stopped")
      BY <1>5, <1>6, <2>4 DEF Journal!Next, Journal!Stopped, Last
    <2>5. QED BY <2>2, <2>3, <2>4
  <1>8. CASE p = Starter
    <2>1. ASSUME NEW S, Telling(S) PROVE Journal!Next
      <3>1. PICK c \in Registered : /\ Composed(p, "registered", c, "starting")
                                    /\ Told = {d \in Registered : d < c}
        BY <1>3, <1>8, <2>1 DEF Telling
      <3>2. Journal!Announce(c)
        BY <1>5, <2>1, <3>1 DEF Journal!Announce, Telling, Told
      <3>3. QED BY <3>2 DEF Journal!Next
    <2>2. CASE pc[Starter] = "agents"
      <3>1. CASE log = <<>> /\ Composed(Starter, "starting", NoName, "starting")
        BY <1>5, <1>6, <1>8, <3>1 DEF Journal!Next, Journal!Starting
      <3>2. QED BY <1>1, <2>1, <2>2, <3>1 DEF BootTold, BootJournal
    <2>3. CASE pc[Starter] = "done"
      <3>1. /\ Journal!Opened
            /\ \/ Composed(Starter, "started", NoName, "running") /\ Told = Registered
               \/ /\ Composed(Starter, "bootstrap_failed", NoName, "stopped")
                  /\ Told \in {{}, Registered}
        BY <1>1, <1>3, <1>8, <2>3 DEF BootTold, DoneJournal
      <3>2. CASE Composed(Starter, "started", NoName, "running") /\ Told = Registered
        BY <1>5, <1>6, <1>8, <3>1, <3>2 DEF Journal!Next, Journal!Started, Told
      <3>3. CASE /\ Composed(Starter, "bootstrap_failed", NoName, "stopped")
                 /\ Told \in {{}, Registered}
        BY <1>5, <1>6, <1>8, <3>1, <3>3 DEF Journal!Next, Journal!BootstrapFailed, Told
      <3>4. QED BY <3>1, <3>2, <3>3
    <2>4. CASE pc[Starter] \notin {"agents", "done"}
      <3>1. pc[Starter] \in StarterPCs BY DEF TypeOK, AppTypeOK
      <3>2. \E S : Telling(S)
        BY <1>1, <1>3, <1>8, <2>4, <3>1 DEF BootTold, BootJournal, StarterPCs
      <3>3. QED BY <2>1, <3>2
    <2>5. QED BY <2>2, <2>3, <2>4
  <1>9. QED BY <1>7, <1>8 DEF Callers

\* Only deliveries reach the hooks.
LEMMA OnlyDeliveries ==
  ASSUME [Next]_allVars
  PROVE  log' = log \/ \E p \in Callers : Deliver(p)
  <1> USE DEF Step, Emit, vars, Callers
  <1>1. Boot => log' = log \/ Deliver(Starter)
    BY DEF Boot, EmitStarting, Materialize, MaterializeFails, Fail, Publish, Enumerate, Announce,
           Announced, CheckStopping, PublishServer, ColdStart, Clear, FailStart,
           EmitBootstrapFailed, SetRunning, EmitStarted
  <1>2. Begin \/ StartRefused \/ ServerStarted \/ ServerFailed => log' = log
    BY DEF Begin, StartRefused, ServerStarted, ServerFailed, Fail
  <1>3. \A p : ShutdownNoop(p) \/ ShutdownBegin(p) \/ Halt(p) => log' = log \/ Deliver(p)
    BY DEF ShutdownNoop, ShutdownBegin, Halt, EmitStopping, Stop, EmitStopped
  <1>4. \A p, error : ServerDown(p, error) => log' = log BY DEF ServerDown
  <1>5. QED BY <1>1, <1>2, <1>3, <1>4, StepParts DEF AppAction

\* The hooks are told one lifecycle in order (KeepsJournal), for any components
\* and any callers of Shutdown: every delivery is the next event of the journal
\* of AppJournal, until a Shutdown begins before Start has returned.
THEOREM TellsInOrder == Spec => KeepsJournal
  <1>1. Init => Journal!Init BY DEF Init, AppInit, Journal!Init
  <1>2. DemoInv /\ LifeInv /\ JournalInv /\ [Next]_allVars
          => [Journal!Next \/ overlapped']_(Journal!vars)
    <2> SUFFICES ASSUME DemoInv, LifeInv, JournalInv, [Next]_allVars, ~overlapped'
                 PROVE  Journal!Next \/ UNCHANGED Journal!vars
      OBVIOUS
    <2>1. ~overlapped /\ UNCHANGED overlapped
      BY RacesOnlyBegin DEF ShutdownBegin, DemoInv, TypeOK, AppTypeOK
    <2>2. CASE log' = log BY <2>1, <2>2, Frozen DEF Journal!vars
    <2>3. CASE \E p \in Callers : Deliver(p) BY <2>1, <2>3, JournalSteps
    <2>4. QED BY <2>2, <2>3, OnlyDeliveries
  <1>3. QED BY <1>1, <1>2, JournalInvariant, PTL DEF Spec, KeepsJournal, Journal!Spec
=============================================================================
