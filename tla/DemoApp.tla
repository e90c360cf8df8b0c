------------------------------ MODULE DemoApp ------------------------------
(***************************************************************************)
(* The demo application: an App (AppRuntime) whose one Server is the HTTP  *)
(* server (DemoServer).  App and Server meet in the calls of Start and     *)
(* Shutdown, which the App makes without holding its lock, and in the      *)
(* Runtime the handlers use.                                               *)
(***************************************************************************)
EXTENDS DemoServer

allVars == <<vars, serverVars>>

TypeOK == AppTypeOK /\ ServerTypeOK

Init == AppInit /\ ServerInit

-----------------------------------------------------------------------------
\* A goroutine that is inside a call of the Server stays where it is.
Inside(p, at) == pc[p] = at /\ pending[p] = <<>> /\ UNCHANGED vars

Calling(p) == IF p = Starter THEN Inside(p, "rollback") ELSE Inside(p, "drain")

\* server.Start: its steps, and its two ways to return.
StartServer ==
  \/ Inside(Starter, "startServer") /\ (Listen \/ PublishFields)
  \/ ServerStarted /\ Spawn
  \/ ServerFailed /\ ListenFails

\* server.Shutdown, called by a Shutdown or by the rollback of a startup.
ShutdownServer(p) ==
  \/ Calling(p) /\ ShutdownEnter(p)
  \/ \E error \in BOOLEAN : ServerDown(p, error) /\ ShutdownLeave(p, error)

Quiet == UNCHANGED serverVars

BootStep == (Boot /\ Quiet) \/ StartServer \/ ShutdownServer(Starter)

HaltStep(p) == (Halt(p) /\ Quiet) \/ ShutdownServer(p)

ServeStep == (Serve \/ ServeEnds) /\ UNCHANGED vars

RequestStep(r) == Handle(r) /\ UNCHANGED vars

\* The calls: nobody has to make them.
CallStep ==
  /\ Quiet
  /\ \/ Begin \/ StartRefused
     \/ \E p \in Stoppers : ShutdownNoop(p) \/ ShutdownBegin(p)

Next ==
  \/ CallStep \/ BootStep \/ ServeStep
  \/ \E p \in Stoppers : HaltStep(p)
  \/ \E r \in Requests : RequestStep(r)

\* Goroutines of the App and of Serve run, and every Server.Shutdown has a
\* deadline (finalizeDefaults leaves no timeout of zero).  Handlers may hang.
Fairness ==
  /\ WF_allVars(BootStep)
  /\ WF_allVars(ServeStep)
  /\ \A p \in Stoppers : WF_allVars(HaltStep(p))

Spec == Init /\ [][Next]_allVars /\ Fairness

-----------------------------------------------------------------------------
(* What the users of the demo, and of an App with one Server, rely on. *)

Journal == INSTANCE AppJournal WITH registered <- Registered, void <- overlapped

\* The hooks see the events of one lifecycle in order, each with the state it
\* announces and every component announced once (see AppJournal), although the
\* events are emitted without the lock and read the state again.  Void from the
\* step where a Shutdown begins before Start has returned.
KeepsJournal == Journal!Spec

\* A request the server has accepted finds the Runtime and every registered
\* name: handlers run from before the App is running until after a startup has
\* been rolled back, and only a startup that has failed takes the names away,
\* from the requests its rollback did not wait for.
ResolvesWhileServed ==
  [][\A r \in Requests :
       /\ req'[r].answer # "panic"
       /\ req[r].answer = "none" /\ req'[r].answer = "404" =>
            \/ req[r].route.name \notin Registered
            \/ failed[Starter] /\ pc[Starter] \in {"failStart", "failed", "done"}]_req

\* The goroutine p is the one that shut the App down, and its Shutdown reported
\* success.
ShutDownBy(p) == pc[p] = "done" /\ snapshot[p] = 1 /\ ~failed[p]

\* A Shutdown of a running App that returns nil has waited for every request the
\* server has ever accepted, and none is accepted afterwards.  (A second, idle
\* Shutdown returns nil at once, and so does one that met the startup.)
DrainWaits ==
  (\E p \in Stoppers : ShutDownBy(p)) => InFlight = {}

Phase ==
  IF state = "starting" /\ pc[Starter] \in {"rollback", "clear", "failStart"}
  THEN "stopping" ELSE state

\* The port is open, and not only because the Serve goroutine, which closes it when
\* it finds the server shut down, has not run yet.
ServerUp == listener = "open" /\ ~(inShutdown /\ serve = "spawned")

Contract == INSTANCE AppContract WITH
  N <- 1,
  phase <- Phase,
  up <- IF ServerUp THEN {1} ELSE {},
  void <- raced

\* With this Server, whose Start and Shutdown take several steps and whose Serve
\* is a goroutine of its own, the App keeps the contract of its lifecycle: the
\* port is open while the App runs, and once the App has stopped it is closed, but
\* for one case.  Server.Shutdown may return nil before Serve has taken the listener
\* (server.go:103-120): then the App is stopped while the port is still open, and
\* nothing but the Serve goroutine holds it.  That it lets go is ListenerReleased.
ImplementsContract == Contract!Spec

\* A stopped App lets go of its port, however early in the life of the Serve
\* goroutine it was shut down or rolled back.
ListenerReleased ==
  (state = "stopped" /\ ~StartActive /\ ~raced) ~> listener # "open"
=============================================================================
