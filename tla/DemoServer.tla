----------------------------- MODULE DemoServer -----------------------------
(***************************************************************************)
(* The HTTP server of the demo application (cmd/demo-app/server.go): its   *)
(* Start and Shutdown, the goroutine that serves, and the handlers, one    *)
(* per request in flight.  net/http is external: its Serve and Shutdown    *)
(* are modelled from what the code relies on.  The names a handler         *)
(* resolves are those of the App's Runtime (AppRuntime); DemoApp composes  *)
(* the steps of the two.                                                   *)
(*                                                                         *)
(* A run or a stream is what AgentRun and WorkflowRun model; here it is    *)
(* the time a handler spends in it, with the outcomes a handler tells      *)
(* apart.                                                                  *)
(***************************************************************************)
EXTENDS AppRuntime

CONSTANTS
  Requests,       \* the requests clients may send, once each
  Unknown         \* a name nothing is registered under

ASSUME UnknownAssumption == Unknown \in Nat \ (Names \cup {NoName})

VARIABLES
  startAt,        \* where Start is: listen, fields, spawn or done
  fields,         \* are s.runtime, s.server and s.listener set?
  listener,       \* the TCP listener: none, open or closed
  serve,          \* the goroutine of Serve: none, spawned, serving or ended
  inShutdown,     \* has http.Server.Shutdown been called?
  draining,       \* the goroutines waiting inside http.Server.Shutdown
  req             \* each request: where it is, what it asks, its answer

startVars  == <<startAt, fields>>
serverVars == <<startVars, listener, serve, inShutdown, draining, req>>

Routes == [kind : {"probe", "agents", "workflows"}, name : {NoName}]
          \cup [kind : {"run", "stream"}, name : Agents \cup {Unknown}]
          \cup [kind : {"flow"}, name : Flows \cup {Unknown}]

NoRoute == [kind |-> "none", name |-> NoName]

\* The status codes that the handlers tell apart, and the panic of a handler
\* that uses a Runtime it does not have.
Answers == {"none", "200", "400", "404", "422", "500", "503", "504", "panic"}

ServerTypeOK ==
  /\ startAt \in {"listen", "fields", "spawn", "done"}
  /\ fields \in BOOLEAN
  /\ listener \in {"none", "open", "closed"}
  /\ serve \in {"none", "spawned", "serving", "ended"}
  /\ inShutdown \in BOOLEAN
  /\ draining \in SUBSET Callers
  /\ req \in [Requests ->
               [at : {"idle", "resolve", "decode", "run", "stream", "close", "done"},
                route : Routes \cup {NoRoute},
                answer : Answers]]

ServerInit ==
  /\ startAt = "listen"
  /\ fields = FALSE
  /\ listener = "none"
  /\ serve = "none"
  /\ inShutdown = FALSE
  /\ draining = {}
  /\ req = [r \in Requests |-> [at |-> "idle", route |-> NoRoute, answer |-> "none"]]

-----------------------------------------------------------------------------
(* Start: listen, publish the fields under s.mu, serve in a goroutine. *)

Listen ==
  /\ startAt = "listen"
  /\ startAt' = "fields"
  /\ listener' = "open"
  /\ UNCHANGED <<fields, serve, inShutdown, draining, req>>

ListenFails ==
  /\ startAt = "listen"
  /\ startAt' = "done"
  /\ UNCHANGED <<fields, listener, serve, inShutdown, draining, req>>

\* Mutant: s.server is left out of the fields that Start sets.
ForgetFields == UNCHANGED fields
SetFields    == fields' = TRUE

PublishFields ==
  /\ startAt = "fields"
  /\ startAt' = "spawn"
  /\ SetFields
  /\ UNCHANGED <<listener, serve, inShutdown, draining, req>>

Spawn ==
  /\ startAt = "spawn"
  /\ startAt' = "done"
  /\ serve' = "spawned"
  /\ UNCHANGED <<fields, listener, inShutdown, draining, req>>

\* Serve tracks the listener unless the server is shut down already, and then
\* it closes it (external).
Serve ==
  /\ serve = "spawned"
  /\ IF inShutdown THEN serve' = "ended" /\ listener' = "closed"
                   ELSE serve' = "serving" /\ UNCHANGED listener
  /\ UNCHANGED <<startVars, inShutdown, draining, req>>

ServeEnds ==
  /\ serve = "serving" /\ inShutdown
  /\ serve' = "ended"
  /\ UNCHANGED <<startVars, listener, inShutdown, draining, req>>

-----------------------------------------------------------------------------
(* Shutdown, called by goroutine p. *)

InFlight == {r \in Requests : req[r].at \notin {"idle", "done"}}

\* Without s.server there is nothing to shut down.  http.Server.Shutdown closes
\* the listeners Serve has tracked, and then waits for the connections to become
\* idle (external).
ShutdownEnter(p) ==
  /\ p \notin draining
  /\ draining' = draining \cup {p}
  /\ inShutdown' = (inShutdown \/ fields)
  /\ listener' = IF fields /\ serve = "serving" THEN "closed" ELSE listener
  /\ UNCHANGED <<startVars, serve, req>>

\* It returns nil when none is left, and an error when ctx ends first.
ShutdownLeave(p, error) ==
  /\ p \in draining
  /\ error \/ InFlight = {} \/ ~inShutdown
  /\ draining' = draining \ {p}
  /\ UNCHANGED <<startVars, listener, serve, inShutdown, req>>

-----------------------------------------------------------------------------
(* The handlers. *)

Move(r, from, to) ==
  /\ req[r].at = from
  /\ req' = [req EXCEPT ![r].at = to]
  /\ UNCHANGED <<startVars, listener, serve, inShutdown, draining>>

\* writeJSON, or a handler that panics: the handler returns.  What the request
\* asked for is forgotten.
Reply(r, from, answer) ==
  /\ req[r].at = from
  /\ req' = [req EXCEPT ![r] = [at |-> "done", route |-> NoRoute, answer |-> answer]]
  /\ UNCHANGED <<startVars, listener, serve, inShutdown, draining>>

\* A connection is accepted, read and routed to its handler (external).
Accept(r) ==
  /\ serve = "serving" /\ ~inShutdown
  /\ req[r].at = "idle"
  /\ \E route \in Routes : req' = [req EXCEPT ![r].at = "resolve", ![r].route = route]
  /\ UNCHANGED <<startVars, listener, serve, inShutdown, draining>>

Health(seen) == seen # "stopped"
Ready(seen)  == seen = "running"

\* handleHealth and handleReady; a server without a Runtime takes the App for
\* stopped.
Probe(r) ==
  /\ req[r].route.kind = "probe"
  /\ LET seen == IF fields THEN state ELSE "stopped" IN
     \E well \in {Health(seen), Ready(seen)} :
       Reply(r, "resolve", IF well THEN "200" ELSE "503")

\* handleAgents and handleWorkflows.
ListNames(r) ==
  /\ req[r].route.kind \in {"agents", "workflows"}
  /\ Reply(r, "resolve", IF fields THEN "200" ELSE "panic")

\* resolveAgent, or ResolveWorkflow.
Resolve(r) ==
  /\ req[r].route.kind \in {"run", "stream", "flow"}
  /\ IF fields /\ Resolves(req[r].route.name)
     THEN Move(r, "resolve", "decode")
     ELSE Reply(r, "resolve", IF fields THEN "404" ELSE "panic")

\* decodeRunRequest and decodeWorkflowRunRequest.
Decode(r) ==
  \/ Reply(r, "decode", "400")
  \/ Move(r, "decode", "run")

\* writeAgentError; a workflow's error is always an internal one.
ErrorAnswers(kind) == IF kind = "flow" THEN {"500"} ELSE {"400", "422", "500", "504"}

\* agent.Run or workflow.Run returns.
RunReturns(r) ==
  /\ req[r].route.kind \in {"run", "flow"}
  /\ \E answer \in {"200"} \cup ErrorAnswers(req[r].route.kind) : Reply(r, "run", answer)

\* The status of the response is written, and the handler goes on.
Write(r, from, to, status) ==
  /\ req[r].at = from
  /\ req' = [req EXCEPT ![r].at = to, ![r].answer = status]
  /\ UNCHANGED <<startVars, listener, serve, inShutdown, draining>>

\* agent.Stream returns a stream: its events follow, or none when the response
\* writer is no http.Flusher.  (Those of net/http are; see README.md.)
Open(r) ==
  /\ req[r].route.kind = "stream"
  /\ Write(r, "run", "stream", "200")

NoFlusher(r) ==
  /\ req[r].route.kind = "stream"
  /\ Write(r, "run", "close", "500")

\* ... or an error.
OpenFails(r) ==
  /\ req[r].route.kind = "stream"
  /\ \E answer \in ErrorAnswers("stream") : Reply(r, "run", answer)

\* The loop over Recv ends: EOF, an error that becomes an event, or a client
\* that is gone.  The events in between change nothing here.
StreamEnds(r) == Move(r, "stream", "close")

\* The deferred stream.Close.
StreamClosed(r) == Reply(r, "close", req[r].answer)

Handle(r) ==
  \/ Accept(r) \/ Probe(r) \/ ListNames(r) \/ Resolve(r) \/ Decode(r) \/ RunReturns(r)
  \/ Open(r) \/ NoFlusher(r) \/ OpenFails(r) \/ StreamEnds(r) \/ StreamClosed(r)
=============================================================================
