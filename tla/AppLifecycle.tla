---------------------------- MODULE AppLifecycle ----------------------------
(***************************************************************************)
(* The lifecycle of an App (pkg/app/app.go): concurrent callers of Start,  *)
(* EnsureStarted, Run and Shutdown share one App protected by a.mu.        *)
(*                                                                         *)
(* Every critical section of a.mu is one action, and so is every call out  *)
(* of the App (a factory, a Server, a cold-start hook): the lock is not    *)
(* held across those calls, which is where callers interleave.             *)
(*                                                                         *)
(* A server is named by its position in a.servers.  The slices of started  *)
(* servers (the field and the locals) always are a prefix of a.servers,    *)
(* built by appending in that order, so they are modelled by their length. *)
(***************************************************************************)
EXTENDS Naturals, FiniteSets

CONSTANTS
  Procs,          \* goroutines, each of which makes at most one call
  N,              \* number of registered servers, len(a.servers)
  Components      \* agents, workflows and factories that may be registered

ASSUME ProcsAssumption == Procs # {}
ASSUME NAssumption == N \in Nat

VARIABLES
  state,          \* a.state
  startCh,        \* a.startCh: "nil" or "chan" (only one is ever made)
  closed,         \* has that channel been closed?
  startErr,       \* a.startErr
  registered,     \* ready and factory maps, frozen when a.state leaves created
  started,        \* a.startedAgents and a.startedWorkflows ({} is nil)
  startedServers, \* len(a.startedServers)
  coldStarted,    \* a.coldStarted
  built,          \* what materializeAgents/materializeWorkflows returned
  server,         \* what each Server is doing (the Servers are external)
  starts,         \* how often Start was called on each Server
  raced,          \* has a Shutdown caught the App starting?
  pc,             \* where each goroutine is
  op,             \* the method it called
  waitCh,         \* the local waitCh of EnsureStarted
  local,          \* the local startedServers of start and of Shutdown
  idx,            \* index+1 of the reverse loop over that local
  err,            \* the local err of start, firstErr of Shutdown
  result,         \* what the call returned
  canceled        \* goroutines whose ctx is done

chVars    == <<startCh, closed, startErr>>
regVars   == <<registered, started, built>>
appVars   == <<state, chVars, regVars, startedServers, coldStarted>>
srvVars   == <<server, starts, raced>>
loopVars  == <<local, idx, err>>
entryVars == <<op, waitCh, canceled>>
vars      == <<appVars, srvVars, loopVars, entryVars, pc, result>>

Servers == 1..N
States  == {"created", "starting", "running", "stopping", "stopped"}
Ops     == {"Start", "Run", "Shutdown"}

\* The errors told apart: a startup step failed, ErrAppStopped, a Server's
\* Shutdown failed, the caller's or the shutdown context ended.
Errors  == {"nil", "startErr", "stoppedErr", "serverErr", "ctxErr"}

\* A goroutine is inside start, or between its last step and close(waitCh).
BootPCs == {"materialize", "publish", "loop", "startServer", "publishServer",
            "rollback", "failStart", "setRunning", "finish"}
CallPCs == {"ensure", "wait", "awaitCtx", "shutdown", "drain"}
PCs     == {"idle", "done"} \cup BootPCs \cup CallPCs

Booting(p) == pc[p] \in BootPCs

AppTypeOK ==
  /\ state \in States
  /\ startCh \in {"nil", "chan"}
  /\ closed \in BOOLEAN
  /\ startErr \in Errors
  /\ registered \in SUBSET Components
  /\ started \in SUBSET Components
  /\ coldStarted \in BOOLEAN
  /\ built \in SUBSET Components
  /\ raced \in BOOLEAN

ServerTypeOK ==
  /\ server \in [Servers -> {"idle", "up", "failed", "down", "stuck"}]
  /\ starts \in [Servers -> Nat]

LoopTypeOK ==
  /\ startedServers \in 0..N
  /\ local \in [Procs -> 0..N]
  /\ idx \in [Procs -> 0..N]
  /\ err \in [Procs -> Errors]

CallTypeOK ==
  /\ pc \in [Procs -> PCs]
  /\ op \in [Procs -> Ops \cup {"none"}]
  /\ waitCh \in [Procs -> {"nil", "chan"}]
  /\ result \in [Procs -> Errors \cup {"none"}]
  /\ canceled \in SUBSET Procs

TypeOK == AppTypeOK /\ ServerTypeOK /\ LoopTypeOK /\ CallTypeOK

Init ==
  /\ state = "created"
  /\ startCh = "nil"
  /\ closed = FALSE
  /\ startErr = "nil"
  /\ registered = {}
  /\ started = {}
  /\ startedServers = 0
  /\ coldStarted = FALSE
  /\ built = {}
  /\ server = [s \in Servers |-> "idle"]
  /\ starts = [s \in Servers |-> 0]
  /\ raced = FALSE
  /\ pc = [p \in Procs |-> "idle"]
  /\ op = [p \in Procs |-> "none"]
  /\ waitCh = [p \in Procs |-> "nil"]
  /\ local = [p \in Procs |-> 0]
  /\ idx = [p \in Procs |-> 0]
  /\ err = [p \in Procs |-> "nil"]
  /\ result = [p \in Procs |-> "none"]
  /\ canceled = {}

-----------------------------------------------------------------------------
Goto(p, from, to) ==
  /\ pc[p] = from
  /\ pc' = [pc EXCEPT ![p] = to]

Step(p, from, to) == Goto(p, from, to) /\ UNCHANGED result

Return(p, from, e) ==
  /\ Goto(p, from, "done")
  /\ result' = [result EXCEPT ![p] = e]

\* EnsureStarted returned e: Start returns it, and Run goes on only if e is nil.
EnsureReturns(p, from, e) ==
  IF e = "nil" /\ op[p] = "Run"
  THEN Step(p, from, "awaitCtx")
  ELSE Return(p, from, e)

\* The environment: a goroutine calls a method, a context ends.
Call(p) ==
  /\ \E o \in Ops :
       /\ Step(p, "idle", IF o = "Shutdown" THEN "shutdown" ELSE "ensure")
       /\ op' = [op EXCEPT ![p] = o]
  /\ UNCHANGED <<appVars, srvVars, loopVars, waitCh, canceled>>

Cancel(p) ==
  /\ p \notin canceled
  /\ canceled' = canceled \cup {p}
  /\ UNCHANGED <<appVars, srvVars, loopVars, op, waitCh, pc, result>>

\* registerReadyAgent, registerAgentFactory and their workflow twins: anything
\* but a new name while the App is created is refused without effect.
NeverSealed == FALSE    \* mutant: the registry is not sealed
Sealed == state # "created"

Register(c) ==
  /\ ~Sealed
  /\ c \notin registered
  /\ registered' = registered \cup {c}
  /\ UNCHANGED <<state, chVars, started, built, startedServers, coldStarted,
                 srvVars, loopVars, entryVars, pc, result>>

-----------------------------------------------------------------------------
(* EnsureStarted: one action per case of the switch on a.state. *)

EnsureRunning(p) ==
  /\ state = "running"
  /\ EnsureReturns(p, "ensure", "nil")
  /\ UNCHANGED <<appVars, srvVars, loopVars, entryVars>>

EnsureStarting(p) ==
  /\ state = "starting"
  /\ Step(p, "ensure", "wait")
  /\ waitCh' = [waitCh EXCEPT ![p] = startCh]
  /\ UNCHANGED <<appVars, srvVars, loopVars, op, canceled>>

\* Mutant: the woken waiter does not look at the state again.
WaitClosedReturns(p) ==
  /\ waitCh[p] = "chan" /\ closed
  /\ EnsureReturns(p, "wait", "nil")
  /\ UNCHANGED <<appVars, srvVars, loopVars, entryVars>>

\* The select: a receive from a nil channel never proceeds.
WaitClosed(p) ==
  /\ waitCh[p] = "chan" /\ closed
  /\ Step(p, "wait", "ensure")
  /\ UNCHANGED <<appVars, srvVars, loopVars, entryVars>>

WaitCanceled(p) ==
  /\ p \in canceled
  /\ Return(p, "wait", "ctxErr")
  /\ UNCHANGED <<appVars, srvVars, loopVars, entryVars>>

\* Mutants: the state, or the channel, is not set under the lock.
ClaimLate == UNCHANGED state /\ startCh' = "chan"
ClaimNoChannel == state' = "starting" /\ UNCHANGED startCh

Claim == state' = "starting" /\ startCh' = "chan"

EnsureCreated(p) ==
  /\ state = "created"
  /\ Step(p, "ensure", "materialize")
  /\ Claim
  /\ UNCHANGED <<closed, startErr, regVars, startedServers, coldStarted, srvVars,
                 loopVars, entryVars>>

EnsureStopped(p) ==
  /\ \/ /\ state = "stopping"
        /\ Return(p, "ensure", "stoppedErr")
     \/ /\ state = "stopped"
        /\ Return(p, "ensure", IF startErr # "nil" THEN startErr ELSE "stoppedErr")
  /\ UNCHANGED <<appVars, srvVars, loopVars, entryVars>>

-----------------------------------------------------------------------------
(* start: the one goroutine that found the App created. *)

\* start leaves its straight path with an error.
Fail(p, from, to, e) ==
  /\ Step(p, from, to)
  /\ err' = [err EXCEPT ![p] = e]

\* Factories are run on a snapshot of the registries; any of them may fail.
Materialize(p) ==
  /\ \/ /\ Step(p, "materialize", "publish")
        /\ built' = registered
        /\ UNCHANGED err
     \/ /\ Fail(p, "materialize", "failStart", "startErr")
        /\ UNCHANGED built
  /\ UNCHANGED <<state, chVars, registered, started, startedServers, coldStarted,
                 srvVars, local, idx, entryVars>>

Publish(p) ==
  /\ Step(p, "publish", "loop")
  /\ started' = built
  /\ UNCHANGED <<state, chVars, registered, built, startedServers, coldStarted,
                 srvVars, loopVars, entryVars>>

\* The head of the loop over a.servers looks for a concurrent Shutdown, but
\* only for one that has not finished: it compares with stopping alone.
CheckStopping(p) ==
  /\ local[p] < N
  /\ IF state = "stopping"
     THEN Fail(p, "loop", "failStart", "stoppedErr")
     ELSE Step(p, "loop", "startServer") /\ UNCHANGED err
  /\ UNCHANGED <<appVars, srvVars, local, idx, entryVars>>

\* Where the reverse loop of rollbackStartedServers begins.
RollbackNothing(p)    == 0             \* mutant: started servers are left up
RollbackOneTooMany(p) == local[p] + 1  \* mutant: so is the one that failed
RollbackFrom(p)       == local[p]

\* server.Start succeeds, and the Server is appended to the local slice.
StartServer(p) ==
  LET s == local[p] + 1 IN
  /\ Step(p, "startServer", "publishServer")
  /\ starts' = [starts EXCEPT ![s] = @ + 1]
  /\ server' = [server EXCEPT ![s] = "up"]
  /\ local' = [local EXCEPT ![p] = s]
  /\ UNCHANGED <<appVars, raced, idx, err, entryVars>>

\* server.Start fails: the ones before it are rolled back.
StartServerFails(p) ==
  LET s == local[p] + 1 IN
  /\ Fail(p, "startServer", "rollback", "startErr")
  /\ starts' = [starts EXCEPT ![s] = @ + 1]
  /\ server' = [server EXCEPT ![s] = "failed"]
  /\ idx' = [idx EXCEPT ![p] = RollbackFrom(p)]
  /\ UNCHANGED <<appVars, raced, local, entryVars>>

PublishServer(p) ==
  /\ Step(p, "publishServer", "loop")
  /\ startedServers' = local[p]
  /\ UNCHANGED <<state, chVars, regVars, coldStarted, srvVars, loopVars, entryVars>>

\* runColdStartHooks: the flag is put back when a hook fails.
ColdStart(p) ==
  /\ local[p] = N
  /\ \/ /\ Step(p, "loop", "setRunning")
        /\ coldStarted' = TRUE
        /\ UNCHANGED <<idx, err>>
     \/ /\ ~coldStarted
        /\ Fail(p, "loop", "rollback", "startErr")
        /\ idx' = [idx EXCEPT ![p] = RollbackFrom(p)]
        /\ UNCHANGED coldStarted
  /\ UNCHANGED <<state, chVars, regVars, startedServers, srvVars, local, entryVars>>

\* Mutant: the reverse loop ends at the first Server that fails.
StopServerOrQuit(p, from) ==
  /\ pc[p] = from
  /\ idx[p] > 0
  /\ \E outcome \in {"down", "stuck"} :
       /\ server' = [server EXCEPT ![idx[p]] = outcome]
       /\ idx' = [idx EXCEPT ![p] = IF outcome = "stuck" THEN 0 ELSE @ - 1]
  /\ UNCHANGED <<appVars, starts, raced, local, entryVars, pc, result>>

\* One Server.Shutdown of a reverse loop; a failure does not end the loop.
StopServer(p, from) ==
  /\ pc[p] = from
  /\ idx[p] > 0
  /\ \E outcome \in {"down", "stuck"} :
       server' = [server EXCEPT ![idx[p]] = outcome]
  /\ idx' = [idx EXCEPT ![p] = @ - 1]
  /\ UNCHANGED <<appVars, starts, raced, local, entryVars, pc, result>>

RollbackServer(p) == StopServer(p, "rollback") /\ UNCHANGED err

RollbackDone(p) ==
  /\ idx[p] = 0
  /\ Step(p, "rollback", "failStart")
  /\ started' = {}
  /\ state' = "stopped"
  /\ UNCHANGED <<chVars, registered, built, startedServers, coldStarted, srvVars,
                 loopVars, entryVars>>

FailStart(p) ==
  /\ Step(p, "failStart", "finish")
  /\ state' = "stopped"
  /\ UNCHANGED <<chVars, regVars, startedServers, coldStarted, srvVars, loopVars,
                 entryVars>>

\* The last critical section of start does not look at a.state.
SetRunning(p) ==
  /\ Step(p, "setRunning", "finish")
  /\ startedServers' = local[p]
  /\ state' = "running"
  /\ UNCHANGED <<chVars, regVars, coldStarted, srvVars, loopVars, entryVars>>

\* Back in EnsureStarted: remember the error and wake the waiters.
ForgetWaiters == startCh' = "nil" /\ UNCHANGED closed   \* mutant
WakeWaiters   == startCh' = "nil" /\ closed' = TRUE

Finish(p) ==
  /\ startErr' = err[p]
  /\ WakeWaiters
  /\ EnsureReturns(p, "finish", err[p])
  /\ UNCHANGED <<state, regVars, startedServers, coldStarted, srvVars, loopVars,
                 entryVars>>

-----------------------------------------------------------------------------
(* Run, after EnsureStarted, and Shutdown. *)

AwaitCtx(p) ==
  /\ p \in canceled
  /\ Step(p, "awaitCtx", "shutdown")
  /\ UNCHANGED <<appVars, srvVars, loopVars, entryVars>>

\* What Run returns after its Shutdown returned e.
ShutdownResult(p, e) == IF op[p] = "Run" /\ e = "nil" THEN "ctxErr" ELSE e

ShutdownNoop(p) ==
  /\ \/ state \in {"stopped", "stopping"} /\ UNCHANGED state
     \/ state = "created" /\ state' = "stopped"
  /\ Return(p, "shutdown", ShutdownResult(p, "nil"))
  /\ UNCHANGED <<chVars, regVars, startedServers, coldStarted, srvVars, loopVars,
                 entryVars>>

ShutdownBegin(p) ==
  /\ state \in {"starting", "running"}
  /\ Step(p, "shutdown", "drain")
  /\ state' = "stopping"
  /\ raced' = (raced \/ state = "starting")
  /\ local' = [local EXCEPT ![p] = startedServers]
  /\ idx' = [idx EXCEPT ![p] = startedServers]
  /\ err' = [err EXCEPT ![p] = "nil"]
  /\ UNCHANGED <<chVars, regVars, startedServers, coldStarted, server, starts, entryVars>>

DrainServer(p) ==
  /\ StopServer(p, "drain")
  /\ err' = [err EXCEPT ![p] = IF server'[idx[p]] = "stuck" /\ @ = "nil"
                               THEN "serverErr" ELSE @]

\* The shutdown context may have ended by now, and then its error wins.
DrainDone(p) ==
  /\ idx[p] = 0
  /\ \E e \in {err[p], "ctxErr"} :
       Return(p, "drain", ShutdownResult(p, e))
  /\ state' = "stopped"
  /\ startedServers' = 0
  /\ UNCHANGED <<chVars, regVars, coldStarted, srvVars, loopVars, entryVars>>

-----------------------------------------------------------------------------
Boot(p) ==
  \/ Materialize(p) \/ Publish(p) \/ CheckStopping(p) \/ StartServer(p)
  \/ StartServerFails(p) \/ PublishServer(p) \/ ColdStart(p)
  \/ RollbackServer(p) \/ RollbackDone(p) \/ FailStart(p) \/ SetRunning(p) \/ Finish(p)

Ensure(p) ==
  \/ EnsureRunning(p) \/ EnsureStarting(p) \/ EnsureCreated(p)
  \/ EnsureStopped(p) \/ WaitClosed(p) \/ WaitCanceled(p)

Stop(p) ==
  \/ AwaitCtx(p) \/ ShutdownNoop(p) \/ ShutdownBegin(p) \/ DrainServer(p)
  \/ DrainDone(p)

\* Every call has returned: the goroutines have nothing left to do.
Terminated ==
  /\ \A p \in Procs : pc[p] = "done"
  /\ UNCHANGED vars

Next ==
  \/ \E p \in Procs : Call(p) \/ Cancel(p) \/ Ensure(p) \/ Boot(p) \/ Stop(p)
  \/ \E c \in Components : Register(c)
  \/ Terminated

\* A goroutine that can run eventually does, and the calls out of the App
\* return.  Nobody has to make a call, and no context has to end.
Fairness ==
  \A p \in Procs : WF_vars(Ensure(p)) /\ WF_vars(Boot(p)) /\ WF_vars(Stop(p))

Spec == Init /\ [][Next]_vars

FairSpec == Spec /\ Fairness
-----------------------------------------------------------------------------
(* What holds however the calls interleave. *)

Gone(s) == server[s] \in {"down", "stuck"}

Starter(p) == op[p] \in {"Start", "Run"}

\* p's EnsureStarted returned nil.
Succeeded(p) == Starter(p) /\ (result[p] = "nil" \/ pc[p] \in {"awaitCtx", "shutdown", "drain"})

\* Concurrent EnsureStarted calls boot the App once (app_test.go runs two of
\* them): one goroutine at most is inside start, and no Server is started twice.
SingleStartup ==
  /\ \A p, q \in Procs : Booting(p) /\ Booting(q) => p = q
  /\ \A s \in Servers : starts[s] <= 1

\* A goroutine that waits for somebody else's startup holds the channel that
\* startup closes: it never blocks on a nil or abandoned channel.
NoLostWaiter ==
  \A p \in Procs :
    pc[p] = "wait" => waitCh[p] = "chan" /\ (closed \/ \E q \in Procs : Booting(q))

\* EnsureStarted returns nil only after the whole startup: every Server was
\* started, the cold-start hooks ran, and every registration that was accepted
\* is published, one that raced with the startup included.  No other caller is
\* told that the startup failed.
SuccessMeansStarted ==
  (\E p \in Procs : Succeeded(p)) =>
     /\ \A s \in Servers : starts[s] = 1
     /\ coldStarted
     /\ started = registered
     /\ \A q \in Procs : Starter(q) => result[q] # "startErr"

\* A Server is stopped only after it has come up, and never comes up twice:
\* neither the rollback of a failed startup nor a concurrent Shutdown touches
\* a Server whose Start was not called or failed.
ServerProtocol ==
  [][\A s \in Servers :
       server'[s] # server[s] =>
         \/ server[s] = "idle" /\ server'[s] \in {"up", "failed"}
         \/ server[s] \in {"up", "down", "stuck"} /\ Gone(s)']_server

\* A Shutdown that returns has tried every Server it found started, even when
\* one of them failed, and returns nil only if none of them failed.
ShutdownDrains ==
  \A p \in Procs :
    pc[p] = "done" /\ op[p] = "Shutdown" =>
      /\ \A s \in 1..local[p] : Gone(s)
      /\ result[p] = "nil" => err[p] = "nil"

-----------------------------------------------------------------------------
(* What holds until a Shutdown catches the App starting. *)

Leaving == \E p \in Procs : pc[p] \in {"rollback", "failStart"}

\* The phase of AppContract: a startup that rolls back is already leaving.
Phase == IF state = "starting" /\ Leaving THEN "stopping" ELSE state

Up == {s \in Servers : server[s] = "up"}

Contract == INSTANCE AppContract WITH phase <- Phase, up <- Up, void <- raced

\* The lifecycle callers rely on: see AppContract.  Shutdown does not wait for a
\* startup in progress, so the contract is void from the step where one meets it.
ImplementsContract == Contract!Spec

-----------------------------------------------------------------------------
(* What the documentation states and a Shutdown during startup breaks. *)

\* app.go: "StateStopped means the app has been shut down or startup failed",
\* and ErrAppStopped "is returned when a stopped app cannot be started again".
StoppedIsFinal == [][state = "stopped" => state' = "stopped"]_state

-----------------------------------------------------------------------------
(* Liveness. *)

\* Every call returns, Run once its context has ended: no EnsureStarted waits
\* forever for a startup that ended, and no Shutdown hangs in its drain.
EveryCallReturns ==
  \A p \in Procs :
    (pc[p] # "idle" /\ (op[p] = "Run" => p \in canceled)) ~> pc[p] = "done"
=============================================================================
