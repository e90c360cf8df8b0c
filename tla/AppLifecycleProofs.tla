------------------------- MODULE AppLifecycleProofs -------------------------
(***************************************************************************)
(* Proofs about AppLifecycle, for any number of goroutines, servers and    *)
(* components, with or without a Shutdown during the startup: types, the   *)
(* startup protocol, and on top of these what becomes of the servers, what *)
(* a Shutdown that returned has done, what a startup that succeeded has,   *)
(* and the refinement of AppContract.                                      *)
(***************************************************************************)
EXTENDS AppLifecycle, TLAPS

(***************************************************************************)
(* Type correctness: each of the actions keeps every variable in its set.  *)
(***************************************************************************)
LEMMA TypeInit == Init => TypeOK
  <1> USE NAssumption DEF Init
  <1>1. Init => AppTypeOK    BY DEF AppTypeOK, States, Errors
  <1>2. Init => ServerTypeOK BY DEF ServerTypeOK
  <1>3. Init => LoopTypeOK   BY DEF LoopTypeOK, Errors
  <1>4. Init => CallTypeOK   BY DEF CallTypeOK, PCs
  <1>5. QED BY <1>1, <1>2, <1>3, <1>4 DEF TypeOK

LEMMA TypeEnsure == ASSUME TypeOK, NEW p \in Procs, Ensure(p) PROVE TypeOK'
  <1> USE DEF TypeOK, AppTypeOK, ServerTypeOK, LoopTypeOK, CallTypeOK,
          States, Errors, PCs, BootPCs, CallPCs, Goto, Step, Return,
              EnsureReturns, appVars, chVars, regVars, srvVars, loopVars, entryVars
  <1>1. CASE EnsureRunning(p)  BY <1>1 DEF EnsureRunning
  <1>2. CASE EnsureStarting(p) BY <1>2 DEF EnsureStarting
  <1>3. CASE EnsureCreated(p)  BY <1>3 DEF EnsureCreated, Claim
  <1>4. CASE EnsureStopped(p)  BY <1>4 DEF EnsureStopped
  <1>5. CASE WaitClosed(p)     BY <1>5 DEF WaitClosed
  <1>6. CASE WaitCanceled(p)   BY <1>6 DEF WaitCanceled
  <1>7. QED BY <1>1, <1>2, <1>3, <1>4, <1>5, <1>6 DEF Ensure

\* The loop of start calls Server.Start only while there is a server left.
LoopInv == \A p \in Procs : pc[p] = "startServer" => local[p] < N

LEMMA TypeBoot == ASSUME TypeOK, LoopInv, NEW p \in Procs, Boot(p) PROVE TypeOK'
  <1> USE NAssumption
      DEF TypeOK, AppTypeOK, ServerTypeOK, LoopTypeOK, CallTypeOK,
          States, Errors, PCs, BootPCs, CallPCs, Goto, Step, Return, Fail,
          EnsureReturns, appVars, chVars, regVars, srvVars, loopVars, entryVars
  <1>1. CASE Materialize(p)    BY <1>1 DEF Materialize
  <1>2. CASE Publish(p)        BY <1>2 DEF Publish
  <1>3. CASE CheckStopping(p)
    <2>1. AppTypeOK'    BY <1>3 DEF CheckStopping
    <2>2. ServerTypeOK' BY <1>3 DEF CheckStopping
    <2>3. LoopTypeOK'   BY <1>3 DEF CheckStopping
    <2>4. CallTypeOK'   BY <1>3 DEF CheckStopping
    <2>5. QED BY <2>1, <2>2, <2>3, <2>4 DEF TypeOK
  <1>4. CASE StartServer(p) \/ StartServerFails(p)
    <2>1. local[p] + 1 \in 1..N
      BY <1>4 DEF StartServer, StartServerFails, LoopInv
    <2>2. CASE StartServer(p)
      <3>1. ServerTypeOK' BY <2>1, <2>2 DEF StartServer, Servers
      <3>2. LoopTypeOK'   BY <2>1, <2>2 DEF StartServer
      <3>3. AppTypeOK' /\ CallTypeOK' BY <2>2 DEF StartServer
      <3>4. QED BY <3>1, <3>2, <3>3
    <2>3. CASE StartServerFails(p)
      <3>1. ServerTypeOK' BY <2>1, <2>3 DEF StartServerFails, Servers
      <3>2. LoopTypeOK'   BY <2>3 DEF StartServerFails, RollbackFrom
      <3>3. AppTypeOK' /\ CallTypeOK' BY <2>3 DEF StartServerFails
      <3>4. QED BY <3>1, <3>2, <3>3
    <2>4. QED BY <1>4, <2>2, <2>3
  <1>5. CASE PublishServer(p)  BY <1>5 DEF PublishServer
  <1>6. CASE ColdStart(p)
    <2>1. AppTypeOK'    BY <1>6 DEF ColdStart, RollbackFrom
    <2>2. ServerTypeOK' BY <1>6 DEF ColdStart, RollbackFrom
    <2>3. LoopTypeOK'   BY <1>6 DEF ColdStart, RollbackFrom
    <2>4. CallTypeOK'   BY <1>6 DEF ColdStart, RollbackFrom
    <2>5. QED BY <2>1, <2>2, <2>3, <2>4 DEF TypeOK
  <1>7. CASE RollbackServer(p) BY <1>7 DEF RollbackServer, StopServer, Servers
  <1>8. CASE RollbackDone(p)   BY <1>8 DEF RollbackDone
  <1>9. CASE FailStart(p)      BY <1>9 DEF FailStart
  <1>10. CASE SetRunning(p)    BY <1>10 DEF SetRunning
  <1>11. CASE Finish(p)        BY <1>11 DEF Finish, WakeWaiters
  <1>12. QED
    BY <1>1, <1>2, <1>3, <1>4, <1>5, <1>6, <1>7, <1>8, <1>9, <1>10, <1>11 DEF Boot

LEMMA TypeStop == ASSUME TypeOK, NEW p \in Procs, Stop(p) PROVE TypeOK'
  <1> USE NAssumption
      DEF TypeOK, AppTypeOK, ServerTypeOK, LoopTypeOK, CallTypeOK,
          States, Errors, PCs, BootPCs, CallPCs, Goto, Step, Return,
          ShutdownResult, appVars, chVars, regVars, srvVars, loopVars, entryVars
  <1>1. CASE AwaitCtx(p)      BY <1>1 DEF AwaitCtx
  <1>2. CASE ShutdownNoop(p)  BY <1>2 DEF ShutdownNoop
  <1>3. CASE ShutdownBegin(p) BY <1>3 DEF ShutdownBegin
  <1>4. CASE DrainServer(p)   BY <1>4 DEF DrainServer, StopServer, Servers
  <1>5. CASE DrainDone(p)     BY <1>5 DEF DrainDone
  <1>6. QED BY <1>1, <1>2, <1>3, <1>4, <1>5 DEF Stop

LEMMA TypeEnvironment ==
  ASSUME TypeOK,
         (\E p \in Procs : Call(p) \/ Cancel(p)) \/ (\E c \in Components : Register(c))
  PROVE  TypeOK'
  <1> USE DEF TypeOK, AppTypeOK, ServerTypeOK, LoopTypeOK, CallTypeOK,
          States, Errors, PCs, BootPCs, CallPCs, Ops, Goto, Step,
              appVars, chVars, regVars, srvVars, loopVars, entryVars
  <1>1. CASE \E p \in Procs : Call(p)
    <2>1. PICK p \in Procs, o \in Ops :
            /\ pc' = [pc EXCEPT ![p] = IF o = "Shutdown" THEN "shutdown" ELSE "ensure"]
            /\ op' = [op EXCEPT ![p] = o]
            /\ UNCHANGED <<appVars, srvVars, loopVars, waitCh, canceled, result>>
      BY <1>1 DEF Call
    <2>2. pc' \in [Procs -> PCs] BY <2>1
    <2>3. op' \in [Procs -> Ops \cup {"none"}] BY <2>1
    <2>4. QED BY <2>1, <2>2, <2>3
  <1>2. CASE \E p \in Procs : Cancel(p)        BY <1>2 DEF Cancel
  <1>3. CASE \E c \in Components : Register(c) BY <1>3 DEF Register
  <1>4. QED BY <1>1, <1>2, <1>3

LEMMA LoopNext == ASSUME TypeOK, LoopInv, [Next]_vars PROVE LoopInv'
  <1> USE NAssumption DEF LoopInv, TypeOK, LoopTypeOK, CallTypeOK, Goto, Step, Return,
                          Fail, EnsureReturns, loopVars, srvVars
  <1>1. CASE \E p \in Procs : Call(p)
    BY <1>1 DEF Call
  <1>2. CASE (\E p \in Procs : Cancel(p)) \/ (\E c \in Components : Register(c))
    BY <1>2 DEF Cancel, Register
  <1>3. ASSUME NEW p \in Procs, Ensure(p) PROVE LoopInv'
    BY <1>3 DEF Ensure, EnsureRunning, EnsureStarting, EnsureCreated, EnsureStopped,
                WaitClosed, WaitCanceled
  <1>4. ASSUME NEW p \in Procs, Boot(p) PROVE LoopInv'
    <2>1. CASE CheckStopping(p) BY <2>1 DEF CheckStopping
    <2>2. CASE StartServer(p) \/ StartServerFails(p)
      BY <2>2 DEF StartServer, StartServerFails
    <2>3. CASE RollbackServer(p) BY <2>3 DEF RollbackServer, StopServer
    <2>4. CASE Materialize(p) \/ Publish(p) \/ PublishServer(p) \/ ColdStart(p)
      BY <2>4 DEF Materialize, Publish, PublishServer, ColdStart
    <2>5. CASE RollbackDone(p) \/ FailStart(p) \/ SetRunning(p) \/ Finish(p)
      BY <2>5 DEF RollbackDone, FailStart, SetRunning, Finish
    <2>6. QED BY <1>4, <2>1, <2>2, <2>3, <2>4, <2>5 DEF Boot
  <1>5. ASSUME NEW p \in Procs, Stop(p) PROVE LoopInv'
    BY <1>5 DEF Stop, AwaitCtx, ShutdownNoop, ShutdownBegin, DrainServer, DrainDone,
                StopServer
  <1>6. CASE UNCHANGED vars BY <1>6 DEF vars
  <1>7. QED BY <1>1, <1>2, <1>3, <1>4, <1>5, <1>6 DEF Next, Terminated

\* Every variable of the App, of its servers and of its callers stays in the
\* set TypeOK gives it; in particular no loop over the servers leaves 0..N.
THEOREM TypeCorrect == Spec => [](TypeOK /\ LoopInv)
  <1>1. Init => LoopInv BY DEF Init, LoopInv
  <1>2. TypeOK /\ LoopInv /\ [Next]_vars => (TypeOK /\ LoopInv)'
    <2>1. ASSUME TypeOK, UNCHANGED vars PROVE TypeOK'
      BY <2>1 DEF vars, appVars, chVars, regVars, srvVars, loopVars, entryVars, TypeOK,
                  AppTypeOK, ServerTypeOK, LoopTypeOK, CallTypeOK
    <2>2. QED
      BY <2>1, LoopNext, TypeEnvironment, TypeEnsure, TypeBoot, TypeStop
         DEF Next, Terminated
  <1>3. QED BY TypeInit, <1>1, <1>2, PTL DEF Spec
-----------------------------------------------------------------------------
(***************************************************************************)
(* The startup protocol.  SingleStartup and NoLostWaiter are not           *)
(* inductive: that only one goroutine boots the App follows from the state *)
(* having left created for good, and that a waiter is never abandoned from *)
(* the field startCh being set exactly while a goroutine is booting.       *)
(***************************************************************************)
NotYetStarted(p) ==
  pc[p] \in {"materialize", "publish", "loop", "startServer", "publishServer"}

CreatedInv ==
  state = "created" =>
    /\ \A p \in Procs : ~Booting(p)
    /\ \A s \in Servers : starts[s] = 0

ChannelInv ==
  /\ startCh = "chan" <=> \E p \in Procs : Booting(p)
  /\ state = "starting" => startCh = "chan"

FreshInv ==
  \A p \in Procs : NotYetStarted(p) =>
    \A s \in Servers : s > local[p] => starts[s] = 0

\* When start returns, the App has left starting: nobody will wait any more.
FinishInv == \A p \in Procs : pc[p] = "finish" => state # "starting"

StartupInv ==
  SingleStartup /\ NoLostWaiter /\ CreatedInv /\ ChannelInv /\ FreshInv /\ FinishInv

LEMMA StartupInit == Init => StartupInv
  BY DEF Init, StartupInv, SingleStartup, NoLostWaiter, CreatedInv, ChannelInv,
         FreshInv, FinishInv, NotYetStarted, Booting, BootPCs, Servers

\* A step that lets no goroutine enter or leave start, starts no server and
\* leaves the channel alone keeps the invariant, unless it makes a new waiter.
LEMMA StartupFrame ==
  ASSUME TypeOK, StartupInv,
         UNCHANGED <<startCh, closed, starts>>,
         state' = state \/ state' \in {"stopping", "stopped"},
         \A p \in Procs : Booting(p)' <=> Booting(p),
         \A p \in Procs : NotYetStarted(p)' => NotYetStarted(p) /\ local'[p] = local[p],
         \A p \in Procs : pc'[p] = "wait" => pc[p] = "wait" /\ waitCh'[p] = waitCh[p],
         \A p \in Procs : pc'[p] = "finish" => pc[p] = "finish"
  PROVE  StartupInv'
  <1> USE DEF StartupInv
  <1>1. SingleStartup' BY DEF SingleStartup
  <1>2. NoLostWaiter'  BY DEF NoLostWaiter
  <1>3. CreatedInv'    BY DEF CreatedInv
  <1>4. ChannelInv'    BY DEF ChannelInv
  <1>5. FreshInv'      BY DEF FreshInv
  <1>6. FinishInv'     BY DEF FinishInv
  <1>7. QED BY <1>1, <1>2, <1>3, <1>4, <1>5, <1>6

LEMMA StartupEnsure ==
  ASSUME TypeOK, StartupInv, NEW p \in Procs, Ensure(p) PROVE StartupInv'
  <1> USE DEF Goto, Step, Return, EnsureReturns, appVars, chVars, regVars, srvVars,
              loopVars, entryVars, Booting, BootPCs, NotYetStarted, TypeOK, CallTypeOK
  <1>1. CASE EnsureRunning(p) \/ EnsureStopped(p) \/ WaitClosed(p) \/ WaitCanceled(p)
    BY <1>1, StartupFrame
       DEF EnsureRunning, EnsureStopped, WaitClosed, WaitCanceled
  <1>2. CASE EnsureStarting(p)
    BY <1>2 DEF EnsureStarting, StartupInv, SingleStartup, NoLostWaiter, CreatedInv,
                ChannelInv, FreshInv, FinishInv
  <1>3. CASE EnsureCreated(p)
    <2> USE <1>3 DEF EnsureCreated, Claim, StartupInv, CreatedInv
    <2>1. SingleStartup' BY DEF SingleStartup
    <2>2. NoLostWaiter'  BY DEF NoLostWaiter
    <2>3. CreatedInv'    OBVIOUS
    <2>4. ChannelInv'    BY DEF ChannelInv
    <2>5. FreshInv'      BY DEF FreshInv
    <2>6. FinishInv'     BY DEF FinishInv
    <2>7. QED BY <2>1, <2>2, <2>3, <2>4, <2>5, <2>6
  <1>4. QED BY <1>1, <1>2, <1>3 DEF Ensure

LEMMA StartupBoot ==
  ASSUME TypeOK, LoopInv, StartupInv, NEW p \in Procs, Boot(p) PROVE StartupInv'
  <1> USE DEF Goto, Step, Return, Fail, EnsureReturns, appVars, chVars, regVars,
              srvVars, loopVars, entryVars, Booting, BootPCs, NotYetStarted, TypeOK,
              CallTypeOK, LoopTypeOK, ServerTypeOK
  <1>1. CASE Materialize(p) \/ Publish(p) \/ CheckStopping(p) \/ PublishServer(p)
             \/ ColdStart(p)
    BY <1>1, StartupFrame DEF Materialize, Publish, CheckStopping, PublishServer, ColdStart
  <1>2. CASE RollbackServer(p) \/ RollbackDone(p)
    BY <1>2, StartupFrame DEF RollbackServer, StopServer, RollbackDone
  <1>3. CASE SetRunning(p) \/ FailStart(p)
    BY <1>3 DEF SetRunning, FailStart, StartupInv, SingleStartup, NoLostWaiter, CreatedInv,
                ChannelInv, FreshInv, FinishInv
  <1>4. CASE StartServer(p) \/ StartServerFails(p)
    <2> DEFINE s == local[p] + 1
    <2>1. /\ pc[p] = "startServer"
          /\ starts' = [starts EXCEPT ![s] = @ + 1]
          /\ Booting(p)' /\ \A q \in Procs : q # p => pc'[q] = pc[q] /\ local'[q] = local[q]
          /\ NotYetStarted(p)' => local'[p] = s
          /\ pc'[p] # "finish"
          /\ UNCHANGED <<startCh, closed, state, waitCh>>
      BY <1>4 DEF StartServer, StartServerFails
    <2>2. s \in Servers /\ starts[s] = 0
      BY <2>1, NAssumption DEF LoopInv, StartupInv, FreshInv, Servers
    <2>3. SingleStartup' BY <2>1, <2>2 DEF StartupInv, SingleStartup
    <2>4. NoLostWaiter'  BY <2>1 DEF StartupInv, NoLostWaiter
    <2>5. CreatedInv'    BY <2>1 DEF StartupInv, CreatedInv
    <2>6. ChannelInv'    BY <2>1 DEF StartupInv, ChannelInv
    <2>7. FreshInv'
      <3>1. \A q \in Procs : q # p => ~NotYetStarted(q)'
        BY <2>1 DEF StartupInv, SingleStartup
      <3>2. \A t \in Servers : t > s => starts'[t] = 0
        BY <2>1, <2>2, NAssumption DEF StartupInv, FreshInv, Servers
      <3>3. QED BY <2>1, <3>1, <3>2 DEF FreshInv
    <2>8. FinishInv'     BY <2>1 DEF StartupInv, FinishInv
    <2>9. QED BY <2>3, <2>4, <2>5, <2>6, <2>7, <2>8 DEF StartupInv
  <1>5. CASE Finish(p)
    <2> USE <1>5 DEF Finish, WakeWaiters, StartupInv
    <2>1. SingleStartup' BY DEF SingleStartup
    <2>2. NoLostWaiter'  BY DEF NoLostWaiter
    <2>3. CreatedInv'    BY DEF CreatedInv
    <2>4. ChannelInv'    BY DEF ChannelInv, SingleStartup, FinishInv
    <2>5. FreshInv'      BY DEF FreshInv
    <2>6. FinishInv'     BY DEF FinishInv
    <2>7. QED BY <2>1, <2>2, <2>3, <2>4, <2>5, <2>6
  <1>6. QED BY <1>1, <1>2, <1>3, <1>4, <1>5 DEF Boot

LEMMA StartupStop ==
  ASSUME TypeOK, StartupInv, NEW p \in Procs, Stop(p) PROVE StartupInv'
  BY StartupFrame
     DEF Stop, AwaitCtx, ShutdownNoop, ShutdownBegin, DrainServer, DrainDone, StopServer,
         Goto, Step, Return, appVars, chVars, srvVars, loopVars, entryVars, Booting,
         BootPCs, NotYetStarted, TypeOK, CallTypeOK, LoopTypeOK

LEMMA StartupEnvironment ==
  ASSUME TypeOK, StartupInv,
         (\E p \in Procs : Call(p) \/ Cancel(p)) \/ (\E c \in Components : Register(c))
  PROVE  StartupInv'
  BY StartupFrame
     DEF Call, Cancel, Register, Goto, Step, appVars, chVars, srvVars, loopVars,
         entryVars, Booting, BootPCs, NotYetStarted, TypeOK, CallTypeOK

LEMMA StartupNext == TypeOK /\ LoopInv /\ StartupInv /\ [Next]_vars => StartupInv'
  <1>1. ASSUME TypeOK, StartupInv, UNCHANGED vars PROVE StartupInv'
    BY <1>1, StartupFrame
       DEF vars, appVars, chVars, srvVars, loopVars, entryVars, Booting, NotYetStarted
  <1>2. QED
    BY <1>1, StartupEnvironment, StartupEnsure, StartupBoot, StartupStop
       DEF Next, Terminated

\* However many goroutines call Start, Run and Shutdown, one of them boots the
\* App, every Server is started once at most, and whoever waits for a startup
\* holds the channel that startup closes.
THEOREM StartupCorrect == Spec => [](SingleStartup /\ NoLostWaiter)
  <1>1. StartupInv => SingleStartup /\ NoLostWaiter BY DEF StartupInv
  <1>2. QED BY StartupInit, StartupNext, <1>1, TypeCorrect, PTL DEF Spec

\* Of these, what the callers rely on: whoever waits holds the channel of a
\* startup that is still to finish, or one that was closed, whatever other
\* goroutines start, fail and shut down in between.
THEOREM NoWaiterLost == Spec => []NoLostWaiter
  BY StartupCorrect, PTL

-----------------------------------------------------------------------------
\* What the proofs below all start from.
Base == TypeOK /\ LoopInv /\ StartupInv

\* A step of p, or of the environment on its behalf.
StepOf(p) == Call(p) \/ Cancel(p) \/ Ensure(p) \/ Boot(p) \/ Stop(p)

Same(q) ==
  /\ pc'[q] = pc[q] /\ op'[q] = op[q] /\ result'[q] = result[q]
  /\ local'[q] = local[q] /\ idx'[q] = idx[q] /\ err'[q] = err[q]

-----------------------------------------------------------------------------
(***************************************************************************)
(* The servers.  Every slice of started servers, the field's and each of   *)
(* the locals', holds servers that did come up, whatever became of them    *)
(* since; a reverse loop starts within such a slice.                       *)
(***************************************************************************)
WasUp(s) == server[s] \in {"up", "down", "stuck"}

IdleInv == \A s \in Servers : starts[s] = 0 <=> server[s] = "idle"

PrefixInv ==
  /\ \A s \in Servers : s <= startedServers => WasUp(s)
  /\ \A p \in Procs, s \in Servers : s <= local[p] => WasUp(s)

ReverseInv == \A p \in Procs : pc[p] \in {"rollback", "drain"} => idx[p] <= local[p]

ServerInv == IdleInv /\ PrefixInv /\ ReverseInv

(***************************************************************************)
(* The calls of Shutdown: a goroutine that makes one has not touched its   *)
(* locals before, and its reverse loop leaves nothing behind.              *)
(***************************************************************************)
CallerInv(p) ==
  /\ pc[p] = "idle" => op[p] = "none" /\ local[p] = 0 /\ err[p] = "nil"
  /\ pc[p] # "done" => result[p] = "none"
  /\ op[p] = "Shutdown" => pc[p] \in {"shutdown", "drain", "done"}
  /\ op[p] = "Shutdown" /\ pc[p] = "shutdown" => local[p] = 0 /\ err[p] = "nil"

DrainInv(p) ==
  /\ pc[p] = "drain" => /\ \A s \in Servers : idx[p] < s /\ s <= local[p] => Gone(s)
                        /\ err[p] \in {"nil", "serverErr"}
  /\ pc[p] = "done" /\ op[p] = "Shutdown" =>
       /\ \A s \in Servers : s <= local[p] => Gone(s)
       /\ result[p] = "nil" => err[p] = "nil"

ShutdownInv == \A p \in Procs : CallerInv(p) /\ DrainInv(p)

(***************************************************************************)
(* The startup.  Once the App has run, or somebody was told that it does,  *)
(* the startup is complete and nothing of it is undone.                    *)
(***************************************************************************)
NoFailure == startErr # "startErr" /\ \A q \in Procs : result[q] # "startErr"

Complete ==
  /\ \A s \in Servers : starts[s] = 1
  /\ coldStarted
  /\ started = registered
  /\ NoFailure
  /\ \A q \in Procs : Booting(q) => pc[q] = "finish" /\ err[q] = "nil"

Live ==
  \/ state = "running"
  \/ \E p \in Procs : Succeeded(p) \/ (pc[p] = "finish" /\ err[p] = "nil")

LiveInv == Live => state # "created" /\ Complete

\* Until start returns nobody can have been told that it failed.
PendingInv == state = "created" \/ (\E p \in Procs : Booting(p)) => NoFailure

StraightPCs == {"ensure", "wait", "materialize", "publish", "loop", "startServer",
                "publishServer", "setRunning"}

BootInv(p) ==
  /\ pc[p] \in StraightPCs => err[p] = "nil"
  /\ pc[p] = "publish" => built = registered
  /\ pc[p] \in {"loop", "startServer", "publishServer", "setRunning"} => started = registered
  /\ pc[p] = "setRunning" => local[p] = N /\ coldStarted
  /\ pc[p] \in {"rollback", "failStart"} => err[p] # "nil"
  /\ Booting(p) => state # "created" /\ Starter(p)
  /\ pc[p] \in {"ensure", "wait", "awaitCtx"} => Starter(p)

BootsInv == \A p \in Procs : BootInv(p)

SuccessInv == LiveInv /\ PendingInv /\ BootsInv

LEMMA ProtocolInit == Init => ServerInv /\ ShutdownInv /\ SuccessInv
  <1> SUFFICES ASSUME Init PROVE ServerInv /\ ShutdownInv /\ SuccessInv OBVIOUS
  <1>1. ServerInv
    BY NAssumption
    DEF Init, ServerInv, IdleInv, PrefixInv, ReverseInv, Servers
  <1>2. ShutdownInv BY DEF Init, ShutdownInv, CallerInv, DrainInv
  <1>3. SuccessInv
    BY DEF Init, SuccessInv, LiveInv, Live, PendingInv, NoFailure, BootsInv, BootInv, Succeeded,
           Starter, Booting, BootPCs, StraightPCs
  <1>4. QED BY <1>1, <1>2, <1>3

\* A step of p leaves the others where they are.
LEMMA OthersSame ==
  ASSUME TypeOK, NEW p \in Procs, StepOf(p), NEW q \in Procs, q # p
  PROVE  Same(q)
  <1> USE DEF TypeOK, LoopTypeOK, CallTypeOK, Same, Goto, Step, Return, Fail,
              EnsureReturns, loopVars, entryVars
  <1>1. CASE Call(p) BY <1>1 DEF Call
  <1>2. CASE Cancel(p) BY <1>2 DEF Cancel
  <1>3. CASE Ensure(p)
    BY <1>3 DEF Ensure, EnsureRunning, EnsureStarting, EnsureCreated, EnsureStopped,
                WaitClosed, WaitCanceled
  <1>4. CASE Boot(p)
    <2>1. CASE Materialize(p) \/ Publish(p) \/ CheckStopping(p)
      BY <2>1 DEF Materialize, Publish, CheckStopping
    <2>2. CASE StartServer(p) \/ StartServerFails(p) \/ PublishServer(p)
      BY <2>2 DEF StartServer, StartServerFails, PublishServer
    <2>3. CASE ColdStart(p) \/ RollbackServer(p) \/ RollbackDone(p)
      BY <2>3 DEF ColdStart, RollbackServer, StopServer, RollbackDone
    <2>4. CASE FailStart(p) \/ SetRunning(p) \/ Finish(p)
      BY <2>4 DEF FailStart, SetRunning, Finish
    <2>5. QED BY <1>4, <2>1, <2>2, <2>3, <2>4 DEF Boot
  <1>5. CASE Stop(p)
    BY <1>5 DEF Stop, AwaitCtx, ShutdownNoop, ShutdownBegin, DrainServer, DrainDone, StopServer
  <1>6. QED BY <1>1, <1>2, <1>3, <1>4, <1>5 DEF StepOf

LEMMA NextCases ==
  ASSUME [Next]_vars
  PROVE  \/ \E p \in Procs : StepOf(p)
         \/ \E c \in Components : Register(c)
         \/ UNCHANGED vars
  BY DEF Next, StepOf, Terminated

-----------------------------------------------------------------------------
(* The servers. *)

\* The server whose Start is called next has not been started before.
LEMMA StartFacts ==
  ASSUME Base, ServerInv, NEW p \in Procs, StartServer(p) \/ StartServerFails(p)
  PROVE  LET s == local[p] + 1 IN
         /\ s \in Servers /\ starts[s] = 0 /\ server[s] = "idle"
         /\ starts' = [starts EXCEPT ![s] = @ + 1]
         /\ \/ /\ server' = [server EXCEPT ![s] = "up"]
               /\ local' = [local EXCEPT ![p] = s] /\ pc'[p] = "publishServer"
            \/ /\ server' = [server EXCEPT ![s] = "failed"]
               /\ local' = local /\ pc'[p] = "rollback" /\ idx'[p] = local[p]
         /\ startedServers' = startedServers
  <1> DEFINE s == local[p] + 1
  <1>1. pc[p] = "startServer"
    BY DEF StartServer, StartServerFails, Step, Goto, Fail
  <1>2. s \in Servers /\ s > local[p]
    BY <1>1, NAssumption DEF Base, LoopInv, TypeOK, LoopTypeOK, Servers
  <1>3. starts[s] = 0
    BY <1>1, <1>2 DEF Base, StartupInv, FreshInv, NotYetStarted
  <1>4. server[s] = "idle" BY <1>2, <1>3 DEF ServerInv, IdleInv
  <1>5. QED
    BY <1>2, <1>3, <1>4
    DEF StartServer, StartServerFails, Step, Goto, Fail, RollbackFrom, appVars, Base, TypeOK,
        CallTypeOK, LoopTypeOK

\* The server a reverse loop stops did come up.
LEMMA StopFacts ==
  ASSUME Base, ServerInv, NEW p \in Procs, RollbackServer(p) \/ DrainServer(p)
  PROVE  /\ idx[p] \in Servers /\ WasUp(idx[p])
         /\ server'[idx[p]] \in {"down", "stuck"}
         /\ \A s \in Servers : s # idx[p] => server'[s] = server[s]
         /\ idx'[p] = idx[p] - 1
         /\ UNCHANGED <<starts, local, startedServers, pc, result, op, state, registered>>
  <1>1. /\ pc[p] \in {"rollback", "drain"} /\ idx[p] > 0
        /\ \E outcome \in {"down", "stuck"} : server' = [server EXCEPT ![idx[p]] = outcome]
        /\ idx' = [idx EXCEPT ![p] = @ - 1]
        /\ UNCHANGED <<appVars, starts, local, entryVars, pc, result>>
    BY DEF RollbackServer, DrainServer, StopServer
  <1>2. idx[p] \in Servers
    BY <1>1, NAssumption DEF Base, TypeOK, LoopTypeOK, Servers
  <1>3. WasUp(idx[p])
    BY <1>1, <1>2 DEF ServerInv, ReverseInv, PrefixInv
  <1>4. QED
    BY <1>1, <1>2, <1>3 DEF Base, TypeOK, ServerTypeOK, LoopTypeOK, appVars, regVars, entryVars

\* A step that stops and starts no server takes its slice from another one.
LEMMA ServerFrame ==
  ASSUME TypeOK, ServerInv, UNCHANGED <<server, starts>>,
         startedServers' \in {startedServers, 0} \/ \E q \in Procs : startedServers' = local[q],
         \A q \in Procs : local'[q] \in {local[q], startedServers},
         \A q \in Procs : pc'[q] \in {"rollback", "drain"} => idx'[q] <= local'[q]
  PROVE  ServerInv'
  <1>1. IdleInv' BY DEF ServerInv, IdleInv
  <1>2. PrefixInv'
    <2>1. ASSUME NEW s \in Servers, s <= startedServers' PROVE WasUp(s)
      BY <2>1 DEF ServerInv, PrefixInv, Servers
    <2>2. ASSUME NEW q \in Procs, NEW s \in Servers, s <= local'[q] PROVE WasUp(s)
      BY <2>2 DEF ServerInv, PrefixInv
    <2>3. QED BY <2>1, <2>2 DEF PrefixInv, WasUp
  <1>3. ReverseInv' BY DEF ReverseInv
  <1>4. QED BY <1>1, <1>2, <1>3 DEF ServerInv

LEMMA ServerNext ==
  ASSUME Base, ServerInv, [Next]_vars
  PROVE  ServerInv'
  <1>1. ASSUME NEW p \in Procs, StartServer(p) \/ StartServerFails(p) PROVE ServerInv'
    <2> DEFINE s == local[p] + 1
    <2>1. /\ s \in Servers /\ starts[s] = 0 /\ server[s] = "idle"
          /\ starts' = [starts EXCEPT ![s] = @ + 1]
          /\ \/ /\ server' = [server EXCEPT ![s] = "up"]
                /\ local' = [local EXCEPT ![p] = s] /\ pc'[p] = "publishServer"
             \/ /\ server' = [server EXCEPT ![s] = "failed"]
                /\ local' = local /\ pc'[p] = "rollback" /\ idx'[p] = local[p]
          /\ startedServers' = startedServers
      BY <1>1, StartFacts
    <2>2. /\ starts \in [Servers -> Nat]
          /\ server \in [Servers -> {"idle", "up", "failed", "down", "stuck"}]
          /\ local \in [Procs -> 0..N] /\ startedServers \in Nat
      BY NAssumption DEF Base, TypeOK, ServerTypeOK, LoopTypeOK
    <2>3. \A q \in Procs : q # p => Same(q) BY <1>1, OthersSame DEF Base, StepOf, Boot
    <2>4. IdleInv' BY <2>1, <2>2 DEF ServerInv, IdleInv
    <2>5. ASSUME NEW t \in Servers, t # s, WasUp(t) PROVE WasUp(t)'
      BY <2>1, <2>2, <2>5 DEF WasUp
    <2>6. ~WasUp(s) BY <2>1 DEF WasUp
    <2>7. \A t \in Servers : t <= startedServers' => WasUp(t)'
      BY <2>1, <2>5, <2>6 DEF ServerInv, PrefixInv
    <2>8. ASSUME NEW q \in Procs, NEW t \in Servers, t <= local'[q] PROVE WasUp(t)'
      <3>1. CASE t = s /\ q = p
        <4>1. local' # local BY <2>2, <2>8, <3>1 DEF Servers
        <4>2. server'[t] = "up" BY <2>1, <2>2, <3>1, <4>1
        <4>3. QED BY <4>2 DEF WasUp
      <3>2. CASE t # s /\ q = p
        <4>1. t <= local[p] BY <2>1, <2>2, <2>8, <3>2, NAssumption DEF Servers
        <4>2. QED BY <4>1, <2>5, <3>2 DEF ServerInv, PrefixInv
      <3>3. CASE q # p
        <4>1. local'[q] = local[q] BY <2>3, <3>3 DEF Same
        <4>2. QED BY <4>1, <2>5, <2>6, <2>8 DEF ServerInv, PrefixInv
      <3>4. QED BY <3>1, <3>2, <3>3
    <2>9. PrefixInv' BY <2>7, <2>8 DEF PrefixInv, Servers
    <2>10. ReverseInv'
      <3>1. \A q \in Procs : q # p => (pc'[q] \in {"rollback", "drain"} => idx'[q] <= local'[q])
        BY <2>3 DEF ServerInv, ReverseInv, Same
      <3>2. pc'[p] \in {"rollback", "drain"} => idx'[p] <= local'[p] BY <2>1, <2>2
      <3>3. QED BY <3>1, <3>2 DEF ReverseInv
    <2>11. QED BY <2>4, <2>9, <2>10 DEF ServerInv
  <1>2. ASSUME NEW p \in Procs, RollbackServer(p) \/ DrainServer(p) PROVE ServerInv'
    <2>1. /\ idx[p] \in Servers /\ WasUp(idx[p])
          /\ server'[idx[p]] \in {"down", "stuck"}
          /\ \A s \in Servers : s # idx[p] => server'[s] = server[s]
          /\ idx'[p] = idx[p] - 1
          /\ UNCHANGED <<starts, local, startedServers, pc>>
      BY <1>2, StopFacts
    <2>2. \A s \in Servers : WasUp(s) => WasUp(s)' BY <2>1 DEF WasUp
    <2>3. \A s \in Servers : server'[s] = "idle" <=> server[s] = "idle"
      BY <2>1 DEF WasUp
    <2>4. IdleInv' BY <2>1, <2>3 DEF ServerInv, IdleInv
    <2>5. PrefixInv' BY <2>1, <2>2 DEF ServerInv, PrefixInv, Servers
    <2>6. \A q \in Procs : q # p => Same(q)
      BY <1>2, OthersSame DEF Base, StepOf, Boot, Stop
    <2>7. idx[p] \in Nat /\ local[p] \in Nat
      BY NAssumption DEF Base, TypeOK, LoopTypeOK
    <2>8. ReverseInv'
      BY <2>1, <2>6, <2>7 DEF ServerInv, ReverseInv, Same
    <2>9. QED BY <2>4, <2>5, <2>8 DEF ServerInv
  <1>3. ASSUME NEW p \in Procs, Call(p) \/ Cancel(p) \/ Ensure(p) PROVE ServerInv'
    BY <1>3, ServerFrame
    DEF Call, Cancel, Ensure, EnsureRunning, EnsureStarting, EnsureCreated, EnsureStopped,
        WaitClosed, WaitCanceled, EnsureReturns, Return, Step, Goto, appVars, srvVars, loopVars,
        Base, TypeOK, CallTypeOK, ServerInv, ReverseInv
  <1>4. ASSUME NEW p \in Procs, Boot(p), ~StartServer(p), ~StartServerFails(p), ~RollbackServer(p)
        PROVE  ServerInv'
    <2> USE DEF EnsureReturns, Return, Step, Goto, Fail, appVars, srvVars, loopVars,
                Base, TypeOK, CallTypeOK, LoopTypeOK, ServerInv, ReverseInv
    <2>1. CASE Materialize(p) \/ Publish(p) \/ CheckStopping(p)
      BY <2>1, ServerFrame DEF Materialize, Publish, CheckStopping
    <2>2. CASE PublishServer(p) \/ RollbackDone(p) \/ FailStart(p)
      BY <2>2, ServerFrame DEF PublishServer, RollbackDone, FailStart
    <2>3. CASE ColdStart(p)
      BY <2>3, ServerFrame DEF ColdStart, RollbackFrom
    <2>4. CASE SetRunning(p) \/ Finish(p)
      BY <2>4, ServerFrame DEF SetRunning, Finish
    <2>5. QED BY <1>4, <2>1, <2>2, <2>3, <2>4 DEF Boot
  <1>5. ASSUME NEW p \in Procs, Stop(p), ~DrainServer(p) PROVE ServerInv'
    <2> USE DEF Return, Step, Goto, appVars, srvVars, loopVars,
                Base, TypeOK, CallTypeOK, LoopTypeOK, ServerInv, ReverseInv
    <2>1. CASE AwaitCtx(p) \/ ShutdownNoop(p)
      BY <2>1, ServerFrame DEF AwaitCtx, ShutdownNoop
    <2>2. CASE ShutdownBegin(p)
      <3>1. startedServers <= startedServers BY NAssumption
      <3>2. QED BY <2>2, <3>1, ServerFrame DEF ShutdownBegin
    <2>3. CASE DrainDone(p)
      BY <2>3, ServerFrame DEF DrainDone
    <2>4. QED BY <1>5, <2>1, <2>2, <2>3 DEF Stop
  <1>6. ASSUME NEW c \in Components, Register(c) PROVE ServerInv'
    BY <1>6, ServerFrame DEF Register, srvVars, loopVars, Base, ServerInv, ReverseInv
  <1>7. CASE UNCHANGED vars
    BY <1>7, ServerFrame DEF vars, appVars, srvVars, loopVars, Base, ServerInv, ReverseInv
  <1>8. QED BY <1>1, <1>2, <1>3, <1>4, <1>5, <1>6, <1>7, NextCases DEF StepOf

\* What a step does to a server; one that is gone stays so.
LEMMA ServerStep ==
  ASSUME Base, ServerInv, [Next]_vars
  PROVE  \A s \in Servers : server'[s] # server[s] =>
            \/ server[s] = "idle" /\ server'[s] \in {"up", "failed"}
            \/ WasUp(s) /\ Gone(s)'
  <1>1. ASSUME NEW p \in Procs, StartServer(p) \/ StartServerFails(p), NEW s \in Servers,
               server'[s] # server[s]
        PROVE  server[s] = "idle" /\ server'[s] \in {"up", "failed"}
    BY <1>1, StartFacts DEF Base, TypeOK, ServerTypeOK
  <1>2. ASSUME NEW p \in Procs, RollbackServer(p) \/ DrainServer(p), NEW s \in Servers,
               server'[s] # server[s]
        PROVE  WasUp(s) /\ Gone(s)'
    <2>1. s = idx[p] BY <1>2, StopFacts
    <2>2. server'[s] \in {"down", "stuck"} /\ WasUp(s) BY <1>2, <2>1, StopFacts
    <2>3. QED BY <2>2 DEF Gone
  <1>3. ASSUME NEW p \in Procs, Call(p) \/ Cancel(p) \/ Ensure(p) PROVE server' = server
    BY <1>3
    DEF Call, Cancel, Ensure, EnsureRunning, EnsureStarting, EnsureCreated, EnsureStopped,
        WaitClosed, WaitCanceled, srvVars
  <1>4. ASSUME NEW p \in Procs, Boot(p), ~StartServer(p), ~StartServerFails(p), ~RollbackServer(p)
        PROVE  server' = server
    BY <1>4
    DEF Boot, Materialize, Publish, CheckStopping, PublishServer, ColdStart, RollbackDone,
        FailStart, SetRunning, Finish, srvVars
  <1>5. ASSUME NEW p \in Procs, Stop(p), ~DrainServer(p) PROVE server' = server
    BY <1>5 DEF Stop, AwaitCtx, ShutdownNoop, ShutdownBegin, DrainDone, srvVars
  <1>6. ASSUME (\E c \in Components : Register(c)) \/ UNCHANGED vars PROVE server' = server
    BY <1>6 DEF Register, vars, srvVars
  <1>7. QED BY <1>1, <1>2, <1>3, <1>4, <1>5, <1>6, NextCases DEF StepOf

-----------------------------------------------------------------------------
(* The calls of Shutdown. *)

\* A process that does not move keeps its part while gone servers stay gone.
LEMMA StillDrained ==
  ASSUME Base, ServerInv, [Next]_vars, NEW q \in Procs, CallerInv(q), DrainInv(q), Same(q)
  PROVE  CallerInv(q)' /\ DrainInv(q)'
  <1>1. \A s \in Servers : Gone(s) => Gone(s)' BY ServerStep DEF Gone, WasUp
  <1>2. QED BY <1>1 DEF CallerInv, DrainInv, Same

LEMMA ShutdownStop ==
  ASSUME Base, ServerInv, NEW p \in Procs, CallerInv(p), DrainInv(p), Stop(p)
  PROVE  CallerInv(p)' /\ DrainInv(p)'
  <1> USE DEF CallerInv, DrainInv
  <1>1. CASE AwaitCtx(p)
    BY <1>1 DEF AwaitCtx, Step, Goto, entryVars, Base, TypeOK, CallTypeOK
  <1>2. CASE ShutdownNoop(p)
    BY <1>2
    DEF ShutdownNoop, Return, Goto, entryVars, loopVars, Base, TypeOK, CallTypeOK, Servers
  <1>3. CASE ShutdownBegin(p)
    BY <1>3, NAssumption
    DEF ShutdownBegin, Step, Goto, entryVars, Base, TypeOK, CallTypeOK, LoopTypeOK, Servers
  <1>4. CASE DrainServer(p)
    <2>1. /\ idx[p] \in Servers /\ server'[idx[p]] \in {"down", "stuck"}
          /\ \A s \in Servers : s # idx[p] => server'[s] = server[s]
          /\ idx'[p] = idx[p] - 1
          /\ UNCHANGED <<local, pc, result, op>>
      BY <1>4, StopFacts
    <2>2. pc[p] = "drain" BY <1>4 DEF DrainServer, StopServer
    <2>3. ASSUME NEW s \in Servers, idx'[p] < s, s <= local'[p] PROVE Gone(s)'
      <3>1. CASE s = idx[p] BY <2>1, <3>1 DEF Gone
      <3>2. CASE s # idx[p]
        <4>1. idx[p] < s BY <2>1, <2>3, <3>2 DEF Servers
        <4>2. QED BY <2>1, <2>2, <2>3, <3>2, <4>1 DEF Gone
      <3>3. QED BY <3>1, <3>2
    <2>4. err'[p] \in {"nil", "serverErr"}
      BY <1>4, <2>2 DEF DrainServer, Base, TypeOK, LoopTypeOK
    <2>5. QED BY <2>1, <2>2, <2>3, <2>4
  <1>5. CASE DrainDone(p)
    <2>1. /\ pc[p] = "drain" /\ idx[p] = 0 /\ pc'[p] = "done"
          /\ UNCHANGED <<server, local, idx, err, op>>
          /\ op[p] = "Shutdown" => result'[p] \in {err[p], "ctxErr"}
      BY <1>5
      DEF DrainDone, Return, Goto, ShutdownResult, srvVars, loopVars, entryVars, Base, TypeOK,
          CallTypeOK
    <2>2. \A s \in Servers : s <= local[p] => Gone(s) BY <2>1 DEF Servers
    <2>3. QED BY <2>1, <2>2 DEF Gone
  <1>6. QED BY <1>1, <1>2, <1>3, <1>4, <1>5 DEF Stop

LEMMA ShutdownNext ==
  ASSUME Base, ServerInv, ShutdownInv, [Next]_vars
  PROVE  ShutdownInv'
  <1>1. ASSUME NEW p \in Procs, StepOf(p) PROVE CallerInv(p)' /\ DrainInv(p)'
    <2> USE DEF ShutdownInv
    <2>1. CASE Call(p)
      BY <2>1
      DEF CallerInv, DrainInv, Call, Step, Goto, Ops, loopVars, Base, TypeOK, CallTypeOK
    <2>2. CASE Cancel(p)
      <3>1. Same(p) BY <2>2 DEF Cancel, loopVars, Same
      <3>2. QED BY <3>1, StillDrained
    <2>3. CASE Ensure(p)
      <3>1. /\ pc[p] \in {"ensure", "wait"} /\ op' = op
            /\ pc'[p] \in {"ensure", "wait", "materialize", "awaitCtx", "done"}
            /\ pc'[p] # "done" => result'[p] = result[p]
        BY <2>3
        DEF Ensure, EnsureRunning, EnsureStarting, EnsureCreated, EnsureStopped, WaitClosed,
            WaitCanceled, EnsureReturns, Step, Return, Goto, entryVars, Base, TypeOK, CallTypeOK
      <3>2. QED BY <3>1 DEF CallerInv, DrainInv
    <2>4. CASE Boot(p)
      <3>1. /\ pc[p] \in BootPCs /\ op' = op
            /\ pc'[p] \in BootPCs \cup {"awaitCtx", "done"}
            /\ pc'[p] # "done" => result'[p] = result[p]
        <4> USE DEF EnsureReturns, Step, Return, Goto, Fail, entryVars, Base, TypeOK,
                    CallTypeOK, BootPCs
        <4>1. CASE Materialize(p) \/ Publish(p) \/ CheckStopping(p) \/ PublishServer(p)
          BY <4>1 DEF Materialize, Publish, CheckStopping, PublishServer
        <4>2. CASE StartServer(p) \/ StartServerFails(p) \/ RollbackServer(p)
          BY <4>2 DEF StartServer, StartServerFails, RollbackServer, StopServer
        <4>3. CASE ColdStart(p) \/ RollbackDone(p) \/ FailStart(p) \/ SetRunning(p) \/ Finish(p)
          BY <4>3 DEF ColdStart, RollbackDone, FailStart, SetRunning, Finish
        <4>4. QED BY <2>4, <4>1, <4>2, <4>3 DEF Boot
      <3>2. QED BY <3>1 DEF CallerInv, DrainInv, BootPCs
    <2>5. CASE Stop(p) BY <2>5, ShutdownStop
    <2>6. QED BY <1>1, <2>1, <2>2, <2>3, <2>4, <2>5 DEF StepOf
  <1>2. ASSUME NEW p \in Procs, StepOf(p) PROVE ShutdownInv'
    <2>1. \A q \in Procs : q # p => CallerInv(q)' /\ DrainInv(q)'
      BY <1>2, OthersSame, StillDrained DEF Base, ShutdownInv
    <2>2. QED BY <1>1, <1>2, <2>1 DEF ShutdownInv
  <1>3. ASSUME (\E c \in Components : Register(c)) \/ UNCHANGED vars PROVE ShutdownInv'
    <2>1. \A q \in Procs : Same(q) BY <1>3 DEF Register, vars, loopVars, entryVars, Same
    <2>2. QED BY <2>1, StillDrained DEF ShutdownInv
  <1>4. QED BY <1>2, <1>3, NextCases

-----------------------------------------------------------------------------
(* The startup that succeeded. *)

\* Once the App has left created, it never comes back and its registries are sealed.
LEMMA SealedStep ==
  ASSUME TypeOK, [Next]_vars, state # "created"
  PROVE  state' # "created" /\ registered' = registered
  <1>1. ASSUME NEW p \in Procs, Call(p) \/ Cancel(p) \/ Ensure(p)
        PROVE  state' # "created" /\ registered' = registered
    BY <1>1
    DEF Call, Cancel, Ensure, EnsureRunning, EnsureStarting, EnsureCreated, EnsureStopped,
        WaitClosed, WaitCanceled, Claim, appVars, regVars
  <1>2. ASSUME NEW p \in Procs, Boot(p)
        PROVE  state' # "created" /\ registered' = registered
    BY <1>2
    DEF Boot, Materialize, Publish, CheckStopping, StartServer, StartServerFails, PublishServer,
        ColdStart, RollbackServer, StopServer, RollbackDone, FailStart, SetRunning, Finish,
        appVars, regVars
  <1>3. ASSUME NEW p \in Procs, Stop(p)
        PROVE  state' # "created" /\ registered' = registered
    BY <1>3
    DEF Stop, AwaitCtx, ShutdownNoop, ShutdownBegin, DrainServer, StopServer, DrainDone,
        appVars, regVars
  <1>4. ASSUME (\E c \in Components : Register(c)) \/ UNCHANGED vars
        PROVE  state' # "created" /\ registered' = registered
    BY <1>4 DEF Register, Sealed, vars, appVars, regVars
  <1>5. QED BY <1>1, <1>2, <1>3, <1>4, NextCases DEF StepOf

\* Whoever is not inside start leaves what the startup has done alone, is not
\* told of a failure nobody else was told of, and enters start only once.
LEMMA OutsiderStep ==
  ASSUME Base, ShutdownInv, NEW p \in Procs, StepOf(p), ~Booting(p)
  PROVE  /\ UNCHANGED <<built, started, coldStarted, starts, startErr>>
         /\ Booting(p)' => state = "created" /\ pc'[p] = "materialize"
         /\ result'[p] \in {result[p], "nil", "ctxErr", "stoppedErr", "serverErr", startErr}
         /\ state' = "running" => state = "running"
  <1> USE DEF Booting, BootPCs, Goto, Step, Return, EnsureReturns, appVars, chVars, regVars,
              srvVars, Base, TypeOK, CallTypeOK
  <1>1. CASE Call(p) \/ Cancel(p) BY <1>1 DEF Call, Cancel
  <1>2. CASE EnsureRunning(p) \/ EnsureStarting(p) \/ EnsureCreated(p)
    BY <1>2 DEF EnsureRunning, EnsureStarting, EnsureCreated, Claim
  <1>3. CASE EnsureStopped(p) \/ WaitClosed(p) \/ WaitCanceled(p)
    BY <1>3 DEF EnsureStopped, WaitClosed, WaitCanceled
  <1>4. CASE Boot(p)
    BY <1>4
    DEF Boot, Materialize, Publish, CheckStopping, StartServer, StartServerFails, PublishServer,
        ColdStart, RollbackServer, StopServer, RollbackDone, FailStart, SetRunning, Finish, Fail
  <1>5. CASE AwaitCtx(p) \/ ShutdownNoop(p) \/ ShutdownBegin(p) \/ DrainServer(p)
    BY <1>5
    DEF AwaitCtx, ShutdownNoop, ShutdownBegin, DrainServer, StopServer, ShutdownResult
  <1>6. CASE DrainDone(p)
    <2>1. pc[p] = "drain" BY <1>6 DEF DrainDone
    <2>2. err[p] \in {"nil", "serverErr"} BY <2>1 DEF ShutdownInv, DrainInv
    <2>3. QED BY <1>6, <2>1, <2>2 DEF DrainDone, ShutdownResult
  <1>7. QED BY <1>1, <1>2, <1>3, <1>4, <1>5, <1>6 DEF StepOf, Ensure, Stop

LEMMA NoFailureKept ==
  ASSUME Base, ShutdownInv, NEW p \in Procs, StepOf(p), ~Booting(p), NoFailure
  PROVE  NoFailure'
  <1>1. \A q \in Procs : q # p => result'[q] = result[q]
    BY OthersSame DEF Base, Same
  <1>2. startErr' = startErr
        /\ result'[p] \in {result[p], "nil", "ctxErr", "stoppedErr", "serverErr", startErr}
    BY OutsiderStep
  <1>3. QED BY <1>1, <1>2 DEF NoFailure

\* Inside start nobody is told anything before the last step.
LEMMA InsiderStep ==
  ASSUME Base, NEW p \in Procs, StepOf(p), Booting(p), ~Finish(p)
  PROVE  result' = result /\ startErr' = startErr
  <1> USE DEF Booting, BootPCs, Step, Goto, Fail, appVars, chVars
  <1>1. CASE Call(p) \/ Cancel(p) BY <1>1 DEF Call, Cancel
  <1>2. ~Ensure(p)
    BY DEF Ensure, EnsureRunning, EnsureStarting, EnsureCreated, EnsureStopped, WaitClosed,
           WaitCanceled, EnsureReturns, Return
  <1>3. ~Stop(p)
    BY DEF Stop, AwaitCtx, ShutdownNoop, ShutdownBegin, DrainServer, StopServer, DrainDone, Return
  <1>4. CASE Boot(p)
    BY <1>4
    DEF Boot, Materialize, Publish, CheckStopping, StartServer, StartServerFails, PublishServer,
        ColdStart, RollbackServer, StopServer, RollbackDone, FailStart, SetRunning
  <1>5. QED BY <1>1, <1>2, <1>3, <1>4 DEF StepOf

LEMMA PendingNext ==
  ASSUME Base, ShutdownInv, PendingInv, [Next]_vars
  PROVE  PendingInv'
  <1>1. ASSUME NEW p \in Procs, StepOf(p), ~Booting(p),
               state' = "created" \/ (\E q \in Procs : Booting(q)')
        PROVE  NoFailure'
    <2>1. state' = "created" => state = "created"
      BY SealedStep DEF Base
    <2>2. ASSUME NEW q \in Procs, q # p, Booting(q)' PROVE Booting(q)
      BY <1>1, <2>2, OthersSame DEF Base, Same, Booting
    <2>3. Booting(p)' => state = "created" BY <1>1, OutsiderStep
    <2>4. NoFailure BY <1>1, <2>1, <2>2, <2>3 DEF PendingInv
    <2>5. QED BY <1>1, <2>4, NoFailureKept
  <1>2. ASSUME NEW p \in Procs, StepOf(p), Booting(p), ~Finish(p) PROVE NoFailure'
    BY <1>2, InsiderStep DEF PendingInv, NoFailure
  <1>3. ASSUME NEW p \in Procs, Finish(p), Booting(p)
        PROVE  state' # "created" /\ \A q \in Procs : ~Booting(q)'
    <2>1. state # "created" BY <1>3 DEF Base, StartupInv, CreatedInv
    <2>2. \A q \in Procs : q # p => ~Booting(q)'
      BY <1>3, OthersSame DEF StepOf, Boot, Base, Same, Booting, StartupInv, SingleStartup
    <2>3. ~Booting(p)'
      BY <1>3 DEF Finish, EnsureReturns, Step, Return, Goto, Booting, BootPCs, Base, TypeOK,
                  CallTypeOK
    <2>4. QED BY <1>3, <2>1, <2>2, <2>3, SealedStep DEF Base
  <1>4. ASSUME (\E c \in Components : Register(c)) \/ UNCHANGED vars PROVE PendingInv'
    BY <1>4
    DEF Register, vars, appVars, chVars, PendingInv, NoFailure, Booting
  <1>5. QED BY <1>1, <1>2, <1>3, <1>4, NextCases DEF PendingInv

\* What the goroutine inside start knows of its way so far, a step on its own.
LEMMA BootOwnStep ==
  ASSUME Base, ShutdownInv, NEW p \in Procs, BootInv(p), StepOf(p)
  PROVE  BootInv(p)'
  <1> USE DEF BootInv, Booting, BootPCs, StraightPCs, Starter, Goto, Step, Return, Fail,
              EnsureReturns, appVars, chVars, regVars, loopVars, entryVars, Base, TypeOK,
              AppTypeOK, CallTypeOK, LoopTypeOK
  <1>1. CASE Call(p)
    <2>1. err[p] = "nil" BY <1>1 DEF Call, ShutdownInv, CallerInv
    <2>2. QED BY <1>1, <2>1 DEF Call, Ops
  <1>2. CASE Cancel(p) BY <1>2 DEF Cancel
  <1>3. CASE EnsureRunning(p) \/ EnsureStarting(p) \/ EnsureCreated(p)
    BY <1>3 DEF EnsureRunning, EnsureStarting, EnsureCreated, Claim
  <1>4. CASE EnsureStopped(p) \/ WaitClosed(p) \/ WaitCanceled(p)
    BY <1>4 DEF EnsureStopped, WaitClosed, WaitCanceled
  <1>5. CASE Boot(p)
    <2>1. state' # "created"
      <3>1. Booting(p)
        BY <1>5
        DEF Boot, Materialize, Publish, CheckStopping, StartServer, StartServerFails,
            PublishServer, ColdStart, RollbackServer, StopServer, RollbackDone, FailStart,
            SetRunning, Finish
      <3>2. state # "created" BY <3>1 DEF StartupInv, CreatedInv
      <3>3. QED
        BY <1>5, <3>2
        DEF Boot, Materialize, Publish, CheckStopping, StartServer, StartServerFails,
            PublishServer, ColdStart, RollbackServer, StopServer, RollbackDone, FailStart,
            SetRunning, Finish
    <2>2. CASE Materialize(p) BY <2>1, <2>2 DEF Materialize
    <2>3. CASE Publish(p) BY <2>1, <2>3 DEF Publish
    <2>4. CASE CheckStopping(p) BY <2>1, <2>4 DEF CheckStopping
    <2>5. CASE StartServer(p) BY <2>1, <2>5 DEF StartServer
    <2>6. CASE StartServerFails(p) BY <2>1, <2>6 DEF StartServerFails
    <2>7. CASE PublishServer(p) BY <2>1, <2>7 DEF PublishServer
    <2>8. CASE ColdStart(p) BY <2>1, <2>8 DEF ColdStart
    <2>9. CASE RollbackServer(p) \/ RollbackDone(p)
      BY <2>1, <2>9 DEF RollbackServer, StopServer, RollbackDone
    <2>10. CASE FailStart(p) \/ SetRunning(p)
      BY <2>1, <2>10 DEF FailStart, SetRunning
    <2>11. CASE Finish(p) BY <2>1, <2>11 DEF Finish
    <2>12. QED
      BY <1>5, <2>2, <2>3, <2>4, <2>5, <2>6, <2>7, <2>8, <2>9, <2>10, <2>11 DEF Boot
  <1>6. CASE Stop(p)
    BY <1>6
    DEF Stop, AwaitCtx, ShutdownNoop, ShutdownBegin, DrainServer, StopServer, DrainDone
  <1>7. QED BY <1>1, <1>2, <1>3, <1>4, <1>5, <1>6 DEF StepOf, Ensure

LEMMA BootNext ==
  ASSUME Base, ShutdownInv, BootsInv, [Next]_vars
  PROVE  BootsInv'
  <1> USE DEF BootsInv
  <1>1. ASSUME NEW q \in Procs, Same(q),
               Booting(q) => UNCHANGED <<built, started, coldStarted>>
        PROVE  BootInv(q)'
    <2>1. Booting(q) => state # "created" BY DEF Base, StartupInv, CreatedInv
    <2>2. Booting(q) => state' # "created" /\ registered' = registered
      BY <2>1, SealedStep DEF Base
    <2>3. QED
      BY <1>1, <2>2 DEF BootInv, Same, Booting, BootPCs, StraightPCs, Starter
  <1>2. ASSUME NEW p \in Procs, StepOf(p), NEW q \in Procs, q # p, Booting(q)
        PROVE  UNCHANGED <<built, started, coldStarted>>
    <2>1. ~Booting(p) BY <1>2 DEF Base, StartupInv, SingleStartup
    <2>2. QED BY <1>2, <2>1, OutsiderStep
  <1>3. ASSUME NEW p \in Procs, StepOf(p), NEW q \in Procs PROVE BootInv(q)'
    <2>1. CASE q = p BY <1>3, <2>1, BootOwnStep
    <2>2. CASE q # p BY <1>1, <1>2, <1>3, <2>2, OthersSame DEF Base
    <2>3. QED BY <2>1, <2>2
  <1>4. ASSUME (\E c \in Components : Register(c)) \/ UNCHANGED vars, NEW q \in Procs
        PROVE  BootInv(q)'
    BY <1>1, <1>4 DEF Register, vars, appVars, regVars, loopVars, entryVars, Same
  <1>5. QED BY <1>3, <1>4, NextCases

\* Once somebody can have been told that the App runs, a step undoes nothing.
LEMMA LiveStays ==
  ASSUME Base, ShutdownInv, Live, LiveInv, [Next]_vars
  PROVE  state' # "created" /\ Complete'
  <1>1. state # "created" /\ Complete BY DEF LiveInv
  <1>2. state' # "created" /\ registered' = registered BY <1>1, SealedStep DEF Base
  <1>3. ASSUME NEW p \in Procs, StepOf(p), ~Booting(p) PROVE Complete'
    <2>1. /\ UNCHANGED <<started, coldStarted, starts>>
          /\ ~Booting(p)'
      BY <1>1, <1>3, OutsiderStep
    <2>2. NoFailure' BY <1>1, <1>3, NoFailureKept DEF Complete
    <2>3. \A q \in Procs : q # p => Same(q) BY <1>3, OthersSame DEF Base
    <2>4. QED BY <1>1, <1>2, <2>1, <2>2, <2>3 DEF Complete, Booting, Same
  <1>4. ASSUME NEW p \in Procs, StepOf(p), Booting(p), ~Finish(p) PROVE Complete'
    <2>1. pc[p] = "finish" /\ err[p] = "nil" BY <1>1, <1>4 DEF Complete
    <2>2. Cancel(p)
      BY <1>4, <2>1
      DEF StepOf, Call, Ensure, EnsureRunning, EnsureStarting, EnsureCreated, EnsureStopped,
          WaitClosed, WaitCanceled, EnsureReturns, Return, Step, Goto, Fail, Boot, Materialize,
          Publish, CheckStopping, StartServer, StartServerFails, PublishServer, ColdStart,
          RollbackServer, StopServer, RollbackDone, FailStart, SetRunning, Stop, AwaitCtx,
          ShutdownNoop, ShutdownBegin, DrainServer, DrainDone
    <2>3. QED
      BY <1>1, <1>2, <2>2
      DEF Cancel, appVars, chVars, regVars, srvVars, loopVars, Complete, NoFailure, Booting
  <1>5. ASSUME NEW p \in Procs, Booting(p), Finish(p) PROVE Complete'
    <2>1. err[p] = "nil" BY <1>1, <1>5 DEF Complete
    <2>2. /\ UNCHANGED <<started, coldStarted, starts>>
          /\ startErr' = "nil" /\ result'[p] \in {result[p], "nil"} /\ ~Booting(p)'
      BY <1>5, <2>1
      DEF Finish, EnsureReturns, Step, Return, Goto, Booting, BootPCs, regVars, srvVars, Base,
          TypeOK, CallTypeOK
    <2>3. \A q \in Procs : q # p => Same(q)
      BY <1>5, OthersSame DEF StepOf, Boot, Base
    <2>4. NoFailure' BY <1>1, <2>2, <2>3 DEF Complete, NoFailure, Same
    <2>5. QED BY <1>1, <1>2, <2>2, <2>3, <2>4 DEF Complete, Booting, Same
  <1>6. ASSUME (\E c \in Components : Register(c)) \/ UNCHANGED vars PROVE Complete'
    <2>1. UNCHANGED <<started, coldStarted, starts, startErr, result, pc, err>>
      BY <1>6 DEF Register, vars, appVars, chVars, regVars, srvVars, loopVars
    <2>2. QED BY <1>1, <1>2, <2>1 DEF Complete, NoFailure, Booting
  <1>7. QED BY <1>2, <1>3, <1>4, <1>5, <1>6, NextCases

\* Only the last critical section of start lets anybody be told so.
LEMMA LiveBegins ==
  ASSUME Base, ShutdownInv, BootsInv, ~Live, Live', [Next]_vars
  PROVE  \E p \in Procs : SetRunning(p)
  <1> USE DEF Goto, Step, Return, Fail, EnsureReturns
  <1>1. ASSUME NEW p \in Procs, StepOf(p), ~Booting(p) PROVE FALSE
    <2>1. state' = "running" => state = "running" BY <1>1, OutsiderStep
    <2>2. \A q \in Procs : q # p => Same(q) BY <1>1, OthersSame DEF Base
    <2>3. pc'[p] # "finish"
      <3>1. Booting(p)' => pc'[p] = "materialize" BY <1>1, OutsiderStep
      <3>2. QED BY <3>1 DEF Booting, BootPCs
    <2>4. ASSUME Succeeded(p)' PROVE Succeeded(p)
      <3> USE <2>4 DEF Live, Succeeded, Starter, entryVars, Base, TypeOK, CallTypeOK, Ops
      <3>1. CASE Call(p)
        <4>1. result[p] = "none" BY <3>1 DEF Call, ShutdownInv, CallerInv
        <4>2. QED BY <3>1, <4>1 DEF Call
      <3>2. CASE Cancel(p) BY <3>2 DEF Cancel
      <3>3. CASE EnsureRunning(p) \/ EnsureStarting(p) \/ EnsureCreated(p)
        BY <3>3 DEF EnsureRunning, EnsureStarting, EnsureCreated
      <3>4. CASE WaitClosed(p) \/ WaitCanceled(p)
        BY <3>4 DEF WaitClosed, WaitCanceled
      <3>5. CASE EnsureStopped(p) BY <3>5 DEF EnsureStopped
      <3>6. CASE Stop(p)
        BY <3>6
        DEF Stop, AwaitCtx, ShutdownNoop, ShutdownBegin, DrainServer, StopServer, DrainDone
      <3>7. ~Boot(p)
        BY <1>1
        DEF Boot, Materialize, Publish, CheckStopping, StartServer, StartServerFails,
            PublishServer, ColdStart, RollbackServer, StopServer, RollbackDone, FailStart,
            SetRunning, Finish, Booting, BootPCs
      <3>8. QED BY <1>1, <3>1, <3>2, <3>3, <3>4, <3>5, <3>6, <3>7 DEF StepOf, Ensure
    <2>5. QED BY <2>1, <2>2, <2>3, <2>4 DEF Live, Succeeded, Starter, Same
  <1>2. ASSUME NEW p \in Procs, StepOf(p), Booting(p), ~SetRunning(p) PROVE FALSE
    <2>1. \A q \in Procs : q # p => Same(q) BY <1>2, OthersSame DEF Base
    <2>2. /\ state' = "running" => state = "running"
          /\ Succeeded(p)' => Succeeded(p) \/ (pc[p] = "finish" /\ err[p] = "nil")
          /\ pc'[p] = "finish" /\ err'[p] = "nil" => pc[p] = "finish" /\ err[p] = "nil"
      <3> USE <1>2 DEF Succeeded, Starter, Booting, BootPCs, BootsInv, BootInv, appVars, entryVars,
                       loopVars, Base, TypeOK, CallTypeOK, LoopTypeOK, Ops
      <3>1. CASE Cancel(p) BY <3>1 DEF Cancel
      <3>2. CASE Materialize(p) \/ Publish(p) \/ CheckStopping(p)
        BY <3>2 DEF Materialize, Publish, CheckStopping
      <3>3. CASE StartServer(p) \/ StartServerFails(p) \/ PublishServer(p)
        BY <3>3 DEF StartServer, StartServerFails, PublishServer
      <3>4. CASE ColdStart(p) \/ RollbackServer(p) \/ RollbackDone(p)
        BY <3>4 DEF ColdStart, RollbackServer, StopServer, RollbackDone
      <3>5. CASE FailStart(p) BY <3>5 DEF FailStart
      <3>6. CASE Finish(p) BY <3>6 DEF Finish
      <3>7. ~Call(p) /\ ~Ensure(p) /\ ~Stop(p)
        BY DEF Call, Ensure, EnsureRunning, EnsureStarting, EnsureCreated, EnsureStopped,
               WaitClosed, WaitCanceled, Stop, AwaitCtx, ShutdownNoop, ShutdownBegin,
               DrainServer, StopServer, DrainDone
      <3>8. QED BY <3>1, <3>2, <3>3, <3>4, <3>5, <3>6, <3>7 DEF StepOf, Boot
    <2>3. QED BY <2>1, <2>2 DEF Live, Succeeded, Starter, Same
  <1>3. ASSUME (\E c \in Components : Register(c)) \/ UNCHANGED vars PROVE FALSE
    BY <1>3 DEF Register, vars, appVars, loopVars, entryVars, Live, Succeeded, Starter
  <1>4. QED BY <1>1, <1>2, <1>3, NextCases

\* By then the startup is complete.
LEMMA LiveBeginsComplete ==
  ASSUME Base, ServerInv, PendingInv, NEW p \in Procs, BootInv(p), SetRunning(p)
  PROVE  Complete'
  <1> USE DEF SetRunning, Step, Goto
  <1>1. Booting(p) /\ pc[p] \in StraightPCs BY DEF Booting, BootPCs, StraightPCs
  <1>2. /\ err[p] = "nil" /\ local[p] = N /\ coldStarted /\ started = registered
    BY <1>1 DEF BootInv, StraightPCs
  <1>3. UNCHANGED <<starts, coldStarted, started, registered, startErr, result, err>>
    BY DEF chVars, regVars, srvVars, loopVars
  <1>4. ASSUME NEW s \in Servers PROVE starts[s] = 1
    <2>1. WasUp(s) BY <1>2, NAssumption DEF ServerInv, PrefixInv, Servers
    <2>2. starts[s] # 0 BY <2>1 DEF ServerInv, IdleInv, WasUp
    <2>3. starts[s] \in Nat /\ starts[s] <= 1
      BY DEF Base, TypeOK, ServerTypeOK, StartupInv, SingleStartup
    <2>4. QED BY <2>2, <2>3
  <1>5. NoFailure BY <1>1 DEF PendingInv
  <1>6. ASSUME NEW q \in Procs, Booting(q)' PROVE pc'[q] = "finish" /\ err'[q] = "nil"
    <2>1. CASE q = p BY <1>2, <1>3, <2>1 DEF Base, TypeOK, CallTypeOK
    <2>2. CASE q # p
      BY <1>1, <1>6, <2>2 DEF Booting, Base, TypeOK, CallTypeOK, StartupInv, SingleStartup
    <2>3. QED BY <2>1, <2>2
  <1>7. QED BY <1>2, <1>3, <1>4, <1>5, <1>6 DEF Complete, NoFailure

LEMMA SuccessNext ==
  ASSUME Base, ServerInv, ShutdownInv, SuccessInv, [Next]_vars
  PROVE  SuccessInv'
  <1>1. BootsInv' BY BootNext DEF SuccessInv
  <1>2. PendingInv' BY PendingNext DEF SuccessInv
  <1>3. LiveInv'
    <2>1. CASE Live BY <2>1, LiveStays DEF SuccessInv, LiveInv
    <2>2. ASSUME ~Live, Live' PROVE state' # "created" /\ Complete'
      <3>1. PICK p \in Procs : SetRunning(p) BY <2>2, LiveBegins DEF SuccessInv
      <3>2. Complete' BY <3>1, LiveBeginsComplete DEF SuccessInv, BootsInv
      <3>3. QED BY <3>1, <3>2 DEF SetRunning
    <2>3. QED BY <2>1, <2>2 DEF LiveInv
  <1>4. QED BY <1>1, <1>2, <1>3 DEF SuccessInv

-----------------------------------------------------------------------------
ProtocolInv == Base /\ ServerInv /\ ShutdownInv /\ SuccessInv

LEMMA ProtocolHolds == Spec => []ProtocolInv
  <1>1. Spec => [](TypeOK /\ LoopInv) BY TypeCorrect
  <1>2. TypeOK /\ LoopInv /\ Init => StartupInv /\ ServerInv /\ ShutdownInv /\ SuccessInv
    BY StartupInit, ProtocolInit
  <1>3. /\ TypeOK /\ LoopInv /\ (TypeOK /\ LoopInv)'
        /\ StartupInv /\ ServerInv /\ ShutdownInv /\ SuccessInv /\ [Next]_vars
        => (StartupInv /\ ServerInv /\ ShutdownInv /\ SuccessInv)'
    BY StartupNext, ServerNext, ShutdownNext, SuccessNext DEF Base
  <1>4. TypeOK /\ LoopInv /\ StartupInv /\ ServerInv /\ ShutdownInv /\ SuccessInv
        => ProtocolInv
    BY DEF ProtocolInv, Base
  <1>5. QED BY <1>1, <1>2, <1>3, <1>4, PTL DEF Spec

\* A Server is started before it is stopped, once, and stopped only if its
\* Start succeeded, however rollbacks and Shutdowns interleave.
THEOREM ServersProtected == Spec => ServerProtocol
  <1>1. ProtocolInv /\ [Next]_vars =>
          [\A s \in Servers :
             server'[s] # server[s] =>
               \/ server[s] = "idle" /\ server'[s] \in {"up", "failed"}
               \/ server[s] \in {"up", "down", "stuck"} /\ Gone(s)']_server
    BY ServerStep DEF ProtocolInv, WasUp
  <1>2. QED BY <1>1, ProtocolHolds, PTL DEF Spec, ServerProtocol

\* A Shutdown that returned has tried every Server it found started, the ones
\* after a failure included, and reports nil only if all of them stopped.
THEOREM ShutdownComplete == Spec => []ShutdownDrains
  <1>1. ASSUME ProtocolInv PROVE ShutdownDrains
    <2>1. \A p \in Procs : local[p] \in 0..N
      BY <1>1 DEF ProtocolInv, Base, TypeOK, LoopTypeOK
    <2>2. \A p \in Procs : \A s \in 1..local[p] : s \in Servers /\ s <= local[p]
      BY <2>1, NAssumption DEF Servers
    <2>3. \A p \in Procs : DrainInv(p) BY <1>1 DEF ProtocolInv, ShutdownInv
    <2>4. QED BY <2>2, <2>3 DEF ShutdownDrains, DrainInv
  <1>2. QED BY <1>1, ProtocolHolds, PTL

\* Nobody is told that the App runs before all of it does: every Server
\* started, the hooks run, every registration published, and no other caller
\* told that the startup failed.
THEOREM SuccessComplete == Spec => []SuccessMeansStarted
  <1>1. ASSUME ProtocolInv PROVE SuccessMeansStarted
    BY <1>1
    DEF ProtocolInv, SuccessInv, LiveInv, Live, Complete, NoFailure, SuccessMeansStarted
  <1>2. QED BY <1>1, ProtocolHolds, PTL

-----------------------------------------------------------------------------
(***************************************************************************)
(* The refinement of AppContract.  Until a Shutdown catches the App        *)
(* starting, whoever is inside start or drains the servers knows exactly   *)
(* which of them are up.                                                   *)
(***************************************************************************)
PhaseInv ==
  /\ state \in {"created", "stopped"} => Up = {}
  /\ state = "running" => Up = 1..N /\ startedServers = N

PlaceInv(p) ==
  /\ pc[p] \in {"ensure", "wait", "materialize", "publish"} => local[p] = 0
  /\ pc[p] \in {"materialize", "publish"} => state = "starting" /\ Up = {}
  /\ pc[p] \in {"loop", "startServer", "publishServer", "setRunning"} =>
       state = "starting" /\ Up = 1..local[p]
  /\ pc[p] = "rollback" => state = "starting" /\ Up = 1..idx[p]
  /\ pc[p] = "failStart" => state \in {"starting", "stopped"} /\ Up = {}
  /\ pc[p] = "drain" => state = "stopping" /\ Up = 1..idx[p]

OneDrain == \A p, q \in Procs : pc[p] = "drain" /\ pc[q] = "drain" => p = q

ContractInv == PhaseInv /\ OneDrain /\ \A p \in Procs : PlaceInv(p)

AbstractStep == Contract!Next \/ UNCHANGED <<Phase, Up>>

\* What the step of p must show; the others follow (PlaceOthers).
Shown(p) == PhaseInv' /\ PlaceInv(p)' /\ AbstractStep

LEMMA LeavingInsider ==
  ASSUME Base, NEW p \in Procs, StepOf(p), Booting(p)
  PROVE  /\ Leaving <=> pc[p] \in {"rollback", "failStart"}
         /\ Leaving' <=> pc'[p] \in {"rollback", "failStart"}
  <1>1. ASSUME NEW q \in Procs, q # p
        PROVE  /\ pc[q] \notin {"rollback", "failStart"}
               /\ pc'[q] \notin {"rollback", "failStart"}
    <2>1. ~Booting(q) BY <1>1 DEF Base, StartupInv, SingleStartup
    <2>2. pc'[q] = pc[q] BY <1>1, OthersSame DEF Base, Same
    <2>3. QED BY <2>1, <2>2 DEF Booting, BootPCs
  <1>2. QED BY <1>1 DEF Leaving

LEMMA LeavingOutsider ==
  ASSUME Base, ShutdownInv, NEW p \in Procs, StepOf(p), ~Booting(p)
  PROVE  Leaving' <=> Leaving
  <1>1. pc[p] \notin {"rollback", "failStart"} BY DEF Booting, BootPCs
  <1>2. pc'[p] \notin {"rollback", "failStart"}
    BY OutsiderStep DEF Booting, BootPCs
  <1>3. \A q \in Procs : q # p => pc'[q] = pc[q] BY OthersSame DEF Base, Same
  <1>4. QED BY <1>1, <1>2, <1>3 DEF Leaving

\* A step of somebody outside start that leaves the App and its servers alone.
LEMMA OutsiderQuiet ==
  ASSUME ProtocolInv, ContractInv, NEW p \in Procs, StepOf(p), ~Booting(p),
         UNCHANGED <<state, server, startedServers>>, PlaceInv(p)'
  PROVE  Shown(p)
  <1>1. Leaving' <=> Leaving BY LeavingOutsider DEF ProtocolInv
  <1>2. Up' = Up BY DEF Up
  <1>3. QED BY <1>1, <1>2 DEF Shown, AbstractStep, Phase, ContractInv, PhaseInv

LEMMA ContractEnsure ==
  ASSUME ProtocolInv, ContractInv, NEW p \in Procs, Call(p) \/ Cancel(p) \/ Ensure(p), ~Booting(p)
  PROVE  Shown(p)
  <1> USE DEF ContractInv, PlaceInv, ProtocolInv
  <1> USE DEF Step, Return, Goto, EnsureReturns, appVars, srvVars, loopVars, Base, TypeOK,
              CallTypeOK
  <1>1. CASE ~EnsureCreated(p)
    <2>1. UNCHANGED <<state, server, startedServers>>
      BY <1>1
      DEF Call, Cancel, Ensure, EnsureRunning, EnsureStarting, EnsureStopped, WaitClosed,
          WaitCanceled
    <2>2. UNCHANGED <<local, idx>> /\ Up' = Up
      BY <1>1, <2>1
      DEF Call, Cancel, Ensure, EnsureRunning, EnsureStarting, EnsureStopped, WaitClosed,
          WaitCanceled, Up
    <2>3. /\ pc'[p] \in {pc[p], "ensure", "wait", "shutdown", "awaitCtx", "done"}
          /\ pc'[p] \in {"ensure", "wait"} => pc[p] \in {"idle", "ensure", "wait"}
      BY <1>1
      DEF Call, Cancel, Ensure, EnsureRunning, EnsureStarting, EnsureStopped, WaitClosed,
          WaitCanceled
    <2>4. pc[p] = "idle" => local[p] = 0 BY DEF ShutdownInv, CallerInv
    <2>5. PlaceInv(p)' BY <2>1, <2>2, <2>3, <2>4
    <2>6. QED BY <2>1, <2>5, OutsiderQuiet DEF StepOf
  <1>2. CASE EnsureCreated(p)
    <2>1. /\ state = "created" /\ state' = "starting" /\ pc'[p] = "materialize"
          /\ pc[p] = "ensure" /\ UNCHANGED <<server, local>>
      BY <1>2 DEF EnsureCreated, Claim
    <2>2. Up = {} /\ Up' = Up BY <2>1 DEF PhaseInv, Up
    <2>3. PhaseInv' BY <2>1 DEF PhaseInv
    <2>4. PlaceInv(p)' BY <2>1, <2>2
    <2>5. ~Leaving
      BY <2>1 DEF StartupInv, CreatedInv, Leaving, Booting, BootPCs
    <2>6. ~Leaving' BY <2>5, LeavingOutsider DEF StepOf
    <2>7. Contract!Begin BY <2>1, <2>2, <2>6 DEF Contract!Begin, Phase
    <2>8. QED BY <2>3, <2>4, <2>7 DEF Shown, AbstractStep, Contract!Next
  <1>3. QED BY <1>1, <1>2

\* Stopping one of the servers that are up, from the last.
LEMMA TakesDown ==
  ASSUME ProtocolInv, NEW p \in Procs, RollbackServer(p) \/ DrainServer(p), Up = 1..idx[p],
         Phase = "stopping", Phase' = Phase
  PROVE  Up' = 1..idx'[p] /\ Contract!Next
  <1>1. /\ idx[p] \in Servers
        /\ server'[idx[p]] \in {"down", "stuck"}
        /\ \A s \in Servers : s # idx[p] => server'[s] = server[s]
        /\ idx'[p] = idx[p] - 1
    BY StopFacts DEF ProtocolInv
  <1>2. Up' = {s \in Servers : s # idx[p] /\ server[s] = "up"} BY <1>1 DEF Up
  <1>3. Up' = {s \in 1..idx[p] : s # idx[p]} BY <1>2 DEF Up
  <1>4. Up' = 1..(idx[p] - 1) BY <1>1, <1>3, NAssumption DEF Servers
  <1>5. Contract!TakeDown(idx[p]) BY <1>4 DEF Contract!TakeDown
  <1>6. QED BY <1>1, <1>4, <1>5 DEF Contract!Next, Servers

LEMMA ContractStop ==
  ASSUME ProtocolInv, ContractInv, NEW p \in Procs, Stop(p), ~Booting(p), ~raced'
  PROVE  Shown(p)
  <1> USE DEF ContractInv, PlaceInv, ProtocolInv
  <1> USE DEF Step, Return, Goto, appVars, srvVars, loopVars, Base, TypeOK, CallTypeOK
  <1>1. CASE AwaitCtx(p) \/ (ShutdownNoop(p) /\ state # "created")
    <2>1. UNCHANGED <<state, server, startedServers, local, idx>>
      BY <1>1 DEF AwaitCtx, ShutdownNoop
    <2>2. pc'[p] \in {"shutdown", "done"} BY <1>1 DEF AwaitCtx, ShutdownNoop
    <2>3. QED BY <2>1, <2>2, OutsiderQuiet DEF StepOf
  <1>2. CASE ShutdownNoop(p) /\ state = "created"
    <2>1. state' = "stopped" /\ UNCHANGED server /\ pc'[p] = "done" BY <1>2 DEF ShutdownNoop
    <2>2. Up = {} /\ Up' = {} BY <1>2, <2>1 DEF PhaseInv, Up
    <2>3. Contract!Begin BY <1>2, <2>1, <2>2 DEF Contract!Begin, Phase
    <2>4. QED
      BY <2>1, <2>2, <2>3 DEF Shown, AbstractStep, Contract!Next, PhaseInv
  <1>3. CASE ShutdownBegin(p)
    <2>1. /\ state = "running" /\ state' = "stopping" /\ UNCHANGED server
          /\ pc'[p] = "drain" /\ idx'[p] = startedServers
      BY <1>3 DEF ShutdownBegin, LoopTypeOK
    <2>2. Up' = Up /\ Up = 1..N /\ startedServers = N BY <2>1 DEF PhaseInv, Up
    <2>3. Contract!Leave BY <2>1, <2>2 DEF Contract!Leave, Phase
    <2>4. QED
      BY <2>1, <2>2, <2>3 DEF Shown, AbstractStep, Contract!Next, PhaseInv
  <1>4. CASE DrainServer(p)
    <2>1. pc[p] = "drain" /\ pc' = pc /\ state' = state /\ state = "stopping" /\ Up = 1..idx[p]
      BY <1>4 DEF DrainServer, StopServer
    <2>2. Phase = "stopping" /\ Phase' = Phase BY <2>1 DEF Phase
    <2>3. Up' = 1..idx'[p] /\ Contract!Next BY <1>4, <2>1, <2>2, TakesDown
    <2>4. QED BY <2>1, <2>3 DEF Shown, AbstractStep, PhaseInv
  <1>5. CASE DrainDone(p)
    <2>1. /\ pc[p] = "drain" /\ idx[p] = 0 /\ pc'[p] = "done" /\ state' = "stopped"
          /\ state = "stopping" /\ Up = 1..idx[p] /\ UNCHANGED server
      BY <1>5 DEF DrainDone
    <2>2. Up = {} /\ Up' = {} BY <2>1 DEF Up
    <2>3. Contract!Rest BY <2>1, <2>2 DEF Contract!Rest, Phase
    <2>4. QED
      BY <2>1, <2>2, <2>3 DEF Shown, AbstractStep, Contract!Next, PhaseInv
  <1>6. QED BY <1>1, <1>2, <1>3, <1>4, <1>5 DEF Stop

LEMMA ContractBoot ==
  ASSUME ProtocolInv, ContractInv, NEW p \in Procs, Boot(p), Booting(p)
  PROVE  Shown(p)
  <1> USE DEF ContractInv, PlaceInv, ProtocolInv
  <1> USE DEF Step, Return, Goto, Fail, EnsureReturns, appVars, srvVars, loopVars, Base, TypeOK,
              CallTypeOK
  <1>1. /\ Leaving <=> pc[p] \in {"rollback", "failStart"}
        /\ Leaving' <=> pc'[p] \in {"rollback", "failStart"}
    BY LeavingInsider DEF StepOf
  <1>2. /\ UNCHANGED server => Up' = Up
        /\ UNCHANGED <<server, state, startedServers>> => PhaseInv'
    BY DEF Up, PhaseInv
  <1>3. CASE Materialize(p)
    <2>1. /\ pc[p] = "materialize" /\ pc'[p] \in {"publish", "failStart"} /\ state = "starting"
          /\ UNCHANGED <<server, state, startedServers, local>> /\ Up = {}
      BY <1>3 DEF Materialize
    <2>2. UNCHANGED <<Phase, Up>> \/ Contract!Leave
      BY <1>1, <1>2, <2>1 DEF Phase, Contract!Leave
    <2>3. QED BY <1>2, <2>1, <2>2 DEF Shown, AbstractStep, Contract!Next
  <1>4. CASE Publish(p)
    <2>1. /\ pc[p] = "publish" /\ pc'[p] = "loop" /\ state = "starting" /\ local[p] = 0
          /\ UNCHANGED <<server, state, startedServers, local>> /\ Up = {}
      BY <1>4 DEF Publish
    <2>2. Up' = 1..local'[p] BY <1>2, <2>1
    <2>3. QED BY <1>1, <1>2, <2>1, <2>2 DEF Shown, AbstractStep, Phase
  <1>5. CASE CheckStopping(p)
    <2>1. /\ pc[p] = "loop" /\ state = "starting" /\ pc'[p] = "startServer"
          /\ UNCHANGED <<server, state, startedServers, local>>
      BY <1>5 DEF CheckStopping
    <2>2. QED BY <1>1, <1>2, <2>1 DEF Shown, AbstractStep, Phase
  <1>6. CASE StartServer(p) \/ StartServerFails(p)
    <2> DEFINE s == local[p] + 1
    <2>1. /\ pc[p] = "startServer" /\ UNCHANGED <<state, startedServers>>
          /\ state = "starting" /\ Up = 1..local[p]
      BY <1>6 DEF StartServer, StartServerFails
    <2>2. /\ s \in Servers /\ server[s] = "idle"
          /\ \/ /\ server' = [server EXCEPT ![s] = "up"]
                /\ local' = [local EXCEPT ![p] = s] /\ pc'[p] = "publishServer"
             \/ /\ server' = [server EXCEPT ![s] = "failed"]
                /\ local' = local /\ pc'[p] = "rollback" /\ idx'[p] = local[p]
      BY <1>6, StartFacts
    <2>3. local[p] \in Nat /\ server \in [Servers -> {"idle", "up", "failed", "down", "stuck"}]
          /\ local \in [Procs -> 0..N]
      BY NAssumption DEF LoopTypeOK, ServerTypeOK
    <2>4. CASE pc'[p] = "publishServer"
      <3>1. /\ server' = [server EXCEPT ![s] = "up"]
            /\ local'[p] = s
        BY <2>2, <2>3, <2>4
      <3>2. Up' = Up \cup {s} BY <2>2, <2>3, <3>1 DEF Up
      <3>3. Up' = 1..s BY <2>1, <2>3, <3>2
      <3>4. Contract!BringUp(s)
        <4>1. s - 1 = local[p] BY <2>3
        <4>2. QED BY <1>1, <2>1, <2>4, <3>3, <4>1 DEF Contract!BringUp, Phase
      <3>5. Contract!Next BY <2>2, <3>4 DEF Contract!Next, Servers
      <3>6. PhaseInv' BY <2>1 DEF PhaseInv
      <3>7. QED BY <2>1, <2>4, <3>1, <3>3, <3>5, <3>6 DEF Shown, AbstractStep
    <2>5. CASE pc'[p] = "rollback"
      <3>1. /\ server' = [server EXCEPT ![s] = "failed"]
            /\ local' = local /\ idx'[p] = local[p]
        BY <2>2, <2>5
      <3>2. Up' = Up BY <2>2, <2>3, <3>1 DEF Up
      <3>3. Contract!Leave BY <1>1, <2>1, <2>5, <3>2 DEF Contract!Leave, Phase
      <3>4. PhaseInv' BY <2>1 DEF PhaseInv
      <3>5. QED
        BY <2>1, <2>5, <3>1, <3>2, <3>3, <3>4 DEF Shown, AbstractStep, Contract!Next
    <2>6. QED BY <2>2, <2>4, <2>5
  <1>7. CASE PublishServer(p)
    <2>1. /\ pc[p] = "publishServer" /\ state = "starting" /\ pc'[p] = "loop"
          /\ UNCHANGED <<server, state, local>>
      BY <1>7 DEF PublishServer
    <2>2. QED BY <1>1, <1>2, <2>1 DEF Shown, AbstractStep, Phase, PhaseInv
  <1>8. CASE ColdStart(p)
    <2>1. /\ pc[p] = "loop" /\ state = "starting" /\ Up = 1..local[p]
          /\ UNCHANGED <<server, state, startedServers, local>>
          /\ pc'[p] = "setRunning" \/ (pc'[p] = "rollback" /\ idx'[p] = local[p])
      BY <1>8 DEF ColdStart, RollbackFrom, LoopTypeOK
    <2>2. UNCHANGED <<Phase, Up>> \/ Contract!Leave
      BY <1>1, <1>2, <2>1 DEF Phase, Contract!Leave
    <2>3. QED BY <1>2, <2>1, <2>2 DEF Shown, AbstractStep, Contract!Next
  <1>9. CASE RollbackServer(p)
    <2>1. pc[p] = "rollback" /\ pc' = pc /\ state' = state /\ state = "starting" /\ Up = 1..idx[p]
      BY <1>9 DEF RollbackServer, StopServer
    <2>2. Phase = "stopping" /\ Phase' = Phase BY <1>1, <2>1 DEF Phase
    <2>3. Up' = 1..idx'[p] /\ Contract!Next BY <1>9, <2>1, <2>2, TakesDown
    <2>4. QED BY <2>1, <2>3 DEF Shown, AbstractStep, PhaseInv
  <1>10. CASE RollbackDone(p) \/ FailStart(p)
    <2>1. /\ pc[p] \in {"rollback", "failStart"} /\ pc'[p] \in {"failStart", "finish"}
          /\ state' = "stopped" /\ state \in {"starting", "stopped"}
          /\ UNCHANGED server /\ (Up = {} \/ Up = 1..0)
      BY <1>10 DEF RollbackDone, FailStart
    <2>2. Up = {} /\ Up' = {} BY <1>2, <2>1
    <2>3. UNCHANGED <<Phase, Up>> \/ Contract!Rest
      BY <1>1, <2>1, <2>2 DEF Phase, Contract!Rest
    <2>4. QED
      BY <2>1, <2>2, <2>3 DEF Shown, AbstractStep, Contract!Next, PhaseInv
  <1>11. CASE SetRunning(p)
    <2>1. /\ pc[p] = "setRunning" /\ pc'[p] = "finish" /\ state = "starting" /\ state' = "running"
          /\ startedServers' = local[p] /\ UNCHANGED server /\ Up = 1..local[p]
      BY <1>11 DEF SetRunning
    <2>2. local[p] = N BY <2>1 DEF SuccessInv, BootsInv, BootInv
    <2>3. Contract!BecomeReady
      BY <1>1, <1>2, <2>1, <2>2 DEF Contract!BecomeReady, Phase
    <2>4. QED
      BY <1>2, <2>1, <2>2, <2>3 DEF Shown, AbstractStep, Contract!Next, PhaseInv
  <1>12. CASE Finish(p)
    <2>1. /\ pc[p] = "finish" /\ pc'[p] \in {"awaitCtx", "done"}
          /\ UNCHANGED <<server, state, startedServers, local, idx>>
      BY <1>12 DEF Finish
    <2>2. QED BY <1>1, <1>2, <2>1 DEF Shown, AbstractStep, Phase
  <1>13. QED
    BY <1>3, <1>4, <1>5, <1>6, <1>7, <1>8, <1>9, <1>10, <1>11, <1>12 DEF Boot

\* A step that leaves alone whatever the contract is about.
LEMMA ContractQuiet ==
  ASSUME ContractInv, UNCHANGED <<state, server, startedServers, pc, local, idx>>
  PROVE  ContractInv' /\ UNCHANGED <<Phase, Up>>
  <1>1. UNCHANGED <<Phase, Up>> BY DEF Phase, Leaving, Up
  <1>2. QED BY <1>1 DEF ContractInv, PhaseInv, OneDrain, PlaceInv

\* Who may touch the App or its servers: the one inside start, the one that
\* drains, and whoever finds the App created or running.
LEMMA Movers ==
  ASSUME NEW p \in Procs, StepOf(p), ~raced', ~UNCHANGED <<state, server>>
  PROVE  pc[p] \in (BootPCs \ {"finish"}) \cup {"drain"} \/ state \in {"created", "running"}
  <1> USE DEF Step, Return, Goto, Fail, EnsureReturns, appVars, srvVars
  <1>1. CASE Call(p) \/ Cancel(p) BY <1>1 DEF Call, Cancel
  <1>2. CASE Ensure(p)
    BY <1>2
    DEF Ensure, EnsureRunning, EnsureStarting, EnsureCreated, EnsureStopped, WaitClosed,
        WaitCanceled
  <1>3. CASE Boot(p)
    BY <1>3
    DEF Boot, Materialize, Publish, CheckStopping, StartServer, StartServerFails, PublishServer,
        ColdStart, RollbackServer, StopServer, RollbackDone, FailStart, SetRunning, Finish, BootPCs
  <1>4. CASE Stop(p)
    BY <1>4 DEF Stop, AwaitCtx, ShutdownNoop, ShutdownBegin, DrainServer, DrainDone, StopServer
  <1>5. QED BY <1>1, <1>2, <1>3, <1>4 DEF StepOf

\* The others are not at a place that the step of p falsifies.
LEMMA PlaceOthers ==
  ASSUME ProtocolInv, ContractInv, NEW p \in Procs, StepOf(p), ~raced', NEW q \in Procs, q # p
  PROVE  PlaceInv(q)'
  <1>1. Same(q) BY OthersSame DEF ProtocolInv, Base
  <1>2. PlaceInv(p) /\ PlaceInv(q) BY DEF ContractInv
  <1>3. CASE UNCHANGED <<state, server>>
    <2>1. Up' = Up BY <1>3 DEF Up
    <2>2. QED BY <1>1, <1>2, <1>3, <2>1 DEF PlaceInv, Same
  <1>4. CASE ~UNCHANGED <<state, server>>
    <2>1. pc[p] \in (BootPCs \ {"finish"}) \cup {"drain"} \/ state \in {"created", "running"}
      BY <1>4, Movers
    <2>2. ~(Booting(p) /\ Booting(q)) BY DEF ProtocolInv, Base, StartupInv, SingleStartup
    <2>3. ~(pc[p] = "drain" /\ pc[q] = "drain") BY DEF ContractInv, OneDrain
    <2>4. pc[q] \notin (BootPCs \ {"finish"}) \cup {"drain"}
      BY <1>2, <2>1, <2>2, <2>3 DEF PlaceInv, Booting, BootPCs
    <2>5. QED BY <1>1, <1>2, <2>4 DEF PlaceInv, Same, BootPCs
  <1>5. QED BY <1>3, <1>4

LEMMA DrainOnce ==
  ASSUME ProtocolInv, ContractInv, NEW p \in Procs, StepOf(p), ~raced'
  PROVE  OneDrain'
  <1>1. pc'[p] = "drain" => pc[p] = "drain" \/ state = "running"
    <2> USE DEF Step, Return, Goto, Fail, EnsureReturns, ProtocolInv, Base, TypeOK, CallTypeOK
    <2>1. CASE Call(p) \/ Cancel(p) BY <2>1 DEF Call, Cancel
    <2>2. CASE Ensure(p)
      BY <2>2
      DEF Ensure, EnsureRunning, EnsureStarting, EnsureCreated, EnsureStopped, WaitClosed,
          WaitCanceled
    <2>3. CASE Boot(p)
      BY <2>3
      DEF Boot, Materialize, Publish, CheckStopping, StartServer, StartServerFails,
          PublishServer, ColdStart, RollbackServer, StopServer, RollbackDone, FailStart,
          SetRunning, Finish
    <2>4. CASE Stop(p)
      BY <2>4 DEF Stop, AwaitCtx, ShutdownNoop, ShutdownBegin, DrainServer, DrainDone, StopServer
    <2>5. QED BY <2>1, <2>2, <2>3, <2>4 DEF StepOf
  <1>2. \A q \in Procs : q # p => pc'[q] = pc[q] BY OthersSame DEF ProtocolInv, Base, Same
  <1>3. \A q \in Procs : pc[q] = "drain" => state # "running" BY DEF ContractInv, PlaceInv
  <1>4. QED BY <1>1, <1>2, <1>3 DEF ContractInv, OneDrain

LEMMA ContractStepOf ==
  ASSUME ProtocolInv, ContractInv, NEW p \in Procs, StepOf(p), ~raced'
  PROVE  ContractInv' /\ AbstractStep
  <1>1. CASE Cancel(p)
    BY <1>1, ContractQuiet DEF Cancel, appVars, srvVars, loopVars, AbstractStep
  <1>2. CASE ~Cancel(p)
    <2>1. Booting(p) <=> Boot(p)
      <3>1. Boot(p) => Booting(p)
        BY DEF Boot, Materialize, Publish, CheckStopping, StartServer, StartServerFails,
               PublishServer, ColdStart, RollbackServer, StopServer, RollbackDone, FailStart,
               SetRunning, Finish, Step, Return, Goto, Fail, EnsureReturns, Booting, BootPCs
      <3>2. Call(p) \/ Ensure(p) => ~Booting(p)
        BY DEF Call, Ensure, EnsureRunning, EnsureStarting, EnsureCreated, EnsureStopped,
               WaitClosed, WaitCanceled, Step, Return, Goto, EnsureReturns, Booting, BootPCs
      <3>3. Stop(p) => ~Booting(p)
        BY DEF Stop, AwaitCtx, ShutdownNoop, ShutdownBegin, DrainServer, DrainDone, StopServer,
               Step, Return, Goto, Booting, BootPCs
      <3>4. QED BY <1>2, <3>1, <3>2, <3>3 DEF StepOf
    <2>2. Shown(p) BY <1>2, <2>1, ContractBoot, ContractEnsure, ContractStop DEF StepOf
    <2>3. \A q \in Procs : q # p => PlaceInv(q)' BY PlaceOthers
    <2>4. QED BY <2>2, <2>3, DrainOnce DEF Shown, ContractInv
  <1>3. QED BY <1>1, <1>2

\* The contract once void stays void.
LEMMA StaysVoid ==
  ASSUME [Next]_vars, raced
  PROVE  raced'
  <1> USE DEF appVars, srvVars
  <1>1. ASSUME NEW p \in Procs, Call(p) \/ Cancel(p) \/ Ensure(p) PROVE raced'
    BY <1>1
    DEF Call, Cancel, Ensure, EnsureRunning, EnsureStarting, EnsureCreated, EnsureStopped,
        WaitClosed, WaitCanceled
  <1>2. ASSUME NEW p \in Procs, Boot(p) PROVE raced'
    BY <1>2
    DEF Boot, Materialize, Publish, CheckStopping, StartServer, StartServerFails, PublishServer,
        ColdStart, RollbackServer, StopServer, RollbackDone, FailStart, SetRunning, Finish
  <1>3. ASSUME NEW p \in Procs, Stop(p) PROVE raced'
    BY <1>3 DEF Stop, AwaitCtx, ShutdownNoop, ShutdownBegin, DrainServer, DrainDone, StopServer
  <1>4. ASSUME (\E c \in Components : Register(c)) \/ UNCHANGED vars PROVE raced'
    BY <1>4 DEF Register, vars
  <1>5. QED BY <1>1, <1>2, <1>3, <1>4, NextCases DEF StepOf

LEMMA ContractNext ==
  ASSUME ProtocolInv, ProtocolInv', raced \/ ContractInv, [Next]_vars
  PROVE  /\ (raced \/ ContractInv)'
         /\ [Contract!Next \/ raced']_<<Phase, Up, raced>>
  <1>1. CASE raced' BY <1>1
  <1>2. CASE ~raced'
    <2>1. ContractInv /\ ~raced BY <1>2, StaysVoid
    <2>2. raced' = raced
      BY <1>2, <2>1 DEF ProtocolInv, Base, TypeOK, AppTypeOK
    <2>3. ContractInv' /\ AbstractStep
      <3>1. ASSUME NEW p \in Procs, StepOf(p) PROVE ContractInv' /\ AbstractStep
        BY <1>2, <2>1, <3>1, ContractStepOf
      <3>2. ASSUME (\E c \in Components : Register(c)) \/ UNCHANGED vars
            PROVE  ContractInv' /\ AbstractStep
        BY <2>1, <3>2, ContractQuiet
        DEF Register, vars, appVars, srvVars, loopVars, AbstractStep
      <3>3. QED BY <3>1, <3>2, NextCases
    <2>4. QED BY <2>2, <2>3 DEF AbstractStep
  <1>3. QED BY <1>1, <1>2

LEMMA ContractInit == Init => ContractInv /\ Contract!Init
  <1> SUFFICES ASSUME Init PROVE ContractInv /\ Contract!Init OBVIOUS
  <1>1. Up = {} BY DEF Init, Up
  <1>2. QED
    BY <1>1 DEF Init, ContractInv, PhaseInv, OneDrain, PlaceInv, Contract!Init, Phase

\* The App keeps the contract its callers rely on, whatever N is and however
\* many of them there are: servers up in order, the App running only with all
\* of them, down in reverse, stopped only with none and for good, until a
\* Shutdown meets a startup in progress.
THEOREM KeepsContract == Spec => ImplementsContract
  <1>1. Init => (raced \/ ContractInv) /\ Contract!Init BY ContractInit
  <1>2. ProtocolInv /\ ProtocolInv' /\ (raced \/ ContractInv) /\ [Next]_vars
          => (raced \/ ContractInv)' /\ [Contract!Next \/ raced']_<<Phase, Up, raced>>
    BY ContractNext
  <1>3. QED BY <1>1, <1>2, ProtocolHolds, PTL DEF Spec, ImplementsContract, Contract!Spec, Contract!vars
=============================================================================
