----------------------------- MODULE WorkflowRun -----------------------------
(***************************************************************************)
(* One run of a workflow chain (pkg/workflow/chain.go): its steps with     *)
(* their retries and transitions, the cancellation of its context, and the *)
(* lifecycle events it appends to the history and shows to the hooks.      *)
(*                                                                         *)
(* The steps, the history sink, the retry timer and the hooks are calls    *)
(* out of the chain; the context may end between any two of them.  Events  *)
(* are modelled by their kind; the last one each reader saw is kept.       *)
(* The builder rejects an empty chain, so the code after the loop of Run   *)
(* (a chain that has no step to run) is not modelled.                      *)
(***************************************************************************)
EXTENDS Naturals

CONSTANTS
  N,               \* number of steps
  MaxRetries       \* largest MaxRetries of a FixedRetryPolicy

ASSUME NAssumption == N \in Nat \ {0}
ASSUME RetriesAssumption == MaxRetries \in Nat

VARIABLES
  stepRetry,   \* the retry policy of each step (WithStepRetry)
  chainRetry,  \* and of the chain
  ctxDone,     \* has the context of the run ended?
  pc,          \* where Run is
  ret,         \* where it goes on after the event being emitted
  event,       \* that event, or history entry
  idx,         \* currentStepIndex + 1
  attempt,
  next,        \* result.Next of the step that succeeded
  stepErr,     \* the error of the step that failed
  status,      \* completed, or suspended once there is a checkpoint
  retErr,
  hist,        \* the last entry in the history
  hooks,       \* the last event the hooks observed
  lost         \* has an append to the history failed?

cfgVars  == <<stepRetry, chainRetry>>
emitVars == <<pc, ret, event>>
stepVars == <<idx, attempt, next, stepErr>>
seenVars == <<hist, hooks, lost>>
vars == <<cfgVars, ctxDone, emitVars, stepVars, status, retErr, seenVars>>

Steps    == 1..N
NoPolicy == [max |-> 0, delay |-> "none"]
Policies == {NoPolicy} \cup [max : 0..MaxRetries, delay : {"zero", "positive"}]

\* What a step may return as Next: nothing, a step, the end, a suspension, or
\* a combination or name that resolveNext rejects.
Transitions == [kind : {"default", "end", "suspend", "invalid"}, to : {0}]
               \cup [kind : {"step"}, to : Steps]

Kinds     == {"started", "step_started", "step_ended", "error", "retry_scheduled",
              "suspended", "finished", "ended"}
Statuses  == {"completed", "suspended", "failed", "canceled"}
Entries   == [kind : Kinds, step : 0..N, attempt : 0..(MaxRetries + 1), status : Statuses]
NoEntry   == [kind |-> "none", step |-> 0, attempt |-> 0, status |-> "none"]
Errors    == {"nil", "failed", "canceled", "transition", "history"}
Points    == {"start", "check", "attempt", "run", "retry", "wait", "resolve", "finish",
              "append", "hooks", "ending", "done"}

TypeOK ==
  /\ stepRetry \in [Steps -> Policies] /\ chainRetry \in Policies
  /\ ctxDone \in BOOLEAN
  /\ pc \in Points /\ ret \in Points
  /\ {event, hist, hooks} \subseteq Entries \cup {NoEntry}
  /\ idx \in Steps
  /\ attempt \in 0..(MaxRetries + 1)
  /\ next \in Transitions
  /\ stepErr \in Errors /\ retErr \in Errors
  /\ status \in Statuses
  /\ lost \in BOOLEAN

Init ==
  /\ stepRetry \in [Steps -> Policies] /\ chainRetry \in Policies
  /\ ctxDone = FALSE
  /\ pc = "start" /\ ret = "start" /\ event = NoEntry
  /\ idx = 1 /\ attempt = 0 /\ next = [kind |-> "default", to |-> 0] /\ stepErr = "nil"
  /\ status = "completed"
  /\ retErr = "nil"
  /\ hist = NoEntry /\ hooks = NoEntry /\ lost = FALSE

-----------------------------------------------------------------------------
Go(to) == pc' = to /\ UNCHANGED <<ret, event>>

\* emitLifecycle, and then to: AppendEntry and Hooks carry it out.  The entry
\* of a step carries its name and attempt; those of the run do not.
Emit(kind, st, to) ==
  /\ pc' = "append"
  /\ event' = [kind |-> kind, step |-> 0, attempt |-> 0, status |-> st]
  /\ ret' = to

EmitStep(kind, st, to) ==
  /\ pc' = "append"
  /\ event' = [kind |-> kind, step |-> idx, attempt |-> attempt, status |-> st]
  /\ ret' = to

\* return Response{}, e: the deferred function comes next.
Fail(e) == retErr' = e /\ Go("ending")

\* retry_scheduled and suspended are history entries without an event.
EntryOnly == event.kind \in {"retry_scheduled", "suspended"}

AppendEntry ==
  /\ pc = "append"
  /\ hist' = event
  /\ Go(IF EntryOnly THEN ret ELSE "hooks")
  /\ UNCHANGED <<cfgVars, ctxDone, stepVars, status, retErr, hooks, lost>>

\* The append failed: the run fails, and its hooks do not see the event.  For
\* the last event this happens inside the deferred function.
KeepResult  == retErr   \* mutant: the failure of the last append is dropped
SpoilResult == IF retErr = "nil" THEN "history" ELSE retErr

AppendFails ==
  /\ pc = "append"
  /\ lost' = TRUE
  /\ IF event.kind = "ended"
     THEN retErr' = SpoilResult /\ Go("done")
     ELSE Fail("history")
  /\ UNCHANGED <<cfgVars, ctxDone, stepVars, status, hist, hooks>>

Hooks ==
  /\ pc = "hooks"
  /\ hooks' = event
  /\ Go(ret)
  /\ UNCHANGED <<cfgVars, ctxDone, stepVars, status, retErr, hist, lost>>

-----------------------------------------------------------------------------
Start ==
  /\ pc = "start"
  /\ Emit("started", "completed", "check")
  /\ UNCHANGED <<cfgVars, ctxDone, stepVars, status, retErr, seenVars>>

\* The head of the loop over the steps.
NeverCanceled == FALSE     \* mutant: the head of the loop does not look
Canceled      == ctxDone

KeepAttempt  == attempt + 1   \* mutant: attempts are counted over all steps
FirstAttempt == 1

CheckContext ==
  /\ pc = "check"
  /\ IF Canceled
     THEN Fail("canceled") /\ UNCHANGED attempt
     ELSE Go("attempt") /\ attempt' = FirstAttempt /\ UNCHANGED retErr
  /\ UNCHANGED <<cfgVars, ctxDone, idx, next, stepErr, status, seenVars>>

StartAttempt ==
  /\ pc = "attempt"
  /\ EmitStep("step_started", "completed", "run")
  /\ UNCHANGED <<cfgVars, ctxDone, stepVars, status, retErr, seenVars>>

StepSucceeds ==
  /\ pc = "run"
  /\ next' \in Transitions
  /\ EmitStep("step_ended", "completed", "resolve")
  /\ UNCHANGED <<cfgVars, ctxDone, idx, attempt, stepErr, status, retErr, seenVars>>

\* A step that returns a context error counts as canceled, whose ever it is.
StepFails ==
  /\ pc = "run"
  /\ stepErr' \in {"failed", "canceled"}
  /\ EmitStep("error", "failed", "retry")
  /\ UNCHANGED <<cfgVars, ctxDone, idx, attempt, next, status, retErr, seenVars>>

\* effectiveRetry: the step's own policy wins, even one that forbids retries.
Effective == IF stepRetry[idx] # NoPolicy THEN stepRetry[idx] ELSE chainRetry

\* FixedRetryPolicy.Next.
NextAllowsOneMore(p, a) == p.max > 0 /\ a <= p.max + 1   \* mutant
NextAllows(p, a)        == p.max > 0 /\ a <= p.max

Retry ==
  /\ pc = "retry"
  /\ Effective # NoPolicy
  /\ NextAllows(Effective, attempt)
  /\ EmitStep("retry_scheduled", "failed", "wait")
  /\ UNCHANGED <<cfgVars, ctxDone, stepVars, status, retErr, seenVars>>

GiveUp ==
  /\ pc = "retry"
  /\ Effective = NoPolicy \/ ~NextAllows(Effective, attempt)
  /\ Fail(stepErr)
  /\ UNCHANGED <<cfgVars, ctxDone, stepVars, status, seenVars>>

\* waitForRetry: the timer, or no wait at all for a zero delay.
TryAgain ==
  /\ pc = "wait"
  /\ Go("attempt")
  /\ attempt' = attempt + 1
  /\ UNCHANGED <<cfgVars, ctxDone, idx, next, stepErr, status, retErr, seenVars>>

\* Mutant: the canceled wait goes on with the retry it was waiting for.
WaitGoesOn ==
  /\ pc = "wait"
  /\ Effective.delay = "positive" /\ ctxDone
  /\ retErr' = "canceled"
  /\ Go("attempt")
  /\ UNCHANGED <<cfgVars, ctxDone, stepVars, status, seenVars>>

WaitCanceled ==
  /\ pc = "wait"
  /\ Effective.delay = "positive" /\ ctxDone
  /\ Fail("canceled")
  /\ UNCHANGED <<cfgVars, ctxDone, stepVars, status, seenVars>>

-----------------------------------------------------------------------------
(* resolveNext, after a step that succeeded. *)

\* Where the run goes on: the chosen step, the next one, or past the last.
Target == IF next.kind = "step" THEN next.to ELSE idx + 1

Rejected ==
  /\ pc = "resolve" /\ next.kind = "invalid"
  /\ Fail("transition")
  /\ UNCHANGED <<cfgVars, ctxDone, stepVars, status, seenVars>>

Suspend ==
  /\ pc = "resolve" /\ next.kind = "suspend"
  /\ status' = "suspended"
  /\ EmitStep("suspended", "suspended", "finish")
  /\ UNCHANGED <<cfgVars, ctxDone, stepVars, retErr, seenVars>>

Continue ==
  /\ pc = "resolve" /\ next.kind \in {"step", "default"}
  /\ Target \in Steps
  /\ idx' = Target
  /\ Go("check")
  /\ UNCHANGED <<cfgVars, ctxDone, attempt, next, stepErr, status, retErr, seenVars>>

Complete ==
  /\ pc = "resolve"
  /\ next.kind = "end" \/ (next.kind = "default" /\ Target > N)
  /\ Go("finish")
  /\ UNCHANGED <<cfgVars, ctxDone, stepVars, status, retErr, seenVars>>

FinishRun ==
  /\ pc = "finish"
  /\ Emit("finished", status, "ending")
  /\ UNCHANGED <<cfgVars, ctxDone, stepVars, status, retErr, seenVars>>

\* endStatus, and what the caller is told: a context error is a cancellation.
EndStatusLoose == IF retErr = "nil" THEN status ELSE "failed"   \* mutant
EndStatus ==
  CASE retErr = "nil"      -> status
    [] retErr = "canceled" -> "canceled"
    [] OTHER               -> "failed"

\* The deferred function.
EndRun ==
  /\ pc = "ending"
  /\ Emit("ended", EndStatus, "done")
  /\ UNCHANGED <<cfgVars, ctxDone, stepVars, status, retErr, seenVars>>

-----------------------------------------------------------------------------
Run ==
  \/ Start \/ CheckContext \/ StartAttempt \/ StepSucceeds \/ StepFails
  \/ Retry \/ GiveUp \/ TryAgain \/ WaitCanceled
  \/ Rejected \/ Suspend \/ Continue \/ Complete \/ FinishRun \/ EndRun
  \/ AppendEntry \/ AppendFails \/ Hooks

CancelContext ==
  /\ ~ctxDone
  /\ ctxDone' = TRUE
  /\ UNCHANGED <<cfgVars, emitVars, stepVars, status, retErr, seenVars>>

Terminated == pc = "done" /\ UNCHANGED vars

Next == Run \/ CancelContext \/ Terminated

Spec == Init /\ [][Next]_vars

\* The chain runs, and the steps, the sink and the timer return.
FairSpec == Spec /\ WF_vars(Run)
-----------------------------------------------------------------------------
(* Whatever fails. *)

\* What the caller is told: the status of the response, or that of the error.
Outcome ==
  CASE retErr = "nil"      -> status
    [] retErr = "canceled" -> "canceled"
    [] OTHER               -> "failed"

\* Once Run has an error to return, no attempt starts and nothing is recorded
\* or shown but the end.
NothingAfterFailure ==
  [][retErr # "nil" =>
       /\ hist' # hist => hist'.kind = "ended"
       /\ hooks' # hooks => hooks'.kind = "ended"
       /\ attempt' = attempt]_<<hist, hooks, attempt>>

\* A visit of a step takes at most one attempt more than the retries of the
\* policy that applies to it: the step's own, even one that forbids retries,
\* before the chain's.
RetryBudget ==
  /\ TypeOK
  /\ hist.kind = "step_started" =>
       LET own == stepRetry[hist.step]
       IN  hist.attempt <= 1 + (IF own = NoPolicy THEN chainRetry ELSE own).max

-----------------------------------------------------------------------------
(* The history that is left behind. *)

Audit == INSTANCE WorkflowAudit WITH
  entry    <- hist,
  returned <- IF pc = "done" THEN Outcome ELSE "no"

\* The history is complete, in order, and agrees with what the caller is told (no
\* success is reported before the last entry is written: 070-workflows.md 10.9);
\* after an entry that could not be written it says nothing but the end.
KeepsAudit == Audit!Spec

\* Once its context has ended the run returns, even one whose steps lead in a
\* circle: steps end, and neither a loop of steps nor a wait goes on.
CancelEndsRun == ctxDone ~> pc = "done"
=============================================================================
