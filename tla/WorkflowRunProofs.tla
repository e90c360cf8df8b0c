------------------------- MODULE WorkflowRunProofs -------------------------
(***************************************************************************)
(* Proofs about WorkflowRun, for chains of any length and any retries.     *)
(***************************************************************************)
EXTENDS WorkflowRun, TLAPS

(***************************************************************************)
(* The inductive invariant says, for each point of Run, what the last      *)
(* entry is when the run gets there.  An event on its way to the history   *)
(* is one that may follow the last entry, and leaves the run where the     *)
(* event would be the last entry.                                          *)
(***************************************************************************)
ThisAttempt(h) == h.step = idx /\ h.attempt = attempt

\* The run may be at p once h is the last entry.
Arrives(p, h) ==
  /\ p = "start"   => h.kind = "none" /\ status = "completed"
  /\ p = "check"   => h.kind \in {"started", "step_ended"} /\ status = "completed"
  /\ p = "attempt" => /\ status = "completed"
                      /\ attempt \in 1..(1 + Effective.max)
                      /\ \/ h.kind \in {"started", "step_ended"} /\ attempt = 1
                         \/ h.kind = "retry_scheduled" /\ h.step = idx /\ attempt = h.attempt + 1
  /\ p = "run"     => /\ h.kind = "step_started" /\ ThisAttempt(h) /\ status = "completed"
                      /\ attempt \in 1..(1 + Effective.max)
  /\ p = "retry"   => h.kind = "error" /\ ThisAttempt(h) /\ status = "completed" /\ stepErr # "nil"
  /\ p = "wait"    => /\ h.kind = "retry_scheduled" /\ ThisAttempt(h) /\ status = "completed"
                      /\ attempt \in 0..Effective.max
  /\ p = "resolve" => h.kind = "step_ended" /\ ThisAttempt(h) /\ status = "completed"
  /\ p = "finish"  => \/ h.kind = "step_ended" /\ status = "completed"
                      \/ h.kind = "suspended" /\ status = "suspended"
  /\ p = "ending"  => \/ retErr = "nil" /\ h.kind = "finished" /\ h.status = status
                      \/ /\ retErr # "nil"
                         /\ lost \/ h.kind \in {"started", "step_ended", "error", "retry_scheduled"}
  /\ p = "done"    => \/ h.kind = "ended" /\ h.status = EndStatus
                      \/ lost /\ retErr # "nil"
  /\ p \in {"start", "check", "attempt", "run", "retry", "wait", "resolve", "finish"} =>
       retErr = "nil"

\* The entry e may follow h; the last one may follow anything once one is lost.
Follows(h, e) ==
  \/ h.kind = "none" /\ e.kind = "started"
  \/ h.kind \in {"started", "step_ended"} /\ e.kind = "step_started" /\ e.attempt = 1
  \/ /\ h.kind = "retry_scheduled" /\ e.kind = "step_started"
     /\ e.step = h.step /\ e.attempt = h.attempt + 1
  \/ /\ h.kind = "step_started" /\ e.kind \in {"step_ended", "error"}
     /\ e.step = h.step /\ e.attempt = h.attempt
  \/ /\ h.kind = "error" /\ e.kind = "retry_scheduled"
     /\ e.step = h.step /\ e.attempt = h.attempt
  \/ /\ h.kind = "step_ended" /\ e.kind = "suspended"
     /\ e.step = h.step /\ e.attempt = h.attempt
  \/ h.kind = "step_ended" /\ e.kind = "finished" /\ e.status = "completed"
  \/ h.kind = "suspended" /\ e.kind = "finished" /\ e.status = "suspended"
  \/ h.kind = "finished" /\ e.kind = "ended" /\ e.status = h.status
  \/ /\ h.kind \in {"started", "step_ended", "error", "retry_scheduled"} /\ e.kind = "ended"
     /\ e.status \in {"failed", "canceled"}
  \/ lost /\ e.kind = "ended" /\ e.status \in {"failed", "canceled"}

\* Where the run goes on after each kind of event.
Return(kind) ==
  CASE kind = "started"         -> "check"
    [] kind = "step_started"    -> "run"
    [] kind = "step_ended"      -> "resolve"
    [] kind = "error"           -> "retry"
    [] kind = "retry_scheduled" -> "wait"
    [] kind = "suspended"       -> "finish"
    [] kind = "finished"        -> "ending"
    [] kind = "ended"           -> "done"

EmitInv ==
  pc \in {"append", "hooks"} =>
    /\ event \in Entries /\ ret = Return(event.kind) /\ Arrives(ret, event)
    /\ event.kind # "ended" => retErr = "nil"
    /\ event.kind = "ended" => event.status = EndStatus

AtInv ==
  /\ pc = "append" => Follows(hist, event)
  /\ pc = "hooks" => hist = event /\ ~EntryOnly
  /\ pc \notin {"append", "hooks"} => Arrives(pc, hist)

LostInv ==
  /\ lost => retErr # "nil"
  /\ hist.kind = "ended" => pc = "done" \/ (pc = "hooks" /\ event.kind = "ended")

Budget(i) == 1 + (IF stepRetry[i] = NoPolicy THEN chainRetry ELSE stepRetry[i]).max

BudgetInv == hist.kind = "step_started" => hist.attempt <= Budget(hist.step)

IInv == TypeOK /\ EmitInv /\ AtInv /\ LostInv /\ BudgetInv

-----------------------------------------------------------------------------
LEMMA PolicyFacts ==
  ASSUME TypeOK
  PROVE  /\ NoPolicy.max = 0 /\ \A p \in Policies : p.max \in 0..MaxRetries
         /\ Effective.max \in 0..MaxRetries
         /\ Budget(idx) = 1 + Effective.max
         /\ attempt \in Nat /\ MaxRetries \in Nat
  <1>1. NoPolicy \in Policies /\ NoPolicy.max = 0 BY DEF NoPolicy, Policies
  <1>2. \A p \in Policies : p.max \in 0..MaxRetries
    BY RetriesAssumption DEF Policies, NoPolicy
  <1>3. Effective \in Policies BY DEF TypeOK, Effective
  <1>4. attempt \in Nat /\ MaxRetries \in Nat BY RetriesAssumption DEF TypeOK
  <1>5. Effective = IF stepRetry[idx] = NoPolicy THEN chainRetry ELSE stepRetry[idx]
    BY DEF Effective
  <1>6. QED BY <1>1, <1>2, <1>3, <1>4, <1>5 DEF Budget

LEMMA EntryFacts ==
  ASSUME TypeOK, NEW kind \in Kinds, NEW st \in Statuses
  PROVE  /\ [kind |-> kind, step |-> 0, attempt |-> 0, status |-> st] \in Entries
         /\ [kind |-> kind, step |-> idx, attempt |-> attempt, status |-> st] \in Entries
  <1>1. 0 \in 0..N /\ idx \in 0..N BY NAssumption DEF TypeOK, Steps
  <1>2. 0 \in 0..(MaxRetries + 1) /\ attempt \in 0..(MaxRetries + 1)
    BY RetriesAssumption DEF TypeOK
  <1>3. QED BY <1>1, <1>2 DEF Entries

\* The budget of an entry is settled when it is recorded.
LEMMA BudgetFrame ==
  ASSUME BudgetInv, UNCHANGED <<cfgVars, hist>>
  PROVE  BudgetInv'
  BY DEF BudgetInv, Budget, cfgVars

\* Emit and EmitStep: the event may follow the last entry, and the run may go on.
LEMMA EmitNext ==
  ASSUME IInv, pc \notin {"append", "hooks", "done"}, pc' = "append",
         UNCHANGED <<cfgVars, ctxDone, idx, attempt, retErr, seenVars>>,
         next' \in Transitions, stepErr' \in Errors, status' \in Statuses,
         event' \in Entries, ret' = Return(event'.kind),
         Follows(hist, event)', Arrives(ret, event)',
         event'.kind # "ended" => retErr = "nil",
         event'.kind = "ended" => event'.status = EndStatus'
  PROVE  IInv'
  <1>1. ret' \in Points BY DEF Entries, Kinds, Return, Points
  <1>2. TypeOK' BY <1>1 DEF IInv, TypeOK, cfgVars, seenVars, Points
  <1>3. EmitInv' BY DEF EmitInv
  <1>4. AtInv' BY DEF AtInv
  <1>5. LostInv' BY DEF IInv, LostInv, seenVars
  <1>6. BudgetInv' BY BudgetFrame DEF IInv, seenVars
  <1>7. QED BY <1>2, <1>3, <1>4, <1>5, <1>6 DEF IInv

\* Go and Fail: the run may be at the point it goes to.
LEMMA GoNext ==
  ASSUME IInv, pc \notin {"append", "hooks", "done"},
         pc' \in Points \ {"append", "hooks"},
         UNCHANGED <<cfgVars, ctxDone, ret, event, next, stepErr, status, seenVars>>,
         idx' \in Steps, attempt' \in 0..(MaxRetries + 1), retErr' \in Errors,
         retErr # "nil" => retErr' # "nil",
         Arrives(pc, hist)'
  PROVE  IInv'
  <1>1. TypeOK' BY DEF IInv, TypeOK, cfgVars, seenVars
  <1>2. EmitInv' BY DEF EmitInv
  <1>3. AtInv' BY DEF AtInv
  <1>4. LostInv' BY DEF IInv, LostInv, seenVars
  <1>5. BudgetInv' BY BudgetFrame DEF IInv, seenVars
  <1>6. QED BY <1>1, <1>2, <1>3, <1>4, <1>5 DEF IInv

-----------------------------------------------------------------------------
(* The actions, by the point they leave. *)

LEMMA StartNext == IInv /\ Start => IInv'
  <1> SUFFICES ASSUME IInv, Start PROVE IInv' OBVIOUS
  <1>1. /\ pc = "start" /\ pc' = "append" /\ ret' = "check"
        /\ event' = [kind |-> "started", step |-> 0, attempt |-> 0, status |-> "completed"]
        /\ UNCHANGED <<cfgVars, ctxDone, idx, attempt, retErr, seenVars, next, stepErr, status>>
    BY DEF Start, Emit, stepVars
  <1>2. Arrives("start", hist) BY <1>1 DEF IInv, AtInv
  <1>3. event' \in Entries
    <2>1. "completed" \in Statuses /\ "started" \in Kinds
      BY DEF Statuses, Kinds
    <2>2. QED BY <1>1, <2>1, EntryFacts DEF IInv
  <1>4. next' \in Transitions /\ stepErr' \in Errors /\ status' \in Statuses
    BY <1>1 DEF IInv, TypeOK
  <1>5. Follows(hist, event)'
    BY <1>1, <1>2 DEF Follows, Arrives, seenVars
  <1>6. Arrives(ret, event)'
    BY <1>1, <1>2 DEF Arrives
  <1>7. ret' = Return(event'.kind) /\ retErr = "nil" BY <1>1, <1>2 DEF Return, Arrives
  <1>8. QED BY <1>1, <1>3, <1>4, <1>5, <1>6, <1>7, EmitNext

LEMMA CheckContextNext == IInv /\ CheckContext => IInv'
  <1> SUFFICES ASSUME IInv, CheckContext PROVE IInv' OBVIOUS
  <1>1. /\ pc = "check"
        /\ UNCHANGED <<cfgVars, ctxDone, ret, event, idx, next, stepErr, status, seenVars>>
        /\ \/ pc' = "ending" /\ retErr' = "canceled" /\ attempt' = attempt
           \/ pc' = "attempt" /\ retErr' = retErr /\ attempt' = 1
    BY DEF CheckContext, Fail, Go, FirstAttempt
  <1>2. Arrives("check", hist) BY <1>1 DEF IInv, AtInv
  <1>3. /\ pc' \in Points \ {"append", "hooks"} /\ retErr' \in Errors
        /\ idx' \in Steps /\ attempt' \in 0..(MaxRetries + 1)
        /\ retErr # "nil" => retErr' # "nil"
    BY <1>1, RetriesAssumption DEF IInv, TypeOK, Points, Errors
  <1>4. Effective' = Effective BY <1>1 DEF Effective, cfgVars
  <1>5. Arrives(pc, hist)'
    BY <1>1, <1>2, <1>4, PolicyFacts DEF IInv, Arrives, seenVars
  <1>6. QED BY <1>1, <1>3, <1>5, GoNext

LEMMA StartAttemptNext == IInv /\ StartAttempt => IInv'
  <1> SUFFICES ASSUME IInv, StartAttempt PROVE IInv' OBVIOUS
  <1>1. /\ pc = "attempt" /\ pc' = "append" /\ ret' = "run"
        /\ event' = [kind |-> "step_started", step |-> idx, attempt |-> attempt, status |-> "completed"]
        /\ UNCHANGED <<cfgVars, ctxDone, idx, attempt, retErr, seenVars, next, stepErr, status>>
    BY DEF StartAttempt, EmitStep, stepVars
  <1>2. Arrives("attempt", hist) BY <1>1 DEF IInv, AtInv
  <1>3. event' \in Entries
    <2>1. "completed" \in Statuses /\ "step_started" \in Kinds
      BY DEF Statuses, Kinds
    <2>2. QED BY <1>1, <2>1, EntryFacts DEF IInv
  <1>4. next' \in Transitions /\ stepErr' \in Errors /\ status' \in Statuses
    BY <1>1 DEF IInv, TypeOK
  <1>5. Follows(hist, event)'
    BY <1>1, <1>2 DEF Follows, Arrives, ThisAttempt, seenVars
  <1>6. Arrives(ret, event)'
    <2>1. Effective' = Effective BY <1>1 DEF Effective, cfgVars
    <2>2. QED BY <1>1, <1>2, <2>1, PolicyFacts DEF IInv, Arrives, ThisAttempt
  <1>7. ret' = Return(event'.kind) /\ retErr = "nil" BY <1>1, <1>2 DEF Return, Arrives
  <1>8. QED BY <1>1, <1>3, <1>4, <1>5, <1>6, <1>7, EmitNext

LEMMA StepSucceedsNext == IInv /\ StepSucceeds => IInv'
  <1> SUFFICES ASSUME IInv, StepSucceeds PROVE IInv' OBVIOUS
  <1>1. /\ pc = "run" /\ pc' = "append" /\ ret' = "resolve"
        /\ event' = [kind |-> "step_ended", step |-> idx, attempt |-> attempt, status |-> "completed"]
        /\ UNCHANGED <<cfgVars, ctxDone, idx, attempt, retErr, seenVars, stepErr, status>>
        /\ next' \in Transitions
    BY DEF StepSucceeds, EmitStep, stepVars
  <1>2. Arrives("run", hist) BY <1>1 DEF IInv, AtInv
  <1>3. event' \in Entries
    <2>1. "completed" \in Statuses /\ "step_ended" \in Kinds
      BY DEF Statuses, Kinds
    <2>2. QED BY <1>1, <2>1, EntryFacts DEF IInv
  <1>4. next' \in Transitions /\ stepErr' \in Errors /\ status' \in Statuses
    BY <1>1 DEF IInv, TypeOK
  <1>5. Follows(hist, event)'
    BY <1>1, <1>2 DEF Follows, Arrives, ThisAttempt, seenVars
  <1>6. Arrives(ret, event)'
    BY <1>1, <1>2 DEF Arrives, ThisAttempt
  <1>7. ret' = Return(event'.kind) /\ retErr = "nil" BY <1>1, <1>2 DEF Return, Arrives
  <1>8. QED BY <1>1, <1>3, <1>4, <1>5, <1>6, <1>7, EmitNext

LEMMA StepFailsNext == IInv /\ StepFails => IInv'
  <1> SUFFICES ASSUME IInv, StepFails PROVE IInv' OBVIOUS
  <1>1. /\ pc = "run" /\ pc' = "append" /\ ret' = "retry"
        /\ event' = [kind |-> "error", step |-> idx, attempt |-> attempt, status |-> "failed"]
        /\ UNCHANGED <<cfgVars, ctxDone, idx, attempt, retErr, seenVars, next, status>>
        /\ stepErr' \in {"failed", "canceled"}
    BY DEF StepFails, EmitStep, stepVars
  <1>2. Arrives("run", hist) BY <1>1 DEF IInv, AtInv
  <1>3. event' \in Entries
    <2>1. "failed" \in Statuses /\ "error" \in Kinds
      BY DEF Statuses, Kinds
    <2>2. QED BY <1>1, <2>1, EntryFacts DEF IInv
  <1>4. next' \in Transitions /\ stepErr' \in Errors /\ status' \in Statuses
    BY <1>1 DEF IInv, TypeOK, Errors
  <1>5. Follows(hist, event)'
    BY <1>1, <1>2 DEF Follows, Arrives, ThisAttempt, seenVars
  <1>6. Arrives(ret, event)'
    BY <1>1, <1>2 DEF Arrives, ThisAttempt
  <1>7. ret' = Return(event'.kind) /\ retErr = "nil" BY <1>1, <1>2 DEF Return, Arrives
  <1>8. QED BY <1>1, <1>3, <1>4, <1>5, <1>6, <1>7, EmitNext

LEMMA RetryNext == IInv /\ Retry => IInv'
  <1> SUFFICES ASSUME IInv, Retry PROVE IInv' OBVIOUS
  <1>1. /\ pc = "retry" /\ pc' = "append" /\ ret' = "wait"
        /\ event' = [kind |-> "retry_scheduled", step |-> idx, attempt |-> attempt, status |-> "failed"]
        /\ UNCHANGED <<cfgVars, ctxDone, idx, attempt, retErr, seenVars, next, stepErr, status>>
        /\ NextAllows(Effective, attempt)
    BY DEF Retry, EmitStep, stepVars
  <1>2. Arrives("retry", hist) BY <1>1 DEF IInv, AtInv
  <1>3. event' \in Entries
    <2>1. "failed" \in Statuses /\ "retry_scheduled" \in Kinds
      BY DEF Statuses, Kinds
    <2>2. QED BY <1>1, <2>1, EntryFacts DEF IInv
  <1>4. next' \in Transitions /\ stepErr' \in Errors /\ status' \in Statuses
    BY <1>1 DEF IInv, TypeOK
  <1>5. Follows(hist, event)'
    BY <1>1, <1>2 DEF Follows, Arrives, ThisAttempt, seenVars
  <1>6. Arrives(ret, event)'
    <2>1. Effective' = Effective BY <1>1 DEF Effective, cfgVars
    <2>2. QED BY <1>1, <1>2, <2>1, PolicyFacts DEF IInv, Arrives, ThisAttempt, NextAllows
  <1>7. ret' = Return(event'.kind) /\ retErr = "nil" BY <1>1, <1>2 DEF Return, Arrives
  <1>8. QED BY <1>1, <1>3, <1>4, <1>5, <1>6, <1>7, EmitNext

LEMMA GiveUpNext == IInv /\ GiveUp => IInv'
  <1> SUFFICES ASSUME IInv, GiveUp PROVE IInv' OBVIOUS
  <1>1. /\ pc = "retry" /\ pc' = "ending" /\ retErr' = stepErr
        /\ UNCHANGED <<cfgVars, ctxDone, ret, event, stepVars, status, seenVars>>
    BY DEF GiveUp, Fail, Go
  <1>2. Arrives("retry", hist) BY <1>1 DEF IInv, AtInv
  <1>3. retErr' \in Errors /\ retErr' # "nil"
    BY <1>1, <1>2 DEF IInv, TypeOK, Arrives, Errors
  <1>4. /\ pc' \in Points \ {"append", "hooks"}
        /\ idx' \in Steps /\ attempt' \in 0..(MaxRetries + 1)
    BY <1>1 DEF IInv, TypeOK, Points, stepVars
  <1>5. Arrives(pc, hist)' BY <1>1, <1>2, <1>3 DEF Arrives, seenVars
  <1>6. QED BY <1>1, <1>3, <1>4, <1>5, GoNext DEF stepVars

LEMMA WaitCanceledNext == IInv /\ WaitCanceled => IInv'
  <1> SUFFICES ASSUME IInv, WaitCanceled PROVE IInv' OBVIOUS
  <1>1. /\ pc = "wait" /\ pc' = "ending" /\ retErr' = "canceled"
        /\ UNCHANGED <<cfgVars, ctxDone, ret, event, stepVars, status, seenVars>>
    BY DEF WaitCanceled, Fail, Go
  <1>2. Arrives("wait", hist) BY <1>1 DEF IInv, AtInv
  <1>3. retErr' \in Errors /\ retErr' # "nil"
    BY <1>1, <1>2 DEF Errors
  <1>4. /\ pc' \in Points \ {"append", "hooks"}
        /\ idx' \in Steps /\ attempt' \in 0..(MaxRetries + 1)
    BY <1>1 DEF IInv, TypeOK, Points, stepVars
  <1>5. Arrives(pc, hist)' BY <1>1, <1>2, <1>3 DEF Arrives, seenVars
  <1>6. QED BY <1>1, <1>3, <1>4, <1>5, GoNext DEF stepVars

LEMMA RejectedNext == IInv /\ Rejected => IInv'
  <1> SUFFICES ASSUME IInv, Rejected PROVE IInv' OBVIOUS
  <1>1. /\ pc = "resolve" /\ pc' = "ending" /\ retErr' = "transition"
        /\ UNCHANGED <<cfgVars, ctxDone, ret, event, stepVars, status, seenVars>>
    BY DEF Rejected, Fail, Go
  <1>2. Arrives("resolve", hist) BY <1>1 DEF IInv, AtInv
  <1>3. retErr' \in Errors /\ retErr' # "nil"
    BY <1>1, <1>2 DEF Errors
  <1>4. /\ pc' \in Points \ {"append", "hooks"}
        /\ idx' \in Steps /\ attempt' \in 0..(MaxRetries + 1)
    BY <1>1 DEF IInv, TypeOK, Points, stepVars
  <1>5. Arrives(pc, hist)' BY <1>1, <1>2, <1>3 DEF Arrives, seenVars
  <1>6. QED BY <1>1, <1>3, <1>4, <1>5, GoNext DEF stepVars

LEMMA TryAgainNext == IInv /\ TryAgain => IInv'
  <1> SUFFICES ASSUME IInv, TryAgain PROVE IInv' OBVIOUS
  <1>1. /\ pc = "wait" /\ pc' = "attempt" /\ attempt' = attempt + 1
        /\ UNCHANGED <<cfgVars, ctxDone, ret, event, idx, next, stepErr, status, retErr, seenVars>>
    BY DEF TryAgain, Go
  <1>2. Arrives("wait", hist) BY <1>1 DEF IInv, AtInv
  <1>3. Effective' = Effective BY <1>1 DEF Effective, cfgVars
  <1>4. attempt \in Nat /\ attempt <= Effective.max /\ Effective.max \in 0..MaxRetries
    BY <1>2, PolicyFacts DEF IInv, Arrives
  <1>5. attempt' \in 0..(MaxRetries + 1) /\ attempt' \in 1..(1 + Effective.max)
    BY <1>1, <1>4, RetriesAssumption
  <1>6. pc' \in Points \ {"append", "hooks"} /\ retErr' \in Errors /\ idx' \in Steps
    BY <1>1 DEF IInv, TypeOK, Points
  <1>7. Arrives(pc, hist)'
    BY <1>1, <1>2, <1>3, <1>5 DEF Arrives, ThisAttempt, seenVars
  <1>8. QED BY <1>1, <1>5, <1>6, <1>7, GoNext

LEMMA SuspendNext == IInv /\ Suspend => IInv'
  <1> SUFFICES ASSUME IInv, Suspend PROVE IInv' OBVIOUS
  <1>1. /\ pc = "resolve" /\ pc' = "append" /\ ret' = "finish"
        /\ event' = [kind |-> "suspended", step |-> idx, attempt |-> attempt, status |-> "suspended"]
        /\ UNCHANGED <<cfgVars, ctxDone, idx, attempt, retErr, seenVars, next, stepErr>>
        /\ status' = "suspended"
    BY DEF Suspend, EmitStep, stepVars
  <1>2. Arrives("resolve", hist) BY <1>1 DEF IInv, AtInv
  <1>3. event' \in Entries
    <2>1. "suspended" \in Statuses /\ "suspended" \in Kinds
      BY DEF Statuses, Kinds
    <2>2. QED BY <1>1, <2>1, EntryFacts DEF IInv
  <1>4. next' \in Transitions /\ stepErr' \in Errors /\ status' \in Statuses
    BY <1>1 DEF IInv, TypeOK, Statuses
  <1>5. Follows(hist, event)'
    BY <1>1, <1>2 DEF Follows, Arrives, ThisAttempt, seenVars
  <1>6. Arrives(ret, event)'
    BY <1>1, <1>2 DEF Arrives, ThisAttempt
  <1>7. ret' = Return(event'.kind) /\ retErr = "nil" BY <1>1, <1>2 DEF Return, Arrives
  <1>8. QED BY <1>1, <1>3, <1>4, <1>5, <1>6, <1>7, EmitNext

LEMMA ContinueNext == IInv /\ Continue => IInv'
  <1> SUFFICES ASSUME IInv, Continue PROVE IInv' OBVIOUS
  <1>1. /\ pc = "resolve" /\ pc' = "check" /\ idx' \in Steps
        /\ UNCHANGED <<cfgVars, ctxDone, ret, event, attempt, next, stepErr, status, retErr, seenVars>>
    BY DEF Continue, Go
  <1>2. Arrives("resolve", hist) BY <1>1 DEF IInv, AtInv
  <1>3. /\ pc' \in Points \ {"append", "hooks"} /\ retErr' \in Errors
        /\ attempt' \in 0..(MaxRetries + 1)
    BY <1>1 DEF IInv, TypeOK, Points
  <1>4. Arrives(pc, hist)' BY <1>1, <1>2 DEF Arrives, seenVars
  <1>5. QED BY <1>1, <1>3, <1>4, GoNext

LEMMA CompleteNext == IInv /\ Complete => IInv'
  <1> SUFFICES ASSUME IInv, Complete PROVE IInv' OBVIOUS
  <1>1. /\ pc = "resolve" /\ pc' = "finish"
        /\ UNCHANGED <<cfgVars, ctxDone, ret, event, stepVars, status, retErr, seenVars>>
    BY DEF Complete, Go
  <1>2. Arrives("resolve", hist) BY <1>1 DEF IInv, AtInv
  <1>3. /\ pc' \in Points \ {"append", "hooks"} /\ retErr' \in Errors
        /\ idx' \in Steps /\ attempt' \in 0..(MaxRetries + 1)
    BY <1>1 DEF IInv, TypeOK, Points, stepVars
  <1>4. Arrives(pc, hist)' BY <1>1, <1>2 DEF Arrives, seenVars
  <1>5. QED BY <1>1, <1>3, <1>4, GoNext DEF stepVars

LEMMA FinishRunNext == IInv /\ FinishRun => IInv'
  <1> SUFFICES ASSUME IInv, FinishRun PROVE IInv' OBVIOUS
  <1>1. /\ pc = "finish" /\ pc' = "append" /\ ret' = "ending"
        /\ event' = [kind |-> "finished", step |-> 0, attempt |-> 0, status |-> status]
        /\ UNCHANGED <<cfgVars, ctxDone, idx, attempt, retErr, seenVars, next, stepErr, status>>
    BY DEF FinishRun, Emit, stepVars
  <1>2. Arrives("finish", hist) BY <1>1 DEF IInv, AtInv
  <1>3. event' \in Entries
    <2>1. status \in Statuses /\ "finished" \in Kinds
      BY DEF Statuses, Kinds, EndStatus, IInv, TypeOK
    <2>2. QED BY <1>1, <2>1, EntryFacts DEF IInv
  <1>4. next' \in Transitions /\ stepErr' \in Errors /\ status' \in Statuses
    BY <1>1 DEF IInv, TypeOK
  <1>5. Follows(hist, event)'
    BY <1>1, <1>2 DEF Follows, Arrives, seenVars
  <1>6. Arrives(ret, event)'
    BY <1>1, <1>2 DEF Arrives
  <1>7. ret' = Return(event'.kind) /\ retErr = "nil" BY <1>1, <1>2 DEF Return, Arrives
  <1>8. QED BY <1>1, <1>3, <1>4, <1>5, <1>6, <1>7, EmitNext

LEMMA EndRunNext == IInv /\ EndRun => IInv'
  <1> SUFFICES ASSUME IInv, EndRun PROVE IInv' OBVIOUS
  <1>1. /\ pc = "ending" /\ pc' = "append" /\ ret' = "done"
        /\ event' = [kind |-> "ended", step |-> 0, attempt |-> 0, status |-> EndStatus]
        /\ UNCHANGED <<cfgVars, ctxDone, idx, attempt, retErr, seenVars, next, stepErr, status>>
    BY DEF EndRun, Emit, stepVars
  <1>2. Arrives("ending", hist) BY <1>1 DEF IInv, AtInv
  <1>3. event' \in Entries
    <2>1. EndStatus \in Statuses /\ "ended" \in Kinds
      BY DEF Statuses, Kinds, EndStatus, IInv, TypeOK
    <2>2. QED BY <1>1, <2>1, EntryFacts DEF IInv
  <1>4. next' \in Transitions /\ stepErr' \in Errors /\ status' \in Statuses
    BY <1>1 DEF IInv, TypeOK
  <1>5. Follows(hist, event)'
    BY <1>1, <1>2 DEF Follows, Arrives, EndStatus, IInv, LostInv, seenVars
  <1>6. Arrives(ret, event)'
    BY <1>1, <1>2 DEF Arrives, EndStatus
  <1>7. event'.status = EndStatus' BY <1>1 DEF EndStatus
  <1>8. ret' = Return(event'.kind) BY <1>1 DEF Return
  <1>9. QED BY <1>1, <1>3, <1>4, <1>5, <1>6, <1>7, <1>8, EmitNext

-----------------------------------------------------------------------------
(* The entry is written, or not. *)

LEMMA AppendEntryNext == IInv /\ AppendEntry => IInv'
  <1> SUFFICES ASSUME IInv, AppendEntry PROVE IInv' OBVIOUS
  <1>1. /\ pc = "append" /\ hist' = event
        /\ pc' = IF EntryOnly THEN ret ELSE "hooks"
        /\ UNCHANGED <<cfgVars, ctxDone, ret, event, stepVars, status, retErr, hooks, lost>>
    BY DEF AppendEntry, Go
  <1>2. /\ event \in Entries /\ ret = Return(event.kind) /\ Arrives(ret, event)
        /\ event.kind # "ended" => retErr = "nil"
        /\ event.kind = "ended" => event.status = EndStatus
    BY <1>1 DEF IInv, EmitInv
  <1>3. Arrives(ret, event)'
    BY <1>1, <1>2 DEF Arrives, ThisAttempt, Effective, EndStatus, cfgVars, stepVars
  <1>4. TypeOK'
    BY <1>1, <1>2 DEF IInv, TypeOK, cfgVars, stepVars, Points
  <1>5. EntryOnly => ret \in {"wait", "finish"}
    BY <1>2 DEF EntryOnly, Return
  <1>6. EmitInv'
    BY <1>1, <1>2, <1>3, <1>5 DEF EmitInv, EndStatus
  <1>7. AtInv' BY <1>1, <1>3, <1>5 DEF AtInv, EntryOnly
  <1>8. LostInv' BY <1>1 DEF IInv, LostInv, EntryOnly
  <1>9. BudgetInv'
    <2>1. ASSUME event.kind = "step_started" PROVE event.attempt <= Budget(event.step)
      BY <1>2, <2>1, PolicyFacts DEF IInv, Return, Arrives, ThisAttempt
    <2>2. QED BY <1>1, <2>1 DEF BudgetInv, Budget, cfgVars
  <1>10. QED BY <1>4, <1>6, <1>7, <1>8, <1>9 DEF IInv

LEMMA AppendFailsNext == IInv /\ AppendFails => IInv'
  <1> SUFFICES ASSUME IInv, AppendFails PROVE IInv' OBVIOUS
  <1>1. /\ pc = "append" /\ lost' = TRUE
        /\ UNCHANGED <<cfgVars, ctxDone, ret, event, stepVars, status, hist, hooks>>
        /\ \/ event.kind = "ended" /\ retErr' = SpoilResult /\ pc' = "done"
           \/ event.kind # "ended" /\ retErr' = "history" /\ pc' = "ending"
    BY DEF AppendFails, Fail, Go
  <1>2. retErr' \in Errors /\ retErr' # "nil"
    BY <1>1 DEF IInv, TypeOK, SpoilResult, Errors
  <1>3. TypeOK' BY <1>1, <1>2 DEF IInv, TypeOK, cfgVars, stepVars, Points
  <1>4. EmitInv' BY <1>1 DEF EmitInv
  <1>5. AtInv' BY <1>1, <1>2 DEF AtInv, Arrives
  <1>6. LostInv' BY <1>1, <1>2 DEF IInv, LostInv
  <1>7. BudgetInv' BY <1>1, BudgetFrame DEF IInv
  <1>8. QED BY <1>3, <1>4, <1>5, <1>6, <1>7 DEF IInv

LEMMA HooksNext == IInv /\ Hooks => IInv'
  <1> SUFFICES ASSUME IInv, Hooks PROVE IInv' OBVIOUS
  <1>1. /\ pc = "hooks" /\ pc' = ret /\ hooks' = event
        /\ UNCHANGED <<cfgVars, ctxDone, ret, event, stepVars, status, retErr, hist, lost>>
    BY DEF Hooks, Go
  <1>2. hist = event /\ event \in Entries /\ ret = Return(event.kind) /\ Arrives(ret, event)
    BY <1>1 DEF IInv, EmitInv, AtInv
  <1>3. ret \notin {"append", "hooks"}
    BY <1>2 DEF Return, Entries, Kinds
  <1>4. Arrives(pc, hist)'
    BY <1>1, <1>2 DEF Arrives, ThisAttempt, Effective, EndStatus, cfgVars, stepVars
  <1>5. TypeOK' BY <1>1, <1>2 DEF IInv, TypeOK, cfgVars, stepVars
  <1>6. EmitInv' /\ AtInv' BY <1>1, <1>3, <1>4 DEF EmitInv, AtInv
  <1>7. LostInv' BY <1>1, <1>2 DEF IInv, LostInv, Return
  <1>8. BudgetInv' BY <1>1, BudgetFrame DEF IInv
  <1>9. QED BY <1>5, <1>6, <1>7, <1>8 DEF IInv

\* The context ends, or nothing happens.
LEMMA QuietNext ==
  ASSUME IInv, ctxDone' \in BOOLEAN,
         UNCHANGED <<cfgVars, emitVars, stepVars, status, retErr, seenVars>>
  PROVE  IInv'
  <1>1. TypeOK' BY DEF IInv, TypeOK, cfgVars, emitVars, stepVars, seenVars
  <1>2. UNCHANGED <<pc, ret, event, hist, lost, Effective, EndStatus>>
    BY DEF emitVars, seenVars, Effective, EndStatus, cfgVars, stepVars
  <1>3. EmitInv' /\ AtInv'
    BY <1>2 DEF IInv, EmitInv, AtInv, Arrives, Follows, ThisAttempt, EntryOnly, stepVars
  <1>4. LostInv' /\ BudgetInv' BY <1>2, BudgetFrame DEF IInv, LostInv
  <1>5. QED BY <1>1, <1>3, <1>4 DEF IInv

LEMMA IInvInit == Init => IInv
  <1> SUFFICES ASSUME Init PROVE IInv OBVIOUS
  <1>1. TypeOK
    <2>1. idx \in Steps /\ attempt \in 0..(MaxRetries + 1)
      BY NAssumption, RetriesAssumption DEF Init, Steps
    <2>2. next \in Transitions BY DEF Init, Transitions
    <2>3. QED BY <2>1, <2>2 DEF Init, TypeOK, Points, Errors, Statuses
  <1>2. EmitInv /\ AtInv BY DEF Init, EmitInv, AtInv, Arrives, NoEntry
  <1>3. LostInv /\ BudgetInv BY DEF Init, LostInv, BudgetInv, NoEntry
  <1>4. QED BY <1>1, <1>2, <1>3 DEF IInv

LEMMA IInvNext == IInv /\ [Next]_vars => IInv'
  <1> SUFFICES ASSUME IInv, [Next]_vars PROVE IInv' OBVIOUS
  <1>1. CASE Start \/ CheckContext \/ StartAttempt \/ StepSucceeds \/ StepFails
    BY <1>1, StartNext, CheckContextNext, StartAttemptNext, StepSucceedsNext, StepFailsNext
  <1>2. CASE Retry \/ GiveUp \/ TryAgain \/ WaitCanceled
    BY <1>2, RetryNext, GiveUpNext, TryAgainNext, WaitCanceledNext
  <1>3. CASE Rejected \/ Suspend \/ Continue \/ Complete \/ FinishRun \/ EndRun
    BY <1>3, RejectedNext, SuspendNext, ContinueNext, CompleteNext, FinishRunNext, EndRunNext
  <1>4. CASE AppendEntry \/ AppendFails \/ Hooks
    BY <1>4, AppendEntryNext, AppendFailsNext, HooksNext
  <1>5. CASE CancelContext BY <1>5, QuietNext DEF CancelContext
  <1>6. CASE UNCHANGED vars BY <1>6, QuietNext DEF vars, IInv, TypeOK
  <1>7. QED BY <1>1, <1>2, <1>3, <1>4, <1>5, <1>6 DEF Next, Run, Terminated

LEMMA Invariance == Spec => []IInv
  <1>1. QED BY IInvInit, IInvNext, PTL DEF Spec

-----------------------------------------------------------------------------
(* The theorems. *)

\* RetryBudget: in a chain of any length, and whatever the policies, no attempt
\* of a step is one too many.
THEOREM RetriesBounded == Spec => []RetryBudget
  <1>1. IInv => RetryBudget
    <2> SUFFICES ASSUME IInv PROVE RetryBudget OBVIOUS
    <2>1. ASSUME hist.kind = "step_started"
          PROVE  hist.attempt <= 1 + (IF stepRetry[hist.step] = NoPolicy
                                      THEN chainRetry ELSE stepRetry[hist.step]).max
      BY <2>1 DEF IInv, BudgetInv, Budget
    <2>2. QED BY <2>1 DEF IInv, RetryBudget
  <1>2. QED BY <1>1, Invariance, PTL

\* NothingAfterFailure: once there is an error to return, nothing is tried,
\* recorded or shown but the end.
THEOREM FailureIsFinal == Spec => NothingAfterFailure
  <1> DEFINE Step == retErr # "nil" =>
                       /\ hist' # hist => hist'.kind = "ended"
                       /\ hooks' # hooks => hooks'.kind = "ended"
                       /\ attempt' = attempt
  <1>1. IInv /\ [Next]_vars => [Step]_<<hist, hooks, attempt>>
    <2> SUFFICES ASSUME IInv, [Next]_vars, retErr # "nil",
                        ~UNCHANGED <<hist, hooks, attempt>>
                 PROVE  Step
      OBVIOUS
    <2>1. pc \notin {"check", "wait"} BY DEF IInv, AtInv, Arrives
    <2>2. CASE AppendEntry
      BY <2>2 DEF AppendEntry, IInv, EmitInv, stepVars
    <2>3. CASE Hooks
      BY <2>3 DEF Hooks, IInv, EmitInv, stepVars
    <2>4. CASE CheckContext \/ TryAgain BY <2>1, <2>4 DEF CheckContext, TryAgain
    <2>5. CASE Start \/ StartAttempt \/ StepSucceeds \/ StepFails
      BY <2>5 DEF Start, StartAttempt, StepSucceeds, StepFails, stepVars, seenVars
    <2>6. CASE Retry \/ GiveUp \/ WaitCanceled \/ Rejected \/ Suspend \/ Continue
      BY <2>6 DEF Retry, GiveUp, WaitCanceled, Rejected, Suspend, Continue, stepVars, seenVars
    <2>7. CASE Complete \/ FinishRun \/ EndRun \/ AppendFails \/ CancelContext \/ UNCHANGED vars
      BY <2>7 DEF Complete, FinishRun, EndRun, AppendFails, CancelContext, vars, stepVars, seenVars
    <2>8. QED BY <2>2, <2>3, <2>4, <2>5, <2>6, <2>7 DEF Next, Run, Terminated
  <1>2. QED BY <1>1, Invariance, PTL DEF Spec, NothingAfterFailure

Told == IF pc = "done" THEN Outcome ELSE "no"

\* What an AppendEntry adds is a step of the abstract history.
LEMMA AppendAudits ==
  ASSUME IInv, AppendEntry
  PROVE  Audit!Next
  <1>1. pc = "append" /\ hist' = event /\ lost' = lost
    BY DEF AppendEntry
  <1>2. /\ event \in Entries /\ ret = Return(event.kind)
        /\ event.kind # "ended" => retErr = "nil"
        /\ event.kind = "ended" => event.status = EndStatus
        /\ Follows(hist, event)
    BY <1>1 DEF IInv, EmitInv, AtInv
  <1>3. pc' # "done" BY <1>1, <1>2 DEF AppendEntry, Go, EntryOnly, Return
  <1>4. Told' = Told BY <1>1, <1>3 DEF Told
  <1>5. CASE lost
    <2>1. retErr # "nil" /\ hist.kind # "ended" BY <1>1, <1>5 DEF IInv, LostInv
    <2>2. event.kind = "ended" /\ event.status \in {"failed", "canceled"}
      BY <1>2, <2>1 DEF EndStatus
    <2>3. Audit!EndIncomplete
      BY <1>1, <1>4, <1>5, <2>1, <2>2 DEF Audit!EndIncomplete, Audit!Failures, Told
    <2>4. QED BY <2>3 DEF Audit!Next
  <1>6. CASE ~lost
    <2> DEFINE A(kinds, kind) == hist.kind \in kinds /\ event.kind = kind
    <2>1. ASSUME NEW kinds, NEW kind, hist.kind \in kinds, event.kind = kind
          PROVE  Audit!After(kinds, kind)
      BY <1>1, <1>4, <1>6, <2>1 DEF Audit!After, Told
    <2>2. hist.step = event.step /\ hist.attempt = event.attempt => Audit!SameAttempt
      BY <1>1 DEF Audit!SameAttempt
    <2>3. CASE event.kind = "started"
      BY <1>2, <1>6, <2>1, <2>3 DEF Follows, Audit!Begin, Audit!Next
    <2>4. CASE event.kind = "step_started"
      BY <1>1, <1>2, <1>6, <2>1, <2>4 DEF Follows, Audit!StartStep, Audit!StartRetry, Audit!Next
    <2>5. CASE event.kind \in {"step_ended", "error"}
      BY <1>2, <1>6, <2>1, <2>2, <2>5 DEF Follows, Audit!EndAttempt, Audit!Next
    <2>6. CASE event.kind \in {"retry_scheduled", "suspended"}
      BY <1>2, <1>6, <2>1, <2>2, <2>6 DEF Follows, Audit!ScheduleRetry, Audit!Suspend, Audit!Next
    <2>7. CASE event.kind = "finished"
      BY <1>1, <1>2, <1>6, <2>1, <2>7 DEF Follows, Audit!Finish, Audit!Next
    <2>8. CASE event.kind = "ended"
      BY <1>1, <1>2, <1>6, <2>1, <2>8 DEF Follows, Audit!End, Audit!Failures, Audit!Next
    <2>9. QED BY <1>2, <2>3, <2>4, <2>5, <2>6, <2>7, <2>8 DEF Entries, Kinds
  <1>7. QED BY <1>5, <1>6

LEMMA AppendFailsAudits ==
  ASSUME IInv, AppendFails
  PROVE  Audit!Next
  <1>1. /\ pc = "append" /\ lost' = TRUE /\ hist' = hist
        /\ \/ event.kind = "ended" /\ retErr' = SpoilResult /\ pc' = "done"
           \/ pc' = "ending"
    BY DEF AppendFails, Fail, Go
  <1>2. hist.kind # "ended" BY <1>1 DEF IInv, LostInv
  <1>3. Told = "no" BY <1>1 DEF Told
  <1>4. Told' \in {"no", "failed", "canceled"}
    BY <1>1 DEF Told, Outcome, SpoilResult
  <1>5. Audit!Lose
    BY <1>1, <1>2, <1>3, <1>4 DEF Audit!Lose, Audit!Failures, Told
  <1>6. QED BY <1>5 DEF Audit!Next

LEMMA HooksAudits ==
  ASSUME IInv, Hooks
  PROVE  Audit!Next \/ UNCHANGED Audit!vars
  <1>1. /\ pc = "hooks" /\ pc' = ret
        /\ UNCHANGED <<event, stepVars, status, retErr, hist, lost>>
    BY DEF Hooks, Go
  <1>2. /\ hist = event /\ ret = Return(event.kind) /\ event \in Entries
        /\ event.kind = "ended" => event.status = EndStatus
    BY <1>1 DEF IInv, EmitInv, AtInv
  <1>3. Told = "no" BY <1>1 DEF Told
  <1>4. CASE event.kind = "ended"
    <2>1. Told' = hist.status
      BY <1>1, <1>2, <1>4 DEF Told, Outcome, EndStatus, Return
    <2>2. Audit!Return
      BY <1>1, <1>2, <1>4, <2>1 DEF Audit!Return, Told
    <2>3. QED BY <2>2 DEF Audit!Next
  <1>5. CASE event.kind # "ended"
    <2>1. pc' # "done" BY <1>1, <1>2, <1>5 DEF Return, Entries, Kinds
    <2>2. QED BY <1>1, <1>3, <2>1 DEF Audit!vars, Told
  <1>6. QED BY <1>4, <1>5

LEMMA OthersAudit ==
  ASSUME UNCHANGED <<hist, lost>>, pc # "done", pc' # "done"
  PROVE  UNCHANGED Audit!vars
  BY DEF Audit!vars

\* KeepsAudit: a chain of any length implements WorkflowAudit.
THEOREM KeepsHistory == Spec => KeepsAudit
  <1>1. Init => Audit!Init
    BY DEF Init, Audit!Init, Audit!Entry, NoEntry
  <1>2. IInv /\ [Next]_vars => [Audit!Next]_Audit!vars
    <2> SUFFICES ASSUME IInv, [Next]_vars PROVE Audit!Next \/ UNCHANGED Audit!vars OBVIOUS
    <2>1. CASE AppendEntry BY <2>1, AppendAudits
    <2>2. CASE AppendFails BY <2>2, AppendFailsAudits
    <2>3. CASE Hooks BY <2>3, HooksAudits
    <2>4. CASE Start \/ StartAttempt \/ StepSucceeds \/ StepFails \/ Retry
      BY <2>4, OthersAudit
      DEF Start, StartAttempt, StepSucceeds, StepFails, Retry, Emit, EmitStep, seenVars
    <2>5. CASE Suspend \/ FinishRun \/ EndRun
      BY <2>5, OthersAudit DEF Suspend, FinishRun, EndRun, Emit, EmitStep, seenVars
    <2>6. CASE CheckContext \/ GiveUp \/ TryAgain \/ WaitCanceled
      BY <2>6, OthersAudit
      DEF CheckContext, GiveUp, TryAgain, WaitCanceled, Fail, Go, seenVars
    <2>7. CASE Rejected \/ Continue \/ Complete
      BY <2>7, OthersAudit DEF Rejected, Continue, Complete, Fail, Go, seenVars
    <2>8. CASE CancelContext \/ UNCHANGED vars
      BY <2>8
      DEF CancelContext, vars, emitVars, stepVars, seenVars, Audit!vars, Outcome
    <2>9. QED
      BY <2>1, <2>2, <2>3, <2>4, <2>5, <2>6, <2>7, <2>8 DEF Next, Run, Terminated
  <1>3. QED BY <1>1, <1>2, Invariance, PTL DEF Spec, KeepsAudit, Audit!Spec
=============================================================================
