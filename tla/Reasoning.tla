------------------------------ MODULE Reasoning ------------------------------
(***************************************************************************)
(* The internal reasoning of a run (internal/runtime/reasoning.go): how a  *)
(* configuration is normalized, and how think and analyze, their budgets   *)
(* and their failures steer the run loop of internal/runtime/engine.go.    *)
(*                                                                         *)
(* AgentRun leaves the decisions of reasoning open; here they are what the *)
(* two internal tools compute.  A candidate response is told by what the   *)
(* tools ask of it: is it blank, does it look unfinished.  Neither tool is *)
(* ever given a suggested tool by the loop, so none suggests one.          *)
(***************************************************************************)
EXTENDS Integers

CONSTANTS
  MaxSteps,   \* Request.MaxSteps: turns of the model
  MaxCalls,   \* tool calls the model may ask for in a turn
  MaxBudget   \* largest budget a configuration names

ASSUME StepsAssumption == MaxSteps \in Nat \ {0}
ASSUME BoundsAssumption == MaxCalls \in Nat /\ MaxBudget \in Nat

VARIABLES
  raw,            \* the ReasoningConfig the engine was built with
  ctxDone,        \* has the context of the run ended?
  pc,             \* where the run is
  step,           \* turns of the model so far
  calls,          \* tool calls of this turn still to be made
  toolSeen,       \* is there a result of a public tool?
  text,           \* the candidate response, "none" after a tool result
  stepsUsed,      \* r.stepsUsed
  analyzePasses,  \* r.analyzePasses
  disabled,       \* r.disabled
  approved,       \* has analyze approved this very candidate?
  outcome         \* how the run ended

loopVars   == <<step, calls, toolSeen, text>>
budgetVars == <<stepsUsed, analyzePasses, disabled>>
vars == <<raw, ctxDone, pc, loopVars, budgetVars, approved, outcome>>

Modes    == {"disabled", "think_only", "think_and_analyze"}
Policies == {"fail_open", "fail_closed"}
Configs  == [enabled : BOOLEAN, mode : Modes \cup {"unset"},
             maxSteps : 0..MaxBudget, maxPasses : 0..MaxBudget,
             require : BOOLEAN, after : BOOLEAN, policy : Policies \cup {"unset"}]
Texts    == {"empty", "unfinished", "ready"}
Outcomes == {"running", "responded", "budget", "invocation", "blocked", "other"}

-----------------------------------------------------------------------------
(* normalizeReasoningConfig: the validating options imply a mode that can   *)
(* validate, and the one that guards the response a policy that fails.      *)

Guarding(c) == c.require \/ c.after

EnabledFlag(c) == c.enabled \/ c.mode \notin {"unset", "disabled"} \/ Guarding(c)

ModeOf(c) ==
  IF Guarding(c) THEN "think_and_analyze"
  ELSE IF c.mode = "unset" /\ c.enabled THEN "think_and_analyze"
  ELSE IF EnabledFlag(c) /\ c.mode # "unset" THEN c.mode ELSE "disabled"

OrDefault(n, default) == IF n <= 0 THEN default ELSE n

StepBudget(c) == OrDefault(c.maxSteps, 2)

PassesAsGiven(c) == OrDefault(c.maxPasses, 1)   \* mutant: more than all the steps
PassBudget(c) ==
  LET n == OrDefault(c.maxPasses, 1) IN IF n > StepBudget(c) THEN StepBudget(c) ELSE n

PolicyAsGiven(c) == IF c.policy = "unset" THEN "fail_open" ELSE c.policy   \* mutant
PolicyOf(c) ==
  IF c.require THEN "fail_closed" ELSE IF c.policy = "unset" THEN "fail_open" ELSE c.policy

Normalize(c) ==
  [enabled  |-> EnabledFlag(c), mode      |-> ModeOf(c),
   maxSteps |-> StepBudget(c),  maxPasses |-> PassBudget(c),
   require  |-> c.require,      after     |-> c.after,       policy |-> PolicyOf(c)]

cfg == Normalize(raw)

-----------------------------------------------------------------------------
TypeOK ==
  /\ raw \in Configs
  /\ ctxDone \in BOOLEAN
  /\ pc \in {"model", "tool", "think", "analyze", "respond", "done"}
  /\ step \in 0..MaxSteps /\ calls \in 0..MaxCalls
  /\ toolSeen \in BOOLEAN
  /\ text \in Texts \cup {"none"}
  /\ stepsUsed \in Nat /\ analyzePasses \in Nat
  /\ disabled \in BOOLEAN /\ approved \in BOOLEAN
  /\ outcome \in Outcomes
  /\ pc = "done" <=> outcome # "running"

Init ==
  /\ raw \in Configs
  /\ ctxDone = FALSE
  /\ pc = "model"
  /\ step = 0 /\ calls = 0 /\ toolSeen = FALSE /\ text = "none"
  /\ stepsUsed = 0 /\ analyzePasses = 0 /\ disabled = FALSE
  /\ approved = FALSE
  /\ outcome = "running"

\* newReasoningRuntime makes no runtime for a disabled mode, and a run whose
\* reasoning failed open has none any more.
HasRuntime == cfg.mode # "disabled"    \* mutant: a failure does not disable it
Enabled    == cfg.mode # "disabled" /\ ~disabled

Go(to) == pc' = to /\ UNCHANGED outcome

End(how) == pc' = "done" /\ outcome' = how

\* continue after a candidate response: another turn, if there is one left.
NextTurnLate == IF step > MaxSteps THEN End("other") ELSE Go("model")   \* mutant
NextTurn     == IF step = MaxSteps THEN End("other") ELSE Go("model")

\* After a tool result the loop goes on with the next call in any case.
Continue == IF text = "none" THEN Go("tool") ELSE NextTurn

-----------------------------------------------------------------------------
(* The run loop around the reasoning. *)

ModelAnswers ==
  /\ pc = "model" /\ ~ctxDone
  /\ step' = step + 1
  /\ text' \in Texts
  /\ approved' = FALSE
  /\ Go(IF Enabled THEN "think" ELSE "respond")
  /\ UNCHANGED <<raw, ctxDone, calls, toolSeen, budgetVars>>

ModelCalls ==
  /\ pc = "model" /\ ~ctxDone
  /\ step' = step + 1
  /\ calls' \in 1..MaxCalls
  /\ text' = "none"
  /\ Go("tool")
  /\ UNCHANGED <<raw, ctxDone, toolSeen, budgetVars, approved>>

CallTool ==
  /\ pc = "tool" /\ calls > 0 /\ ~ctxDone
  /\ calls' = calls - 1
  /\ toolSeen' = TRUE
  /\ Go(IF Enabled THEN "think" ELSE "tool")
  /\ UNCHANGED <<raw, ctxDone, step, text, budgetVars, approved>>

CallsDone ==
  /\ pc = "tool" /\ calls = 0
  /\ NextTurn
  /\ UNCHANGED <<raw, ctxDone, loopVars, budgetVars, approved>>

\* The model, a tool, a guardrail or the store fails, or the loop finds the
\* context done before it calls the next of them.
RunFails ==
  /\ pc \in {"model", "tool", "respond"}
  /\ End("other")
  /\ UNCHANGED <<raw, ctxDone, loopVars, budgetVars, approved>>

Respond ==
  /\ pc = "respond"
  /\ End("responded")
  /\ UNCHANGED <<raw, ctxDone, loopVars, budgetVars, approved>>

-----------------------------------------------------------------------------
(* think and analyze. *)

\* onFailure: fail_open goes on as if there had been no reasoning.
OnFailure(why) ==
  IF cfg.policy = "fail_open"
  THEN disabled' = TRUE /\ Go(IF text = "none" THEN "tool" ELSE "respond")
  ELSE End(why) /\ UNCHANGED disabled

\* consumeBudget.
ThinkRefused   == stepsUsed >= cfg.maxSteps
StepsRefused   == stepsUsed >= cfg.maxSteps   \* mutant: passes are not limited
AnalyzeRefused == stepsUsed >= cfg.maxSteps \/ analyzePasses >= cfg.maxPasses

\* thinkTool.Call: a candidate is validated or delivered, a tool result is
\* validated or used; without either the loop goes on.
Decision ==
  IF text \in {"unfinished", "ready"}
  THEN IF cfg.require /\ cfg.mode = "think_and_analyze" THEN "validate" ELSE "respond"
  ELSE IF toolSeen /\ cfg.after /\ cfg.mode = "think_and_analyze"
       THEN "validate" ELSE "continue"

\* interpretThink.
Follow(decision) ==
  CASE decision = "validate" -> Go("analyze")
    [] decision = "respond"  -> Go("respond")
    [] decision = "continue" -> Continue

ThinkOverBudget ==
  /\ pc = "think" /\ ThinkRefused
  /\ OnFailure("budget")
  /\ UNCHANGED <<raw, ctxDone, loopVars, stepsUsed, analyzePasses, approved>>

\* tool.Invoke fails: the context has ended, or a message of the snapshot holds a
\* value that is no JSON value.
ThinkFails ==
  /\ pc = "think" /\ ~ThinkRefused
  /\ stepsUsed' = stepsUsed + 1
  /\ OnFailure("invocation")
  /\ UNCHANGED <<raw, ctxDone, loopVars, analyzePasses, approved>>

Think ==
  /\ pc = "think" /\ ~ThinkRefused /\ ~ctxDone
  /\ stepsUsed' = stepsUsed + 1
  /\ Follow(Decision)
  /\ UNCHANGED <<raw, ctxDone, loopVars, analyzePasses, disabled, approved>>

AnalyzeOverBudget ==
  /\ pc = "analyze" /\ AnalyzeRefused
  /\ OnFailure("budget")
  /\ UNCHANGED <<raw, ctxDone, loopVars, stepsUsed, analyzePasses, approved>>

\* What analyze is given has passed think: only the context can fail it.
AnalyzeFails ==
  /\ pc = "analyze" /\ ~AnalyzeRefused /\ ctxDone
  /\ stepsUsed' = stepsUsed + 1
  /\ analyzePasses' = analyzePasses + 1
  /\ OnFailure("invocation")
  /\ UNCHANGED <<raw, ctxDone, loopVars, approved>>

\* analyzeTool.Call: a tool result is always good enough; of a candidate it
\* looks at the text.
Verdict ==
  CASE text = "none"       -> "approved"
    [] text = "ready"      -> "approved"
    [] text = "unfinished" -> "needs_more_work"
    [] text = "empty"      -> "blocked"

\* interpretAnalyze: blocked ends the run, whatever the policy.
Analyze ==
  /\ pc = "analyze" /\ ~AnalyzeRefused /\ ~ctxDone
  /\ stepsUsed' = stepsUsed + 1
  /\ analyzePasses' = analyzePasses + 1
  /\ CASE Verdict = "blocked" -> End("blocked")
       [] Verdict = "needs_more_work" \/ text = "none" -> Continue
       [] OTHER -> Go("respond")
  /\ approved' = (Verdict = "approved")
  /\ UNCHANGED <<raw, ctxDone, loopVars, disabled>>

-----------------------------------------------------------------------------
CancelContext ==
  /\ ~ctxDone /\ pc # "done"
  /\ ctxDone' = TRUE
  /\ UNCHANGED <<raw, pc, loopVars, budgetVars, approved, outcome>>

Terminated == pc = "done" /\ UNCHANGED vars

Next ==
  \/ ModelAnswers \/ ModelCalls \/ CallTool \/ CallsDone \/ RunFails \/ Respond
  \/ ThinkOverBudget \/ ThinkFails \/ Think
  \/ AnalyzeOverBudget \/ AnalyzeFails \/ Analyze
  \/ CancelContext \/ Terminated

Spec == Init /\ [][Next]_vars
-----------------------------------------------------------------------------
\* 041-reasoning-tools.md 6: require_analyze_before_response means that no
\* final response is given unless analyze has approved that very response,
\* whatever else the configuration says and whatever fails.
NoUnapprovedResponse ==
  outcome = "responded" /\ raw.require => approved

\* 041-reasoning-tools.md 6 and 7.3: the two budgets bound think and analyze
\* over the whole run, and an analyze counts for both.  The configuration, which
\* options and engine normalize in turn, allows no more analyses than steps.
WithinBudgets ==
  /\ TypeOK
  /\ stepsUsed <= cfg.maxSteps
  /\ analyzePasses <= cfg.maxPasses /\ analyzePasses <= stepsUsed
  /\ Normalize(cfg) = cfg /\ cfg.maxPasses <= cfg.maxSteps

\* 041-reasoning-tools.md 7.3: once a failure has disabled reasoning there is no
\* further invocation in the run, and none of its failures ends the run.
DisabledForGood ==
  [][disabled => /\ UNCHANGED budgetVars
                 /\ outcome' \in {"running", "responded", "other"}]_vars
=============================================================================
