-------------------------- MODULE ReasoningProofs --------------------------
(***************************************************************************)
(* Proofs about Reasoning, for every configuration, any budgets and any    *)
(* number of turns and calls.                                              *)
(***************************************************************************)
EXTENDS Reasoning, TLAPS

(***************************************************************************)
(* The configuration.                                                      *)
(***************************************************************************)
LEMMA BudgetFacts ==
  ASSUME NEW c \in Configs
  PROVE  /\ StepBudget(c) \in Nat \ {0} /\ PassBudget(c) \in Nat \ {0}
         /\ PassBudget(c) <= StepBudget(c)
         /\ c.maxSteps \in Nat \ {0} => StepBudget(c) = c.maxSteps
         /\ c.maxPasses \in Nat \ {0} /\ c.maxSteps \in Nat \ {0} /\ c.maxPasses <= c.maxSteps =>
              PassBudget(c) = c.maxPasses
  BY BoundsAssumption DEF Configs, StepBudget, PassBudget, OrDefault

LEMMA NormalizedFields ==
  ASSUME NEW c \in Configs
  PROVE  /\ Normalize(c).enabled = EnabledFlag(c) /\ Normalize(c).mode = ModeOf(c)
         /\ Normalize(c).maxSteps = StepBudget(c) /\ Normalize(c).maxPasses = PassBudget(c)
         /\ Normalize(c).policy = PolicyOf(c)
         /\ Normalize(c).require = c.require /\ Normalize(c).after = c.after
  BY DEF Normalize

\* Normalizing twice is normalizing once: the options of an agent and the engine
\* (reasoning.go, normalizeReasoningConfig) may both do it.
LEMMA NormalizeIdempotent ==
  ASSUME NEW c \in Configs
  PROVE  Normalize(Normalize(c)) = Normalize(c)
  <1> DEFINE d == Normalize(c)
  <1>1. /\ d.enabled = EnabledFlag(c) /\ d.mode = ModeOf(c) /\ d.maxSteps = StepBudget(c)
        /\ d.maxPasses = PassBudget(c) /\ d.require = c.require /\ d.after = c.after
        /\ d.policy = PolicyOf(c)
    BY NormalizedFields
  <1> HIDE DEF d
  <1>2. Guarding(d) = Guarding(c) BY <1>1 DEF Guarding
  <1>3. EnabledFlag(d) = EnabledFlag(c)
    BY <1>1, <1>2 DEF EnabledFlag, ModeOf, Guarding, Configs, Modes
  <1>4. ModeOf(d) = ModeOf(c)
    BY <1>1, <1>2, <1>3 DEF EnabledFlag, ModeOf, Configs, Modes
  <1>5. StepBudget(d) = StepBudget(c) /\ PassBudget(d) = PassBudget(c)
    BY <1>1, BudgetFacts DEF StepBudget, PassBudget, OrDefault
  <1>6. PolicyOf(d) = PolicyOf(c) BY <1>1 DEF PolicyOf
  <1>7. QED BY <1>1, <1>3, <1>4, <1>5, <1>6 DEF d, Normalize

\* require_analyze_before_response implies a mode that analyzes and a policy that
\* never goes on without it.
LEMMA RequireFacts ==
  ASSUME raw \in Configs, raw.require
  PROVE  cfg.mode = "think_and_analyze" /\ cfg.policy = "fail_closed" /\ cfg.require
  BY NormalizedFields DEF cfg, ModeOf, Guarding, PolicyOf

-----------------------------------------------------------------------------
(***************************************************************************)
(* The inductive invariant: the run is about to give a response that was   *)
(* required to be approved only if it was; with that requirement reasoning *)
(* is never disabled; once it is, the run neither thinks nor analyzes.     *)
(***************************************************************************)
TurnInv == pc = "model" => step < MaxSteps

ApprovedInv == raw.require => /\ ~disabled
                              /\ pc = "respond" \/ outcome = "responded" => approved

DisabledInv == disabled => /\ pc \notin {"think", "analyze"}
                           /\ outcome \in {"running", "responded", "other"}

BudgetInv ==
  /\ stepsUsed <= cfg.maxSteps
  /\ analyzePasses <= cfg.maxPasses /\ analyzePasses <= stepsUsed

IInv == TypeOK /\ TurnInv /\ ApprovedInv /\ DisabledInv /\ BudgetInv

LEMMA IInvInit == Init => IInv
  <1> SUFFICES ASSUME Init PROVE IInv OBVIOUS
  <1>1. TypeOK
    <2>1. step \in 0..MaxSteps /\ calls \in 0..MaxCalls /\ stepsUsed \in Nat /\ analyzePasses \in Nat
      BY StepsAssumption, BoundsAssumption DEF Init
    <2>2. QED BY <2>1 DEF Init, TypeOK, Outcomes
  <1>2. TurnInv BY StepsAssumption DEF Init, TurnInv
  <1>3. ApprovedInv /\ DisabledInv BY DEF Init, ApprovedInv, DisabledInv
  <1>4. BudgetInv
    <2>1. raw \in Configs BY DEF Init
    <2>2. cfg.maxSteps \in Nat /\ cfg.maxPasses \in Nat
      BY <2>1, BudgetFacts, NormalizedFields DEF cfg
    <2>3. QED BY <2>2 DEF Init, BudgetInv
  <1>5. QED BY <1>1, <1>2, <1>3, <1>4 DEF IInv

LEMMA CfgFacts ==
  ASSUME IInv
  PROVE  /\ raw \in Configs /\ raw.require \in BOOLEAN
         /\ cfg.maxSteps \in Nat /\ cfg.maxPasses \in Nat
         /\ cfg.policy \in {"fail_open", "fail_closed"}
         /\ raw.require => /\ cfg.mode = "think_and_analyze"
                           /\ cfg.policy = "fail_closed" /\ cfg.require
  <1>1. raw \in Configs BY DEF IInv, TypeOK
  <1>2. PolicyOf(raw) \in {"fail_open", "fail_closed"}
    BY <1>1 DEF PolicyOf, Configs, Policies
  <1>3. QED
    BY <1>1, <1>2, BudgetFacts, NormalizedFields, RequireFacts DEF cfg, Configs

-----------------------------------------------------------------------------
(* The steps that do not think. *)

\* A step that leaves the budgets alone keeps them.
LEMMA BudgetFrame ==
  ASSUME BudgetInv, UNCHANGED <<raw, stepsUsed, analyzePasses>>
  PROVE  BudgetInv'
  BY DEF BudgetInv, cfg

LEMMA ModelNext ==
  ASSUME IInv, ModelAnswers \/ ModelCalls
  PROVE  IInv'
  <1>1. /\ pc = "model" /\ step' = step + 1 /\ pc' \in {"think", "respond", "tool"}
        /\ text' \in Texts \cup {"none"} /\ calls' \in 0..MaxCalls /\ approved' \in BOOLEAN
        /\ pc' = "think" => Enabled
        /\ pc' = "respond" => ~Enabled
        /\ UNCHANGED <<raw, ctxDone, toolSeen, budgetVars, outcome>>
    <2>1. CASE ModelAnswers BY <2>1 DEF ModelAnswers, Go, IInv, TypeOK
    <2>2. CASE ModelCalls
      <3>1. \A n \in 1..MaxCalls : n \in 0..MaxCalls BY BoundsAssumption
      <3>2. QED BY <2>2, <3>1 DEF ModelCalls, Go, IInv, TypeOK
    <2>3. QED BY <2>1, <2>2
  <1>2. step' \in 0..MaxSteps BY <1>1, StepsAssumption DEF IInv, TypeOK, TurnInv
  <1>3. TypeOK' BY <1>1, <1>2 DEF IInv, TypeOK, budgetVars
  <1>4. TurnInv' BY <1>1 DEF TurnInv
  <1>5. raw.require => Enabled BY CfgFacts DEF IInv, ApprovedInv, Enabled
  <1>6. outcome = "running" BY <1>1 DEF IInv, TypeOK
  <1>7. ApprovedInv' /\ DisabledInv'
    BY <1>1, <1>5, <1>6 DEF IInv, ApprovedInv, DisabledInv, Enabled, budgetVars
  <1>8. BudgetInv' BY <1>1, BudgetFrame DEF IInv, budgetVars
  <1>9. QED BY <1>3, <1>4, <1>7, <1>8 DEF IInv

LEMMA CallToolNext ==
  ASSUME IInv, CallTool
  PROVE  IInv'
  <1>1. /\ pc = "tool" /\ calls > 0 /\ calls' = calls - 1 /\ toolSeen' = TRUE
        /\ pc' \in {"think", "tool"} /\ (pc' = "think" => Enabled)
        /\ UNCHANGED <<raw, ctxDone, step, text, budgetVars, approved, outcome>>
    BY DEF CallTool, Go
  <1>2. calls' \in 0..MaxCalls BY <1>1, BoundsAssumption DEF IInv, TypeOK
  <1>3. TypeOK' BY <1>1, <1>2 DEF IInv, TypeOK, budgetVars
  <1>4. TurnInv' /\ ApprovedInv' /\ DisabledInv'
    BY <1>1 DEF IInv, TypeOK, TurnInv, ApprovedInv, DisabledInv, Enabled, budgetVars
  <1>5. BudgetInv' BY <1>1, BudgetFrame DEF IInv, budgetVars
  <1>6. QED BY <1>3, <1>4, <1>5 DEF IInv

\* Where the loop goes on after a candidate, or after the calls of a turn.
LEMMA NextTurnFacts ==
  ASSUME IInv, pc # "done", NextTurn
  PROVE  \/ pc' = "done" /\ outcome' = "other"
         \/ pc' = "model" /\ outcome' = outcome /\ step < MaxSteps
  BY StepsAssumption DEF IInv, TypeOK, NextTurn, End, Go

LEMMA LoopNext ==
  ASSUME IInv, CallsDone \/ RunFails \/ Respond
  PROVE  IInv'
  <1>1. /\ pc \in {"model", "tool", "respond"}
        /\ UNCHANGED <<raw, ctxDone, loopVars, budgetVars, approved>>
    BY DEF CallsDone, RunFails, Respond
  <1>2. \/ pc' = "done" /\ outcome' = "other"
        \/ pc' = "model" /\ outcome' = outcome /\ step < MaxSteps
        \/ pc = "respond" /\ pc' = "done" /\ outcome' = "responded"
    BY <1>1, NextTurnFacts DEF CallsDone, RunFails, Respond, End
  <1>3. TypeOK' BY <1>1, <1>2 DEF IInv, TypeOK, loopVars, budgetVars, Outcomes
  <1>4. TurnInv' BY <1>1, <1>2 DEF TurnInv, loopVars
  <1>5. ApprovedInv' /\ DisabledInv'
    BY <1>1, <1>2 DEF IInv, TypeOK, ApprovedInv, DisabledInv, budgetVars
  <1>6. BudgetInv' BY <1>1, BudgetFrame DEF IInv, budgetVars
  <1>7. QED BY <1>3, <1>4, <1>5, <1>6 DEF IInv

-----------------------------------------------------------------------------
(* The steps that think and analyze. *)

\* A failure disables reasoning where the policy allows it, or ends the run.
LEMMA FailureFacts ==
  ASSUME IInv, NEW why \in {"budget", "invocation"}, OnFailure(why)
  PROVE  \/ disabled' = TRUE /\ pc' \in {"tool", "respond"} /\ outcome' = outcome /\ ~raw.require
         \/ disabled' = disabled /\ pc' = "done" /\ outcome' = why
  BY CfgFacts DEF OnFailure, Go, End

\* What the two budgets are after an invocation that was not refused.
LEMMA SpendFacts ==
  ASSUME IInv, raw' = raw, stepsUsed' = stepsUsed + 1, ~ThinkRefused,
         \/ analyzePasses' = analyzePasses
         \/ analyzePasses' = analyzePasses + 1 /\ ~AnalyzeRefused
  PROVE  BudgetInv' /\ stepsUsed' \in Nat /\ analyzePasses' \in Nat
  <1>1. cfg' = cfg BY DEF cfg
  <1>2. stepsUsed \in Nat /\ analyzePasses \in Nat BY DEF IInv, TypeOK
  <1>3. cfg.maxSteps \in Nat /\ cfg.maxPasses \in Nat BY CfgFacts
  <1>4. QED
    BY <1>1, <1>2, <1>3 DEF IInv, BudgetInv, ThinkRefused, AnalyzeRefused

LEMMA FailNext ==
  ASSUME IInv, ThinkOverBudget \/ ThinkFails \/ AnalyzeOverBudget \/ AnalyzeFails
  PROVE  IInv'
  <1>1. /\ pc \in {"think", "analyze"}
        /\ UNCHANGED <<raw, ctxDone, loopVars, approved>>
        /\ \E why \in {"budget", "invocation"} : OnFailure(why)
    BY DEF ThinkOverBudget, ThinkFails, AnalyzeOverBudget, AnalyzeFails
  <1>2. \/ disabled' = TRUE /\ pc' \in {"tool", "respond"} /\ outcome' = outcome /\ ~raw.require
        \/ disabled' = disabled /\ pc' = "done" /\ outcome' \in {"budget", "invocation"}
    BY <1>1, FailureFacts
  <1>3. BudgetInv' /\ stepsUsed' \in Nat /\ analyzePasses' \in Nat
    <2>1. CASE ThinkOverBudget \/ AnalyzeOverBudget
      BY <1>1, <2>1, BudgetFrame
      DEF ThinkOverBudget, AnalyzeOverBudget, IInv, TypeOK
    <2>2. CASE ThinkFails BY <1>1, <2>2, SpendFacts DEF ThinkFails
    <2>3. CASE AnalyzeFails
      BY <1>1, <2>3, SpendFacts DEF AnalyzeFails, AnalyzeRefused, ThinkRefused
    <2>4. QED BY <2>1, <2>2, <2>3
  <1>4. TypeOK' BY <1>1, <1>2, <1>3 DEF IInv, TypeOK, loopVars, Outcomes
  <1>5. TurnInv' BY <1>2 DEF TurnInv
  <1>6. ApprovedInv'
    BY <1>1, <1>2 DEF IInv, TypeOK, ApprovedInv
  <1>7. DisabledInv'
    BY <1>1, <1>2 DEF IInv, TypeOK, DisabledInv
  <1>8. QED BY <1>3, <1>4, <1>5, <1>6, <1>7 DEF IInv

\* Where Continue leads.
LEMMA ContinueFacts ==
  ASSUME IInv, pc # "done", Continue
  PROVE  \/ pc' = "done" /\ outcome' = "other"
         \/ pc' = "model" /\ outcome' = outcome /\ step < MaxSteps
         \/ pc' = "tool" /\ outcome' = outcome
  BY NextTurnFacts DEF Continue, Go

LEMMA ThinkNext ==
  ASSUME IInv, Think
  PROVE  IInv'
  <1>1. /\ pc = "think" /\ ~ThinkRefused /\ stepsUsed' = stepsUsed + 1
        /\ UNCHANGED <<raw, ctxDone, loopVars, analyzePasses, disabled, approved>>
        /\ Follow(Decision)
    BY DEF Think
  <1>2. Decision = "respond" => ~raw.require
    BY CfgFacts DEF Decision
  <1>3. \/ pc' = "analyze" /\ outcome' = outcome
        \/ pc' = "respond" /\ outcome' = outcome /\ ~raw.require
        \/ pc' = "done" /\ outcome' = "other"
        \/ pc' = "model" /\ outcome' = outcome /\ step < MaxSteps
        \/ pc' = "tool" /\ outcome' = outcome
    <2>1. CASE Decision = "validate" BY <1>1, <2>1 DEF Follow, Go
    <2>2. CASE Decision = "respond" BY <1>1, <1>2, <2>2 DEF Follow, Go
    <2>3. CASE Decision = "continue" BY <1>1, <2>3, ContinueFacts DEF Follow
    <2>4. Decision \in {"validate", "respond", "continue"} BY DEF Decision
    <2>5. QED BY <2>1, <2>2, <2>3, <2>4
  <1>4. BudgetInv' /\ stepsUsed' \in Nat /\ analyzePasses' \in Nat
    BY <1>1, SpendFacts
  <1>5. TypeOK' BY <1>1, <1>3, <1>4 DEF IInv, TypeOK, loopVars, Outcomes
  <1>6. TurnInv' BY <1>1, <1>3 DEF TurnInv, loopVars
  <1>7. ApprovedInv' /\ DisabledInv'
    BY <1>1, <1>3 DEF IInv, TypeOK, ApprovedInv, DisabledInv
  <1>8. QED BY <1>4, <1>5, <1>6, <1>7 DEF IInv

LEMMA AnalyzeNext ==
  ASSUME IInv, Analyze
  PROVE  IInv'
  <1>1. /\ pc = "analyze" /\ ~AnalyzeRefused /\ stepsUsed' = stepsUsed + 1
        /\ analyzePasses' = analyzePasses + 1
        /\ approved' = (Verdict = "approved")
        /\ UNCHANGED <<raw, ctxDone, loopVars, disabled>>
    BY DEF Analyze
  <1>2. Verdict \in {"approved", "needs_more_work", "blocked"}
    BY DEF IInv, TypeOK, Texts, Verdict
  <1>3. \/ pc' = "done" /\ outcome' \in {"blocked", "other"}
        \/ pc' = "model" /\ outcome' = outcome /\ step < MaxSteps
        \/ pc' = "tool" /\ outcome' = outcome
        \/ pc' = "respond" /\ outcome' = outcome /\ approved'
    <2>1. CASE Verdict = "blocked"
      <3>1. text # "none" BY <2>1 DEF Verdict
      <3>2. End("blocked") BY <2>1, <3>1 DEF Analyze
      <3>3. QED BY <3>2 DEF End
    <2>2. CASE Verdict # "blocked" /\ (Verdict = "needs_more_work" \/ text = "none")
      BY <1>1, <2>2, ContinueFacts DEF Analyze
    <2>3. CASE Verdict = "approved" /\ text # "none"
      <3>1. pc' = "respond" /\ outcome' = outcome BY <2>3 DEF Analyze, Go
      <3>2. approved' BY <1>1, <2>3
      <3>3. QED BY <3>1, <3>2
    <2>4. QED BY <1>2, <2>1, <2>2, <2>3
  <1>4. BudgetInv' /\ stepsUsed' \in Nat /\ analyzePasses' \in Nat
    BY <1>1, SpendFacts DEF AnalyzeRefused, ThinkRefused
  <1>5. approved' \in BOOLEAN BY <1>1
  <1>6. TypeOK' BY <1>1, <1>3, <1>4, <1>5 DEF IInv, TypeOK, loopVars, Outcomes
  <1>7. TurnInv' BY <1>1, <1>3 DEF TurnInv, loopVars
  <1>8. ApprovedInv' /\ DisabledInv'
    BY <1>1, <1>3 DEF IInv, TypeOK, ApprovedInv, DisabledInv
  <1>9. QED BY <1>4, <1>6, <1>7, <1>8 DEF IInv

LEMMA QuietNext ==
  ASSUME IInv, ctxDone' \in BOOLEAN,
         UNCHANGED <<raw, pc, loopVars, budgetVars, approved, outcome>>
  PROVE  IInv'
  <1>1. TypeOK' BY DEF IInv, TypeOK, loopVars, budgetVars
  <1>2. TurnInv' /\ ApprovedInv' /\ DisabledInv'
    BY DEF IInv, TurnInv, ApprovedInv, DisabledInv, loopVars, budgetVars
  <1>3. BudgetInv' BY BudgetFrame DEF IInv, budgetVars
  <1>4. QED BY <1>1, <1>2, <1>3 DEF IInv

LEMMA IInvNext == IInv /\ [Next]_vars => IInv'
  <1> SUFFICES ASSUME IInv, [Next]_vars PROVE IInv' OBVIOUS
  <1>1. CASE ModelAnswers \/ ModelCalls \/ CallTool BY <1>1, ModelNext, CallToolNext
  <1>2. CASE CallsDone \/ RunFails \/ Respond BY <1>2, LoopNext
  <1>3. CASE ThinkOverBudget \/ ThinkFails \/ AnalyzeOverBudget \/ AnalyzeFails
    BY <1>3, FailNext
  <1>4. CASE Think \/ Analyze BY <1>4, ThinkNext, AnalyzeNext
  <1>5. CASE CancelContext BY <1>5, QuietNext DEF CancelContext
  <1>6. CASE UNCHANGED vars BY <1>6, QuietNext DEF vars, IInv, TypeOK
  <1>7. QED BY <1>1, <1>2, <1>3, <1>4, <1>5, <1>6 DEF Next, Terminated

LEMMA Invariance == Spec => []IInv
  <1>1. QED BY IInvInit, IInvNext, PTL DEF Spec

-----------------------------------------------------------------------------
(* The theorems. *)

\* NoUnapprovedResponse: with require_analyze_before_response no response is
\* given that analyze has not approved, in any configuration.
THEOREM ResponsesApproved == Spec => []NoUnapprovedResponse
  <1>1. IInv => NoUnapprovedResponse BY DEF IInv, ApprovedInv, NoUnapprovedResponse
  <1>2. QED BY <1>1, Invariance, PTL

\* WithinBudgets: think and analyze stay within their budgets for the whole run,
\* and normalizing the configuration again changes nothing.
THEOREM BudgetsHold == Spec => []WithinBudgets
  <1>1. IInv => WithinBudgets
    <2> SUFFICES ASSUME IInv PROVE WithinBudgets OBVIOUS
    <2>1. raw \in Configs BY CfgFacts
    <2>2. Normalize(cfg) = cfg BY <2>1, NormalizeIdempotent DEF cfg
    <2>3. cfg.maxPasses <= cfg.maxSteps
      BY <2>1, NormalizedFields, BudgetFacts DEF cfg
    <2>4. QED BY <2>2, <2>3 DEF IInv, BudgetInv, WithinBudgets
  <1>2. QED BY <1>1, Invariance, PTL

\* DisabledForGood: a run whose reasoning failed open neither thinks nor analyzes
\* again, and is not ended by reasoning.
THEOREM DisabledIsFinal == Spec => DisabledForGood
  <1> DEFINE Step == disabled => /\ UNCHANGED budgetVars
                                 /\ outcome' \in {"running", "responded", "other"}
  <1>1. IInv /\ [Next]_vars => [Step]_vars
    <2> SUFFICES ASSUME IInv, Next, disabled PROVE Step BY DEF Terminated
    <2>1. pc \notin {"think", "analyze"} BY DEF IInv, DisabledInv
    <2>2. IInv' BY IInvNext
    <2>3. UNCHANGED budgetVars
      <3>1. CASE ModelAnswers \/ ModelCalls \/ CallTool \/ CallsDone
        BY <3>1 DEF ModelAnswers, ModelCalls, CallTool, CallsDone
      <3>2. CASE RunFails \/ Respond \/ CancelContext \/ Terminated
        BY <3>2 DEF RunFails, Respond, CancelContext, Terminated, vars
      <3>3. CASE ThinkOverBudget \/ ThinkFails \/ Think
        BY <2>1, <3>3 DEF ThinkOverBudget, ThinkFails, Think
      <3>4. CASE AnalyzeOverBudget \/ AnalyzeFails \/ Analyze
        BY <2>1, <3>4 DEF AnalyzeOverBudget, AnalyzeFails, Analyze
      <3>5. QED BY <3>1, <3>2, <3>3, <3>4 DEF Next
    <2>4. disabled' BY <2>3 DEF budgetVars
    <2>5. QED BY <2>2, <2>3, <2>4 DEF IInv, DisabledInv
  <1>2. QED BY <1>1, Invariance, PTL DEF Spec, DisabledForGood
=============================================================================
