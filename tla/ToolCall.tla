------------------------------ MODULE ToolCall ------------------------------
(***************************************************************************)
(* The way of a tool call: an agent is built with its tools                *)
(* (pkg/agent/agent.go New), a request narrows them (normalizeRequest,     *)
(* filterTools), the model or the reasoning of the engine asks for one     *)
(* (invokePublicToolCall, executeSuggestedToolCall), and tool.Invoke       *)
(* validates what goes in and what comes out.                              *)
(*                                                                         *)
(* A turn has one call here, and ends the run only for what concerns it:   *)
(* AgentRun has the rest of the run, with its events and other failures,   *)
(* and ToolRegistry what a registration does to the registry.  ToolSchema  *)
(* has what the validation of definitions and values computes.             *)
(***************************************************************************)
EXTENDS ToolSchema

CONSTANTS
  ToolNames,    \* effective names of tools
  Reserved,     \* those in the namespace "reasoning."
  AgentSteps,   \* the agent's MaxSteps
  Lists,        \* what a request may give as AllowedTools, as sets; a bound of the model
  Inputs,       \* what a model may put in a call
  Outputs,      \* what a tool may return
  Typical       \* a bound of the model: the schemas, inputs and outputs that are met
                \* with every request; the others are met with the plain one only

ASSUME ReservedAssumption ==
  Reserved \subseteq ToolNames /\ Reserved # ToolNames /\ Unset \notin ToolNames
ASSUME StepsAssumption == AgentSteps \in Nat \ {0}
ASSUME ValuesAssumption == Inputs \cup Outputs \subseteq Values
ASSUME TypicalAssumption ==
  Typical.schemas \subseteq Schemas /\ Typical.inputs \subseteq Inputs /\ Typical.outputs \subseteq Outputs

VARIABLES
  cands,       \* the tools given to New, as written
  def,         \* their definition
  raw,         \* the Request, as given
  agentTools,  \* Agent.tools
  choice,      \* the effective request
  maxSteps,
  offered,     \* effectiveTools
  at, step,
  call,        \* the tool call in progress
  value,       \* what the tool returned
  ended,       \* is the context done?
  outcome      \* the error of the run, "ok" when it has answered

agentVars == <<cands, def, agentTools>>
reqVars   == <<raw, choice, maxSteps, offered>>
callVars  == <<agentVars, reqVars, at, step, call, value, ended, outcome>>

\* A name as somebody wrote it, with or without space around it.
Written == [name : ToolNames \cup {Unset}, padded : BOOLEAN]
Exact(n) == [name |-> n, padded |-> FALSE]

ASSUME ListsAssumption == Lists \subseteq SUBSET Written /\ {} \in Lists

NoValue == [type |-> "nil"]
NoCall == [name |-> Exact(Unset), id |-> Unset, input |-> NoValue]

\* complete: it has a context, and a session if the agent has a memory.
Requests ==
  [allowed : Lists,
   choice : {Unset, "auto", "none", "required"}, steps : -1..(AgentSteps + 1),
   complete : BOOLEAN]

PlainRequest == [allowed |-> {}, choice |-> Unset, steps |-> 0, complete |-> TRUE]
IsTypical == def.in \in Typical.schemas /\ def.out \in Typical.schemas
SomeNames == IF IsTypical THEN Written ELSE {Exact(n) : n \in agentTools}
SomeInputs == IF raw = PlainRequest THEN Inputs ELSE Typical.inputs
SomeOutputs == IF raw = PlainRequest THEN Outputs ELSE Typical.outputs

Outcomes == {"none", "ok", "invalid_config", "invalid_request", "disabled", "unavailable",
             "invalid_tool", "invalid_input", "canceled", "execution", "invalid_output",
             "no_tool_used", "max_steps"}

CallTypeOK ==
  /\ cands \subseteq Written
  /\ def \in [in : Schemas, out : Schemas]
  /\ raw \in Requests
  /\ agentTools \subseteq ToolNames \ Reserved
  /\ choice \in {Unset, "auto", "none", "required"}
  /\ maxSteps \in 1..AgentSteps
  /\ offered \subseteq agentTools
  /\ at \in {"new", "ready", "request", "filter", "turn", "resolve", "invoke", "called", "returned", "done"}
  /\ step \in 0..maxSteps
  /\ call \in [name : Written, id : {Unset, "given", "generated"}, input : Inputs \cup {NoValue}]
  /\ value \in Outputs \cup {NoValue}
  /\ ended \in BOOLEAN
  /\ outcome \in Outcomes

CallInit ==
  /\ def \in [in : Schemas, out : Typical.schemas] \cup [in : Typical.schemas, out : Schemas]
  /\ cands \in IF IsTypical THEN SUBSET {w \in Written : w.name # Unset}
              ELSE {{Exact(CHOOSE n \in ToolNames : n \notin Reserved)}}
  /\ raw = PlainRequest
  /\ agentTools = {} /\ offered = {}
  /\ choice = Unset /\ maxSteps = AgentSteps
  /\ at = "new" /\ step = 0
  /\ call = NoCall /\ value = NoValue
  /\ ended = FALSE
  /\ outcome = "none"

Fail(e) == at' = "done" /\ outcome' = e

-----------------------------------------------------------------------------
(* The agent and the request. *)

\* A name that is padded or invalid, a definition that is not valid, or a name
\* of the reserved namespace.
Refused(c) == c.padded \/ ~ValidDefinition(def) \/ c.name \in Reserved

NewRejects ==
  /\ at = "new"
  /\ \E c \in cands : Refused(c)
  /\ Fail("invalid_config")
  /\ UNCHANGED <<agentVars, reqVars, step, call, value, ended>>

New ==
  /\ at = "new"
  /\ \A c \in cands : ~Refused(c)
  /\ agentTools' = {c.name : c \in cands}
  /\ at' = "ready"
  /\ UNCHANGED <<cands, def, reqVars, step, call, value, ended, outcome>>

\* A caller's request.
Ask ==
  /\ at = "ready"
  /\ raw' \in IF IsTypical THEN Requests ELSE {PlainRequest}
  /\ at' = "request"
  /\ UNCHANGED <<agentVars, choice, maxSteps, offered, step, call, value, ended, outcome>>

\* An entry of AllowedTools is judged by its name without the space around it.
Unknown(a) == a.name = Unset \/ a.name \in Reserved \/ a.name \notin agentTools

InvalidRequest ==
  raw.steps < 0 \/ ~raw.complete \/ \E a \in raw.allowed : Unknown(a)

NormalizeRejects ==
  /\ at = "request"
  /\ InvalidRequest
  /\ Fail("invalid_request")
  /\ UNCHANGED <<agentVars, reqVars, step, call, value, ended>>

\* Mutant of EffectiveSteps: a request may raise the agent's limit.
StepsAsAsked == IF raw.steps > 0 THEN raw.steps ELSE AgentSteps

EffectiveSteps == IF raw.steps > 0 /\ raw.steps < AgentSteps THEN raw.steps ELSE AgentSteps

Normalize ==
  /\ at = "request"
  /\ ~InvalidRequest
  /\ choice' = IF raw.choice = Unset THEN "auto" ELSE raw.choice
  /\ maxSteps' = EffectiveSteps
  /\ at' = "filter"
  /\ UNCHANGED <<agentVars, raw, offered, step, call, value, ended, outcome>>

-----------------------------------------------------------------------------
(* The run. *)

\* Mutant of Filtered: an allow list that matches no tool is taken for none.
FilteredIfAny ==
  LET listed == {n \in agentTools : Exact(n) \in raw.allowed}
  IN  IF listed = {} THEN agentTools ELSE listed

\* The entries of AllowedTools are compared as they were written.
Filtered == {n \in agentTools : n \notin Reserved /\ (raw.allowed # {} => Exact(n) \in raw.allowed)}

FilterTools ==
  /\ at = "filter"
  /\ offered' = IF choice = "none" THEN {} ELSE Filtered
  /\ at' = "turn"
  /\ UNCHANGED <<agentVars, raw, choice, maxSteps, step, call, value, ended, outcome>>

\* The model's response has a tool call.
ModelCalls ==
  /\ at = "turn" /\ step < maxSteps
  /\ \E name \in SomeNames, id \in {Unset, "given"}, input \in SomeInputs :
       call' = [name |-> name, id |-> id, input |-> input]
  /\ IF choice = "none" THEN Fail("disabled")
     ELSE IF ended THEN Fail("canceled")
     ELSE at' = "resolve" /\ UNCHANGED outcome
  /\ UNCHANGED <<agentVars, reqVars, step, value, ended>>

\* The reasoning suggests a tool, not a reserved one (interpretThink); there is
\* no look at the choice.
Suggested ==
  /\ at = "turn" /\ step < maxSteps
  /\ \E name \in SomeNames, input \in SomeInputs :
       /\ name.name \notin Reserved
       /\ call' = [name |-> name, id |-> "generated", input |-> input]
  /\ at' = "resolve"
  /\ UNCHANGED <<agentVars, reqVars, step, value, ended, outcome>>

\* A response without a call; a tool that fails ends the run, so a later turn is
\* one that has used a tool.
Answers ==
  /\ at = "turn" /\ step < maxSteps
  /\ Fail(IF choice = "required" /\ step = 0 THEN "no_tool_used" ELSE "ok")
  /\ UNCHANGED <<agentVars, reqVars, step, call, value, ended>>

StepsUsed ==
  /\ at = "turn" /\ step = maxSteps
  /\ Fail("max_steps")
  /\ UNCHANGED <<agentVars, reqVars, step, call, value, ended>>

Available(name) == name.name \notin Reserved /\ ~name.padded /\ name.name \in offered

ResolveRejects ==
  /\ at = "resolve"
  /\ ~Available(call.name)
  /\ Fail("unavailable")
  /\ UNCHANGED <<agentVars, reqVars, step, call, value, ended>>

\* Mutant of CallID: the model's identifier is taken even when it is empty.
ModelCallID == call.id
CallID == IF call.id = Unset THEN "generated" ELSE call.id

Resolve ==
  /\ at = "resolve"
  /\ Available(call.name)
  /\ call' = [call EXCEPT !.id = CallID]
  /\ at' = "invoke"
  /\ UNCHANGED <<agentVars, reqVars, step, value, ended, outcome>>

\* tool.Invoke, up to the call; NoRefusal when it makes it.
NoRefusal == "none"
Refusal ==
  IF ~ValidDefinition(def) THEN "invalid_tool"
  ELSE IF call.id = Unset \/ Errors(call.input, def.in) # {} THEN "invalid_input"
  ELSE IF ended THEN "canceled"
  ELSE NoRefusal

InvokeRejects ==
  /\ at = "invoke"
  /\ Refusal # NoRefusal
  /\ Fail(Refusal)
  /\ UNCHANGED <<agentVars, reqVars, step, call, value, ended>>

Invoke ==
  /\ at = "invoke"
  /\ Refusal = NoRefusal
  /\ at' = "called"
  /\ UNCHANGED <<agentVars, reqVars, step, call, value, ended, outcome>>

\* An error of the tool: its own, or a context's, the run's or one of its own.
ToolFails ==
  /\ at = "called"
  /\ \E e \in {"execution", "canceled"} : Fail(e)
  /\ UNCHANGED <<agentVars, reqVars, step, call, value, ended>>

ToolReturns ==
  /\ at = "called"
  /\ value' \in SomeOutputs
  /\ at' = "returned"
  /\ UNCHANGED <<agentVars, reqVars, step, call, ended, outcome>>

OutputRejects ==
  /\ at = "returned"
  /\ Errors(value, def.out) # {}
  /\ Fail("invalid_output")
  /\ UNCHANGED <<agentVars, reqVars, step, call, value, ended>>

\* The result is recorded and given to the model in the next turn.
Record ==
  /\ at = "returned"
  /\ Errors(value, def.out) = {}
  /\ call' = NoCall
  /\ step' = step + 1
  /\ at' = "turn"
  /\ UNCHANGED <<agentVars, reqVars, value, ended, outcome>>

ContextEnds ==
  /\ at # "done" /\ ~ended
  /\ ended' = TRUE
  /\ UNCHANGED <<agentVars, reqVars, at, step, call, value, outcome>>

CallDone == at = "done" /\ UNCHANGED callVars

CallNext ==
  \/ NewRejects \/ New \/ Ask \/ NormalizeRejects \/ Normalize \/ FilterTools
  \/ ModelCalls \/ Suggested \/ Answers \/ StepsUsed
  \/ ResolveRejects \/ Resolve \/ InvokeRejects \/ Invoke
  \/ ToolFails \/ ToolReturns \/ OutputRejects \/ Record
  \/ ContextEnds \/ CallDone

CallSpec == CallInit /\ [][CallNext]_callVars

-----------------------------------------------------------------------------
(* Properties. *)

\* What the definitions stand for.
MeaningOf == [s \in Schemas |-> Meaning(s, Depth)]

\* What the caller permits: a tool of the agent, none when the choice is none,
\* and one of the list when there is one.
Permitted(name) ==
  /\ name \in {Exact(n) : n \in {c.name : c \in cands} \ Reserved}
  /\ raw.choice # "none"
  /\ raw.allowed # {} => name \in raw.allowed

\* A tool is called only if the agent's configuration and the request permit it,
\* whoever asked for it, and only a call that is not permitted is turned down as
\* unavailable (specs/030-agent.md:420, :461).  Nor does the run take more turns
\* than the smaller of the two limits (CallTypeOK).
OnlyPermitted ==
  /\ CallTypeOK
  /\ at = "called" => Permitted(call.name)
  /\ outcome = "unavailable" => ~Permitted(call.name)

\* A tool is called only with an input its schema stands for, and only a result
\* its schema stands for is given to the model; nothing else is refused, whether
\* or not the model named the call (specs/040-tools.md 6.4 and 7.2).
ToolContract ==
  /\ at = "called" => call.input \in MeaningOf[def.in]
  /\ outcome = "invalid_input" => call.input \notin MeaningOf[def.in]
  /\ at = "turn" /\ step > 0 => value \in MeaningOf[def.out]
  /\ outcome = "invalid_output" => value \notin MeaningOf[def.out]

\* What is wrong with a definition is found when the agent is built
\* (specs/040-tools.md 8): there is an input the tool accepts and an output it may
\* return, and no call meets a schema of a type that is not supported.
DefinitionsSettled ==
  /\ agentTools # {} => MeaningOf[def.in] # {} /\ MeaningOf[def.out] # {}
  /\ at = "invoke" => "unsupported" \notin Errors(call.input, def.in)
  /\ at = "returned" => "unsupported" \notin Errors(value, def.out)
=============================================================================
