------------------------------ MODULE AgentRun ------------------------------
(***************************************************************************)
(* One run of an agent (execute in internal/runtime/engine.go), by Run or  *)
(* by Stream: input guardrails, memory load, the loop of model turns with  *)
(* their tool calls, output guardrails, memory save, and the events it     *)
(* emits to the stream and to the hooks.                                   *)
(*                                                                         *)
(* The model, the tools, the guardrails, the store and the reasoning tools *)
(* are calls out of the engine: each is an action that may also fail, and  *)
(* between two of them the consumer and the caller's context interfere.    *)
(***************************************************************************)
EXTENDS StreamSink

CONSTANTS
  MaxSteps,    \* Request.MaxSteps, at least 1 after normalizeRequest
  Rules,       \* number of guardrails of each phase
  MaxChunks,   \* deltas the model streams in one turn, a bound of the model
  MaxCalls,    \* tool calls in one model response, a bound of the model
  Reasoning    \* is the engine's reasoning enabled?

ASSUME MaxStepsAssumption == MaxSteps \in Nat \ {0}
ASSUME BoundsAssumption == Rules \in Nat /\ MaxChunks \in Nat /\ MaxCalls \in Nat
ASSUME ReasoningAssumption == Reasoning \in BOOLEAN

VARIABLES
  mode,      \* was the run started by Run or by Stream?
  choice,    \* Request.ToolChoice
  pc,        \* where execute is
  ret,       \* where it goes on after the event being emitted
  ev,        \* the event being emitted
  seq,       \* emitter.sequence
  step,      \* loop variables: model turn, guardrail, delta, tool calls left
  rule,
  chunk,
  calls,
  after,     \* where execute goes on after the tool call being made
  used,      \* toolUsed
  err,       \* the error execute is failing with
  saved,     \* has the store accepted the final response?
  hooked     \* the last event the hooks observed

emitVars == <<pc, ret, ev, seq>>
loopVars == <<step, rule, chunk, calls, after, used>>
inVars   == <<mode, choice>>
vars     == <<sinkVars, inVars, emitVars, loopVars, err, saved, hooked>>

Points == {"start", "input", "load", "turn", "model", "chunk", "final", "resolve",
           "invoke", "afterTool", "calls", "nextStep", "output", "save", "complete",
           "failing", "send", "hooks", "return", "finish", "done"}
Errors == {"nil", "failed", "canceled", "aborted"}

TypeOK ==
  /\ SinkTypeOK
  /\ mode \in {"run", "stream"}
  /\ choice \in {"auto", "none", "required"}
  /\ pc \in Points /\ ret \in Points /\ after \in Points
  /\ ev \in Events \cup {NoEvent} /\ hooked \in Events \cup {NoEvent}
  /\ seq \in Nat
  /\ step \in 0..(MaxSteps - 1)
  /\ rule \in 0..Rules /\ chunk \in 0..MaxChunks /\ calls \in 0..MaxCalls
  /\ used \in BOOLEAN /\ saved \in BOOLEAN
  /\ err \in Errors

Init ==
  /\ SinkInit
  /\ mode \in {"run", "stream"}
  /\ choice \in {"auto", "none", "required"}
  /\ pc = "start" /\ ret = "start" /\ after = "start"
  /\ ev = NoEvent /\ hooked = NoEvent
  /\ seq = 0
  /\ step = 0 /\ rule = 0 /\ chunk = 0 /\ calls = 0
  /\ used = FALSE /\ saved = FALSE
  /\ err = "nil"

-----------------------------------------------------------------------------
(* Emitting an event. *)

\* A terminal event caused by Close is for the hooks only.
Delivered(type) == mode = "stream" /\ ~(type \in TerminalTypes /\ err = "aborted")

\* The first half of emit; Deliver and Hooks are the rest of it.
Emit(type, next) ==
  /\ seq' = seq + 1
  /\ ev' = [seq |-> seq + 1, type |-> type]
  /\ ret' = next
  /\ pc' = IF Delivered(type) THEN "send" ELSE "hooks"
  /\ MarkTerminal(Delivered(type) /\ type \in TerminalTypes)
  /\ UNCHANGED <<events, cause, postDrainErr, done, closeVars, readerVars>>

Go(next) == pc' = next /\ UNCHANGED <<ret, ev, seq, sinkVars>>

\* execute returns emitter.fail(e): see Failing.
Fail(e) == err' = e /\ Go("failing")

Deliver ==
  /\ pc = "send"
  /\ Send(ev)
  /\ pc' = "hooks"
  /\ UNCHANGED <<inVars, ret, ev, seq, loopVars, err, saved, hooked>>

\* Every hook observes the event; a panic in one is recovered.
Hooks ==
  /\ pc = "hooks"
  /\ hooked' = ev
  /\ Go(ret)
  /\ UNCHANGED <<inVars, loopVars, err, saved>>

\* The error of a call out of the engine: the callee's own, its own timeout,
\* or that of the context, seen as ctx.Err() or as context.Cause.
CalleeErrors == {"failed", "canceled"} \cup (IF Ended THEN {cause} ELSE {})

-----------------------------------------------------------------------------
(* Before the loop. *)

Start ==
  /\ pc = "start"
  /\ IF Ended THEN Fail(cause) ELSE Emit("started", "input") /\ UNCHANGED err
  /\ rule' = 0
  /\ UNCHANGED <<inVars, step, chunk, calls, after, used, saved, hooked>>

\* One guardrail.  An error, or a decision that is not valid in its phase, fails
\* the run unseen; any other decision is emitted, and then the run goes on
\* (allow, transform) or is blocked (block, or abort for a delta).
Asked(here) == pc = here /\ rule < Rules

GuardrailFails(here) ==
  /\ Asked(here)
  /\ \E e \in CalleeErrors : Fail(e)
  /\ UNCHANGED <<inVars, loopVars, saved, hooked>>

GuardrailPasses(here) ==
  /\ Asked(here)
  /\ Emit("guardrail", here)
  /\ rule' = rule + 1
  /\ UNCHANGED <<inVars, step, chunk, calls, after, used, err, saved, hooked>>

GuardrailBlocks(here) ==
  /\ Asked(here)
  /\ Emit("guardrail", "failing")
  /\ err' = "failed"
  /\ UNCHANGED <<inVars, loopVars, saved, hooked>>

Consult(here) == GuardrailFails(here) \/ GuardrailPasses(here) \/ GuardrailBlocks(here)

PassedInput ==
  /\ pc = "input" /\ rule = Rules
  /\ Go("load")
  /\ UNCHANGED <<inVars, loopVars, err, saved, hooked>>

\* memory.Load and NewRunState; tools are filtered and the loop begins.
Load ==
  /\ pc = "load"
  /\ \/ Go("turn") /\ UNCHANGED err
     \/ \E e \in CalleeErrors : Fail(e)
  /\ UNCHANGED <<inVars, loopVars, saved, hooked>>

-----------------------------------------------------------------------------
(* A model turn. *)

Turn ==
  /\ pc = "turn"
  /\ IF Ended THEN Fail(cause) ELSE Go("model") /\ UNCHANGED err
  /\ chunk' = 0
  /\ UNCHANGED <<inVars, step, rule, calls, after, used, saved, hooked>>

\* The model (its stream, or Generate) failed.
ModelFails ==
  /\ pc = "model"
  /\ \E e \in CalleeErrors : Fail(e)
  /\ UNCHANGED <<inVars, loopVars, saved, hooked>>

\* The model's stream gives a delta.
ModelDelta ==
  /\ pc = "model"
  /\ mode = "stream"
  /\ chunk < MaxChunks
  /\ chunk' = chunk + 1
  /\ rule' = 0
  /\ Go("chunk")
  /\ UNCHANGED <<inVars, step, calls, after, used, err, saved, hooked>>

\* A stream guardrail may also drop the delta.
DropDelta ==
  /\ Asked("chunk")
  /\ Emit("guardrail", "model")
  /\ UNCHANGED <<inVars, loopVars, err, saved, hooked>>

EmitDelta ==
  /\ pc = "chunk" /\ rule = Rules
  /\ Emit("delta", "model")
  /\ UNCHANGED <<inVars, loopVars, err, saved, hooked>>

\* The model has answered with n tool calls: none makes it a final answer.
ToolsDisabled == choice = "none"

ModelAnswers ==
  /\ pc = "model"
  /\ \E n \in 0..MaxCalls :
       /\ calls' = n
       /\ IF n > 0 /\ ToolsDisabled
          THEN Fail("failed")
          ELSE Go(IF n = 0 THEN "final" ELSE "calls") /\ UNCHANGED err
  /\ UNCHANGED <<inVars, step, rule, chunk, after, used, saved, hooked>>

\* The end of the loop's body.
AlwaysSteps == TRUE   \* mutant: MaxSteps is not a limit
StepsLeft   == step < MaxSteps - 1

NextStep ==
  /\ pc = "nextStep"
  /\ IF StepsLeft
     THEN step' = step + 1 /\ Go("turn") /\ UNCHANGED err
     ELSE Fail("failed") /\ UNCHANGED step
  /\ UNCHANGED <<inVars, rule, chunk, calls, after, used, saved, hooked>>

-----------------------------------------------------------------------------
(* Tool calls. *)

\* Before each call the model asked for, the context is checked.
NextCall ==
  /\ pc = "calls" /\ calls > 0
  /\ IF Ended THEN Fail(cause) ELSE Go("resolve") /\ UNCHANGED err
  /\ calls' = calls - 1
  /\ after' = "afterTool"
  /\ UNCHANGED <<inVars, step, rule, chunk, used, saved, hooked>>

CallsDone ==
  /\ pc = "calls" /\ calls = 0
  /\ Go("nextStep")
  /\ UNCHANGED <<inVars, loopVars, err, saved, hooked>>

\* A name that is reserved or not among the run's tools; with ToolChoiceNone
\* the run has no tools at all.
ResolveFails ==
  /\ pc = "resolve"
  /\ Fail("failed")
  /\ UNCHANGED <<inVars, loopVars, saved, hooked>>

Resolve ==
  /\ pc = "resolve"
  /\ ~ToolsDisabled
  /\ used' = TRUE
  /\ Emit("tool_call", "invoke")
  /\ UNCHANGED <<inVars, step, rule, chunk, calls, after, err, saved, hooked>>

\* Mutant: a failed tool call announces the end of the run itself.
InvokeFailsTwice ==
  /\ pc = "invoke"
  /\ \/ Emit("tool_result", after) /\ UNCHANGED err
     \/ \E e \in CalleeErrors : Emit("failed", "failing") /\ err' = e
  /\ UNCHANGED <<inVars, loopVars, saved, hooked>>

\* Mutant: a tool that fails has no result event.
InvokeSilent ==
  /\ pc = "invoke"
  /\ \/ Emit("tool_result", after) /\ UNCHANGED err
     \/ \E e \in CalleeErrors : Fail(e)
  /\ UNCHANGED <<inVars, loopVars, saved, hooked>>

Invoke ==
  /\ pc = "invoke"
  /\ \/ Emit("tool_result", after) /\ UNCHANGED err
     \/ \E e \in CalleeErrors : Emit("tool_result", "failing") /\ err' = e
  /\ UNCHANGED <<inVars, loopVars, saved, hooked>>

\* The reasoning after a tool result may suggest another call.
AfterTool ==
  /\ pc = "afterTool"
  /\ \/ /\ Go("calls")
        /\ UNCHANGED <<after, err>>
     \/ /\ Reasoning
        /\ Go("resolve")
        /\ after' = "calls"
        /\ UNCHANGED err
     \/ /\ Reasoning
        /\ \E e \in CalleeErrors : Fail(e)
        /\ UNCHANGED after
  /\ UNCHANGED <<inVars, step, rule, chunk, calls, used, saved, hooked>>

-----------------------------------------------------------------------------
(* The final answer. *)

\* The reasoning before the answer may ask for another turn or a tool call.
Reconsider ==
  /\ pc = "final"
  /\ Reasoning
  /\ \/ /\ Go("nextStep")
        /\ UNCHANGED <<after, err>>
     \/ /\ Go("resolve")
        /\ after' = "nextStep"
        /\ UNCHANGED err
     \/ /\ \E e \in CalleeErrors : Fail(e)
        /\ UNCHANGED after
  /\ UNCHANGED <<inVars, step, rule, chunk, calls, used, saved, hooked>>

NeverMissing == FALSE   \* mutant: ToolChoiceRequired is not enforced
ToolMissing  == choice = "required" /\ ~used

Respond ==
  /\ pc = "final"
  /\ IF ToolMissing THEN Fail("failed") ELSE Go("output") /\ UNCHANGED err
  /\ rule' = 0
  /\ UNCHANGED <<inVars, step, chunk, calls, after, used, saved, hooked>>

PassedOutput ==
  /\ pc = "output" /\ rule = Rules
  /\ Go("save")
  /\ UNCHANGED <<inVars, loopVars, err, saved, hooked>>

\* Mutant: a Save that fails is only logged.
SaveBestEffort ==
  /\ pc = "save"
  /\ saved' \in BOOLEAN
  /\ Go("complete")
  /\ UNCHANGED <<inVars, loopVars, err, hooked>>

Save ==
  /\ pc = "save"
  /\ \/ saved' = TRUE /\ Go("complete") /\ UNCHANGED err
     \/ \E e \in CalleeErrors : Fail(e) /\ UNCHANGED saved
  /\ UNCHANGED <<inVars, loopVars, hooked>>

Complete ==
  /\ pc = "complete"
  /\ Emit("completed", "return")
  /\ UNCHANGED <<inVars, loopVars, err, saved, hooked>>

\* fail: the error decides between the two unsuccessful terminal events.
FailureEvent == IF err \in {"canceled", "aborted"} THEN "canceled" ELSE "failed"

Failing ==
  /\ pc = "failing"
  /\ Emit(FailureEvent, "return")
  /\ UNCHANGED <<inVars, loopVars, err, saved, hooked>>

\* The goroutine of Stream, after execute.
ReturnAborted ==
  /\ pc = "return" /\ mode = "stream" /\ err = "aborted"
  /\ SetPostDrainErr
  /\ pc' = "finish"
  /\ UNCHANGED <<inVars, ret, ev, seq, loopVars, err, saved, hooked>>

Return ==
  /\ pc = "return" /\ ~(mode = "stream" /\ err = "aborted")
  /\ Go(IF mode = "stream" THEN "finish" ELSE "done")
  /\ UNCHANGED <<inVars, loopVars, err, saved, hooked>>

Finish ==
  /\ pc = "finish"
  /\ FinishSink
  /\ pc' = "done"
  /\ UNCHANGED <<inVars, ret, ev, seq, loopVars, err, saved, hooked>>

-----------------------------------------------------------------------------
Engine ==
  \/ Start \/ PassedInput \/ Load \/ Turn
  \/ \E here \in {"input", "chunk", "output"} : Consult(here)
  \/ ModelFails \/ ModelDelta \/ DropDelta \/ EmitDelta \/ ModelAnswers \/ NextStep
  \/ NextCall \/ CallsDone \/ ResolveFails \/ Resolve \/ Invoke \/ AfterTool
  \/ Reconsider \/ Respond \/ PassedOutput \/ Save \/ Complete
  \/ Failing \/ Deliver \/ Hooks \/ ReturnAborted \/ Return \/ Finish

engineVars == <<inVars, emitVars, loopVars, err, saved, hooked>>

Reader == Recv /\ UNCHANGED engineVars

Closer == mode = "stream" /\ (CloseMark \/ CloseCancel) /\ UNCHANGED engineVars

Caller == CancelContext /\ UNCHANGED engineVars

\* The run is over, and the consumer of a stream has seen the end of it.
Terminated ==
  /\ pc = "done"
  /\ mode = "stream" => recv = "eof"
  /\ UNCHANGED vars

Next == Engine \/ Reader \/ Closer \/ Caller \/ Terminated

Spec == Init /\ [][Next]_vars

\* The engine's goroutine runs, its callees return, and a Close that has begun
\* cancels the context.  Nobody has to call Recv or Close.
FairSpec == Spec /\ WF_vars(Engine) /\ WF_vars(Closer /\ closing # "open")
-----------------------------------------------------------------------------
(* What the consumer of a stream sees. *)

\* Events reach the consumer in the order of their Sequence, none twice; one
\* may be missing only if the context of the run has ended.
StreamInOrder ==
  [][last' # last => /\ last'.seq > last.seq
                     /\ last'.seq > last.seq + 1 => Ended]_last

\* A terminal event is the last one, for the consumer and for the hooks: a run
\* that failed says nothing more, and never fails or completes twice.  Hooks
\* observe every event; between the call of a tool and its result there is no
\* other event, and no result comes without a call.
EventProtocol ==
  [][/\ last.type \in TerminalTypes => last' = last
     /\ hooked.type \in TerminalTypes => hooked' = hooked
     /\ hooked' # hooked =>
          (hooked.type = "tool_call" <=> hooked'.type = "tool_result")]_<<last, hooked>>

\* Recv: events, then at most one ErrStreamAborted, then io.EOF for good, and
\* nothing of it before the run is over.  ErrStreamAborted is for a consumer that
\* closed the stream before the run had reached its terminal event, and no other.
RecvProtocol ==
  /\ told <= 1
  /\ recv \in {"aborted", "eof"} => events = <<>> /\ pc = "done"
  /\ told > 0 => early
  /\ recv = "eof" /\ early => told > 0

-----------------------------------------------------------------------------
(* What a finished run means. *)

Over == pc \in {"return", "finish", "done"}

\* The response returned, the last event and the store agree: a run completes
\* exactly when its response was saved, whatever ended meanwhile, and only
\* within the tool choice of its request.
OutcomesAgree ==
  Over => /\ hooked.type \in TerminalTypes
          /\ hooked.type = "completed" <=> err = "nil"
          /\ saved <=> err = "nil"
          /\ err = "aborted" => closing = "closed"
          /\ err = "nil" /\ choice = "required" => used
          /\ err = "nil" /\ choice = "none" => ~used

-----------------------------------------------------------------------------
(* Liveness. *)

\* Once the context has ended, by Close or by the caller, the run's goroutine
\* ends, even if nobody receives and the buffer is full.
CancelEndsRun == Ended ~> pc = "done"

\* A consumer that goes on receiving gets to io.EOF without closing.
ReaderReachesEOF == WF_vars(Reader) => <>(mode = "stream" => recv = "eof")

-----------------------------------------------------------------------------
(* What the documentation states and the code does not keep. *)

\* 030-agent.md 11: after Close, Recv may drain buffered events, but does not
\* deliver EventAgentCompleted.  Asked only of a Close that came before the
\* run's terminal event and has returned.
ClosedNeverCompletes ==
  [][last' # last /\ early /\ closing = "closed" => last'.type # "completed"]_last
=============================================================================
