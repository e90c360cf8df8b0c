----------------------------- MODULE StreamText -----------------------------
(***************************************************************************)
(* The text of one run (internal/runtime/engine.go): how the chunks a      *)
(* model streams pass through the stream guardrails to the consumer and    *)
(* into the buffer, how the final message is put together from the buffer  *)
(* or from the model's own message, and how it passes through reasoning    *)
(* and the output guardrails to the memory and the response.               *)
(*                                                                         *)
(* AgentRun has the control of a run and the delivery of its events; here  *)
(* only what happens to text is kept.  A text is a sequence of chunks,     *)
(* each with the guardrail that wrote it (Model when none has); a          *)
(* guardrail may also give back the text that the model sent.  The         *)
(* delivery of a delta is external: shown is what was handed to the sink.  *)
(***************************************************************************)
EXTENDS Naturals, Sequences

CONSTANTS
  StreamRules, OutputRules,  \* numbers of guardrails of the two phases
  MaxSteps,                  \* req.MaxSteps
  MaxEvents                  \* bound: events of one model stream

ASSUME BoundsAssumption ==
  {StreamRules, OutputRules, MaxSteps, MaxEvents} \subseteq Nat

VARIABLES
  streaming,   \* the run was started by Stream: emitter.stream is set
  reasons,     \* the run has a reasoning object
  pc,          \* where the run is
  step,        \* turn of the model loop, from 1
  events,      \* events received from the model stream of this turn
  chunkIndex,  \* deltas received
  sawDelta, adjusted,  \* sawDelta and sawStreamAdjustment
  buffered,    \* bufferedContent
  message,     \* response.Message.Content, then finalMessage.Content
  toolCalls,   \* does the model response have tool calls?
  event,       \* the rest of the event that is being processed
  delta,       \* the delta in the guardrails (current)
  original,    \* the delta as the model sent it
  rule,        \* the guardrail that is asked
  shown,       \* deltas of this turn handed to the consumer
  candidate,   \* the text the output guardrails were first given
  source,      \* where that text comes from
  saved,       \* the Response given to Memory.Save
  result       \* the response, or the failure

streamVars == <<events, chunkIndex, sawDelta, adjusted, buffered, message,
                toolCalls, event, delta, original, rule, shown>>
endVars    == <<candidate, source, saved, result>>
optVars    == <<streaming, reasons>>
vars       == <<optVars, pc, step, streamVars, endVars>>

Model == 0
Chunk(t, k, by) == [turn |-> t, chunk |-> k, by |-> by]

\* The concatenation of the chunks of turn t as the model sent them, and a text
\* of which no delta was sent.
Raw(t, n) == [k \in 1..n |-> Chunk(t, k, Model)]
Other     == <<Chunk(0, 0, Model)>>
None      == <<>>

NoEvent == [tool |-> FALSE, message |-> "none", done |-> FALSE]

\* The RunID and the Role of a delta: not given, those of the run, or others.
Tags == {"none", "run", "other"}
NoDelta == [text |-> None, tags |-> "none"]

\* What is not given is taken from the delta the model sent, or else from the run.
Default(tags, sent) ==
  CASE tags # "none" -> tags
    [] tags = "none" /\ sent # "none" -> sent
    [] OTHER -> "run"

\* What the turn begins with.
FreshTurn ==
  /\ events' = 0 /\ chunkIndex' = 0
  /\ sawDelta' = FALSE /\ adjusted' = FALSE
  /\ buffered' = None /\ message' = None /\ toolCalls' = FALSE
  /\ event' = NoEvent /\ delta' = NoDelta /\ original' = NoDelta /\ rule' = 0
  /\ shown' = None

Init ==
  /\ streaming \in BOOLEAN /\ reasons \in BOOLEAN
  /\ pc = "turn" /\ step = 1
  /\ events = 0 /\ chunkIndex = 0
  /\ sawDelta = FALSE /\ adjusted = FALSE
  /\ buffered = None /\ message = None /\ toolCalls = FALSE
  /\ event = NoEvent /\ delta = NoDelta /\ original = NoDelta /\ rule = 0
  /\ shown = None
  /\ candidate = None /\ source = "none" /\ saved = <<>> /\ result = "none"

Goto(from, to) == pc = from /\ pc' = to

\* The run fails: emitter.fail, and no response.
FailFrom(from) ==
  /\ Goto(from, "done")
  /\ result' = "failed"
  /\ UNCHANGED <<optVars, step, streamVars, candidate, source, saved>>

-----------------------------------------------------------------------------
(* collectModelResponse *)

Turn ==
  /\ Goto("turn", IF streaming THEN "recv" ELSE "generate")
  /\ FreshTurn
  /\ UNCHANGED <<optVars, step, endVars>>

\* Model.Generate: the whole text at once, no stream guardrail sees it.
Generate ==
  /\ Goto("generate", "answer")
  /\ \E tool \in BOOLEAN, text \in {None, Other} :
       toolCalls' = tool /\ message' = text
  /\ UNCHANGED <<optVars, step, events, chunkIndex, sawDelta, adjusted, buffered,
                 event, delta, original, rule, shown, endVars>>

\* An event of the stream: perhaps a delta, a tool call, a message, the mark of the
\* end, in any combination.
Recv ==
  /\ events < MaxEvents
  /\ events' = events + 1
  /\ event' \in [tool : BOOLEAN, message : {"none", "empty", "raw", "other"},
                 done : BOOLEAN]
  /\ \/ /\ Goto("recv", "rest")
        /\ UNCHANGED <<chunkIndex, sawDelta, original, delta, rule>>
     \/ /\ Goto("recv", "guard")
        /\ chunkIndex' = chunkIndex + 1
        /\ sawDelta' = TRUE
        /\ \E tags \in Tags :
             original' = [text |-> <<Chunk(step, chunkIndex', Model)>>, tags |-> tags]
        /\ delta' = [original' EXCEPT !.tags = Default(@, @)]
        /\ rule' = 1
  /\ UNCHANGED <<optVars, step, adjusted, buffered, message, toolCalls, shown,
                 endVars>>

\* The end of the stream; a stream without any event is asked again with
\* Generate.
RecvEOF ==
  /\ Goto("recv", IF events = 0 THEN "generate" ELSE "assemble")
  /\ UNCHANGED <<optVars, step, streamVars, endVars>>

\* Model.Stream, Recv or Generate fails.
ModelFails == \E from \in {"recv", "generate"} : FailFrom(from)

-----------------------------------------------------------------------------
(* applyStreamGuardrails, and what becomes of the chunk. *)

RuleAllows ==
  /\ rule <= StreamRules
  /\ Goto("guard", "guard")
  /\ rule' = rule + 1
  /\ UNCHANGED <<optVars, step, events, chunkIndex, sawDelta, adjusted, buffered,
                 message, toolCalls, event, delta, original, shown, endVars>>

\* The rule's delta replaces the current one: a text of its own, none, or the one
\* the model sent, be it that no rule has touched it or that this one restores it.
RuleTransforms ==
  /\ rule <= StreamRules
  /\ Goto("guard", "guard")
  /\ rule' = rule + 1
  /\ \E text \in {<<Chunk(step, chunkIndex, rule)>>, None, original.text}, tags \in Tags :
       delta' = [text |-> text, tags |-> Default(tags, original.tags)]
  /\ UNCHANGED <<optVars, step, events, chunkIndex, sawDelta, adjusted, buffered,
                 message, toolCalls, event, original, shown, endVars>>

\* Mutants: the mark of an adjustment is overwritten by the next chunk, and a
\* dropped chunk enters the buffer.
MarkLast(changed)    == adjusted' = changed
BufferAll(text)      == buffered' = buffered \o original.text

MarkAdjusted(changed) == adjusted' = (adjusted \/ changed)
Buffer(text)          == buffered' = buffered \o text

RuleDrops ==
  /\ rule <= StreamRules
  /\ Goto("guard", "rest")
  /\ MarkAdjusted(TRUE)
  /\ UNCHANGED <<optVars, step, events, chunkIndex, sawDelta, buffered, message,
                 toolCalls, event, delta, original, rule, shown, endVars>>

\* A rule aborts, fails, or makes a decision that is not valid.
RuleAborts == rule <= StreamRules /\ FailFrom("guard")

\* Every rule has let the chunk pass: it is buffered and emitted.  It counts as
\* changed when it differs from what the model sent, its tags included, and not
\* when a rule has transformed it to the same.
EmitDelta ==
  /\ rule > StreamRules
  /\ Goto("guard", "rest")
  /\ Buffer(delta.text)
  /\ shown' = shown \o delta.text
  /\ MarkAdjusted(delta # original)
  /\ UNCHANGED <<optVars, step, events, chunkIndex, sawDelta, message, toolCalls,
                 event, delta, original, rule, endVars>>

\* The other fields of the event.
Rest ==
  /\ Goto("rest", IF event.done THEN "assemble" ELSE "recv")
  /\ toolCalls' = (toolCalls \/ event.tool)
  /\ message' = CASE event.message = "none"  -> message
                  [] event.message = "empty" -> None
                  [] event.message = "raw"   -> Raw(step, chunkIndex)
                  [] event.message = "other" -> Other
  /\ UNCHANGED <<optVars, step, events, chunkIndex, sawDelta, adjusted, buffered,
                 event, delta, original, rule, shown, endVars>>

\* The message is rebuilt from the buffer when the model sent none, or when the
\* guardrails have made it differ from what was shown.
Assemble ==
  /\ Goto("assemble", "answer")
  /\ message' = IF ~toolCalls /\ sawDelta /\ (adjusted \/ message = None)
                THEN buffered ELSE message
  /\ UNCHANGED <<optVars, step, events, chunkIndex, sawDelta, adjusted, buffered,
                 toolCalls, event, delta, original, rule, shown, endVars>>

-----------------------------------------------------------------------------
(* execute: the turn is over. *)

\* Another turn, or the limit of MaxSteps.
Again(from) ==
  /\ step < MaxSteps
  /\ Goto(from, "turn")
  /\ step' = step + 1
  /\ UNCHANGED <<optVars, streamVars, endVars>>

OutOfSteps(from) == step = MaxSteps /\ FailFrom(from)

\* The tool calls are carried out (AgentRun); the text of the message is not
\* looked at.
ToolTurn ==
  /\ toolCalls
  /\ \/ Again("answer")
     \/ FailFrom("answer")

Answer ==
  /\ ~toolCalls
  /\ Goto("answer", IF reasons THEN "reason" ELSE "check")
  /\ candidate' = message
  /\ source' = "model"
  /\ rule' = 1
  /\ UNCHANGED <<optVars, step, events, chunkIndex, sawDelta, adjusted, buffered,
                 message, toolCalls, event, delta, original, shown,
                 saved, result>>

\* Reasoning fails, or a tool call that was required is missing.
AnswerFails == ~toolCalls /\ \E from \in {"answer", "reason"} : FailFrom(from)

\* beforeFinalResponse: another turn, or a text of its own in the answer's place.
ReasonAgain == Again("reason") \/ OutOfSteps("reason")

Accept ==
  /\ Goto("reason", "check")
  /\ UNCHANGED <<optVars, step, streamVars, endVars>>

Replace ==
  /\ Goto("reason", "check")
  /\ message' = Other /\ candidate' = Other
  /\ source' = "reasoning"
  /\ UNCHANGED <<optVars, step, events, chunkIndex, sawDelta, adjusted, buffered,
                 toolCalls, event, delta, original, rule, shown,
                 saved, result>>

\* applyOutputGuardrails: each rule sees what the one before has made of it.
OutputAllows ==
  /\ rule <= OutputRules
  /\ Goto("check", "check")
  /\ rule' = rule + 1
  /\ UNCHANGED <<optVars, step, events, chunkIndex, sawDelta, adjusted, buffered,
                 message, toolCalls, event, delta, original, shown, endVars>>

\* A text that tells which rule has written it, and from what.
Tagged(text) == Append(text, Chunk(step, 0, rule))

OutputTransforms ==
  /\ rule <= OutputRules
  /\ Goto("check", "check")
  /\ rule' = rule + 1
  /\ message' = Tagged(message)
  /\ UNCHANGED <<optVars, step, events, chunkIndex, sawDelta, adjusted, buffered,
                 toolCalls, event, delta, original, shown, endVars>>

\* A rule blocks the message, or fails.
OutputBlocks == rule <= OutputRules /\ FailFrom("check")

\* Mutant: what the model said is saved.
SaveCandidate == saved' = <<candidate>>
SaveMessage   == saved' = <<message>>

\* Every rule has passed the message: memory.Save.
Save ==
  /\ rule > OutputRules
  /\ Goto("check", "respond")
  /\ SaveMessage
  /\ UNCHANGED <<optVars, step, streamVars, candidate, source, result>>

SaveFails == rule > OutputRules /\ FailFrom("check")

\* The response, and the completed event with a copy of it.
Complete ==
  /\ Goto("respond", "done")
  /\ result' = "completed"
  /\ UNCHANGED <<optVars, step, streamVars, candidate, source, saved>>

Next ==
  \/ Turn \/ Generate \/ Recv \/ RecvEOF \/ ModelFails
  \/ RuleAllows \/ RuleTransforms \/ RuleDrops \/ RuleAborts \/ EmitDelta
  \/ Rest \/ Assemble
  \/ ToolTurn \/ Answer \/ AnswerFails \/ ReasonAgain \/ Accept \/ Replace
  \/ OutputAllows \/ OutputTransforms \/ OutputBlocks
  \/ Save \/ SaveFails \/ Complete

Spec == Init /\ [][Next]_vars

-----------------------------------------------------------------------------
(* What the consumer of a stream and the author of a guardrail rely on. *)

\* The text of the deltas is not what the model has sent in this turn.
Adjusted == shown # Raw(step, chunkIndex)

\* When the stream guardrails have changed the text of the final turn, by dropping or
\* rewriting any of its chunks, the answer is the text the consumer was shown,
\* whatever message the model sent besides (specs/060-guardrails.md, 8.4.1 and 9.1).
\* Reasoning alone may still put a text of its own in its place.
AdjustedTextStays ==
  pc \in {"check", "respond"} /\ source = "model" /\ Adjusted => candidate = shown

\* The BufferedContent a stream guardrail is given is the text the consumer has
\* been shown in this turn, without the chunks that were dropped and without the
\* text of an earlier turn (specs/060-guardrails.md, Stream 3 to 6).
BufferIsShown == pc = "guard" => buffered = shown

\* A run has one final text: what the last output guardrail made of the answer is
\* what the memory keeps and what the response says, and a run that fails keeps
\* nothing.
OneFinalText ==
  /\ result = "completed" =>
       /\ saved = <<message>>
       /\ rule = OutputRules + 1
       /\ SubSeq(message, 1, Len(candidate)) = candidate
  /\ result = "failed" => saved = <<>>
=============================================================================
