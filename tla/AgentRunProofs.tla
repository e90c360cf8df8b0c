--------------------------- MODULE AgentRunProofs ---------------------------
(***************************************************************************)
(* Proofs about AgentRun, for any number of turns, guardrails, deltas and  *)
(* tool calls and any capacity of the stream: what the events, the store   *)
(* and the caller are told of a run agree, and what the consumer of a      *)
(* stream sees is in order, whenever it closes and whenever the context    *)
(* ends.                                                                   *)
(***************************************************************************)
EXTENDS AgentRun, TLAPS

-----------------------------------------------------------------------------
(***************************************************************************)
(* Where the run is.  While an event is on its way the run stands already  *)
(* where it goes on after it.                                              *)
(***************************************************************************)
Emitting == pc \in {"send", "hooks"}

At == IF Emitting THEN ret ELSE pc

Ends     == {"return", "finish", "done"}
Straight == Points \ (Ends \cup {"failing", "send", "hooks"})

\* The error that is being reported, and what the store has accepted.
OutcomeInv ==
  /\ At \in Straight => err = "nil"
  /\ At = "failing" => err # "nil"
  /\ At \in Straight \cup {"failing"} => (saved <=> At = "complete")
  /\ At \in Ends => (saved <=> err = "nil")
  /\ err = "aborted" => cause = "aborted"

\* The tools that were called, and where the run goes on after one.
ToolsInv ==
  /\ choice = "none" => ~used
  /\ At \in {"output", "save", "complete"} \cup Ends /\ err = "nil" /\ choice = "required" => used
  /\ At \in {"resolve", "invoke"} => after \in {"afterTool", "calls", "nextStep"}

\* The event on its way, and the last one the hooks observed.
EventInv ==
  /\ ev.seq = seq
  /\ Emitting => /\ ev \in Events
                 /\ ret \in Straight \cup {"failing", "return"}
                 /\ ret = "return" <=> ev.type \in TerminalTypes
                 /\ ret = "return" => (ev.type = "completed" <=> err = "nil")
                 /\ ret = "invoke" <=> ev.type = "tool_call"
  /\ pc \in Ends <=> hooked.type \in TerminalTypes
  /\ pc \in Ends => (hooked.type = "completed" <=> err = "nil")
  /\ hooked.type = "tool_call" <=> pc = "invoke" \/ (Emitting /\ ev.type = "tool_result")

ControlInv == OutcomeInv /\ ToolsInv /\ EventInv

(***************************************************************************)
(* The stream.  A Close that found the run unfinished owes the consumer    *)
(* one ErrStreamAborted: it is pending in postDrainErr or has been told.   *)
(***************************************************************************)
DoneInv ==
  /\ done <=> pc = "done" /\ mode = "stream"
  /\ pc \in {"send", "finish"} => mode = "stream"
  /\ terminalSent => At \in Ends /\ err # "aborted"
  /\ mode = "run" => events = <<>> /\ last = NoEvent /\ closing = "open" /\ recv = "none"

CloseInv ==
  /\ cause = "aborted" => closing = "closed"
  /\ early => closing # "open"
  /\ closing # "open" /\ ~early => terminalSent \/ done
  /\ early <=> postDrainErr = "aborted" \/ told = 1
  /\ postDrainErr = "aborted" => told = 0
  /\ told <= 1
  /\ told = 1 => done
  /\ recv \in {"aborted", "eof"} => done /\ events = <<>>
  /\ recv = "eof" => postDrainErr = "nil"

\* The buffered events follow the one received last in the order of their
\* Sequence, and until the context ends without a gap.
OrderInv ==
  /\ last.seq <= seq
  /\ \A i \in 1..Len(events) : last.seq < events[i].seq /\ events[i].seq <= seq
  /\ \A i, j \in 1..Len(events) : i < j => events[i].seq < events[j].seq
  /\ pc = "send" => last.seq < seq /\ \A i \in 1..Len(events) : events[i].seq < seq
  /\ ~Ended /\ mode = "stream" =>
       /\ \A i \in 1..Len(events) : events[i].seq = last.seq + i
       /\ last.seq + Len(events) = IF pc = "send" THEN seq - 1 ELSE seq

\* A terminal event in the buffer is its last one.
LastInv ==
  /\ \A i \in 1..Len(events) :
       events[i].type \in TerminalTypes => i = Len(events) /\ At \in Ends /\ pc # "send"
  /\ last.type \in TerminalTypes => events = <<>> /\ At \in Ends /\ pc # "send"

StreamInv == DoneInv /\ CloseInv /\ OrderInv /\ LastInv

-----------------------------------------------------------------------------
(* Type correctness. *)

LEMMA TypeInit == Init => TypeOK
  <1> SUFFICES ASSUME Init PROVE TypeOK OBVIOUS
  <1>1. <<>> \in Seq(Events) /\ Len(<<>>) <= Capacity BY CapacityAssumption
  <1>2. SinkTypeOK BY <1>1 DEF Init, SinkInit, SinkTypeOK
  <1>3. /\ step \in 0..(MaxSteps - 1)
        /\ rule \in 0..Rules /\ chunk \in 0..MaxChunks /\ calls \in 0..MaxCalls /\ seq \in Nat
    BY MaxStepsAssumption, BoundsAssumption DEF Init
  <1>4. QED BY <1>2, <1>3 DEF Init, TypeOK, Points, Errors

\* An action that emits nothing, and one that emits an event.
LEMMA SinkSame == ASSUME SinkTypeOK, UNCHANGED sinkVars PROVE SinkTypeOK'
  BY DEF SinkTypeOK, sinkVars, flagVars, closeVars, readerVars

LEMMA EmitType ==
  ASSUME TypeOK, NEW type \in EventTypes, NEW next \in Points, Emit(type, next)
  PROVE  SinkTypeOK' /\ pc' \in Points /\ ret' \in Points /\ seq' \in Nat
         /\ ev' \in Events
  <1>1. SinkTypeOK'
    BY DEF Emit, MarkTerminal, Delivered, TypeOK, SinkTypeOK, closeVars, readerVars
  <1>2. ev' \in Events BY DEF Emit, TypeOK, Events
  <1>3. QED BY <1>1, <1>2 DEF Emit, TypeOK, Points

LEMMA CalleeErrorsType == ASSUME TypeOK PROVE CalleeErrors \subseteq Errors
  BY DEF CalleeErrors, TypeOK, SinkTypeOK, Ended, Errors

LEMMA TypeEngine == ASSUME TypeOK, EventInv, Engine PROVE TypeOK'
  <1> USE MaxStepsAssumption, BoundsAssumption, CalleeErrorsType, SinkSame, EmitType
      DEF TypeOK, inVars, loopVars, Go, Fail
  <1> USE DEF Points, EventTypes, TerminalTypes, Errors
  <1>1. CASE Start BY <1>1 DEF Start, SinkTypeOK, Ended
  <1>2. CASE PassedInput \/ PassedOutput \/ CallsDone
    BY <1>2 DEF PassedInput, PassedOutput, CallsDone
  <1>3. CASE Load BY <1>3 DEF Load
  <1>4. CASE Turn BY <1>4 DEF Turn, SinkTypeOK, Ended
  <1>5. ASSUME NEW here \in {"input", "chunk", "output"}, Consult(here) PROVE TypeOK'
    <2>1. CASE GuardrailFails(here) BY <2>1 DEF GuardrailFails, Asked
    <2>2. CASE GuardrailPasses(here) BY <2>2 DEF GuardrailPasses, Asked
    <2>3. CASE GuardrailBlocks(here) BY <2>3 DEF GuardrailBlocks, Asked
    <2>4. QED BY <1>5, <2>1, <2>2, <2>3 DEF Consult
  <1>6. CASE ModelFails BY <1>6 DEF ModelFails
  <1>7. CASE ModelDelta BY <1>7 DEF ModelDelta
  <1>8. CASE DropDelta \/ EmitDelta BY <1>8 DEF DropDelta, EmitDelta
  <1>9. CASE ModelAnswers BY <1>9 DEF ModelAnswers
  <1>10. CASE NextStep BY <1>10 DEF NextStep, StepsLeft
  <1>11. CASE NextCall BY <1>11 DEF NextCall, SinkTypeOK, Ended
  <1>12. CASE ResolveFails \/ Resolve
    <2>1. CASE ResolveFails BY <2>1 DEF ResolveFails
    <2>2. CASE Resolve BY <2>2 DEF Resolve
    <2>3. QED BY <1>12, <2>1, <2>2
  <1>13. CASE Invoke BY <1>13 DEF Invoke
  <1>14. CASE AfterTool BY <1>14 DEF AfterTool
  <1>15. CASE Reconsider BY <1>15 DEF Reconsider
  <1>16. CASE Respond BY <1>16 DEF Respond
  <1>17. CASE Save
    <2>1. err' \in Errors /\ pc' \in Points /\ saved' \in BOOLEAN BY <1>17 DEF Save
    <2>2. UNCHANGED <<inVars, loopVars, hooked, ret, ev, seq, sinkVars>> BY <1>17 DEF Save
    <2>3. QED BY <2>1, <2>2
  <1>18. CASE Complete \/ Failing BY <1>18 DEF Complete, Failing, FailureEvent
  <1>19. CASE Deliver
    <2>1. ev \in Events BY <1>19 DEF Deliver, EventInv, Emitting
    <2>2. SinkTypeOK'
      BY <1>19, <2>1, CapacityAssumption
      DEF Deliver, Send, SinkTypeOK, flagVars, closeVars, readerVars
    <2>3. QED BY <1>19, <2>2 DEF Deliver
  <1>20. CASE Hooks BY <1>20 DEF Hooks
  <1>21. CASE ReturnAborted
    BY <1>21 DEF ReturnAborted, SetPostDrainErr, SinkTypeOK, closeVars, readerVars
  <1>22. CASE Return BY <1>22 DEF Return
  <1>23. CASE Finish
    BY <1>23 DEF Finish, FinishSink, SinkTypeOK, closeVars, readerVars
  <1>24. QED
    BY <1>1, <1>2, <1>3, <1>4, <1>5, <1>6, <1>7, <1>8, <1>9, <1>10, <1>11, <1>12, <1>13, <1>14,
       <1>15, <1>16, <1>17, <1>18, <1>19, <1>20, <1>21, <1>22, <1>23 DEF Engine

-----------------------------------------------------------------------------
(***************************************************************************)
(* The engine's actions, by what they do to the stream and to the hooks: a *)
(* silent one does nothing to them, another puts an event on its way.      *)
(***************************************************************************)
Working == Straight \cup {"failing"}

Silent ==
  /\ UNCHANGED <<ret, ev, seq, sinkVars, inVars, hooked>>
  /\ \/ pc \in Working \ {"invoke"} /\ pc' \in Working \ {"invoke"}
     \/ /\ pc = "return" /\ ~(mode = "stream" /\ err = "aborted")
        /\ pc' = IF mode = "stream" THEN "finish" ELSE "done"
        /\ UNCHANGED err

\* An event of this type announces what the run does at this point.
Fits(type, next) ==
  /\ next = "return" <=> type \in TerminalTypes
  /\ next = "return" => (type = "completed" <=> err = "nil") /\ UNCHANGED err
  /\ next = "invoke" <=> type = "tool_call"
  /\ pc = "invoke" <=> type = "tool_result"

Speaks(type, next) ==
  /\ Emit(type, next) /\ Fits(type, next)
  /\ pc \in Working /\ next \in Working \cup {"return"}
  /\ UNCHANGED <<inVars, hooked>>

Moves ==
  \/ Silent
  \/ \E type \in EventTypes, next \in Points : Speaks(type, next)
  \/ Deliver \/ Hooks \/ ReturnAborted \/ Finish

LEMMA EngineMoves == ASSUME TypeOK, OutcomeInv, ToolsInv, Engine PROVE Moves
  <1> USE DEF Working, Straight, Ends, Points
  <1>1. CASE Start \/ Turn \/ NextCall
    <2>1. Silent \/ Speaks("started", "input")
      BY <1>1 DEF Start, Turn, NextCall, Fail, Go, Silent, Speaks, Fits, TerminalTypes
    <2>2. QED BY <2>1 DEF Moves, EventTypes
  <1>2. CASE PassedInput \/ PassedOutput \/ CallsDone \/ Load
    <2>1. Silent BY <1>2 DEF PassedInput, PassedOutput, CallsDone, Load, Fail, Go, Silent
    <2>2. QED BY <2>1 DEF Moves
  <1>3. ASSUME NEW here \in {"input", "chunk", "output"}, Consult(here) PROVE Moves
    <2>1. \/ Silent
          \/ Speaks("guardrail", here)
          \/ Speaks("guardrail", "failing")
      BY <1>3
      DEF Consult, GuardrailFails, GuardrailPasses, GuardrailBlocks, Asked, Fail, Go, Silent,
          Speaks, Fits, TerminalTypes
    <2>2. QED BY <2>1 DEF Moves, EventTypes
  <1>4. CASE ModelFails \/ ModelDelta \/ ModelAnswers \/ NextStep
    <2>1. Silent
      BY <1>4 DEF ModelFails, ModelDelta, ModelAnswers, NextStep, Fail, Go, Silent
    <2>2. QED BY <2>1 DEF Moves
  <1>5. CASE DropDelta \/ EmitDelta
    <2>1. Speaks("guardrail", "model") \/ Speaks("delta", "model")
      BY <1>5 DEF DropDelta, EmitDelta, Asked, Speaks, Fits, TerminalTypes
    <2>2. QED BY <2>1 DEF Moves, EventTypes
  <1>6. CASE ResolveFails \/ Resolve
    <2>1. Silent \/ Speaks("tool_call", "invoke")
      BY <1>6 DEF ResolveFails, Resolve, Fail, Go, Silent, Speaks, Fits, TerminalTypes
    <2>2. QED BY <2>1 DEF Moves, EventTypes
  <1>7. CASE AfterTool \/ Reconsider \/ Respond \/ Save
    <2>1. Silent BY <1>7 DEF AfterTool, Reconsider, Respond, Save, Fail, Go, Silent
    <2>2. QED BY <2>1 DEF Moves
  <1>8. CASE Complete
    <2>1. Speaks("completed", "return")
      BY <1>8 DEF Complete, Speaks, Fits, TerminalTypes, OutcomeInv, At, Emitting
    <2>2. QED BY <2>1 DEF Moves, EventTypes, TerminalTypes
  <1>9. CASE Failing
    <2>1. Speaks("failed", "return") \/ Speaks("canceled", "return")
      BY <1>9
      DEF Failing, FailureEvent, Speaks, Fits, TerminalTypes, OutcomeInv, At, Emitting
    <2>2. QED BY <2>1 DEF Moves, EventTypes, TerminalTypes
  <1>10. CASE Return
    <2>1. Silent BY <1>10 DEF Return, Go, Silent
    <2>2. QED BY <2>1 DEF Moves
  <1>11. CASE Deliver \/ Hooks \/ ReturnAborted \/ Finish BY <1>11 DEF Moves
  <1>12. CASE Invoke
    <2>1. after \in {"afterTool", "calls", "nextStep"} => Moves
      <3>1. after \in {"afterTool", "calls", "nextStep"}
            => Speaks("tool_result", after) \/ Speaks("tool_result", "failing")
        BY <1>12 DEF Invoke, Speaks, Fits, TerminalTypes
      <3>2. QED BY <3>1 DEF Moves, EventTypes
    <2>2. QED BY <1>12, <2>1 DEF ToolsInv, At, Emitting, Invoke
  <1>13. QED
    BY <1>1, <1>2, <1>3, <1>4, <1>5, <1>6, <1>7, <1>8, <1>9, <1>10, <1>11, <1>12 DEF Engine

\* The error of a call out of the engine is one, and tells the truth.
LEMMA CalleeFacts ==
  ASSUME TypeOK, NEW e \in CalleeErrors
  PROVE  e # "nil" /\ (e = "aborted" => cause = "aborted")
  BY DEF CalleeErrors, Ended

LEMMA OutcomeEngine ==
  ASSUME TypeOK, OutcomeInv, ToolsInv, EventInv, Engine
  PROVE  OutcomeInv'
  <1> USE CalleeFacts
      DEF OutcomeInv, At, Emitting, Straight, Ends, Points, Fail, Go, Emit, sinkVars, loopVars
  <1>1. CASE Start \/ Turn \/ NextCall
    BY <1>1 DEF Start, Turn, NextCall, Ended, TypeOK, SinkTypeOK
  <1>2. CASE PassedInput \/ PassedOutput \/ CallsDone \/ Load
    BY <1>2 DEF PassedInput, PassedOutput, CallsDone, Load
  <1>3. ASSUME NEW here \in {"input", "chunk", "output"}, Consult(here) PROVE OutcomeInv'
    BY <1>3
    DEF Consult, GuardrailFails, GuardrailPasses, GuardrailBlocks, Asked
  <1>4. CASE ModelFails \/ ModelDelta \/ ModelAnswers \/ NextStep
    BY <1>4 DEF ModelFails, ModelDelta, ModelAnswers, NextStep
  <1>5. CASE DropDelta \/ EmitDelta BY <1>5 DEF DropDelta, EmitDelta, Asked
  <1>6. CASE ResolveFails \/ Resolve BY <1>6 DEF ResolveFails, Resolve
  <1>7. CASE AfterTool \/ Reconsider \/ Respond BY <1>7 DEF AfterTool, Reconsider, Respond
  <1>8. CASE Save BY <1>8 DEF Save
  <1>9. CASE Complete \/ Failing BY <1>9 DEF Complete, Failing
  <1>10. CASE Return BY <1>10 DEF Return
  <1>11. CASE Deliver BY <1>11 DEF Deliver, Send
  <1>12. CASE Hooks BY <1>12 DEF Hooks, EventInv
  <1>13. CASE ReturnAborted \/ Finish
    BY <1>13 DEF ReturnAborted, SetPostDrainErr, Finish, FinishSink
  <1>14. CASE Invoke
    BY <1>14 DEF Invoke, ToolsInv
  <1>15. QED
    BY <1>1, <1>2, <1>3, <1>4, <1>5, <1>6, <1>7, <1>8, <1>9, <1>10, <1>11, <1>12, <1>13, <1>14
    DEF Engine

LEMMA ToolsEngine ==
  ASSUME TypeOK, OutcomeInv, ToolsInv, EventInv, Engine
  PROVE  ToolsInv'
  <1> USE CalleeFacts
      DEF ToolsInv, At, Emitting, Ends, Fail, Go, Emit, inVars, loopVars
  <1>1. CASE Start \/ Turn \/ NextCall
    BY <1>1 DEF Start, Turn, NextCall
  <1>2. CASE PassedInput \/ PassedOutput \/ CallsDone \/ Load
    BY <1>2 DEF PassedInput, PassedOutput, CallsDone, Load
  <1>3. ASSUME NEW here \in {"input", "chunk", "output"}, Consult(here) PROVE ToolsInv'
    BY <1>3, OutcomeEngine
    DEF Consult, GuardrailFails, GuardrailPasses, GuardrailBlocks, Asked, OutcomeInv, Straight,
        Points
  <1>4. CASE ModelFails \/ ModelDelta \/ ModelAnswers \/ NextStep
    BY <1>4 DEF ModelFails, ModelDelta, ModelAnswers, NextStep
  <1>5. CASE DropDelta \/ EmitDelta BY <1>5 DEF DropDelta, EmitDelta, Asked
  <1>6. CASE ResolveFails \/ Resolve BY <1>6 DEF ResolveFails, Resolve, ToolsDisabled
  <1>7. CASE AfterTool \/ Reconsider BY <1>7 DEF AfterTool, Reconsider
  <1>8. CASE Respond BY <1>8 DEF Respond, ToolMissing, TypeOK
  <1>9. CASE Save BY <1>9 DEF Save
  <1>10. CASE Complete \/ Failing
    BY <1>10 DEF Complete, Failing, OutcomeInv, Straight, Points
  <1>11. CASE Return BY <1>11 DEF Return
  <1>12. CASE Deliver \/ Hooks BY <1>12 DEF Deliver, Hooks, EventInv, Straight, Points
  <1>13. CASE ReturnAborted \/ Finish BY <1>13 DEF ReturnAborted, Finish
  <1>14. CASE Invoke BY <1>14 DEF Invoke
  <1>15. QED
    BY <1>1, <1>2, <1>3, <1>4, <1>5, <1>6, <1>7, <1>8, <1>9, <1>10, <1>11, <1>12, <1>13, <1>14
    DEF Engine

LEMMA EventMoves ==
  ASSUME TypeOK, EventInv, Moves
  PROVE  EventInv'
  <1> USE DEF EventInv, Emitting, Working, Straight, Ends, Points
  <1>1. CASE Silent BY <1>1 DEF Silent
  <1>2. ASSUME NEW type \in EventTypes, NEW next \in Points, Speaks(type, next)
        PROVE  EventInv'
    <2>1. /\ ev' = [seq |-> seq + 1, type |-> type] /\ seq' = seq + 1 /\ seq' \in Nat
          /\ ret' = next /\ pc' \in {"send", "hooks"}
      BY <1>2 DEF Speaks, Emit, TypeOK
    <2>2. ev' \in Events BY <2>1 DEF Events
    <2>3. UNCHANGED hooked /\ pc \in Working /\ next \in Working \cup {"return"}
      BY <1>2 DEF Speaks
    <2>4. Fits(type, next) BY <1>2 DEF Speaks
    <2>5. QED BY <2>1, <2>2, <2>3, <2>4 DEF Fits, TerminalTypes
  <1>3. CASE Deliver BY <1>3 DEF Deliver
  <1>4. CASE Hooks BY <1>4 DEF Hooks, Go, TerminalTypes
  <1>5. CASE ReturnAborted \/ Finish BY <1>5 DEF ReturnAborted, Finish
  <1>6. QED BY <1>1, <1>2, <1>3, <1>4, <1>5 DEF Moves

LEMMA ControlEngine == ASSUME TypeOK, ControlInv, Engine PROVE ControlInv'
  BY OutcomeEngine, ToolsEngine, EngineMoves, EventMoves DEF ControlInv

-----------------------------------------------------------------------------
(* The consumer and the caller. *)

Environment == Reader \/ Closer \/ Caller

LEMMA TypeEnvironment == ASSUME TypeOK, Environment PROVE TypeOK'
  <1>1. UNCHANGED engineVars BY DEF Environment, Reader, Closer, Caller
  <1>2. SinkTypeOK'
    <2> USE DEF TypeOK, SinkTypeOK, flagVars, closeVars, readerVars
    <2>1. CASE RecvEvent
      <3>1. Head(events) \in Events /\ Tail(events) \in Seq(Events)
            /\ Len(Tail(events)) <= Capacity
        BY <2>1, CapacityAssumption DEF RecvEvent
      <3>2. QED BY <2>1, <3>1 DEF RecvEvent
    <2>2. CASE RecvAborted BY <2>2 DEF RecvAborted, TakePostDrainErr
    <2>3. CASE RecvEOF BY <2>3 DEF RecvEOF
    <2>4. CASE CloseMark BY <2>4 DEF CloseMark
    <2>5. CASE CloseCancel BY <2>5 DEF CloseCancel
    <2>6. CASE CancelContext BY <2>6 DEF CancelContext
    <2>7. QED
      BY <2>1, <2>2, <2>3, <2>4, <2>5, <2>6 DEF Environment, Reader, Closer, Caller, Recv
  <1>3. QED BY <1>1, <1>2 DEF engineVars, inVars, emitVars, loopVars, TypeOK

\* Only the context's end reaches the engine, and the first cause stands.
LEMMA ControlEnvironment == ASSUME ControlInv, Environment PROVE ControlInv'
  <1>1. UNCHANGED engineVars BY DEF Environment, Reader, Closer, Caller
  <1>2. cause = "aborted" => cause' = "aborted"
    BY DEF Environment, Reader, Closer, Caller, Recv, RecvEvent, RecvAborted, RecvEOF, CloseMark,
           CloseCancel, CancelContext, Ended
  <1>3. QED
    BY <1>1, <1>2
    DEF engineVars, inVars, emitVars, loopVars, ControlInv, OutcomeInv, ToolsInv, EventInv, At,
        Emitting

-----------------------------------------------------------------------------
(* The end of the stream. *)

LEMMA DoneMoves ==
  ASSUME TypeOK, ControlInv, DoneInv, Moves
  PROVE  DoneInv'
  <1> USE DEF DoneInv, At, Emitting, Working, Straight, Ends, Points
  <1>1. CASE Silent
    BY <1>1
    DEF Silent, sinkVars, flagVars, closeVars, readerVars, inVars
  <1>2. ASSUME NEW type \in EventTypes, NEW next \in Points, Speaks(type, next)
        PROVE  DoneInv'
    <2>1. /\ UNCHANGED <<mode, done, events, last, closing, recv>>
          /\ pc \in Working /\ pc' \in {"send", "hooks"} /\ ret' = next
          /\ pc' = "send" => mode = "stream"
          /\ terminalSent' = (terminalSent \/ (Delivered(type) /\ type \in TerminalTypes))
      BY <1>2 DEF Speaks, Emit, Delivered, MarkTerminal, closeVars, readerVars, inVars
    <2>2. ~terminalSent BY <2>1
    <2>3. terminalSent' => next = "return" /\ err' # "aborted"
      BY <1>2, <2>1, <2>2 DEF Speaks, Fits, Delivered
    <2>4. QED BY <2>1, <2>3
  <1>3. CASE Deliver
    <2>1. mode = "stream" BY <1>3 DEF Deliver
    <2>2. QED BY <1>3, <2>1 DEF Deliver, Send, flagVars, closeVars, readerVars, inVars
  <1>4. CASE Hooks
    BY <1>4
    DEF Hooks, Go, sinkVars, flagVars, closeVars, readerVars, inVars, ControlInv, EventInv
  <1>5. CASE ReturnAborted \/ Finish
    BY <1>5
    DEF ReturnAborted, SetPostDrainErr, Finish, FinishSink, closeVars, readerVars, inVars,
        ControlInv, EventInv
  <1>6. QED BY <1>1, <1>2, <1>3, <1>4, <1>5 DEF Moves

LEMMA DoneEnvironment == ASSUME TypeOK, DoneInv, Environment PROVE DoneInv'
  <1>1. UNCHANGED engineVars BY DEF Environment, Reader, Closer, Caller
  <1>2. /\ UNCHANGED <<done, terminalSent>>
        /\ mode = "run" => UNCHANGED <<events, last, closing, recv>>
    BY DEF Environment, Reader, Closer, Caller, Recv, RecvEvent, RecvAborted, RecvEOF, CloseMark,
           CloseCancel, CancelContext, flagVars, readerVars, closeVars, DoneInv, TypeOK
  <1>3. QED BY <1>1, <1>2 DEF engineVars, inVars, emitVars, loopVars, DoneInv, At, Emitting

\* A run that returns ErrStreamAborted was closed before its terminal event.
LEMMA CloseMoves ==
  ASSUME TypeOK, ControlInv, DoneInv, CloseInv, Moves
  PROVE  CloseInv'
  <1> USE DEF CloseInv, TypeOK, SinkTypeOK
  <1>1. CASE Silent \/ Hooks
    <2>1. UNCHANGED sinkVars BY <1>1 DEF Silent, Hooks, Go
    <2>2. QED BY <2>1 DEF sinkVars, flagVars, closeVars, readerVars
  <1>2. ASSUME NEW type \in EventTypes, NEW next \in Points, Speaks(type, next)
        PROVE  CloseInv'
    <2>1. /\ UNCHANGED <<events, cause, postDrainErr, done, closing, early, recv, told>>
          /\ terminalSent => terminalSent'
      BY <1>2 DEF Speaks, Emit, MarkTerminal, closeVars, readerVars
    <2>2. QED BY <2>1
  <1>3. CASE Deliver
    <2>1. ~done BY <1>3 DEF Deliver, DoneInv
    <2>2. UNCHANGED <<cause, postDrainErr, terminalSent, done, closing, early, recv, told>>
      BY <1>3 DEF Deliver, Send, flagVars, closeVars, readerVars
    <2>3. QED BY <2>1, <2>2
  <1>4. CASE ReturnAborted
    <2>1. ~done BY <1>4 DEF ReturnAborted, DoneInv
    <2>2. ~terminalSent /\ cause = "aborted"
      BY <1>4 DEF ReturnAborted, DoneInv, ControlInv, OutcomeInv
    <2>3. early BY <2>1, <2>2
    <2>4. /\ UNCHANGED <<events, cause, terminalSent, done, closing, early, recv, told>>
          /\ postDrainErr' = "aborted"
      BY <1>4, <2>1, <2>2 DEF ReturnAborted, SetPostDrainErr, closeVars, readerVars
    <2>5. QED BY <2>1, <2>2, <2>3, <2>4
  <1>5. CASE Finish
    BY <1>5 DEF Finish, FinishSink, DoneInv, closeVars, readerVars
  <1>6. QED BY <1>1, <1>2, <1>3, <1>4, <1>5 DEF Moves

LEMMA CloseEnvironment == ASSUME TypeOK, CloseInv, Environment PROVE CloseInv'
  <1> USE DEF CloseInv, TypeOK, SinkTypeOK, flagVars, closeVars, readerVars
  <1>1. CASE RecvEvent BY <1>1 DEF RecvEvent
  <1>2. CASE RecvAborted BY <1>2 DEF RecvAborted, TakePostDrainErr
  <1>3. CASE RecvEOF BY <1>3 DEF RecvEOF
  <1>4. CASE CloseMark
    <2>1. /\ closing = "open" /\ closing' = "marked"
          /\ UNCHANGED <<events, cause, terminalSent, done, recv, told>>
          /\ early' <=> ~done /\ ~terminalSent
          /\ early' => postDrainErr' = "aborted"
          /\ ~early' => postDrainErr' = postDrainErr
      BY <1>4 DEF CloseMark, Marks
    <2>2. ~early /\ postDrainErr # "aborted" /\ told = 0 BY <2>1
    <2>3. QED BY <2>1, <2>2
  <1>5. CASE CloseCancel BY <1>5 DEF CloseCancel
  <1>6. CASE CancelContext BY <1>6 DEF CancelContext
  <1>7. QED
    BY <1>1, <1>2, <1>3, <1>4, <1>5, <1>6 DEF Environment, Reader, Closer, Caller, Recv

-----------------------------------------------------------------------------
(* The order of the stream. *)

LEMMA SeqTypes ==
  ASSUME TypeOK
  PROVE  /\ seq \in Nat /\ last.seq \in Nat /\ Len(events) \in Nat
         /\ \A i \in 1..Len(events) : events[i] \in Events /\ events[i].seq \in Nat
  <1>1. \A e \in Events : e.seq \in Nat BY DEF Events
  <1>2. last.seq \in Nat BY <1>1 DEF TypeOK, SinkTypeOK, NoEvent
  <1>3. QED BY <1>1, <1>2 DEF TypeOK, SinkTypeOK

\* Arithmetic of indices, when the buffer loses its head or grows by one.
LEMMA Shift == ASSUME NEW k \in Nat, NEW i \in Nat PROVE k + (i + 1) = (k + 1) + i
  OBVIOUS

LEMMA OneMore ==
  ASSUME NEW k \in Nat, NEW i \in Nat, NEW t \in Nat, k + i = t - 1 PROVE k + (i + 1) = t
  OBVIOUS

LEMMA OrderMoves ==
  ASSUME TypeOK, ControlInv, OrderInv, Moves
  PROVE  OrderInv'
  <1>1. ASSUME UNCHANGED <<seq, events, last, mode, cause>>, pc # "send", pc' # "send"
        PROVE  OrderInv'
    BY <1>1 DEF OrderInv, Ended
  <1>2. CASE Silent
    BY <1>1, <1>2
    DEF Silent, sinkVars, readerVars, inVars, Working, Straight, Ends, Points
  <1>3. ASSUME NEW type \in EventTypes, NEW next \in Points, Speaks(type, next)
        PROVE  OrderInv'
    <2>1. UNCHANGED <<events, last, mode, cause>> /\ seq' = seq + 1 /\ pc # "send"
      BY <1>3 DEF Speaks, Emit, readerVars, inVars, Working, Straight, Ends, Points
    <2>2. mode = "stream" /\ ~Ended => pc' = "send"
      BY <1>3 DEF Speaks, Emit, Delivered, ControlInv, OutcomeInv, Ended
    <2>3. QED BY <2>1, <2>2, SeqTypes DEF OrderInv, Ended
  <1>4. CASE Deliver
    <2> DEFINE n == Len(events)
    <2>1. /\ pc = "send" /\ pc' = "hooks" /\ ev \in Events /\ ev.seq = seq
          /\ UNCHANGED <<seq, last, mode, cause>>
          /\ events' = Append(events, ev) \/ (Ended /\ events' = events)
      BY <1>4
      DEF Deliver, Send, readerVars, inVars, ControlInv, EventInv, Emitting
    <2>2. CASE events' = events /\ Ended BY <2>1, <2>2 DEF OrderInv, Ended
    <2>3. CASE events' = Append(events, ev)
      <3>1. /\ n \in Nat /\ Len(events') = n + 1
            /\ \A i \in 1..n : events'[i] = events[i]
            /\ events'[n + 1] = ev
        BY <2>1, <2>3 DEF TypeOK, SinkTypeOK
      <3> HIDE DEF n
      <3>2. /\ \A i \in 1..n : events[i].seq \in Nat
            /\ \A i \in 1..n : last.seq < events[i].seq /\ events[i].seq < seq
            /\ \A i, j \in 1..n : i < j => events[i].seq < events[j].seq
            /\ last.seq < seq /\ seq \in Nat
            /\ ~Ended /\ mode = "stream" =>
                 /\ \A i \in 1..n : events[i].seq = last.seq + i
                 /\ last.seq + n = seq - 1
        BY <2>1, SeqTypes DEF OrderInv, n
      <3>3. \A i \in 1..(n + 1) : i \in 1..n \/ i = n + 1 BY <3>1
      <3>4. \A i \in 1..(n + 1) : last.seq < events'[i].seq /\ events'[i].seq <= seq
        <4> SUFFICES ASSUME NEW i \in 1..(n + 1)
                     PROVE  last.seq < events'[i].seq /\ events'[i].seq <= seq
          OBVIOUS
        <4>1. CASE i = n + 1 BY <2>1, <3>1, <3>2, <4>1
        <4>2. CASE i \in 1..n BY <3>1, <3>2, <4>2
        <4>3. QED BY <3>3, <4>1, <4>2
      <3>5. \A i, j \in 1..(n + 1) : i < j => events'[i].seq < events'[j].seq
        <4> SUFFICES ASSUME NEW i \in 1..(n + 1), NEW j \in 1..(n + 1), i < j
                     PROVE  events'[i].seq < events'[j].seq
          OBVIOUS
        <4>1. i \in 1..n BY <3>1
        <4>2. CASE j = n + 1 BY <2>1, <3>1, <3>2, <4>1, <4>2
        <4>3. CASE j \in 1..n BY <3>1, <3>2, <4>1, <4>3
        <4>4. QED BY <3>3, <4>2, <4>3
      <3>6. ~Ended /\ mode = "stream" =>
              /\ \A i \in 1..(n + 1) : events'[i].seq = last.seq + i
              /\ last.seq + (n + 1) = seq
        <4> SUFFICES ASSUME ~Ended, mode = "stream"
                     PROVE  /\ \A i \in 1..(n + 1) : events'[i].seq = last.seq + i
                            /\ last.seq + (n + 1) = seq
          OBVIOUS
        <4>1. last.seq \in Nat BY SeqTypes
        <4>2. last.seq + (n + 1) = seq
          <5>1. last.seq + n = seq - 1 /\ seq \in Nat /\ n \in Nat BY <3>1, <3>2
          <5>2. QED BY <4>1, <5>1, OneMore
        <4>3. ASSUME NEW i \in 1..(n + 1) PROVE events'[i].seq = last.seq + i
          <5>1. CASE i = n + 1 BY <2>1, <3>1, <4>2, <5>1
          <5>2. CASE i \in 1..n BY <3>1, <3>2, <5>2
          <5>3. QED BY <3>3, <5>1, <5>2
        <4>4. QED BY <4>2, <4>3
      <3>7. QED BY <2>1, <3>1, <3>2, <3>4, <3>5, <3>6 DEF OrderInv, Ended
    <2>4. QED BY <2>1, <2>2, <2>3
  <1>5. CASE Hooks
    BY <1>1, <1>5
    DEF Hooks, Go, sinkVars, readerVars, inVars, ControlInv, EventInv, Emitting, Straight, Ends,
        Points
  <1>6. CASE ReturnAborted \/ Finish
    BY <1>1, <1>6
    DEF ReturnAborted, SetPostDrainErr, Finish, FinishSink, readerVars, inVars
  <1>7. QED BY <1>2, <1>3, <1>4, <1>5, <1>6 DEF Moves

\* What Recv takes is the head of the buffer.
LEMMA ReceivedFacts ==
  ASSUME TypeOK, RecvEvent
  PROVE  /\ Len(events) > 0 /\ last' = events[1] /\ Len(events') = Len(events) - 1
         /\ \A i \in 1..Len(events') : events'[i] = events[i + 1]
  BY DEF RecvEvent, TypeOK, SinkTypeOK

LEMMA OrderEnvironment == ASSUME TypeOK, OrderInv, Environment PROVE OrderInv'
  <1>1. UNCHANGED engineVars BY DEF Environment, Reader, Closer, Caller
  <1>2. UNCHANGED <<mode, seq, pc>> BY <1>1 DEF engineVars, inVars, emitVars
  <1>3. CASE RecvEvent
    <2> DEFINE m == Len(events')
    <2>1. UNCHANGED cause BY <1>3 DEF RecvEvent
    <2>2. /\ m \in Nat /\ Len(events) = m + 1 /\ last' = events[1]
          /\ \A i \in 1..m : events'[i] = events[i + 1]
      BY <1>3, ReceivedFacts, SeqTypes
    <2> HIDE DEF m
    <2>3. 1 \in 1..(m + 1) /\ \A i \in 1..m : i + 1 \in 1..(m + 1) BY <2>2
    <2>4. /\ \A i \in 1..(m + 1) : events[i].seq \in Nat /\ events[i].seq <= seq
          /\ \A i, j \in 1..(m + 1) : i < j => events[i].seq < events[j].seq
          /\ pc = "send" => \A i \in 1..(m + 1) : events[i].seq < seq
          /\ ~Ended /\ mode = "stream" =>
               /\ \A i \in 1..(m + 1) : events[i].seq = last.seq + i
               /\ last.seq + (m + 1) = IF pc = "send" THEN seq - 1 ELSE seq
      BY <2>2, SeqTypes DEF OrderInv
    <2>5. last'.seq <= seq /\ (pc = "send" => last'.seq < seq) BY <2>2, <2>3, <2>4
    <2>6. \A i \in 1..m : 1 < i + 1 BY <2>2
    <2>7. \A i \in 1..m : last'.seq < events'[i].seq /\ events'[i].seq <= seq
      BY <2>2, <2>3, <2>4, <2>6
    <2>8. \A i, j \in 1..m : i < j => events'[i].seq < events'[j].seq
      <3> SUFFICES ASSUME NEW i \in 1..m, NEW j \in 1..m, i < j
                   PROVE  events'[i].seq < events'[j].seq
        OBVIOUS
      <3>1. i + 1 < j + 1 BY <2>2
      <3>2. QED BY <2>2, <2>3, <2>4, <3>1
    <2>9. pc = "send" => \A i \in 1..m : events'[i].seq < seq
      BY <2>2, <2>3, <2>4
    <2>10. ~Ended /\ mode = "stream" =>
             /\ \A i \in 1..m : events'[i].seq = last'.seq + i
             /\ last'.seq + m = IF pc = "send" THEN seq - 1 ELSE seq
      <3> SUFFICES ASSUME ~Ended, mode = "stream"
                   PROVE  /\ \A i \in 1..m : events'[i].seq = last'.seq + i
                          /\ last'.seq + m = IF pc = "send" THEN seq - 1 ELSE seq
        OBVIOUS
      <3>1. last.seq \in Nat /\ seq \in Nat BY SeqTypes
      <3>2. last'.seq = last.seq + 1 BY <2>2, <2>3, <2>4
      <3>3. last'.seq + m = IF pc = "send" THEN seq - 1 ELSE seq
        BY <2>2, <2>4, <3>1, <3>2, Shift
      <3>4. ASSUME NEW i \in 1..m PROVE events'[i].seq = last'.seq + i
        <4>1. events[i + 1].seq = last.seq + (i + 1) BY <2>3, <2>4
        <4>2. events'[i].seq = last.seq + (i + 1) BY <2>2, <4>1
        <4>3. last.seq + (i + 1) = (last.seq + 1) + i
          <5>1. i \in Nat BY <2>2
          <5>2. QED BY <3>1, <5>1, Shift
        <4>4. QED BY <3>2, <4>2, <4>3
      <3>5. QED BY <3>3, <3>4
    <2>11. QED
      BY <1>2, <2>1, <2>5, <2>7, <2>8, <2>9, <2>10 DEF OrderInv, Ended, m
  <1>4. CASE ~RecvEvent
    <2>1. UNCHANGED <<events, last>> /\ (Ended => Ended')
      BY <1>4
      DEF Environment, Reader, Closer, Caller, Recv, RecvAborted, RecvEOF, CloseMark, CloseCancel,
          CancelContext, readerVars, Ended
    <2>2. QED BY <1>2, <2>1 DEF OrderInv
  <1>5. QED BY <1>3, <1>4

-----------------------------------------------------------------------------
(* The last event of the stream. *)

LEMMA LastMoves ==
  ASSUME TypeOK, ControlInv, LastInv, Moves
  PROVE  LastInv'
  <1> USE DEF LastInv, At, Emitting, Working, Straight, Ends, Points
  <1>1. CASE Silent BY <1>1 DEF Silent, sinkVars, readerVars
  <1>2. ASSUME NEW type \in EventTypes, NEW next \in Points, Speaks(type, next)
        PROVE  LastInv'
    <2>1. UNCHANGED <<events, last>> /\ pc \in Working
      BY <1>2 DEF Speaks, Emit, readerVars
    <2>2. QED BY <2>1
  <1>3. CASE Deliver
    <2>1. /\ pc = "send" /\ pc' = "hooks" /\ UNCHANGED <<ret, last>>
          /\ ev.type \in TerminalTypes => ret = "return"
          /\ events' = Append(events, ev) \/ events' = events
      BY <1>3 DEF Deliver, Send, readerVars, ControlInv, EventInv
    <2>2. CASE events' = events BY <2>1, <2>2
    <2>3. CASE events' = Append(events, ev)
      <3>1. ev \in Events BY <1>3 DEF Deliver, ControlInv, EventInv
      <3>2. /\ Len(events) \in Nat /\ Len(events') = Len(events) + 1
            /\ \A i \in 1..Len(events) : events'[i] = events[i]
            /\ events'[Len(events) + 1] = ev
        BY <2>3, <3>1 DEF TypeOK, SinkTypeOK
      <3>3. QED BY <2>1, <3>2
    <2>4. QED BY <2>1, <2>2, <2>3
  <1>4. CASE Hooks
    BY <1>4 DEF Hooks, Go, sinkVars, readerVars, ControlInv, EventInv
  <1>5. CASE ReturnAborted \/ Finish
    BY <1>5 DEF ReturnAborted, SetPostDrainErr, Finish, FinishSink, readerVars
  <1>6. QED BY <1>1, <1>2, <1>3, <1>4, <1>5 DEF Moves

LEMMA LastEnvironment == ASSUME TypeOK, LastInv, Environment PROVE LastInv'
  <1> USE DEF LastInv
  <1>1. UNCHANGED engineVars BY DEF Environment, Reader, Closer, Caller
  <1>2. At' = At /\ pc' = pc BY <1>1 DEF engineVars, emitVars, At, Emitting
  <1>3. CASE RecvEvent
    <2>1. Len(events) \in Nat /\ events' \in Seq(Events)
      BY <1>3, TypeEnvironment DEF TypeOK, SinkTypeOK
    <2>2. \A i \in 1..Len(events') : events'[i].type \in TerminalTypes =>
            i = Len(events') /\ At' \in Ends /\ pc' # "send"
      BY <1>2, <1>3, <2>1, ReceivedFacts
    <2>3. last'.type \in TerminalTypes => events' = <<>> /\ At' \in Ends /\ pc' # "send"
      <3>1. last'.type \in TerminalTypes => Len(events) = 1 /\ At' \in Ends /\ pc' # "send"
        BY <1>2, <1>3, <2>1, ReceivedFacts
      <3>2. Len(events) = 1 => Len(events') = 0 BY <1>3, ReceivedFacts
      <3>3. Len(events') = 0 => events' = <<>> BY <2>1
      <3>4. QED BY <3>1, <3>2, <3>3
    <2>4. QED BY <2>2, <2>3
  <1>4. CASE ~RecvEvent
    <2>1. UNCHANGED <<events, last>>
      BY <1>4
      DEF Environment, Reader, Closer, Caller, Recv, RecvAborted, RecvEOF, CloseMark, CloseCancel,
          CancelContext, readerVars
    <2>2. QED BY <1>2, <2>1
  <1>5. QED BY <1>3, <1>4

-----------------------------------------------------------------------------
RunInv == TypeOK /\ ControlInv /\ StreamInv

LEMMA RunInit == Init => RunInv
  <1> SUFFICES ASSUME Init PROVE RunInv OBVIOUS
  <1>1. TypeOK BY TypeInit
  <1>2. ControlInv
    BY DEF Init, SinkInit, ControlInv, OutcomeInv, ToolsInv, EventInv, At, Emitting, Straight,
           Ends, Points, NoEvent, TerminalTypes
  <1>3. DoneInv /\ CloseInv BY DEF Init, SinkInit, DoneInv, CloseInv, At, Emitting
  <1>4. OrderInv /\ LastInv
    BY DEF Init, SinkInit, OrderInv, LastInv, NoEvent, TerminalTypes
  <1>5. QED BY <1>1, <1>2, <1>3, <1>4 DEF RunInv, StreamInv

LEMMA RunNext == RunInv /\ [Next]_vars => RunInv'
  <1> USE DEF RunInv, StreamInv
  <1>1. ASSUME RunInv, Engine PROVE RunInv'
    <2>1. Moves BY <1>1, EngineMoves DEF ControlInv
    <2>2. TypeOK' BY <1>1, TypeEngine DEF ControlInv
    <2>3. ControlInv' BY <1>1, ControlEngine
    <2>4. DoneInv' /\ CloseInv' BY <1>1, <2>1, DoneMoves, CloseMoves
    <2>5. OrderInv' /\ LastInv' BY <1>1, <2>1, OrderMoves, LastMoves
    <2>6. QED BY <2>2, <2>3, <2>4, <2>5
  <1>2. ASSUME RunInv, Environment PROVE RunInv'
    BY <1>2, TypeEnvironment, ControlEnvironment, DoneEnvironment, CloseEnvironment,
       OrderEnvironment, LastEnvironment
  <1>3. ASSUME RunInv, UNCHANGED vars PROVE RunInv'
    <2> USE <1>3 DEF vars, sinkVars, flagVars, closeVars, readerVars, inVars, emitVars, loopVars
    <2>1. TypeOK' BY DEF TypeOK, SinkTypeOK
    <2>2. ControlInv' BY DEF ControlInv, OutcomeInv, ToolsInv, EventInv, At, Emitting
    <2>3. DoneInv' /\ CloseInv' BY DEF DoneInv, CloseInv, At, Emitting
    <2>4. OrderInv' /\ LastInv' BY DEF OrderInv, LastInv, Ended, At, Emitting
    <2>5. QED BY <2>1, <2>2, <2>3, <2>4
  <1>4. QED BY <1>1, <1>2, <1>3 DEF Next, Environment, Terminated

LEMMA RunHolds == Spec => []RunInv
  BY RunInit, RunNext, PTL DEF Spec

\* Every variable of a run and of its stream stays in its set: the buffer
\* within its capacity, the turns within MaxSteps.
THEOREM RunTypes == Spec => []TypeOK
  BY RunHolds, PTL DEF RunInv

\* What Run returns, the last event and the store agree, whichever call out of
\* the engine failed and whenever the run was closed or its context ended.
THEOREM OneOutcome == Spec => []OutcomesAgree
  <1>1. RunInv => OutcomesAgree
    BY DEF RunInv, ControlInv, OutcomeInv, ToolsInv, EventInv, StreamInv, CloseInv,
           OutcomesAgree, Over, Ends, At, Emitting
  <1>2. QED BY <1>1, RunHolds, PTL

\* Recv gives the events, then ErrStreamAborted exactly once if the consumer had
\* closed the stream before its terminal event, then io.EOF.
THEOREM RecvContract == Spec => []RecvProtocol
  <1>1. RunInv => RecvProtocol
    BY DEF RunInv, StreamInv, DoneInv, CloseInv, RecvProtocol, TypeOK, SinkTypeOK
  <1>2. QED BY <1>1, RunHolds, PTL

\* Only RecvEvent moves last, and only Hooks moves hooked.
LEMMA ObservedSteps ==
  ASSUME RunInv, [Next]_vars
  PROVE  /\ last' # last => RecvEvent
         /\ hooked' # hooked => Hooks
  <1>1. CASE Engine
    <2>1. Moves BY <1>1, EngineMoves DEF RunInv, ControlInv
    <2>2. QED
      BY <2>1
      DEF Moves, Silent, Speaks, Emit, Deliver, Send, ReturnAborted, SetPostDrainErr, Finish,
          FinishSink, Hooks, Go, sinkVars, readerVars
  <1>2. CASE Environment
    BY <1>2
    DEF Environment, Reader, Closer, Caller, Recv, RecvAborted, RecvEOF, CloseMark, CloseCancel,
        CancelContext, readerVars, engineVars
  <1>3. CASE UNCHANGED vars BY <1>3 DEF vars, sinkVars, readerVars
  <1>4. QED BY <1>1, <1>2, <1>3 DEF Next, Environment, Terminated

\* The consumer sees the events in the order they were emitted, none twice, and
\* misses one only after the context of the run ended.
THEOREM InOrder == Spec => StreamInOrder
  <1>1. RunInv /\ [Next]_vars =>
          [last' # last => /\ last'.seq > last.seq
                           /\ last'.seq > last.seq + 1 => Ended]_last
    <2> SUFFICES ASSUME RunInv, [Next]_vars, last' # last
                 PROVE  last'.seq > last.seq /\ (last'.seq > last.seq + 1 => Ended)
      OBVIOUS
    <2>1. RecvEvent BY ObservedSteps
    <2>2. Len(events) > 0 /\ last' = events[1] BY <2>1, ReceivedFacts DEF RunInv
    <2>3. mode = "stream"
      BY <2>1 DEF RecvEvent, RunInv, StreamInv, DoneInv, TypeOK
    <2>4. QED BY <2>2, <2>3, SeqTypes DEF RunInv, StreamInv, OrderInv
  <1>2. QED BY <1>1, RunHolds, PTL DEF Spec, StreamInOrder

\* Nothing follows a terminal event, and the call of a tool and its result are
\* neighbours.
THEOREM EventsOrdered == Spec => EventProtocol
  <1>1. RunInv /\ [Next]_vars =>
          [/\ last.type \in TerminalTypes => last' = last
           /\ hooked.type \in TerminalTypes => hooked' = hooked
           /\ hooked' # hooked =>
                (hooked.type = "tool_call" <=> hooked'.type = "tool_result")]_<<last, hooked>>
    <2> SUFFICES ASSUME RunInv, [Next]_vars
                 PROVE  /\ last.type \in TerminalTypes => last' = last
                        /\ hooked.type \in TerminalTypes => hooked' = hooked
                        /\ hooked' # hooked =>
                             (hooked.type = "tool_call" <=> hooked'.type = "tool_result")
      OBVIOUS
    <2>1. last.type \in TerminalTypes => last' = last
      BY ObservedSteps DEF RecvEvent, RunInv, StreamInv, LastInv
    <2>2. ASSUME hooked' # hooked
          PROVE  /\ hooked.type \notin TerminalTypes
                 /\ hooked.type = "tool_call" <=> hooked'.type = "tool_result"
      <3>1. pc = "hooks" /\ hooked' = ev BY <2>2, ObservedSteps DEF Hooks
      <3>2. QED BY <3>1 DEF RunInv, ControlInv, EventInv, Emitting, Ends
    <2>3. QED BY <2>1, <2>2
  <1>2. QED BY <1>1, RunHolds, PTL DEF Spec, EventProtocol
=============================================================================
