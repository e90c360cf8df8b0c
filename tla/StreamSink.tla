----------------------------- MODULE StreamSink -----------------------------
(***************************************************************************)
(* The stream between a run and its consumer (streamSink in                *)
(* internal/runtime/engine.go): a buffered channel of events, the context  *)
(* of the run, and three fields under a mutex that decide what Recv says   *)
(* once the channel is closed and drained.                                 *)
(*                                                                         *)
(* One goroutine calls Recv, another may call Close at any moment, and the *)
(* caller's context may end at any moment.  The run is the producer: it is *)
(* the module AgentRun, built from the operations this module gives it.    *)
(***************************************************************************)
EXTENDS Naturals, Sequences

CONSTANT Capacity   \* buffer of the channel (32 in the code)

ASSUME CapacityAssumption == Capacity \in Nat \ {0}

VARIABLES
  events,        \* the channel's buffer
  cause,         \* context.Cause of the run's context: nil while it is alive
  postDrainErr,
  terminalSent,
  done,          \* done is set and the channel is closed
  closing,       \* Close: open, marked (between its two halves) or closed
  early,         \* history: did Close come before the run's terminal event?
  last,          \* the last event Recv returned
  recv,          \* what the last Recv returned
  told           \* how often Recv has returned ErrStreamAborted

flagVars   == <<postDrainErr, terminalSent, done>>
readerVars == <<last, recv, told>>
closeVars  == <<closing, early>>
sinkVars   == <<events, cause, flagVars, closeVars, readerVars>>

TerminalTypes == {"completed", "failed", "canceled"}
EventTypes    == TerminalTypes \cup
                 {"started", "guardrail", "delta", "tool_call", "tool_result"}

Events  == [seq : Nat, type : EventTypes]
NoEvent == [seq |-> 0, type |-> "none"]

SinkTypeOK ==
  /\ events \in Seq(Events)
  /\ Len(events) <= Capacity
  /\ cause \in {"nil", "canceled", "aborted"}
  /\ postDrainErr \in {"nil", "aborted"}
  /\ terminalSent \in BOOLEAN
  /\ done \in BOOLEAN
  /\ closing \in {"open", "marked", "closed"}
  /\ early \in BOOLEAN
  /\ last \in Events \cup {NoEvent}
  /\ recv \in {"none", "event", "aborted", "eof"}
  /\ told \in Nat

SinkInit ==
  /\ events = <<>>
  /\ cause = "nil"
  /\ postDrainErr = "nil"
  /\ terminalSent = FALSE
  /\ done = FALSE
  /\ closing = "open"
  /\ early = FALSE
  /\ last = NoEvent
  /\ recv = "none"
  /\ told = 0

-----------------------------------------------------------------------------
(* The producer's side. *)

\* The context's Done channel is closed.
Ended == cause # "nil"

\* emit marks a terminal event before it tries to send it.
MarkTerminal(isTerminal) == terminalSent' = (terminalSent \/ isTerminal)

\* Mutant: an event that finds the buffer full is dropped.
SendOrSkip(e) ==
  /\ events' = IF Len(events) < Capacity THEN Append(events, e) ELSE events
  /\ UNCHANGED <<cause, flagVars, closeVars, readerVars>>

\* Mutant: the select does not look at the context.
SendOnly(e) ==
  /\ Len(events) < Capacity
  /\ events' = Append(events, e)
  /\ UNCHANGED <<cause, flagVars, closeVars, readerVars>>

\* The select of emit: with room in the buffer and the context done, either
\* case may be taken.  A terminal event is no exception.
Send(e) ==
  /\ \/ Len(events) < Capacity /\ events' = Append(events, e)
     \/ Ended /\ UNCHANGED events
  /\ UNCHANGED <<cause, flagVars, closeVars, readerVars>>

\* setPostDrainErr, called when the run returned ErrStreamAborted.
SetPostDrainErr ==
  /\ postDrainErr' = IF terminalSent \/ done THEN postDrainErr ELSE "aborted"
  /\ UNCHANGED <<events, cause, terminalSent, done, closeVars, readerVars>>

\* Mutant: the channel is never closed.
FinishOpen == UNCHANGED sinkVars

FinishSink ==
  /\ done' = TRUE
  /\ UNCHANGED <<events, cause, postDrainErr, terminalSent, closeVars, readerVars>>

-----------------------------------------------------------------------------
(* The consumer's side. *)

RecvEvent ==
  /\ events # <<>>
  /\ last' = Head(events)
  /\ events' = Tail(events)
  /\ recv' = "event"
  /\ UNCHANGED <<cause, flagVars, closeVars, told>>

\* The channel is closed and empty: the error is reported once, then io.EOF.
KeepPostDrainErr == UNCHANGED postDrainErr   \* mutant
TakePostDrainErr == postDrainErr' = "nil"

RecvAborted ==
  /\ events = <<>> /\ done
  /\ postDrainErr = "aborted"
  /\ TakePostDrainErr
  /\ recv' = "aborted"
  /\ told' = told + 1
  /\ UNCHANGED <<events, cause, terminalSent, done, closeVars, last>>

RecvEOF ==
  /\ events = <<>> /\ done
  /\ postDrainErr = "nil"
  /\ recv # "eof"
  /\ recv' = "eof"
  /\ UNCHANGED <<events, cause, flagVars, closeVars, last, told>>

Recv == RecvEvent \/ RecvAborted \/ RecvEOF

\* Close is two steps: the fields under the mutex, then the cancellation.
\* closeOnce lets only the first call in.
MarksAlways == TRUE   \* mutant: a terminal event is not looked for
Marks       == ~done /\ ~terminalSent

CloseMark ==
  /\ closing = "open"
  /\ closing' = "marked"
  /\ early' = (~done /\ ~terminalSent)
  /\ postDrainErr' = IF Marks THEN "aborted" ELSE postDrainErr
  /\ UNCHANGED <<events, cause, terminalSent, done, readerVars>>

\* The first cause wins.
CloseCancel ==
  /\ closing = "marked"
  /\ closing' = "closed"
  /\ cause' = IF Ended THEN cause ELSE "aborted"
  /\ UNCHANGED <<events, flagVars, early, readerVars>>

\* The caller's context ends (a deadline counts as a cancellation).
CancelContext ==
  /\ ~Ended
  /\ cause' = "canceled"
  /\ UNCHANGED <<events, flagVars, closeVars, readerVars>>
=============================================================================
