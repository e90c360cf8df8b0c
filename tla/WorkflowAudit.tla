---------------------------- MODULE WorkflowAudit ----------------------------
(***************************************************************************)
(* The history that a workflow run promises (specs/070-workflows.md 6, 8,  *)
(* 9 and 10).  The run starts; every attempt of a step starts and either   *)
(* ends or fails; a failed attempt is followed only by a retry of the same *)
(* step; a suspension is recorded before the finish; the last entry,       *)
(* whatever happened, is the end; and the caller is told what it says.     *)
(* An entry that cannot be written leaves nothing to record but the end,   *)
(* and the caller is told of a failure.                                    *)
(***************************************************************************)
EXTENDS Naturals

VARIABLES
  entry,     \* the last entry: its kind, step, attempt and status
  returned,  \* what the caller was told, "no" while the run goes on
  lost       \* could an entry not be written?

vars == <<entry, returned, lost>>

Entry(kind, step, attempt, status) ==
  [kind |-> kind, step |-> step, attempt |-> attempt, status |-> status]

Init == entry = Entry("none", 0, 0, "none") /\ returned = "no" /\ lost = FALSE

Failures == {"failed", "canceled"}

\* An entry of that kind is recorded after one of these.
After(kinds, kind) ==
  /\ ~lost
  /\ entry.kind \in kinds
  /\ entry'.kind = kind
  /\ UNCHANGED <<returned, lost>>

SameAttempt == entry'.step = entry.step /\ entry'.attempt = entry.attempt

Begin == After({"none"}, "started")

StartStep == After({"started", "step_ended"}, "step_started") /\ entry'.attempt = 1

EndAttempt ==
  /\ \/ After({"step_started"}, "step_ended")
     \/ After({"step_started"}, "error")
  /\ SameAttempt

ScheduleRetry == After({"error"}, "retry_scheduled") /\ SameAttempt

StartRetry ==
  /\ After({"retry_scheduled"}, "step_started")
  /\ entry'.step = entry.step
  /\ entry'.attempt = entry.attempt + 1

Suspend == After({"step_ended"}, "suspended") /\ SameAttempt

Finish ==
  \/ After({"step_ended"}, "finished") /\ entry'.status = "completed"
  \/ After({"suspended"}, "finished") /\ entry'.status = "suspended"

\* Only a run that was finished ends as completed or suspended.
End ==
  \/ After({"finished"}, "ended") /\ entry'.status = entry.status
  \/ /\ After({"started", "step_ended", "error", "retry_scheduled"}, "ended")
     /\ entry'.status \in Failures

\* An entry cannot be written; the last one may be the second that cannot.
Lose ==
  /\ entry.kind # "ended"
  /\ lost' = TRUE
  /\ returned' \in {returned} \cup Failures
  /\ UNCHANGED entry

EndIncomplete ==
  /\ lost
  /\ entry.kind # "ended"
  /\ entry'.kind = "ended" /\ entry'.status \in Failures
  /\ UNCHANGED <<returned, lost>>

Return ==
  /\ entry.kind = "ended"
  /\ returned' = entry.status
  /\ UNCHANGED <<entry, lost>>

Next ==
  \/ Begin \/ StartStep \/ EndAttempt \/ ScheduleRetry \/ StartRetry
  \/ Suspend \/ Finish \/ End \/ Lose \/ EndIncomplete \/ Return

Spec == Init /\ [][Next]_vars
=============================================================================
