--------------------------- MODULE ConversationLog ---------------------------
(***************************************************************************)
(* What memory promises an agent (specs/050-memory.md 3.2 and 5): each     *)
(* session holds the runs that were persisted in it, in order, each of     *)
(* them exactly once, and no run of another session.  A run that is stale, *)
(* overtaken by another one of its session, may drop what it did not see.  *)
(***************************************************************************)
EXTENDS Sequences, Functions, SequencesExt

CONSTANTS Sessions, Runs

VARIABLES
  persisted,  \* the runs persisted so far
  log,        \* what a Load of each session returns
  stale       \* runs in progress that did not see the whole log

vars == <<persisted, log>>

Init == persisted = {} /\ log = [s \in Sessions |-> <<>>] /\ stale = {}

Record(r, s) ==
  /\ r \notin persisted
  /\ persisted' = persisted \cup {r}
  /\ \A t \in Sessions \ {s} : log'[t] = log[t]

Persist(r, s) ==
  /\ r \notin stale
  /\ Record(r, s)
  /\ log'[s] = Append(log[s], r)

\* It brings back what it saw: runs that were persisted, none of them twice.
Overwrite(r, s) ==
  /\ r \in stale
  /\ Record(r, s)
  /\ IsInjective(log'[s]) /\ Range(log'[s]) \subseteq persisted'
  /\ Last(log'[s]) = r

Next == \E r \in Runs, s \in Sessions : Persist(r, s) \/ Overwrite(r, s)

Spec == Init /\ [][Next]_vars
=============================================================================
