---------------------------- MODULE ToolRegistry ----------------------------
(***************************************************************************)
(* The tool registry (pkg/tool/registry.go).  Register and RegisterToolkits *)
(* take several candidates: they check them one by one against a copy of   *)
(* the registry, under its lock, and put the copy in place at the end.     *)
(* Resolve and the listings read under the lock, hence between two of      *)
(* those calls.                                                            *)
(*                                                                         *)
(* A candidate contributes tools: a standalone tool one, a toolkit its own *)
(* under their effective names, namespace and local name.  Whether a       *)
(* candidate passes validation (names, descriptions, schemas, duplicates   *)
(* inside a toolkit) does not depend on the registry and is its attribute. *)
(***************************************************************************)
EXTENDS Naturals, Sequences

CONSTANTS
  Procs,       \* goroutines, each of which makes one registration
  Names,       \* effective names of tools
  Kits,        \* names of toolkits
  NoKit,       \* the origin of a standalone tool
  Free,        \* the holder of a lock that nobody holds
  MaxBatch     \* candidates in one call, a bound of the model

ASSUME KitAssumption == NoKit \notin Kits
ASSUME FreeAssumption == Free \notin Procs
ASSUME BatchAssumption == MaxBatch \in Nat

VARIABLES
  tools,         \* r.tools: effective name -> origin and contributor
  toolkits,      \* r.toolkits: toolkit -> the names it contributed
  holder,        \* the goroutine that holds r.mu, or none
  batch,         \* the arguments of each call
  pc,
  pos,           \* the candidate it checks next
  nextTools,     \* the copies it works on
  nextToolkits,
  result

mapVars == <<tools, toolkits>>
vars == <<mapVars, holder, batch, pc, pos, nextTools, nextToolkits, result>>

\* A tool that another registry resolved keeps the toolkit it came from.
Standalone == [origin : Kits \cup {NoKit}, names : {{n} : n \in Names}, kit : {FALSE},
               valid : BOOLEAN]
Toolkit    == [origin : Kits, names : SUBSET Names, kit : {TRUE}, valid : BOOLEAN]
Batches    == UNION {[1..n -> Standalone] \cup [1..n -> Toolkit] : n \in 0..MaxBatch}
Entry      == [origin : Kits \cup {NoKit}, by : Procs]
Empty      == [x \in {} |-> x]

IsToolMap(m) == DOMAIN m \subseteq Names /\ \A n \in DOMAIN m : m[n] \in Entry
IsKitMap(m)  == DOMAIN m \subseteq Kits /\ \A k \in DOMAIN m : m[k] \subseteq Names

TypeOK ==
  /\ IsToolMap(tools) /\ IsKitMap(toolkits)
  /\ holder \in Procs \cup {Free}
  /\ batch \in [Procs -> Batches]
  /\ pc \in [Procs -> {"call", "check", "done"}]
  /\ pos \in [Procs -> Nat] /\ \A p \in Procs : pos[p] \in 1..(Len(batch[p]) + 1)
  /\ DOMAIN nextTools = Procs /\ DOMAIN nextToolkits = Procs
  /\ \A p \in Procs : IsToolMap(nextTools[p]) /\ IsKitMap(nextToolkits[p])
  /\ result \in [Procs -> {"none", "ok", "error"}]

Init ==
  /\ tools = Empty /\ toolkits = Empty
  /\ holder = Free
  /\ batch \in [Procs -> Batches]
  /\ pc = [p \in Procs |-> "call"]
  /\ pos = [p \in Procs |-> 1]
  /\ nextTools = [p \in Procs |-> Empty]
  /\ nextToolkits = [p \in Procs |-> Empty]
  /\ result = [p \in Procs |-> "none"]

-----------------------------------------------------------------------------
\* Adding a candidate's tools, or its toolkit, to a map.
AddTools(m, c, p) ==
  [n \in DOMAIN m \cup c.names |->
     IF n \in c.names THEN [origin |-> c.origin, by |-> p] ELSE m[n]]

\* Mutant: a standalone tool is listed as a toolkit, too.
AddKitAlways(m, c) ==
  [k \in DOMAIN m \cup {c.origin} |-> IF k = c.origin THEN c.names ELSE m[k]]

AddKit(m, c) ==
  IF c.kit THEN [k \in DOMAIN m \cup {c.origin} |->
                   IF k = c.origin THEN c.names ELSE m[k]]
           ELSE m

\* r.mu.Lock, and the copies.
ReadLocked(p) == TRUE             \* mutant: the writers share the lock
LockFree(p)   == holder = Free

Begin(p) ==
  /\ pc[p] = "call"
  /\ LockFree(p)
  /\ holder' = p
  /\ pc' = [pc EXCEPT ![p] = "check"]
  /\ nextTools' = [nextTools EXCEPT ![p] = tools]
  /\ nextToolkits' = [nextToolkits EXCEPT ![p] = toolkits]
  /\ UNCHANGED <<mapVars, batch, pos, result>>

Candidate(p) == batch[p][pos[p]]

\* Mutant: only the names registered before the call are looked at.
ConflictsWithOld(p) ==
  \/ Candidate(p).kit /\ Candidate(p).origin \in DOMAIN toolkits
  \/ Candidate(p).names \cap DOMAIN tools # {}

\* A toolkit's name, or an effective name, is taken: by an earlier call or by
\* an earlier candidate of this one.
Conflicts(p) ==
  \/ Candidate(p).kit /\ Candidate(p).origin \in DOMAIN nextToolkits[p]
  \/ Candidate(p).names \cap DOMAIN nextTools[p] # {}

Accept(p) ==
  /\ pc[p] = "check"
  /\ pos[p] <= Len(batch[p])
  /\ Candidate(p).valid /\ ~Conflicts(p)
  /\ nextTools' = [nextTools EXCEPT ![p] = AddTools(@, Candidate(p), p)]
  /\ nextToolkits' = [nextToolkits EXCEPT ![p] = AddKit(@, Candidate(p))]
  /\ pos' = [pos EXCEPT ![p] = @ + 1]
  /\ UNCHANGED <<mapVars, holder, batch, pc, result>>

\* Mutant: what was accepted before the error is put in place.
RejectKeeps(p) ==
  /\ pc[p] = "check"
  /\ pos[p] <= Len(batch[p])
  /\ ~Candidate(p).valid \/ Conflicts(p)
  /\ tools' = nextTools[p] /\ toolkits' = nextToolkits[p]
  /\ holder' = Free
  /\ pc' = [pc EXCEPT ![p] = "done"]
  /\ result' = [result EXCEPT ![p] = "error"]
  /\ UNCHANGED <<batch, pos, nextTools, nextToolkits>>

Reject(p) ==
  /\ pc[p] = "check"
  /\ pos[p] <= Len(batch[p])
  /\ ~Candidate(p).valid \/ Conflicts(p)
  /\ holder' = Free
  /\ pc' = [pc EXCEPT ![p] = "done"]
  /\ result' = [result EXCEPT ![p] = "error"]
  /\ UNCHANGED <<mapVars, batch, pos, nextTools, nextToolkits>>

Commit(p) ==
  /\ pc[p] = "check"
  /\ pos[p] > Len(batch[p])
  /\ tools' = nextTools[p]
  /\ toolkits' = nextToolkits[p]
  /\ holder' = Free
  /\ pc' = [pc EXCEPT ![p] = "done"]
  /\ result' = [result EXCEPT ![p] = "ok"]
  /\ UNCHANGED <<batch, pos, nextTools, nextToolkits>>

Terminated == (\A p \in Procs : pc[p] = "done") /\ UNCHANGED vars

Next == (\E p \in Procs : Begin(p) \/ Accept(p) \/ Reject(p) \/ Commit(p)) \/ Terminated

Spec == Init /\ [][Next]_vars
-----------------------------------------------------------------------------
\* What a call contributes when it succeeds.
Offered(p) == UNION {batch[p][i].names : i \in 1..Len(batch[p])}

\* After a success every name it offered resolves to its own tool, for good, and
\* a call that failed or has not ended has put nothing in place.
BatchesWhole ==
  /\ \A p \in Procs : result[p] = "ok" =>
       \A n \in Offered(p) : n \in DOMAIN tools /\ tools[n].by = p
  /\ \A n \in DOMAIN tools : result[tools[n].by] = "ok"

\* A toolkit that is listed has all its tools registered, as its own.
KitsComplete ==
  \A k \in DOMAIN toolkits : \A n \in toolkits[k] :
    n \in DOMAIN tools /\ tools[n].origin = k

\* A registration takes effect as a whole or not at all, whatever its callers
\* race with, and so do the tools of a toolkit.
AllOrNothing == BatchesWhole /\ KitsComplete

\* A name that resolves goes on resolving, to the same tool: what a listing
\* returned may be resolved at any later time.
NeverRebound ==
  [][\A n \in DOMAIN tools : n \in DOMAIN tools' /\ tools'[n] = tools[n]]_tools
=============================================================================
