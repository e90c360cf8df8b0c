----------------------------- MODULE MemoryStore -----------------------------
(***************************************************************************)
(* The in-memory store (pkg/memory/in_memory_store.go) and the runs that   *)
(* use it: a run loads the snapshot of its session before its first model  *)
(* turn, and saves that snapshot with its own messages at the end          *)
(* (internal/runtime/engine.go).  Load and Save each hold the store's lock *)
(* throughout; nothing is held between them.                               *)
(*                                                                         *)
(* A snapshot is modelled by the sequence of runs whose messages it holds. *)
(* The store keeps the snapshots in nested maps user -> conversation ->    *)
(* session, with an index from a session to the scope it was last saved    *)
(* in: the user and the conversation come from the metadata of each Save.  *)
(***************************************************************************)
EXTENDS Naturals, Sequences, FiniteSets, Functions, SequencesExt

CONSTANTS
  Runs,
  Sessions,
  Users,          \* values of user_id, the default one included
  Conversations   \* values of conversation_id, the default one included

VARIABLES
  sessions,  \* s.sessions: session -> [user, conv]
  data,      \* s.data: user -> conversation -> session -> snapshot
  pc,        \* where each run is
  session,   \* its SessionID
  scope,     \* the scope its metadata names
  loaded,    \* the snapshot it loaded
  failed     \* has it ended without saving?

storeVars == <<sessions, data>>
runVars   == <<pc, session, scope, loaded, failed>>
vars      == <<storeVars, runVars>>

Scopes    == [user : Users, conv : Conversations]
Snapshots == {s \in Seq(Runs) : IsInjective(s)}
Empty     == [x \in {} |-> x]

IsIndex(m) ==
  /\ DOMAIN m \subseteq Sessions
  /\ \A s \in DOMAIN m : m[s] \in Scopes

IsData(d) ==
  /\ DOMAIN d \subseteq Users
  /\ \A u \in DOMAIN d :
       /\ DOMAIN d[u] \subseteq Conversations
       /\ \A c \in DOMAIN d[u] :
            /\ DOMAIN d[u][c] \subseteq Sessions
            /\ \A s \in DOMAIN d[u][c] : d[u][c][s] \in Snapshots

TypeOK ==
  /\ IsIndex(sessions)
  /\ IsData(data)
  /\ pc \in [Runs -> {"start", "loaded", "done"}]
  /\ session \in [Runs -> Sessions]
  /\ scope \in [Runs -> Scopes]
  /\ loaded \in [Runs -> Snapshots]
  /\ failed \subseteq Runs

\* Which session a run belongs to and which scope it names never change.
Init ==
  /\ sessions = Empty /\ data = Empty
  /\ pc = [r \in Runs |-> "start"]
  /\ session \in [Runs -> Sessions]
  /\ scope \in [Runs -> Scopes]
  /\ loaded = [r \in Runs |-> <<>>]
  /\ failed = {}

-----------------------------------------------------------------------------
(* The maps. *)

\* m[k] = v, and delete(m, k).
Put(m, k, v) == [x \in DOMAIN m \cup {k} |-> IF x = k THEN v ELSE m[x]]
Drop(m, k)   == Restrict(m, DOMAIN m \ {k})

\* m[k] when it is there, otherwise a new map.
Bucket(m, k) == IF k \in DOMAIN m THEN m[k] ELSE Empty

\* Load: a session, scope or bucket that is missing means an empty snapshot.
Lookup(s) ==
  IF s \notin DOMAIN sessions THEN <<>>
  ELSE LET at == sessions[s]
           convs == Bucket(data, at.user)
           slot == Bucket(convs, at.conv)
       IN  IF s \in DOMAIN slot THEN slot[s] ELSE <<>>

\* deleteSessionLocked: buckets that become empty go as well.
Delete(d, at, s) ==
  IF at.user \notin DOMAIN d \/ at.conv \notin DOMAIN Bucket(d, at.user) THEN d
  ELSE LET slot  == Drop(d[at.user][at.conv], s)
           convs == IF slot = Empty THEN Drop(d[at.user], at.conv)
                                    ELSE Put(d[at.user], at.conv, slot)
       IN  IF convs = Empty THEN Drop(d, at.user) ELSE Put(d, at.user, convs)

\* Mutant: the previous scope of the session is left alone.
NoRemoval(s, to) == data

\* The data once the session has left a previous scope other than to.
Removed(s, to) ==
  IF s \in DOMAIN sessions /\ sessions[s] # to THEN Delete(data, sessions[s], s) ELSE data

\* Mutant: the bucket of the user is taken before the session is removed.  If
\* the removal drops that bucket, the snapshot goes into a detached map.
StoreStale(s, to, snapshot) ==
  LET d == Removed(s, to)
  IN  IF to.user \in DOMAIN data /\ to.user \notin DOMAIN d THEN d
      ELSE Put(d, to.user,
               Put(Bucket(d, to.user), to.conv,
                   Put(Bucket(Bucket(d, to.user), to.conv), s, snapshot)))

Stored(s, to, snapshot) ==
  LET d == Removed(s, to)
  IN  Put(d, to.user,
          Put(Bucket(d, to.user), to.conv,
              Put(Bucket(Bucket(d, to.user), to.conv), s, snapshot)))

-----------------------------------------------------------------------------
(* The runs. *)

Load(r) ==
  /\ pc[r] = "start"
  /\ pc' = [pc EXCEPT ![r] = "loaded"]
  /\ loaded' = [loaded EXCEPT ![r] = Lookup(session[r])]
  /\ UNCHANGED <<storeVars, session, scope, failed>>

\* What a run saves: the messages it loaded, then its own.  Save replaces the
\* snapshot of the session, whatever it has become since.
DeltaOnly(r)  == <<r>>                  \* mutant: what was loaded is not carried over
DeltaTwice(r) == loaded[r] \o <<r, r>>  \* mutant: the answer is added twice
Delta(r)      == Append(loaded[r], r)

Save(r) ==
  /\ pc[r] = "loaded"
  /\ pc' = [pc EXCEPT ![r] = "done"]
  /\ data' = Stored(session[r], scope[r], Delta(r))
  /\ sessions' = Put(sessions, session[r], scope[r])
  /\ UNCHANGED <<session, scope, loaded, failed>>

\* Mutant: the state of a run that failed is saved all the same.
AbandonSaves(r) ==
  /\ pc[r] = "loaded"
  /\ pc' = [pc EXCEPT ![r] = "done"]
  /\ failed' = failed \cup {r}
  /\ data' = Stored(session[r], scope[r], Delta(r))
  /\ sessions' = Put(sessions, session[r], scope[r])
  /\ UNCHANGED <<session, scope, loaded>>

\* The run fails or is canceled before Save, or either call finds its context
\* done: the store is not touched.
Abandon(r) ==
  /\ pc[r] # "done"
  /\ pc' = [pc EXCEPT ![r] = "done"]
  /\ failed' = failed \cup {r}
  /\ UNCHANGED <<storeVars, session, scope, loaded>>

Terminated == (\A r \in Runs : pc[r] = "done") /\ UNCHANGED vars

Next == (\E r \in Runs : Load(r) \/ Save(r) \/ Abandon(r)) \/ Terminated

Spec == Init /\ [][Next]_vars
-----------------------------------------------------------------------------
\* The scopes under which some snapshot of s is kept.
Homes(s) ==
  {at \in Scopes : /\ at.user \in DOMAIN data
                   /\ at.conv \in DOMAIN data[at.user]
                   /\ s \in DOMAIN data[at.user][at.conv]}

NoEmptyBucket(d) ==
  \A u \in DOMAIN d : d[u] # Empty /\ \A c \in DOMAIN d[u] : d[u][c] # Empty

\* The index and the data agree: a session is kept under the scope the index
\* names and nowhere else, even after it moved from scope to scope, and no
\* empty bucket is left behind.
IndexAgrees ==
  /\ TypeOK
  /\ \A s \in Sessions : Homes(s) = IF s \in DOMAIN sessions THEN {sessions[s]} ELSE {}
  /\ NoEmptyBucket(data)

\* Only a Save of its own session changes what a Load of a session returns: it
\* is lost neither when the session moves to another scope nor when others do.
SaveEndures ==
  [][\A s \in Sessions :
       Lookup(s)' # Lookup(s) =>
         \E r \in Runs : session[r] = s /\ Lookup(s)' = Append(loaded[r], r)]_storeVars

Persisted == {r \in Runs : pc[r] = "done"} \ failed

\* Runs in progress whose session was saved by another run after they loaded it.
Stale == {r \in Runs : pc[r] = "loaded" /\ loaded[r] # Lookup(session[r])}

Log == INSTANCE ConversationLog WITH
  persisted <- Persisted,
  log       <- [s \in Sessions |-> Lookup(s)],
  stale     <- Stale

\* 050-memory.md 3.2: a later Load reflects the session as if each successful
\* run had been persisted exactly once, when no other run overtook it.  Sessions
\* do not mix, and a run that failed leaves nothing behind.
KeepsLog == Log!Spec

=============================================================================
