------------------------- MODULE MemoryStoreProofs -------------------------
(***************************************************************************)
(* Proofs about MemoryStore, for any runs, sessions, users and             *)
(* conversations.                                                          *)
(***************************************************************************)
EXTENDS MemoryStore, SequenceTheorems, TLAPS

(***************************************************************************)
(* The nested maps, told by what is kept in them.                          *)
(***************************************************************************)
Kept(d, u, c, s) == u \in DOMAIN d /\ c \in DOMAIN d[u] /\ s \in DOMAIN d[u][c]

LEMMA PutFacts ==
  ASSUME NEW m, NEW k, NEW v
  PROVE  /\ DOMAIN Put(m, k, v) = DOMAIN m \cup {k}
         /\ Put(m, k, v)[k] = v
         /\ \A x \in DOMAIN m \ {k} : Put(m, k, v)[x] = m[x]
         /\ Put(m, k, v) # Empty
  BY DEF Put, Empty

LEMMA DropFacts ==
  ASSUME NEW m, NEW k
  PROVE  /\ DOMAIN Drop(m, k) = DOMAIN m \ {k}
         /\ \A x \in DOMAIN m \ {k} : Drop(m, k)[x] = m[x]
  BY DEF Drop, Restrict

LEMMA EmptyFacts == DOMAIN Empty = {}
  BY DEF Empty

\* e is d without the snapshot of s under at.
Without(e, d, at, s) ==
  \A u, c, t :
    /\ Kept(e, u, c, t) <=> Kept(d, u, c, t) /\ <<u, c, t>> # <<at.user, at.conv, s>>
    /\ Kept(e, u, c, t) => e[u][c][t] = d[u][c][t]

\* Delete takes one snapshot out, and leaves no empty bucket.
LEMMA DeleteFacts ==
  ASSUME NEW d, NEW at \in Scopes, NEW s, IsData(d), NoEmptyBucket(d)
  PROVE  /\ IsData(Delete(d, at, s)) /\ NoEmptyBucket(Delete(d, at, s))
         /\ Without(Delete(d, at, s), d, at, s)
  <1>1. CASE at.user \notin DOMAIN d \/ at.conv \notin DOMAIN Bucket(d, at.user)
    BY <1>1 DEF Delete, Kept, Bucket, Without
  <1>2. CASE at.user \in DOMAIN d /\ at.conv \in DOMAIN Bucket(d, at.user)
    <2> DEFINE slot  == Drop(d[at.user][at.conv], s)
               convs == IF slot = Empty THEN Drop(d[at.user], at.conv)
                                        ELSE Put(d[at.user], at.conv, slot)
               e     == IF convs = Empty THEN Drop(d, at.user) ELSE Put(d, at.user, convs)
    <2>1. at.conv \in DOMAIN d[at.user] BY <1>2 DEF Bucket
    <2>2. Delete(d, at, s) = e BY <1>2 DEF Delete
    <2>3. /\ DOMAIN slot = DOMAIN d[at.user][at.conv] \ {s}
          /\ \A t \in DOMAIN slot : slot[t] = d[at.user][at.conv][t]
      BY DropFacts
    <2> HIDE DEF slot
    <2>4. /\ DOMAIN convs = IF slot = Empty THEN DOMAIN d[at.user] \ {at.conv}
                                            ELSE DOMAIN d[at.user]
          /\ \A c \in DOMAIN convs : convs[c] = IF c = at.conv THEN slot ELSE d[at.user][c]
          /\ \A c \in DOMAIN convs : c = at.conv => slot # Empty
      BY <2>1 DEF Put, Drop, Restrict, Empty
    <2> HIDE DEF convs
    <2>5. /\ DOMAIN e = IF convs = Empty THEN DOMAIN d \ {at.user} ELSE DOMAIN d
          /\ \A u \in DOMAIN e : e[u] = IF u = at.user THEN convs ELSE d[u]
          /\ \A u \in DOMAIN e : u = at.user => convs # Empty
      BY <1>2 DEF Put, Drop, Restrict, Empty
    <2> HIDE DEF e
    <2>6. IsData(e)
      BY <1>2, <2>1, <2>3, <2>4, <2>5 DEF IsData
    <2>7. NoEmptyBucket(e)
      BY <1>2, <2>1, <2>4, <2>5 DEF NoEmptyBucket
    <2>8. ASSUME NEW u, NEW c, NEW t
          PROVE  /\ Kept(e, u, c, t) <=>
                      Kept(d, u, c, t) /\ ~(u = at.user /\ c = at.conv /\ t = s)
                 /\ Kept(e, u, c, t) => e[u][c][t] = d[u][c][t]
      <3>1. CASE u # at.user BY <1>2, <3>1, <2>5 DEF Kept
      <3>2. CASE u = at.user /\ c # at.conv
        <4>1. CASE convs = Empty
          BY <1>2, <3>2, <4>1, <2>4, <2>5, EmptyFacts DEF Kept
        <4>2. CASE convs # Empty
          BY <1>2, <3>2, <4>2, <2>4, <2>5 DEF Kept
        <4>3. QED BY <4>1, <4>2
      <3>3. CASE u = at.user /\ c = at.conv
        <4>1. CASE slot = Empty
          <5>1. ~Kept(e, u, c, t) BY <3>3, <4>1, <2>4, <2>5 DEF Kept
          <5>2. Kept(d, u, c, t) => t = s BY <3>3, <4>1, <2>3, EmptyFacts DEF Kept
          <5>3. QED BY <3>3, <5>1, <5>2
        <4>2. CASE slot # Empty
          <5>1. convs # Empty BY <4>2, <2>1, <2>4, EmptyFacts
          <5>2. QED BY <1>2, <3>3, <4>2, <5>1, <2>1, <2>3, <2>4, <2>5 DEF Kept
        <4>3. QED BY <4>1, <4>2
      <3>4. QED BY <3>1, <3>2, <3>3
    <2>9. QED BY <2>2, <2>6, <2>7, <2>8 DEF Without
  <1>3. QED BY <1>1, <1>2

\* Writing to a bucket adds one snapshot, or replaces it.
Written(d, to, s, snapshot) ==
  Put(d, to.user,
      Put(Bucket(d, to.user), to.conv,
          Put(Bucket(Bucket(d, to.user), to.conv), s, snapshot)))

LEMMA WrittenFacts ==
  ASSUME NEW d, NEW to \in Scopes, NEW s \in Sessions, NEW snapshot \in Snapshots,
         IsData(d), NoEmptyBucket(d)
  PROVE  LET e == Written(d, to, s, snapshot) IN
         /\ IsData(e) /\ NoEmptyBucket(e)
         /\ Kept(e, to.user, to.conv, s) /\ e[to.user][to.conv][s] = snapshot
         /\ \A u, c, t : <<u, c, t>> # <<to.user, to.conv, s>> =>
              /\ Kept(e, u, c, t) <=> Kept(d, u, c, t)
              /\ Kept(e, u, c, t) => e[u][c][t] = d[u][c][t]
  <1> DEFINE old  == Bucket(d, to.user)
             slot == Put(Bucket(old, to.conv), s, snapshot)
             convs == Put(old, to.conv, slot)
             e    == Put(d, to.user, convs)
  <1>1. to.user \in Users /\ to.conv \in Conversations BY DEF Scopes
  <1>2. /\ DOMAIN old = IF to.user \in DOMAIN d THEN DOMAIN d[to.user] ELSE {}
        /\ to.user \in DOMAIN d => old = d[to.user]
    BY EmptyFacts DEF Bucket
  <1> HIDE DEF old
  <1>3. /\ DOMAIN slot = (IF to.conv \in DOMAIN old THEN DOMAIN old[to.conv] ELSE {}) \cup {s}
        /\ slot[s] = snapshot /\ slot # Empty
        /\ \A t \in DOMAIN slot \ {s} : slot[t] = old[to.conv][t]
    BY EmptyFacts DEF Put, Empty, Bucket
  <1> HIDE DEF slot
  <1>4. /\ DOMAIN convs = DOMAIN old \cup {to.conv} /\ convs # Empty
        /\ convs[to.conv] = slot
        /\ \A c \in DOMAIN old \ {to.conv} : convs[c] = old[c]
    BY DEF Put, Empty
  <1> HIDE DEF convs
  <1>5. /\ DOMAIN e = DOMAIN d \cup {to.user}
        /\ e[to.user] = convs
        /\ \A u \in DOMAIN d \ {to.user} : e[u] = d[u]
    BY DEF Put, Empty
  <1> HIDE DEF e
  <1>6. Written(d, to, s, snapshot) = e BY DEF Written, e, convs, slot, old
  <1>7. \A t \in DOMAIN slot : t \in Sessions /\ slot[t] \in Snapshots
    BY <1>2, <1>3 DEF IsData
  <1>8. \A c \in DOMAIN convs : c \in Conversations /\ DOMAIN convs[c] \subseteq Sessions
          /\ \A t \in DOMAIN convs[c] : convs[c][t] \in Snapshots
    BY <1>1, <1>2, <1>4, <1>7 DEF IsData
  <1>9. IsData(e) BY <1>1, <1>5, <1>8 DEF IsData
  <1>10. NoEmptyBucket(e) BY <1>2, <1>3, <1>4, <1>5 DEF NoEmptyBucket
  <1>11. Kept(e, to.user, to.conv, s) /\ e[to.user][to.conv][s] = snapshot
    BY <1>3, <1>4, <1>5 DEF Kept
  <1>12. ASSUME NEW u, NEW c, NEW t, ~(u = to.user /\ c = to.conv /\ t = s)
         PROVE  /\ Kept(e, u, c, t) <=> Kept(d, u, c, t)
                /\ Kept(e, u, c, t) => e[u][c][t] = d[u][c][t]
    <2>1. CASE u # to.user BY <2>1, <1>5 DEF Kept
    <2>2. CASE u = to.user /\ c # to.conv
      BY <2>2, <1>2, <1>4, <1>5 DEF Kept
    <2>3. CASE u = to.user /\ c = to.conv /\ t # s
      BY <2>3, <1>2, <1>3, <1>4, <1>5 DEF Kept
    <2>4. QED BY <1>12, <2>1, <2>2, <2>3
  <1>13. QED BY <1>6, <1>9, <1>10, <1>11, <1>12

-----------------------------------------------------------------------------
(***************************************************************************)
(* The inductive invariant.  That the index and the data agree is kept by  *)
(* itself; that a snapshot names a run once needs that a run which has not *)
(* saved is in none of them.                                               *)
(***************************************************************************)
ControlInv ==
  /\ pc \in [Runs -> {"start", "loaded", "done"}]
  /\ session \in [Runs -> Sessions]
  /\ scope \in [Runs -> Scopes]
  /\ failed \subseteq Runs
  /\ \A r \in failed : pc[r] = "done"

StoreInv == IsIndex(sessions) /\ IsData(data) /\ NoEmptyBucket(data)

\* A snapshot of t is kept where the index says, and nowhere else.
KeptInv ==
  \A u, c, t : Kept(data, u, c, t) <=>
    t \in DOMAIN sessions /\ sessions[t].user = u /\ sessions[t].conv = c

Settled(snapshot) == \A i \in DOMAIN snapshot : snapshot[i] \in Persisted

LoadedInv ==
  /\ loaded \in [Runs -> Snapshots]
  /\ \A r \in Runs : Settled(loaded[r])

KeptSettled == \A u, c, t : Kept(data, u, c, t) => Settled(data[u][c][t])

IInv ==
  /\ ControlInv /\ StoreInv /\ KeptInv
  /\ LoadedInv /\ KeptSettled

\* What a Load returns, told by the index.
LEMMA LookupFacts ==
  ASSUME KeptInv, IsIndex(sessions), NEW t
  PROVE  Lookup(t) = IF t \in DOMAIN sessions
                     THEN data[sessions[t].user][sessions[t].conv][t] ELSE <<>>
  <1>1. CASE t \notin DOMAIN sessions BY <1>1 DEF Lookup
  <1>2. CASE t \in DOMAIN sessions
    <2>1. Kept(data, sessions[t].user, sessions[t].conv, t)
      BY <1>2 DEF KeptInv
    <2>2. QED BY <1>2, <2>1 DEF Lookup, Kept, Bucket
  <1>3. QED BY <1>1, <1>2

\* Saving s under the scope to moves s there, and touches nothing else.
LEMMA StoredFacts ==
  ASSUME StoreInv, KeptInv,
         NEW s \in Sessions, NEW to \in Scopes, NEW snapshot \in Snapshots
  PROVE  LET e == Stored(s, to, snapshot) IN
         /\ IsData(e) /\ NoEmptyBucket(e)
         /\ Kept(e, to.user, to.conv, s) /\ e[to.user][to.conv][s] = snapshot
         /\ \A u, c : Kept(e, u, c, s) => u = to.user /\ c = to.conv
         /\ \A u, c, t : t # s =>
              /\ Kept(e, u, c, t) <=> Kept(data, u, c, t)
              /\ Kept(e, u, c, t) => e[u][c][t] = data[u][c][t]
  <1> DEFINE d == Removed(s, to)
             e == Stored(s, to, snapshot)
  <1>1. e = Written(d, to, s, snapshot) BY DEF Stored, Written
  <1>2. /\ IsData(d) /\ NoEmptyBucket(d)
        /\ \A u, c : Kept(d, u, c, s) => u = to.user /\ c = to.conv
        /\ \A u, c, t : t # s =>
             /\ Kept(d, u, c, t) <=> Kept(data, u, c, t)
             /\ Kept(d, u, c, t) => d[u][c][t] = data[u][c][t]
    <2>1. CASE s \in DOMAIN sessions /\ sessions[s] # to
      <3> DEFINE at == sessions[s]
      <3>1. at \in Scopes BY <2>1 DEF StoreInv, IsIndex
      <3>2. d = Delete(data, at, s) BY <2>1 DEF Removed
      <3> HIDE DEF d, at
      <3>3. IsData(d) /\ NoEmptyBucket(d) /\ Without(d, data, at, s)
        <4>1. IsData(data) /\ NoEmptyBucket(data) BY DEF StoreInv
        <4>2. /\ IsData(Delete(data, at, s)) /\ NoEmptyBucket(Delete(data, at, s))
              /\ Without(Delete(data, at, s), data, at, s)
          BY <3>1, <4>1, DeleteFacts
        <4>3. QED BY <3>2, <4>2
      <3>4. \A u, c : ~Kept(d, u, c, s)
        BY <3>3 DEF KeptInv, Without, at
      <3>5. QED BY <3>3, <3>4 DEF Without
    <2>2. CASE ~(s \in DOMAIN sessions /\ sessions[s] # to)
      BY <2>2 DEF Removed, StoreInv, KeptInv
    <2>3. QED BY <2>1, <2>2
  <1> HIDE DEF d, e
  <1>3. /\ IsData(e) /\ NoEmptyBucket(e)
        /\ Kept(e, to.user, to.conv, s) /\ e[to.user][to.conv][s] = snapshot
        /\ \A u, c, t : <<u, c, t>> # <<to.user, to.conv, s>> =>
              /\ Kept(e, u, c, t) <=> Kept(d, u, c, t)
              /\ Kept(e, u, c, t) => e[u][c][t] = d[u][c][t]
    BY <1>1, <1>2, WrittenFacts
  <1>4. \A u, c : Kept(e, u, c, s) => u = to.user /\ c = to.conv
    BY <1>2, <1>3
  <1>5. \A u, c, t : t # s =>
          /\ Kept(e, u, c, t) <=> Kept(data, u, c, t)
          /\ Kept(e, u, c, t) => e[u][c][t] = data[u][c][t]
    BY <1>2, <1>3
  <1>6. QED BY <1>3, <1>4, <1>5 DEF e

-----------------------------------------------------------------------------
(* The steps. *)

LEMMA AppendFacts ==
  ASSUME NEW snapshot \in Snapshots, NEW r \in Runs,
         \A i \in DOMAIN snapshot : snapshot[i] # r
  PROVE  /\ Append(snapshot, r) \in Snapshots
         /\ \A i \in DOMAIN Append(snapshot, r) :
              Append(snapshot, r)[i] = r \/ \E j \in DOMAIN snapshot : Append(snapshot, r)[i] = snapshot[j]
         /\ Last(Append(snapshot, r)) = r
  <1>1. snapshot \in Seq(Runs) /\ IsInjective(snapshot) BY DEF Snapshots
  <1> DEFINE t == Append(snapshot, r)
  <1>2. /\ t \in Seq(Runs) /\ Len(t) = Len(snapshot) + 1
        /\ \A i \in 1 .. Len(snapshot) : t[i] = snapshot[i]
        /\ t[Len(snapshot) + 1] = r
    BY <1>1
  <1>3. DOMAIN snapshot = 1 .. Len(snapshot) /\ DOMAIN t = 1 .. (Len(snapshot) + 1)
        /\ Len(snapshot) \in Nat
    BY <1>1
  <1> HIDE DEF t
  <1>4. \A i \in DOMAIN t : i \in DOMAIN snapshot \/ i = Len(snapshot) + 1
    BY <1>3
  <1>5. IsInjective(t)
    BY <1>1, <1>2, <1>3, <1>4 DEF IsInjective
  <1>6. Last(t) = r BY <1>2 DEF Last
  <1>7. \A i \in DOMAIN t : t[i] = r \/ \E j \in DOMAIN snapshot : t[i] = snapshot[j]
    BY <1>2, <1>3, <1>4
  <1>8. t \in Snapshots BY <1>2, <1>5 DEF Snapshots
  <1>9. QED BY <1>6, <1>7, <1>8 DEF t

\* Who has persisted: only a Save adds to it.
LEMMA PersistedFacts ==
  ASSUME ControlInv, NEW r \in Runs
  PROVE  /\ Load(r) => Persisted' = Persisted
         /\ Abandon(r) => Persisted' = Persisted
         /\ Save(r) => r \notin Persisted /\ Persisted' = Persisted \cup {r}
  <1>1. Load(r) => Persisted' = Persisted BY DEF Load, ControlInv, Persisted
  <1>2. Abandon(r) => Persisted' = Persisted BY DEF Abandon, ControlInv, Persisted
  <1>3. Save(r) => r \notin Persisted /\ Persisted' = Persisted \cup {r}
    BY DEF Save, ControlInv, Persisted
  <1>4. QED BY <1>1, <1>2, <1>3

\* What a run saves names the runs it loaded and itself, each once.
LEMMA DeltaFacts ==
  ASSUME IInv, NEW r \in Runs, pc[r] # "done"
  PROVE  /\ Delta(r) \in Snapshots
         /\ \A i \in DOMAIN Delta(r) : Delta(r)[i] \in Persisted \cup {r}
         /\ Last(Delta(r)) = r
  <1>1. r \notin Persisted BY DEF Persisted
  <1>2. loaded[r] \in Snapshots /\ \A i \in DOMAIN loaded[r] : loaded[r][i] \in Persisted
    BY DEF IInv, LoadedInv, Settled
  <1>3. \A i \in DOMAIN loaded[r] : loaded[r][i] # r BY <1>1, <1>2
  <1>4. QED BY <1>2, <1>3, AppendFacts DEF Delta

\* After a Save of s the index and the data agree again.
LEMMA SaveFacts ==
  ASSUME IInv, NEW r \in Runs, Save(r)
  PROVE  /\ StoreInv' /\ KeptInv' /\ KeptSettled'
         /\ \A t : Lookup(t)' = IF t = session[r] THEN Delta(r) ELSE Lookup(t)
  <1> DEFINE s == session[r]
             to == scope[r]
             e == Stored(s, to, Delta(r))
  <1>1. /\ data' = e /\ sessions' = Put(sessions, s, to) /\ pc[r] # "done"
    BY DEF Save
  <1>2. s \in Sessions /\ to \in Scopes BY DEF IInv, ControlInv
  <1>3. StoreInv /\ KeptInv /\ IsIndex(sessions) BY DEF IInv, StoreInv
  <1>4. Delta(r) \in Snapshots BY <1>1, DeltaFacts
  <1>5. Persisted' = Persisted \cup {r} BY PersistedFacts DEF IInv
  <1>6. /\ DOMAIN sessions' = DOMAIN sessions \cup {s} /\ sessions'[s] = to
        /\ \A t \in DOMAIN sessions : t # s => sessions'[t] = sessions[t]
    BY <1>1 DEF Put
  <1> HIDE DEF e, s, to
  <1>7. /\ IsData(e) /\ NoEmptyBucket(e)
        /\ Kept(e, to.user, to.conv, s) /\ e[to.user][to.conv][s] = Delta(r)
        /\ \A u, c : Kept(e, u, c, s) => u = to.user /\ c = to.conv
        /\ \A u, c, t : t # s =>
              /\ Kept(e, u, c, t) <=> Kept(data, u, c, t)
              /\ Kept(e, u, c, t) => e[u][c][t] = data[u][c][t]
    BY <1>2, <1>3, <1>4, StoredFacts DEF e
  <1>8. IsIndex(sessions') BY <1>2, <1>3, <1>6 DEF IsIndex
  <1>9. StoreInv' BY <1>1, <1>7, <1>8 DEF StoreInv
  <1>10. KeptInv'
    <2> SUFFICES ASSUME NEW u, NEW c, NEW t
                 PROVE  Kept(e, u, c, t) <=>
                          t \in DOMAIN sessions' /\ sessions'[t].user = u /\ sessions'[t].conv = c
      BY <1>1 DEF KeptInv
    <2>1. CASE t = s BY <2>1, <1>6, <1>7
    <2>2. CASE t # s BY <2>2, <1>3, <1>6, <1>7 DEF KeptInv
    <2>3. QED BY <2>1, <2>2
  <1>11. KeptSettled'
    <2> SUFFICES ASSUME NEW u, NEW c, NEW t, Kept(e, u, c, t)
                 PROVE  \A i \in DOMAIN e[u][c][t] : e[u][c][t][i] \in Persisted'
      BY <1>1 DEF KeptSettled, Settled
    <2>1. CASE t = s BY <2>1, <1>1, <1>5, <1>7, DeltaFacts
    <2>2. CASE t # s
      BY <2>2, <1>5, <1>7 DEF IInv, KeptSettled, Settled
    <2>3. QED BY <2>1, <2>2
  <1>12. ASSUME NEW t
         PROVE  Lookup(t)' = IF t \in DOMAIN sessions'
                             THEN e[sessions'[t].user][sessions'[t].conv][t] ELSE <<>>
    <2>1. CASE t \notin DOMAIN sessions' BY <2>1 DEF Lookup
    <2>2. CASE t \in DOMAIN sessions'
      <3>1. Kept(e, sessions'[t].user, sessions'[t].conv, t)
        BY <1>1, <1>10, <2>2 DEF KeptInv
      <3>2. QED BY <1>1, <2>2, <3>1 DEF Lookup, Kept, Bucket
    <2>3. QED BY <2>1, <2>2
  <1>13. ASSUME NEW t, t = s PROVE Lookup(t)' = Delta(r)
    <2>1. t \in DOMAIN sessions' /\ sessions'[t] = to BY <1>6, <1>13
    <2>2. Lookup(t)' = e[to.user][to.conv][t] BY <2>1, <1>12
    <2>3. QED BY <2>2, <1>7, <1>13
  <1>14. ASSUME NEW t, t # s PROVE Lookup(t)' = Lookup(t)
    <2>1. CASE t \in DOMAIN sessions
      <3>1. Kept(data, sessions[t].user, sessions[t].conv, t) BY <2>1, <1>3 DEF KeptInv
      <3>2. QED BY <3>1, <2>1, <1>3, <1>6, <1>7, <1>12, <1>14, LookupFacts
    <2>2. CASE t \notin DOMAIN sessions
      BY <2>2, <1>3, <1>6, <1>12, <1>14, LookupFacts
    <2>3. QED BY <2>1, <2>2
  <1>15. QED BY <1>9, <1>10, <1>11, <1>13, <1>14 DEF s

LEMMA IInvInit == Init => IInv
  <1> SUFFICES ASSUME Init PROVE IInv OBVIOUS
  <1>1. ControlInv BY DEF Init, ControlInv
  <1>2. StoreInv /\ KeptInv /\ KeptSettled
    BY DEF Init, StoreInv, KeptInv, KeptSettled, Kept, IsIndex, IsData, NoEmptyBucket, Empty
  <1>3. LoadedInv
    <2>1. <<>> \in Snapshots BY DEF Snapshots, IsInjective
    <2>2. QED BY <2>1 DEF Init, LoadedInv, Settled
  <1>4. QED BY <1>1, <1>2, <1>3 DEF IInv

LEMMA LoadNext ==
  ASSUME IInv, NEW r \in Runs, Load(r)
  PROVE  IInv'
  <1>1. /\ pc' = [pc EXCEPT ![r] = "loaded"] /\ pc[r] = "start"
        /\ loaded' = [loaded EXCEPT ![r] = Lookup(session[r])]
        /\ data' = data /\ sessions' = sessions
        /\ session' = session /\ scope' = scope /\ failed' = failed
    BY DEF Load, storeVars
  <1>2. ControlInv' BY <1>1 DEF IInv, ControlInv
  <1>3. Persisted' = Persisted BY PersistedFacts DEF IInv
  <1>4. StoreInv' /\ KeptInv' /\ KeptSettled'
    BY <1>1, <1>3 DEF IInv, StoreInv, KeptInv, KeptSettled, Settled
  <1>5. Lookup(session[r]) \in Snapshots /\ Settled(Lookup(session[r]))
    <2> DEFINE s == session[r]
    <2>1. KeptInv /\ StoreInv /\ IsIndex(sessions) BY DEF IInv, StoreInv
    <2>2. CASE s \in DOMAIN sessions
      <3>1. Kept(data, sessions[s].user, sessions[s].conv, s) BY <2>1, <2>2 DEF KeptInv
      <3>2. Lookup(s) = data[sessions[s].user][sessions[s].conv][s]
        BY <2>1, <2>2, LookupFacts
      <3> HIDE DEF s
      <3>3. Lookup(s) \in Snapshots BY <2>1, <3>1, <3>2 DEF StoreInv, IsData, Kept
      <3>4. Settled(Lookup(s)) BY <3>1, <3>2 DEF IInv, KeptSettled
      <3>5. QED BY <3>3, <3>4 DEF s
    <2>3. CASE s \notin DOMAIN sessions
      <3>1. Lookup(s) = <<>> BY <2>1, <2>3, LookupFacts
      <3>2. <<>> \in Snapshots BY DEF Snapshots, IsInjective
      <3>3. QED BY <3>1, <3>2 DEF Settled
    <2>4. QED BY <2>2, <2>3
  <1>6. ASSUME NEW q \in Runs PROVE loaded'[q] = IF q = r THEN Lookup(session[r]) ELSE loaded[q]
    BY <1>1 DEF IInv, LoadedInv
  <1>7. loaded' \in [Runs -> Snapshots]
    BY <1>1, <1>5 DEF IInv, LoadedInv
  <1>8. LoadedInv'
    BY <1>3, <1>5, <1>6, <1>7 DEF IInv, LoadedInv, Settled
  <1>9. QED BY <1>2, <1>4, <1>8 DEF IInv

LEMMA AbandonNext ==
  ASSUME IInv, NEW r \in Runs, Abandon(r)
  PROVE  IInv'
  <1>1. /\ data' = data /\ sessions' = sessions /\ loaded' = loaded
    BY DEF Abandon, storeVars
  <1>2. ControlInv' BY DEF Abandon, IInv, ControlInv
  <1>3. Persisted' = Persisted BY PersistedFacts DEF IInv
  <1>4. QED
    BY <1>1, <1>2, <1>3
    DEF IInv, StoreInv, KeptInv, KeptSettled, Settled, LoadedInv

LEMMA SaveNext ==
  ASSUME IInv, NEW r \in Runs, Save(r)
  PROVE  IInv'
  <1>1. ControlInv' BY DEF Save, IInv, ControlInv
  <1>2. Persisted' = Persisted \cup {r} BY PersistedFacts DEF IInv
  <1>3. loaded' = loaded BY DEF Save
  <1>4. LoadedInv'
    BY <1>2, <1>3 DEF IInv, LoadedInv, Settled
  <1>5. QED BY <1>1, <1>4, SaveFacts DEF IInv

LEMMA IInvNext == IInv /\ [Next]_vars => IInv'
  <1> SUFFICES ASSUME IInv, [Next]_vars PROVE IInv' OBVIOUS
  <1>1. ASSUME NEW r \in Runs, Load(r) \/ Save(r) \/ Abandon(r) PROVE IInv'
    BY <1>1, LoadNext, SaveNext, AbandonNext
  <1>2. CASE UNCHANGED vars
    BY <1>2
    DEF vars, storeVars, runVars, IInv, ControlInv, StoreInv, KeptInv, KeptSettled,
        Settled, Persisted, LoadedInv
  <1>3. QED BY <1>1, <1>2 DEF Next, Terminated

LEMMA Invariance == Spec => []IInv
  <1>1. QED BY IInvInit, IInvNext, PTL DEF Spec

-----------------------------------------------------------------------------
(* The theorems. *)

\* IndexAgrees: whatever the runs and the scopes they name, the index and the
\* nested maps of in_memory_store.go agree, and no empty map is left behind.
THEOREM IndexAgreement == Spec => []IndexAgrees
  <1>1. IInv => TypeOK
    BY DEF IInv, TypeOK, ControlInv, StoreInv, LoadedInv
  <1>2. IInv => \A s \in Sessions :
                  Homes(s) = IF s \in DOMAIN sessions THEN {sessions[s]} ELSE {}
    <2> SUFFICES ASSUME IInv, NEW s \in Sessions
                 PROVE  Homes(s) = IF s \in DOMAIN sessions THEN {sessions[s]} ELSE {}
      OBVIOUS
    <2>1. \A at \in Scopes : at \in Homes(s) <=>
            s \in DOMAIN sessions /\ sessions[s].user = at.user /\ sessions[s].conv = at.conv
      BY DEF IInv, KeptInv, Kept, Homes
    <2>2. Homes(s) \subseteq Scopes BY DEF Homes
    <2>3. CASE s \in DOMAIN sessions
      <3>1. sessions[s] \in Scopes BY <2>3 DEF IInv, StoreInv, IsIndex
      <3>2. \A at \in Scopes : at.user = sessions[s].user /\ at.conv = sessions[s].conv
              <=> at = sessions[s]
        BY <3>1 DEF Scopes
      <3>3. QED BY <2>1, <2>2, <2>3, <3>1, <3>2
    <2>4. CASE s \notin DOMAIN sessions BY <2>1, <2>2, <2>4
    <2>5. QED BY <2>3, <2>4
  <1>3. IInv => NoEmptyBucket(data) BY DEF IInv, StoreInv
  <1>4. IInv => IndexAgrees BY <1>1, <1>2, <1>3 DEF IndexAgrees
  <1>5. QED BY <1>4, Invariance, PTL

\* What any step does to the store.
LEMMA StoreStep ==
  ASSUME IInv, [Next]_vars
  PROVE  \/ UNCHANGED storeVars
         \/ \E r \in Runs : Save(r)
  BY DEF Next, Terminated, Load, Abandon, vars

\* SaveEndures: only a Save of its own session changes what a Load returns,
\* even while sessions move from one scope to another.
THEOREM SavesEndure == Spec => SaveEndures
  <1> DEFINE Step == \A s \in Sessions :
       Lookup(s)' # Lookup(s) =>
         \E r \in Runs : session[r] = s /\ Lookup(s)' = Append(loaded[r], r)
  <1>1. IInv /\ [Next]_vars => [Step]_storeVars
    <2> SUFFICES ASSUME IInv, [Next]_vars, ~UNCHANGED storeVars PROVE Step OBVIOUS
    <2>1. PICK r \in Runs : Save(r) BY StoreStep
    <2>2. QED BY <2>1, SaveFacts DEF Delta
  <1>2. QED BY <1>1, Invariance, PTL DEF Spec, SaveEndures

\* KeepsLog: for any number of runs, the store implements ConversationLog.
THEOREM KeepsConversations == Spec => KeepsLog
  <1>1. Init => Log!Init
    <2> SUFFICES ASSUME Init PROVE Log!Init OBVIOUS
    <2>1. Persisted = {} /\ Stale = {} BY DEF Init, Persisted, Stale
    <2>2. \A s \in Sessions : Lookup(s) = <<>> BY DEF Init, Lookup, Empty
    <2>3. QED BY <2>1, <2>2 DEF Log!Init
  <1>2. IInv /\ [Next]_vars => [Log!Next]_Log!vars
    <2> SUFFICES ASSUME IInv, [Next]_vars PROVE [Log!Next]_Log!vars OBVIOUS
    <2>1. CASE UNCHANGED vars
      BY <2>1 DEF vars, storeVars, runVars, Log!vars, Persisted, Lookup
    <2>2. ASSUME NEW r \in Runs, Load(r) \/ Abandon(r) PROVE UNCHANGED Log!vars
      <3>1. Persisted' = Persisted BY <2>2, PersistedFacts DEF IInv
      <3>2. data' = data /\ sessions' = sessions BY <2>2 DEF Load, Abandon, storeVars
      <3>3. QED BY <3>1, <3>2 DEF Log!vars, Lookup
    <2>3. ASSUME NEW r \in Runs, Save(r) PROVE Log!Next
      <3> DEFINE s == session[r]
                 log == [t \in Sessions |-> Lookup(t)]
      <3>1. pc[r] = "loaded" /\ s \in Sessions BY <2>3 DEF Save, IInv, ControlInv
      <3>2. r \notin Persisted /\ Persisted' = Persisted \cup {r}
        BY <2>3, PersistedFacts DEF IInv
      <3>3. \A t : Lookup(t)' = IF t = s THEN Delta(r) ELSE Lookup(t) BY <2>3, SaveFacts
      <3>4. log'[s] = Delta(r) /\ \A t \in Sessions \ {s} : log'[t] = log[t]
        BY <3>1, <3>3
      <3>5. Log!Record(r, s) BY <3>2, <3>4 DEF Log!Record
      <3>6. CASE r \in Stale
        <4>1. /\ Delta(r) \in Snapshots
              /\ \A i \in DOMAIN Delta(r) : Delta(r)[i] \in Persisted \cup {r}
              /\ Last(Delta(r)) = r
          BY <3>1, DeltaFacts
        <4>2. IsInjective(Delta(r)) BY <4>1 DEF Snapshots
        <4>3. Range(Delta(r)) \subseteq Persisted' BY <3>2, <4>1 DEF Range
        <4>4. Log!Overwrite(r, s)
          BY <3>4, <3>5, <3>6, <4>1, <4>2, <4>3
          DEF Log!Overwrite, Log!IsInjective, IsInjective, Log!Range, Range, Log!Last, Last
        <4>5. QED BY <3>1, <4>4 DEF Log!Next
      <3>7. CASE r \notin Stale
        <4>1. loaded[r] = log[s] BY <3>1, <3>7 DEF Stale
        <4>2. Log!Persist(r, s) BY <3>4, <3>5, <3>7, <4>1 DEF Log!Persist, Delta
        <4>3. QED BY <3>1, <4>2 DEF Log!Next
      <3>8. QED BY <3>6, <3>7
    <2>4. QED BY <2>1, <2>2, <2>3 DEF Next, Terminated
  <1>3. QED BY <1>1, <1>2, Invariance, PTL DEF Spec, KeepsLog, Log!Spec
=============================================================================
