----------------------------- MODULE ToolProofs -----------------------------
(***************************************************************************)
(* Proofs about tools: their registration (ToolRegistry), for any          *)
(* goroutines, names, toolkits and batches, what the validation of values  *)
(* computes (ToolSchema), for schemas and values of any nesting, and the   *)
(* way of a tool call (ToolCall), for any agent and request.               *)
(***************************************************************************)
EXTENDS ToolRegistry, ToolCall, FiniteSetTheorems, SequenceTheorems, TLAPS

Candidates == Standalone \cup Toolkit

LEMMA BatchIsSequence == \A b \in Batches : b \in Seq(Candidates)
  <1> SUFFICES ASSUME NEW n \in 0..MaxBatch,
                      NEW b \in [1..n -> Standalone] \cup [1..n -> Toolkit]
               PROVE  b \in Seq(Candidates)
    BY DEF Batches
  <1>1. n \in Nat BY BatchAssumption
  <1>2. b \in [1..n -> Candidates] BY DEF Candidates
  <1>3. QED BY <1>1, <1>2, SeqDef

\* The candidate a call checks next is one of its arguments.
LEMMA CandidateType ==
  ASSUME TypeOK, NEW p \in Procs, pos[p] <= Len(batch[p])
  PROVE  Candidate(p) \in Candidates
  <1>1. batch[p] \in Seq(Candidates) BY BatchIsSequence DEF TypeOK
  <1>2. pos[p] \in 1..Len(batch[p]) BY <1>1 DEF TypeOK
  <1>3. QED BY <1>1, <1>2, ElementOfSeq DEF Candidate

LEMMA CandidateShape ==
  ASSUME NEW c \in Candidates
  PROVE  /\ c.names \subseteq Names /\ c.origin \in Kits \cup {NoKit}
         /\ c.kit => c.origin \in Kits
  BY DEF Candidates, Standalone, Toolkit

-----------------------------------------------------------------------------
LEMMA TypeInit == Init => TypeOK
  <1> SUFFICES ASSUME Init PROVE TypeOK OBVIOUS
  <1>1. \A p \in Procs : Len(batch[p]) \in Nat
    BY BatchIsSequence, LenProperties DEF Init
  <1>2. QED BY <1>1 DEF Init, TypeOK, IsToolMap, IsKitMap, Empty

LEMMA TypeAccept == ASSUME TypeOK, NEW p \in Procs, Accept(p) PROVE TypeOK'
  <1> DEFINE c == Candidate(p)
  <1>1. c.names \subseteq Names /\ c.origin \in Kits \cup {NoKit}
        /\ (c.kit => c.origin \in Kits)
    BY CandidateType, CandidateShape DEF Accept
  <1>2. IsToolMap(AddTools(nextTools[p], c, p))
    <2> HIDE DEF c
    <2>1. QED BY <1>1 DEF TypeOK, IsToolMap, AddTools, Entry
  <1>3. IsKitMap(AddKit(nextToolkits[p], c))
    <2> HIDE DEF c
    <2>1. QED BY <1>1 DEF TypeOK, IsKitMap, AddKit
  <1>4. /\ nextTools' = [nextTools EXCEPT ![p] = AddTools(@, c, p)]
        /\ nextToolkits' = [nextToolkits EXCEPT ![p] = AddKit(@, c)]
        /\ pos' = [pos EXCEPT ![p] = @ + 1] /\ pos[p] <= Len(batch[p])
        /\ UNCHANGED <<mapVars, holder, batch, pc, result>>
    BY DEF Accept
  <1> HIDE DEF c
  <1>5. \A q \in Procs : IsToolMap(nextTools'[q]) /\ IsKitMap(nextToolkits'[q])
    BY <1>2, <1>3, <1>4 DEF TypeOK
  <1>6. \A q \in Procs : Len(batch[q]) \in Nat
    BY BatchIsSequence, LenProperties DEF TypeOK
  <1>7. pos' \in [Procs -> Nat] /\ \A q \in Procs : pos'[q] \in 1..(Len(batch'[q]) + 1)
    BY <1>4, <1>6 DEF TypeOK
  <1>8. DOMAIN nextTools' = Procs /\ DOMAIN nextToolkits' = Procs
    BY <1>4 DEF TypeOK
  <1>9. QED
    BY <1>4, <1>5, <1>7, <1>8 DEF TypeOK, mapVars, IsToolMap, IsKitMap

LEMMA TypeNext == ASSUME TypeOK, [Next]_vars PROVE TypeOK'
  <1>1. ASSUME NEW p \in Procs, Begin(p) PROVE TypeOK'
    BY <1>1 DEF Begin, TypeOK, mapVars, IsToolMap, IsKitMap
  <1>2. ASSUME NEW p \in Procs, Accept(p) PROVE TypeOK'
    BY <1>2, TypeAccept
  <1>3. ASSUME NEW p \in Procs, Reject(p) PROVE TypeOK'
    BY <1>3 DEF Reject, TypeOK, mapVars, IsToolMap, IsKitMap
  <1>4. ASSUME NEW p \in Procs, Commit(p) PROVE TypeOK'
    BY <1>4 DEF Commit, TypeOK, IsToolMap, IsKitMap
  <1>5. CASE UNCHANGED vars BY <1>5 DEF vars, mapVars, TypeOK, IsToolMap, IsKitMap
  <1>6. QED BY <1>1, <1>2, <1>3, <1>4, <1>5 DEF Next, Terminated

\* The maps of the registry, and the copies every call works on, keep their
\* shape; no call looks past its last candidate.
THEOREM TypeCorrect == Spec => []TypeOK
  BY TypeInit, TypeNext, PTL DEF Spec

-----------------------------------------------------------------------------
(***************************************************************************)
(* The three properties hold because a call works under the lock on a copy *)
(* that extends the registry: nothing else changes the registry meanwhile, *)
(* and what the copy adds belongs to the call.                             *)
(***************************************************************************)
LockInv == \A p \in Procs : pc[p] = "check" <=> holder = p

\* Who has not ended has no result, and only a call in progress may have a copy
\* worth anything.
ResultInv == \A p \in Procs : result[p] = "none" <=> pc[p] # "done"

Extends(p) ==
  \A n \in DOMAIN tools : n \in DOMAIN nextTools[p] /\ nextTools[p][n] = tools[n]

AddsOwn(p) ==
  \A n \in DOMAIN nextTools[p] \ DOMAIN tools : nextTools[p][n].by = p

HasAccepted(p) ==
  \A i \in 1..(pos[p] - 1) : \A n \in batch[p][i].names :
    n \in DOMAIN nextTools[p] \ DOMAIN tools

KitsInCopy(p) ==
  \A k \in DOMAIN nextToolkits[p] : \A n \in nextToolkits[p][k] :
    n \in DOMAIN nextTools[p] /\ nextTools[p][n].origin = k

CopyInv ==
  \A p \in Procs : pc[p] = "check" =>
    Extends(p) /\ AddsOwn(p) /\ HasAccepted(p) /\ KitsInCopy(p)

\* A call that has not begun has checked nothing.
FreshInv == \A p \in Procs : pc[p] = "call" => pos[p] = 1

RegistryInv ==
  LockInv /\ ResultInv /\ FreshInv /\ CopyInv /\ BatchesWhole /\ KitsComplete

LEMMA RegistryInit == Init => RegistryInv
  BY FreeAssumption
     DEF Init, RegistryInv, LockInv, ResultInv, FreshInv, CopyInv, BatchesWhole,
         KitsComplete, Empty

LEMMA BeginKeeps ==
  ASSUME TypeOK, RegistryInv, NEW p \in Procs, Begin(p) PROVE RegistryInv'
  <1> USE DEF RegistryInv, TypeOK, Begin, LockFree, mapVars
  <1>1. LockInv'   BY FreeAssumption DEF LockInv
  <1>2. ResultInv' BY DEF ResultInv
  <1>3. FreshInv'  BY DEF FreshInv
  <1>4. CopyInv'
    <2> SUFFICES ASSUME NEW q \in Procs, pc'[q] = "check"
                 PROVE  (Extends(q) /\ AddsOwn(q) /\ HasAccepted(q) /\ KitsInCopy(q))'
      BY DEF CopyInv
    <2>1. q = p BY <1>1 DEF LockInv
    <2>2. nextTools'[p] = tools /\ nextToolkits'[p] = toolkits /\ pos'[p] = 1
      BY DEF FreshInv
    <2>3. Extends(p)' /\ AddsOwn(p)' BY <2>2 DEF Extends, AddsOwn
    <2>4. HasAccepted(p)' BY <2>2 DEF HasAccepted
    <2>5. KitsInCopy(p)'  BY <2>2 DEF KitsInCopy, KitsComplete
    <2>6. QED BY <2>1, <2>3, <2>4, <2>5
  <1>5. BatchesWhole' BY DEF BatchesWhole, Offered
  <1>6. KitsComplete' BY DEF KitsComplete
  <1>7. QED BY <1>1, <1>2, <1>3, <1>4, <1>5, <1>6

LEMMA AcceptKeeps ==
  ASSUME TypeOK, RegistryInv, NEW p \in Procs, Accept(p) PROVE RegistryInv'
  <1> DEFINE c == Candidate(p)
  <1>1. /\ nextTools'[p] = AddTools(nextTools[p], c, p)
        /\ nextToolkits'[p] = AddKit(nextToolkits[p], c)
        /\ pos' = [pos EXCEPT ![p] = @ + 1]
        /\ c = batch[p][pos[p]]
        /\ UNCHANGED <<tools, toolkits, holder, batch, pc, result>>
        /\ pc[p] = "check"
    BY DEF Accept, TypeOK, Candidate, mapVars
  <1>2. /\ c.names \cap DOMAIN nextTools[p] = {}
        /\ c.kit => c.origin \notin DOMAIN nextToolkits[p]
    BY DEF Accept, Conflicts
  <1> HIDE DEF c
  <1>3. Extends(p) /\ AddsOwn(p) /\ HasAccepted(p) /\ KitsInCopy(p)
    BY <1>1 DEF RegistryInv, CopyInv
  <1>4. LockInv' /\ ResultInv'
    BY <1>1 DEF RegistryInv, LockInv, ResultInv
  <1>5. FreshInv' BY <1>1 DEF RegistryInv, FreshInv, TypeOK
  <1>6. Extends(p)' BY <1>1, <1>2, <1>3 DEF Extends, AddTools
  <1>7. AddsOwn(p)' BY <1>1, <1>2, <1>3 DEF AddsOwn, AddTools
  <1>8. HasAccepted(p)'
    <2> SUFFICES ASSUME NEW i \in 1..(pos'[p] - 1), NEW n \in batch[p][i].names
                 PROVE  n \in DOMAIN nextTools'[p] \ DOMAIN tools
      BY <1>1 DEF HasAccepted
    <2>1. i = pos[p] \/ i \in 1..(pos[p] - 1) BY <1>1 DEF TypeOK
    <2>2. CASE i = pos[p] BY <1>1, <1>2, <1>3, <2>2 DEF Extends, AddTools
    <2>3. CASE i \in 1..(pos[p] - 1) BY <1>1, <1>3, <2>3 DEF HasAccepted, AddTools
    <2>4. QED BY <2>1, <2>2, <2>3
  <1>9. KitsInCopy(p)' BY <1>1, <1>2, <1>3 DEF KitsInCopy, AddTools, AddKit
  <1>10. CopyInv'
    <2>1. \A q \in Procs : pc'[q] = "check" => q = p
      BY <1>1 DEF RegistryInv, LockInv
    <2>2. QED BY <1>6, <1>7, <1>8, <1>9, <2>1 DEF CopyInv
  <1>11. BatchesWhole' BY <1>1 DEF RegistryInv, BatchesWhole, Offered
  <1>12. KitsComplete' BY <1>1 DEF RegistryInv, KitsComplete
  <1>13. QED BY <1>4, <1>5, <1>10, <1>11, <1>12 DEF RegistryInv

LEMMA RejectKeepsInv ==
  ASSUME TypeOK, RegistryInv, NEW p \in Procs, Reject(p) PROVE RegistryInv'
  <1> USE DEF RegistryInv, TypeOK, Reject, mapVars
  <1>1. LockInv'   BY FreeAssumption DEF LockInv
  <1>2. ResultInv' BY DEF ResultInv
  <1>3. FreshInv'  BY DEF FreshInv
  <1>4. CopyInv'
    BY FreeAssumption DEF CopyInv, LockInv, Extends, AddsOwn, HasAccepted, KitsInCopy
  <1>5. BatchesWhole' BY DEF BatchesWhole, Offered, ResultInv
  <1>6. KitsComplete' BY DEF KitsComplete
  <1>7. QED BY <1>1, <1>2, <1>3, <1>4, <1>5, <1>6

LEMMA CommitKeeps ==
  ASSUME TypeOK, RegistryInv, NEW p \in Procs, Commit(p) PROVE RegistryInv'
  <1>1. /\ tools' = nextTools[p] /\ toolkits' = nextToolkits[p]
        /\ pc[p] = "check" /\ pos[p] > Len(batch[p])
        /\ pc' = [pc EXCEPT ![p] = "done"] /\ result' = [result EXCEPT ![p] = "ok"]
        /\ holder' = Free
        /\ UNCHANGED <<batch, pos, nextTools, nextToolkits>>
    BY DEF Commit
  <1>2. Extends(p) /\ AddsOwn(p) /\ HasAccepted(p) /\ KitsInCopy(p)
    BY <1>1 DEF RegistryInv, CopyInv
  <1>3. LockInv' /\ \A q \in Procs : pc'[q] # "check"
    BY <1>1, FreeAssumption DEF RegistryInv, TypeOK, LockInv
  <1>4. ResultInv' BY <1>1 DEF RegistryInv, TypeOK, ResultInv
  <1>5. FreshInv'  BY <1>1 DEF RegistryInv, TypeOK, FreshInv
  <1>6. CopyInv'   BY <1>3 DEF CopyInv
  <1>7. KitsComplete' BY <1>1, <1>2 DEF KitsInCopy, KitsComplete
  <1>8. \A n \in DOMAIN tools' : result'[tools'[n].by] = "ok"
    <2> SUFFICES ASSUME NEW n \in DOMAIN nextTools[p]
                 PROVE  result'[nextTools[p][n].by] = "ok"
      BY <1>1
    <2>1. CASE n \in DOMAIN tools
      <3>1. nextTools[p][n] = tools[n] /\ result[tools[n].by] = "ok"
        BY <1>2, <2>1 DEF Extends, RegistryInv, BatchesWhole
      <3>2. tools[n].by \in Procs BY <2>1 DEF TypeOK, IsToolMap, Entry
      <3>3. QED BY <1>1, <3>1, <3>2 DEF TypeOK
    <2>2. CASE n \notin DOMAIN tools
      BY <1>1, <1>2, <2>2 DEF AddsOwn, TypeOK
    <2>3. QED BY <2>1, <2>2
  <1>9. ASSUME NEW q \in Procs, result'[q] = "ok", NEW n \in Offered(q)
        PROVE  n \in DOMAIN nextTools[p] /\ nextTools[p][n].by = q
    <2>1. CASE q = p
      <3>1. PICK i \in 1..Len(batch[p]) : n \in batch[p][i].names
        BY <1>9, <2>1 DEF Offered
      <3>2. Len(batch[p]) \in Nat BY BatchIsSequence, LenProperties DEF TypeOK
      <3>3. i \in 1..(pos[p] - 1) BY <1>1, <3>2 DEF TypeOK
      <3>4. QED BY <1>2, <2>1, <3>1, <3>3 DEF HasAccepted, AddsOwn
    <2>2. CASE q # p
      <3>1. result[q] = "ok" BY <1>1, <1>9, <2>2 DEF TypeOK
      <3>2. n \in DOMAIN tools /\ tools[n].by = q
        BY <3>1 DEF RegistryInv, BatchesWhole
      <3>3. QED BY <1>2, <3>2 DEF Extends
    <2>3. QED BY <2>1, <2>2
  <1>10. BatchesWhole'
    BY <1>1, <1>8, <1>9 DEF BatchesWhole, Offered
  <1>11. QED BY <1>3, <1>4, <1>5, <1>6, <1>7, <1>10 DEF RegistryInv

LEMMA RegistryNext == ASSUME TypeOK, RegistryInv, [Next]_vars PROVE RegistryInv'
  <1>1. CASE UNCHANGED vars
    BY <1>1
       DEF vars, mapVars, RegistryInv, LockInv, ResultInv, FreshInv, CopyInv, Extends,
                AddsOwn, HasAccepted, KitsInCopy, BatchesWhole, KitsComplete, Offered
  <1>2. QED
    BY <1>1, BeginKeeps, AcceptKeeps, RejectKeepsInv, CommitKeeps DEF Next, Terminated

LEMMA Invariance == Spec => [](TypeOK /\ RegistryInv)
  BY TypeInit, TypeNext, RegistryInit, RegistryNext, PTL DEF Spec

\* However registrations race, each takes effect as a whole or not at all, and
\* a toolkit that is listed has all its tools.
THEOREM RegistrationAtomic == Spec => []AllOrNothing
  <1>1. RegistryInv => AllOrNothing BY DEF RegistryInv, AllOrNothing
  <1>2. QED BY <1>1, Invariance, PTL

\* A name that resolves goes on resolving, to the same tool.
THEOREM NamesNeverRebound == Spec => NeverRebound
  <1> DEFINE Same == \A n \in DOMAIN tools : n \in DOMAIN tools' /\ tools'[n] = tools[n]
  <1>1. TypeOK /\ RegistryInv /\ [Next]_vars => [Same]_tools
    <2> SUFFICES ASSUME RegistryInv, [Next]_vars, tools' # tools PROVE Same
      OBVIOUS
    <2>1. PICK p \in Procs : Commit(p)
      BY DEF Next, vars, mapVars, Begin, Accept, Reject, Terminated
    <2>2. QED BY <2>1 DEF Commit, RegistryInv, CopyInv, Extends
  <1>2. QED BY <1>1, Invariance, PTL DEF Spec, NeverRebound

-----------------------------------------------------------------------------
(***************************************************************************)
(* The validation of values.  Induction over the nesting: the library's    *)
(* theorems of induction have an operator for a parameter, which the       *)
(* provers here do not instantiate; that every non-empty set of numbers    *)
(* has a least one is about sets, and follows from the order of the finite *)
(* sets by inclusion.                                                      *)
(***************************************************************************)
Upto(k) == 0..(k - 1)

LEMMA LeastNatural ==
  ASSUME NEW T \in SUBSET Nat, T # {}
  PROVE  \E m \in T : \A k \in T : m <= k
  <1> DEFINE I == {Upto(k) : k \in T}
             Less == StrictSubsetOrdering(Nat)
  <1>1. I \subseteq FiniteSubsetsOf(Nat) /\ I # {}
    <2>1. \A k \in T : IsFiniteSet(Upto(k)) BY FS_Interval DEF Upto
    <2>2. \A k \in T : Upto(k) \subseteq Nat BY DEF Upto
    <2>3. QED BY <2>1, <2>2 DEF FiniteSubsetsOf
  <1>2. \E x \in I : \A y \in I : ~ (<<y, x>> \in Less)
    <2> HIDE DEF I
    <2>1. QED BY <1>1, FS_StrictSubsetOrderingWellFounded, WFMin
  <1>3. PICK m \in T : \A k \in T : ~ (<<Upto(k), Upto(m)>> \in Less) BY <1>2
  <1>4. ASSUME NEW k \in T, k < m PROVE FALSE
    <2>1. Upto(k) \in SUBSET Nat /\ Upto(m) \in SUBSET Nat BY DEF Upto
    <2>2. ~(Upto(k) \subseteq Upto(m) /\ Upto(k) # Upto(m))
      BY <1>3, <2>1 DEF StrictSubsetOrdering
    <2>3. k \in Upto(m) /\ k \notin Upto(k) /\ Upto(k) \subseteq Upto(m)
      BY <1>4 DEF Upto
    <2>4. QED BY <2>2, <2>3
  <1>5. QED BY <1>4

\* What holds of each nesting if it holds of the one below holds of all.
LEMMA LevelInduction ==
  ASSUME NEW Good, \A n \in 0..Depth : (n = 0 \/ n - 1 \in Good) => n \in Good
  PROVE  \A n \in 0..Depth : n \in Good
  <1> DEFINE Bad == {n \in 0..Depth : n \notin Good}
  <1>1. SUFFICES ASSUME Bad # {} PROVE FALSE OBVIOUS
  <1>2. Bad \in SUBSET Nat BY BoundAssumption
  <1>3. PICK m \in Bad : \A k \in Bad : m <= k
    <2> HIDE DEF Bad
    <2>1. QED BY <1>1, <1>2, LeastNatural
  <1>4. m # 0 /\ m - 1 \in 0..Depth BY <1>3, BoundAssumption
  <1>5. m - 1 \notin Bad BY <1>3, <1>4, BoundAssumption
  <1>6. QED BY <1>3, <1>4, <1>5

-----------------------------------------------------------------------------
(* What values and schemas are made of. *)

LEMMA ScalarShape ==
  ASSUME NEW v \in Values, v.type \notin {"array", "object"}
  PROVE  \/ v.type \in ScalarTypes /\ v = Scalar(v.type)
         \/ v.type = "text" /\ v = Text(v.text) /\ v.text \in Texts
  BY ValueAssumption

LEMMA ArrayShape ==
  ASSUME NEW v \in Values, v.type = "array", NEW n \in 0..Depth, Nesting(v) <= n
  PROVE  /\ v = Array(v.items) /\ v.items \in Seq(Values) /\ Len(v.items) <= MaxItems
         /\ DOMAIN v.items = 1..Len(v.items)
         /\ n > 0 /\ n - 1 \in 0..Depth
         /\ \A i \in DOMAIN v.items :
              v.items[i] \in Values /\ Nesting(v.items[i]) <= n - 1
  <1>1. /\ v = Array(v.items) /\ Nesting(v) > 0
        /\ v.items \in Seq(Inner(Values, v)) /\ Len(v.items) <= MaxItems
    BY ValueAssumption DEF ScalarTypes
  <1>2. DOMAIN v.items = 1..Len(v.items) BY <1>1, LenProperties
  <1>3. \A i \in DOMAIN v.items : v.items[i] \in Inner(Values, v)
    BY <1>1, <1>2, ElementOfSeq
  <1>4. v.items \in Seq(Values) BY <1>1, SeqMonotonic DEF Inner
  <1>5. \A y \in Values : Nesting(y) \in Nat BY ValueAssumption, BoundAssumption
  <1>6. n > 0 /\ n - 1 \in 0..Depth BY <1>1, <1>5, BoundAssumption
  <1>7. ASSUME NEW i \in DOMAIN v.items
        PROVE  v.items[i] \in Values /\ Nesting(v.items[i]) <= n - 1
    BY <1>3, <1>5, BoundAssumption DEF Inner
  <1>8. QED BY <1>1, <1>2, <1>4, <1>6, <1>7

LEMMA ObjectShape ==
  ASSUME NEW v \in Values, v.type = "object", NEW n \in 0..Depth, Nesting(v) <= n
  PROVE  /\ v = Object(v.fields) /\ v.fields = [k \in DOMAIN v.fields |-> v.fields[k]]
         /\ DOMAIN v.fields \subseteq Fields
         /\ n > 0 /\ n - 1 \in 0..Depth
         /\ \A k \in DOMAIN v.fields :
              v.fields[k] \in Values /\ Nesting(v.fields[k]) <= n - 1
  <1>1. /\ v = Object(v.fields) /\ Nesting(v) > 0
        /\ v.fields \in [DOMAIN v.fields -> Inner(Values, v)]
        /\ DOMAIN v.fields \subseteq Fields
    BY ValueAssumption DEF ScalarTypes
  <1>2. \A y \in Values : Nesting(y) \in Nat BY ValueAssumption, BoundAssumption
  <1>3. n > 0 /\ n - 1 \in 0..Depth BY <1>1, <1>2, BoundAssumption
  <1>4. ASSUME NEW k \in DOMAIN v.fields
        PROVE  v.fields[k] \in Values /\ Nesting(v.fields[k]) <= n - 1
    BY <1>1, <1>2, BoundAssumption DEF Inner
  <1>5. QED BY <1>1, <1>3, <1>4

LEMMA ItemSchema ==
  ASSUME NEW s \in Schemas, s.items # <<>>
  PROVE  1 \in DOMAIN s.items /\ s.items[1] \in Schemas
  <1>1. s.items \in Seq(Inner(Schemas, s)) BY SchemaAssumption
  <1>2. 1 \in 1..Len(s.items) BY <1>1, EmptySeq, LenProperties
  <1>3. QED BY <1>1, <1>2, ElementOfSeq, LenProperties DEF Inner

LEMMA RequiredRange ==
  ASSUME NEW s \in Schemas PROVE Range(s.required) = {} <=> s.required = <<>>
  <1>1. s.required \in Seq(Fields \cup {Unset}) BY SchemaAssumption
  <1>2. ASSUME s.required # <<>> PROVE Range(s.required) # {}
    <2>1. 1 \in DOMAIN s.required BY <1>1, <1>2, EmptySeq, LenProperties
    <2>2. s.required[1] \in Range(s.required) BY <2>1 DEF Range
    <2>3. QED BY <2>2
  <1>3. Range(<<>>) = {} BY DEF Range
  <1>4. QED BY <1>2, <1>3

LEMMA ArraySet ==
  ASSUME NEW S, NEW q
  PROVE  Array(q) \in Arrays(S) <=> q \in Seq(S) /\ Len(q) <= MaxItems
  <1>1. Array(q) \in Arrays(S) <=> \E n \in 0..MaxItems : q \in [1..n -> S]
    BY DEF Array, Arrays
  <1>2. ASSUME NEW n \in 0..MaxItems, q \in [1..n -> S]
        PROVE  q \in Seq(S) /\ Len(q) <= MaxItems
    <2>1. n \in Nat BY BoundAssumption
    <2>2. q \in Seq(S) BY <1>2, <2>1, SeqDef
    <2>3. Len(q) = n BY <1>2, <2>1, <2>2, LenProperties
    <2>4. QED BY <2>2, <2>3, BoundAssumption
  <1>3. ASSUME q \in Seq(S), Len(q) <= MaxItems
        PROVE  \E n \in 0..MaxItems : q \in [1..n -> S]
    BY <1>3, LenProperties, BoundAssumption
  <1>4. QED BY <1>1, <1>2, <1>3

\* An array of the values is one over S when its items are in S.
LEMMA ItemsIn ==
  ASSUME NEW S, NEW v, v = Array(v.items), v.items \in Seq(Values),
         Len(v.items) <= MaxItems
  PROVE  v \in Arrays(S) <=> \A i \in DOMAIN v.items : v.items[i] \in S
  <1>1. v \in Arrays(S) <=> v.items \in Seq(S) BY ArraySet
  <1>2. v.items \in Seq(S) <=> \A i \in DOMAIN v.items : v.items[i] \in S
    BY LenProperties, SeqDef
  <1>3. QED BY <1>1, <1>2

LEMMA ObjectSet == ASSUME NEW F, NEW f PROVE Object(f) \in Objects(F) <=> f \in F
  BY DEF Object, Objects

LEMMA SetTypes ==
  /\ \A S, v : v \in Arrays(S) => v.type = "array"
  /\ \A F, v : v \in Objects(F) => v.type = "object"
  /\ \A v \in JSONScalars : v.type \notin {"array", "object"}
  BY DEF Array, Arrays, Object, Objects, JSONScalars, Scalar, Text

-----------------------------------------------------------------------------
(* The values without a schema. *)

JSONGood == {n \in 0..Depth :
  \A v \in Values : Nesting(v) <= n => (JSONLike(v) <=> v \in JSON(n))}

LEMMA JSONStep ==
  ASSUME NEW n \in 0..Depth, n = 0 \/ n - 1 \in JSONGood,
         NEW v \in Values, Nesting(v) <= n
  PROVE  JSONLike(v) <=> v \in JSON(n)
  <1> DEFINE Below == PartJSON(n - 1)
             Maps == UNION {[K -> Below] : K \in SUBSET Fields}
  <1>1. CASE v.type \notin {"array", "object"}
    <2>1. JSONLike(v) <=> v.type \in {"nil", "bool", "text", "int", "float"}
      BY <1>1 DEF JSONLike
    <2>2. v \in JSON(n) <=> v \in JSONScalars BY <1>1, SetTypes DEF JSON
    <2>3. v \in JSONScalars <=> v.type \in {"nil", "bool", "text", "int", "float"}
      BY <1>1, ScalarShape DEF JSONScalars, Scalar, Text, ScalarTypes
    <2>4. QED BY <2>1, <2>2, <2>3
  <1>2. ASSUME NEW y \in Values, n > 0, n - 1 \in 0..Depth, Nesting(y) <= n - 1
        PROVE  PartJSONLike(y) <=> y \in Below
    BY <1>2, RecursionAssumption DEF JSONGood
  <1>3. CASE v.type = "array"
    <2>1. JSONLike(v) <=> \A i \in DOMAIN v.items : v.items[i] \in Below
      BY <1>2, <1>3, ArrayShape DEF JSONLike
    <2>2. v \in JSON(n) <=> v \in Arrays(Below)
      BY <1>3, ArrayShape, SetTypes DEF JSON
    <2>3. QED BY <1>3, <2>1, <2>2, ArrayShape, ItemsIn
  <1>4. CASE v.type = "object"
    <2>1. /\ n > 0 /\ n - 1 \in 0..Depth
          /\ v = Object(v.fields) /\ DOMAIN v.fields \subseteq Fields
          /\ v.fields = [f \in DOMAIN v.fields |-> v.fields[f]]
          /\ \A f \in DOMAIN v.fields :
               v.fields[f] \in Values /\ Nesting(v.fields[f]) <= n - 1
      BY <1>4, ObjectShape
    <2>2. JSONLike(v) <=> \A f \in DOMAIN v.fields : v.fields[f] \in Below
      BY <1>2, <1>4, <2>1 DEF JSONLike
    <2>3. JSON(n) = JSONScalars \cup Arrays(Below) \cup Objects(Maps)
      BY <2>1 DEF JSON
    <2>4. v \in JSON(n) <=> v \in Objects(Maps)
      <3> HIDE DEF Maps, Below
      <3>1. QED BY <1>4, <2>3, SetTypes
    <2>5. v \in Objects(Maps) <=> v.fields \in Maps
      <3> HIDE DEF Maps
      <3>1. QED BY <2>1, ObjectSet
    <2>6. v.fields \in Maps <=> \A f \in DOMAIN v.fields : v.fields[f] \in Below
      <3> HIDE DEF Below
      <3>1. QED BY <2>1
    <2>7. QED BY <2>2, <2>4, <2>5, <2>6
  <1>5. QED BY <1>1, <1>3, <1>4

LEMMA JSONExact ==
  \A n \in 0..Depth, v \in Values :
    Nesting(v) <= n => (JSONLike(v) <=> v \in JSON(n))
  <1>1. \A n \in 0..Depth : (n = 0 \/ n - 1 \in JSONGood) => n \in JSONGood
    BY JSONStep DEF JSONGood
  <1>2. \A n \in 0..Depth : n \in JSONGood BY <1>1, LevelInduction
  <1>3. QED BY <1>2 DEF JSONGood

-----------------------------------------------------------------------------
(* The values of a schema. *)

LEMMA ObjectsMeant ==
  ASSUME NEW s, s.type = "object", NEW n \in 0..Depth, n > 0,
         NEW g, g = [k \in DOMAIN g |-> g[k]]
  PROVE  Object(g) \in Meaning(s, n) <=>
           /\ Range(s.required) \subseteq DOMAIN g
           /\ DOMAIN g \subseteq IF s.open THEN Fields ELSE DOMAIN s.props
           /\ \A k \in DOMAIN g : g[k] \in FieldMeaning(s, n, k)
  <1> DEFINE Maps == UNION {Choices(s, n, K) : K \in Shapes(s)}
             Held == \A k \in DOMAIN g : g[k] \in FieldMeaning(s, n, k)
  <1>1. Meaning(s, n)
          = (IF s.required = <<>> THEN {Scalar("nil")} ELSE {}) \cup Objects(Maps)
    BY DEF Meaning, ObjectMeaning
  <1>2. Object(g) # Scalar("nil")
    <2>1. Object(g).type # Scalar("nil").type BY DEF Object, Scalar
    <2>2. QED BY <2>1
  <1>3. Object(g) \in Meaning(s, n) <=> g \in Maps
    <2> HIDE DEF Maps
    <2>1. QED BY <1>1, <1>2, ObjectSet
  <1>4. \A K : g \in Choices(s, n, K) <=> K = DOMAIN g /\ Held BY DEF Choices
  <1>5. g \in Maps <=> DOMAIN g \in Shapes(s) /\ Held BY <1>4
  <1>6. QED BY <1>3, <1>5 DEF Shapes

\* An object has no error when its required fields are there and none of its fields
\* has an error; a nil map counts as an object without fields.
LEMMA NoFieldErrors ==
  ASSUME NEW v, NEW s, s.type = "object"
  PROVE  Errors(v, s) = {} <=>
           /\ v.type \in {"object", "nil"}
           /\ Range(s.required) \subseteq DOMAIN FieldsOf(v)
           /\ \A k \in DOMAIN FieldsOf(v) :
                IF k \in DOMAIN s.props
                THEN PartErrors(FieldsOf(v)[k], s.props[k]) = {}
                ELSE s.open /\ PartJSONLike(FieldsOf(v)[k])
  <1> DEFINE F == FieldsOf(v)
             E(k) == IF k \in DOMAIN s.props THEN PartErrors(F[k], s.props[k])
                     ELSE UndeclaredErrors(F[k], s)
  <1>1. Errors(v, s) =
          IF v.type \in {"object", "nil"} /\ Range(s.required) \subseteq DOMAIN F
          THEN UNION {E(k) : k \in DOMAIN F} ELSE {"mismatch"}
    BY DEF Errors, ObjectErrors
  <1>2. UNION {E(k) : k \in DOMAIN F} = {} <=> \A k \in DOMAIN F : E(k) = {}
    <2> HIDE DEF E
    <2>1. QED OBVIOUS
  <1>3. \A k : E(k) = {} <=> IF k \in DOMAIN s.props
                             THEN PartErrors(F[k], s.props[k]) = {}
                             ELSE s.open /\ PartJSONLike(F[k])
    BY DEF UndeclaredErrors, Unless
  <1> HIDE DEF E
  <1>4. QED BY <1>1, <1>2, <1>3

LEMMA NoItemErrors ==
  ASSUME NEW v, NEW s, s.type = "array"
  PROVE  Errors(v, s) = {} <=>
           /\ v.type = "array"
           /\ \A i \in DOMAIN v.items :
                IF s.items = <<>> THEN PartJSONLike(v.items[i])
                ELSE PartErrors(v.items[i], s.items[1]) = {}
  <1> DEFINE E(i) == IF s.items = <<>> THEN Unless(PartJSONLike(v.items[i]))
                     ELSE PartErrors(v.items[i], s.items[1])
  <1>1. Errors(v, s) = IF v.type = "array" THEN UNION {E(i) : i \in DOMAIN v.items}
                       ELSE {"mismatch"}
    BY DEF Errors, ArrayErrors
  <1>2. UNION {E(i) : i \in DOMAIN v.items} = {} <=> \A i \in DOMAIN v.items : E(i) = {}
    <2> HIDE DEF E
    <2>1. QED OBVIOUS
  <1>3. \A i : E(i) = {} <=> IF s.items = <<>> THEN PartJSONLike(v.items[i])
                             ELSE PartErrors(v.items[i], s.items[1]) = {}
    BY DEF Unless
  <1> HIDE DEF E
  <1>4. QED BY <1>1, <1>2, <1>3

ErrorsGood == {n \in 0..Depth :
  \A v \in Values, s \in Schemas :
    Nesting(v) <= n => (Errors(v, s) = {} <=> v \in Meaning(s, n))}

LEMMA PartsGood ==
  ASSUME NEW n \in ErrorsGood, NEW v \in Values, Nesting(v) <= n
  PROVE  /\ \A s \in Schemas : PartErrors(v, s) = {} <=> v \in PartMeaning(s, n)
         /\ PartJSONLike(v) <=> v \in PartJSON(n)
  <1>1. \A s \in Schemas : PartErrors(v, s) = {} <=> v \in PartMeaning(s, n)
    BY RecursionAssumption DEF ErrorsGood
  <1>2. n \in 0..Depth BY DEF ErrorsGood
  <1>3. QED BY <1>1, <1>2, RecursionAssumption, JSONExact

LEMMA ObjectExact ==
  ASSUME NEW n \in 0..Depth, n = 0 \/ n - 1 \in ErrorsGood,
         NEW v \in Values, Nesting(v) <= n, NEW s \in Schemas, s.type = "object"
  PROVE  Errors(v, s) = {} <=> v \in Meaning(s, n)
  <1>1. CASE v.type = "object"
    <2>1. /\ v = Object(v.fields) /\ v.fields = [k \in DOMAIN v.fields |-> v.fields[k]]
          /\ DOMAIN v.fields \subseteq Fields /\ n > 0
      BY <1>1, ObjectShape
    <2>2. \A k \in DOMAIN s.props : s.props[k] \in Schemas
      BY SchemaAssumption DEF Inner
    <2>3. ASSUME NEW k \in DOMAIN v.fields
          PROVE  (IF k \in DOMAIN s.props THEN PartErrors(v.fields[k], s.props[k]) = {}
                  ELSE s.open /\ PartJSONLike(v.fields[k]))
                 <=> /\ v.fields[k] \in FieldMeaning(s, n, k)
                     /\ k \in DOMAIN s.props \/ s.open
      <3>1. v.fields[k] \in Values /\ Nesting(v.fields[k]) <= n - 1
        BY <1>1, ObjectShape
      <3>2. n - 1 \in ErrorsGood BY <2>1
      <3>3. QED BY <2>2, <3>1, <3>2, PartsGood DEF FieldMeaning
    <2>4. Errors(v, s) = {} <=>
            /\ Range(s.required) \subseteq DOMAIN v.fields
            /\ \A k \in DOMAIN v.fields :
                 v.fields[k] \in FieldMeaning(s, n, k) /\ (k \in DOMAIN s.props \/ s.open)
      BY <1>1, <2>3, NoFieldErrors DEF FieldsOf
    <2>5. v \in Meaning(s, n) <=>
            /\ Range(s.required) \subseteq DOMAIN v.fields
            /\ DOMAIN v.fields \subseteq IF s.open THEN Fields ELSE DOMAIN s.props
            /\ \A k \in DOMAIN v.fields : v.fields[k] \in FieldMeaning(s, n, k)
      BY <2>1, ObjectsMeant
    <2>6. QED BY <2>1, <2>4, <2>5
  <1>2. CASE v.type = "nil"
    <2>1. v = Scalar("nil") BY <1>2, ScalarShape
    <2>2. DOMAIN FieldsOf(v) = {} BY <1>2 DEF FieldsOf
    <2>3. Errors(v, s) = {} <=> s.required = <<>>
      BY <1>2, <2>2, RequiredRange, NoFieldErrors
    <2>4. v \in Meaning(s, n) <=> s.required = <<>>
      BY <1>2, <2>1, SetTypes DEF Meaning, ObjectMeaning
    <2>5. QED BY <2>3, <2>4
  <1>3. CASE v.type \notin {"object", "nil"}
    <2>1. v \notin Meaning(s, n)
      BY <1>3, SetTypes DEF Meaning, ObjectMeaning, Scalar
    <2>2. QED BY <1>3, <2>1, NoFieldErrors
  <1>4. QED BY <1>1, <1>2, <1>3

LEMMA ArrayExact ==
  ASSUME NEW n \in 0..Depth, n = 0 \/ n - 1 \in ErrorsGood,
         NEW v \in Values, Nesting(v) <= n, NEW s \in Schemas, s.type = "array"
  PROVE  Errors(v, s) = {} <=> v \in Meaning(s, n)
  <1> DEFINE S == IF s.items = <<>> THEN PartJSON(n - 1)
                  ELSE PartMeaning(s.items[1], n - 1)
  <1>1. CASE v.type = "array"
    <2>1. /\ v = Array(v.items) /\ v.items \in Seq(Values) /\ Len(v.items) <= MaxItems
          /\ n > 0
      BY <1>1, ArrayShape
    <2>2. ASSUME NEW i \in DOMAIN v.items
          PROVE  (IF s.items = <<>> THEN PartJSONLike(v.items[i])
                  ELSE PartErrors(v.items[i], s.items[1]) = {})
                 <=> v.items[i] \in S
      <3>1. v.items[i] \in Values /\ Nesting(v.items[i]) <= n - 1 BY <1>1, ArrayShape
      <3>2. n - 1 \in ErrorsGood BY <2>1
      <3>3. QED BY <3>1, <3>2, ItemSchema, PartsGood
    <2> HIDE DEF S
    <2>3. Errors(v, s) = {} <=> \A i \in DOMAIN v.items : v.items[i] \in S
      BY <1>1, <2>2, NoItemErrors
    <2>4. v \in Meaning(s, n) <=> v \in Arrays(S)
      BY <2>1 DEF Meaning, ArrayMeaning, S
    <2>5. QED BY <2>1, <2>3, <2>4, ItemsIn
  <1>2. CASE v.type # "array"
    <2>1. v \notin Meaning(s, n) BY <1>2, SetTypes DEF Meaning, ArrayMeaning
    <2>2. QED BY <1>2, <2>1, NoItemErrors
  <1>3. QED BY <1>1, <1>2

LEMMA ScalarExact ==
  ASSUME NEW n \in 0..Depth, NEW v \in Values, NEW s \in Schemas,
         s.type \notin {"object", "array"}
  PROVE  Errors(v, s) = {} <=> v \in Meaning(s, n)
  <1> USE ValueAssumption DEF ScalarTypes, Scalar, Text, Array, Object
  <1>1. CASE s.type = "string" BY <1>1 DEF Errors, Meaning, Unless
  <1>2. CASE s.type = "boolean" BY <1>2 DEF Errors, Meaning, Unless
  <1>3. CASE s.type = "integer" BY <1>3 DEF Errors, Meaning, Unless, IsInteger
  <1>4. CASE s.type = "number"
    BY <1>4 DEF Errors, Meaning, Unless, IsNumber, IsInteger
  <1>5. CASE s.type = "null" BY <1>5 DEF Errors, Meaning, Unless
  <1>6. CASE s.type \notin SupportedTypes BY <1>6 DEF SupportedTypes, Errors, Meaning
  <1>7. QED BY <1>1, <1>2, <1>3, <1>4, <1>5, <1>6 DEF SupportedTypes

LEMMA ErrorsExact ==
  \A n \in 0..Depth, v \in Values, s \in Schemas :
    Nesting(v) <= n => (Errors(v, s) = {} <=> v \in Meaning(s, n))
  <1>1. \A n \in 0..Depth : (n = 0 \/ n - 1 \in ErrorsGood) => n \in ErrorsGood
    BY ObjectExact, ArrayExact, ScalarExact DEF ErrorsGood
  <1>2. \A n \in 0..Depth : n \in ErrorsGood BY <1>1, LevelInduction
  <1>3. QED BY <1>2 DEF ErrorsGood

\* Validation is exact, however deep schemas and values are nested: it accepts the
\* values that a schema stands for, and no other (validateValueAgainstSchema).
THEOREM ValidationExact ==
  \A v \in Values, s \in Schemas : Errors(v, s) = {} <=> v \in Meaning(s, Depth)
  <1>1. Depth \in 0..Depth /\ \A v \in Values : Nesting(v) <= Depth
    BY ValueAssumption, BoundAssumption
  <1>2. QED BY <1>1, ErrorsExact

-----------------------------------------------------------------------------
(* The schemas that a definition may have. *)

SupportedGood == {n \in 0..Depth :
  \A v \in Values, s \in Schemas :
    Nesting(v) <= n /\ ValidSchema(s) => "unsupported" \notin Errors(v, s)}

LEMMA SupportedStep ==
  ASSUME NEW n \in 0..Depth, n = 0 \/ n - 1 \in SupportedGood,
         NEW v \in Values, NEW s \in Schemas, Nesting(v) <= n, ValidSchema(s)
  PROVE  "unsupported" \notin Errors(v, s)
  <1>1. ASSUME n > 0, NEW y \in Values, Nesting(y) <= n - 1,
               NEW t \in Schemas, PartValid(t)
        PROVE  "unsupported" \notin PartErrors(y, t)
    BY <1>1, RecursionAssumption DEF SupportedGood
  <1>2. CASE s.type = "object"
    <2>1. ASSUME NEW k \in DOMAIN FieldsOf(v) \cap DOMAIN s.props
          PROVE  "unsupported" \notin PartErrors(FieldsOf(v)[k], s.props[k])
      <3>1. v.type = "object" BY DEF FieldsOf
      <3>2. /\ FieldsOf(v)[k] \in Values /\ Nesting(FieldsOf(v)[k]) <= n - 1
            /\ n > 0
        BY <3>1, ObjectShape DEF FieldsOf
      <3>3. s.props[k] \in Schemas /\ PartValid(s.props[k])
        BY <1>2, SchemaAssumption DEF Inner, ValidSchema, ValidObject
      <3>4. QED BY <3>2, <3>3, <1>1
    <2>2. Errors(v, s) = ObjectErrors(v, s) BY <1>2 DEF Errors
    <2>3. QED BY <2>1, <2>2 DEF ObjectErrors, UndeclaredErrors, Unless
  <1>3. CASE s.type = "array"
    <2>1. ASSUME v.type = "array", s.items # <<>>, NEW i \in DOMAIN v.items
          PROVE  "unsupported" \notin PartErrors(v.items[i], s.items[1])
      <3>1. v.items[i] \in Values /\ Nesting(v.items[i]) <= n - 1 /\ n > 0
        BY <2>1, ArrayShape
      <3>2. s.items[1] \in Schemas /\ PartValid(s.items[1])
        BY <1>3, <2>1, ItemSchema DEF ValidSchema, ValidItems
      <3>3. QED BY <3>1, <3>2, <1>1
    <2>2. Errors(v, s) = ArrayErrors(v, s) BY <1>3 DEF Errors
    <2>3. QED BY <2>1, <2>2 DEF ArrayErrors, Unless
  <1>4. CASE s.type \notin {"object", "array"}
    BY <1>4 DEF ValidSchema, SupportedTypes, Errors, Unless
  <1>5. QED BY <1>2, <1>3, <1>4

LEMMA ValidIsSupported ==
  \A v \in Values, s \in Schemas : ValidSchema(s) => "unsupported" \notin Errors(v, s)
  <1>1. \A n \in 0..Depth : (n = 0 \/ n - 1 \in SupportedGood) => n \in SupportedGood
    BY SupportedStep DEF SupportedGood
  <1>2. \A n \in 0..Depth : n \in SupportedGood BY <1>1, LevelInduction
  <1>3. \A v \in Values : Nesting(v) \in 0..Depth /\ Nesting(v) <= Nesting(v)
    BY ValueAssumption, BoundAssumption
  <1>4. QED BY <1>2, <1>3 DEF SupportedGood

MeantGood == {n \in 0..Depth :
  \A s \in Schemas : Nesting(s) <= n /\ ValidSchema(s) => Meaning(s, n) # {}}

\* The object with the required fields only, each with some value it may hold.
LEMMA ObjectMeant ==
  ASSUME NEW n \in 0..Depth, n = 0 \/ n - 1 \in MeantGood,
         NEW s \in Schemas, Nesting(s) <= n, ValidSchema(s), s.type = "object"
  PROVE  Meaning(s, n) # {}
  <1>1. CASE s.required = <<>> BY <1>1 DEF Meaning, ObjectMeaning
  <1>2. CASE s.required # <<>>
    <2> DEFINE K == Range(s.required)
               f == [k \in K |-> CHOOSE x : x \in FieldMeaning(s, n, k)]
    <2>1. K # {} BY <1>2, RequiredRange
    <2>2. /\ K \subseteq DOMAIN s.props /\ Unset \notin DOMAIN s.props
          /\ DOMAIN s.props \subseteq Fields \cup {Unset}
      BY SchemaAssumption DEF ValidSchema, ValidObject, RequiredDeclared
    <2>3. \A k \in DOMAIN s.props :
            s.props[k] \in Schemas /\ Nesting(s.props[k]) < Nesting(s)
      BY SchemaAssumption DEF Inner
    <2>4. \A t \in Schemas : Nesting(t) \in Nat BY SchemaAssumption, BoundAssumption
    <2>5. n > 0 /\ n - 1 \in 0..Depth BY <2>1, <2>2, <2>3, <2>4, BoundAssumption
    <2>6. ASSUME NEW k \in K PROVE FieldMeaning(s, n, k) # {}
      <3>1. s.props[k] \in Schemas /\ Nesting(s.props[k]) <= n - 1
        BY <2>2, <2>3, <2>4, BoundAssumption
      <3>2. ValidSchema(s.props[k])
        BY <2>2, <3>1, RecursionAssumption DEF ValidSchema, ValidObject
      <3>3. PartMeaning(s.props[k], n - 1) # {}
        BY <2>5, <3>1, <3>2, RecursionAssumption DEF MeantGood
      <3>4. QED BY <2>2, <3>3 DEF FieldMeaning
    <2>7. \A k \in K : f[k] \in FieldMeaning(s, n, k) BY <2>6
    <2>8. K \subseteq IF s.open THEN Fields ELSE DOMAIN s.props BY <2>2
    <2>9. DOMAIN f = K /\ f = [k \in DOMAIN f |-> f[k]] OBVIOUS
    <2> HIDE DEF f
    <2>10. Object(f) \in Meaning(s, n) BY <2>5, <2>7, <2>8, <2>9, ObjectsMeant
    <2>11. QED BY <2>10
  <1>3. QED BY <1>1, <1>2

\* The empty array is one of every array schema.
LEMMA ArrayMeant ==
  ASSUME NEW n \in 0..Depth, NEW s \in Schemas, Nesting(s) <= n, s.type = "array"
  PROVE  Meaning(s, n) # {}
  <1> DEFINE S == IF s.items = <<>> THEN PartJSON(n - 1)
                  ELSE PartMeaning(s.items[1], n - 1)
  <1>1. n # 0 BY SchemaAssumption, BoundAssumption
  <1>2. Array(<<>>) \in Arrays(S)
    <2> HIDE DEF S
    <2>1. <<>> \in Seq(S) /\ Len(<<>>) = 0 BY EmptySeq
    <2>2. \A q : q \in Seq(S) /\ Len(q) <= MaxItems => Array(q) \in Arrays(S)
      BY ArraySet
    <2>3. 0 <= MaxItems BY BoundAssumption
    <2>4. QED BY <2>1, <2>2, <2>3, Zenon
  <1>3. QED BY <1>1, <1>2 DEF Meaning, ArrayMeaning

LEMMA MeantStep ==
  ASSUME NEW n \in 0..Depth, n = 0 \/ n - 1 \in MeantGood,
         NEW s \in Schemas, Nesting(s) <= n, ValidSchema(s)
  PROVE  Meaning(s, n) # {}
  <1>1. CASE s.type \notin {"object", "array"}
    BY <1>1, BoundAssumption DEF ValidSchema, SupportedTypes, Meaning
  <1>2. QED BY <1>1, ObjectMeant, ArrayMeant

LEMMA ValidIsMeant == \A s \in Schemas : ValidSchema(s) => Meaning(s, Depth) # {}
  <1>1. \A n \in 0..Depth : (n = 0 \/ n - 1 \in MeantGood) => n \in MeantGood
    BY MeantStep DEF MeantGood
  <1>2. Depth \in MeantGood BY <1>1, LevelInduction, BoundAssumption
  <1>3. \A s \in Schemas : Nesting(s) <= Depth BY SchemaAssumption, BoundAssumption
  <1>4. QED BY <1>2, <1>3 DEF MeantGood

-----------------------------------------------------------------------------
(***************************************************************************)
(* The calls of tools.                                                     *)
(***************************************************************************)
\* The run has not begun, it goes on, and a call has been found available.
Early   == {"new", "ready", "request", "filter"}
Running == {"turn", "resolve", "invoke", "called", "returned"}
Calling == {"invoke", "called", "returned"}

CallRecords ==
  [name : Written, id : {Unset, "given", "generated"},
   input : Inputs \cup {NoValue}]

\* An agent that was built has all the tools it was given, and if it has any their
\* definition is valid.
AgentInv ==
  /\ \A c \in cands : c.name # Unset
  /\ at \in (Early \ {"new"}) \cup Running =>
       agentTools = {c.name : c \in cands}
  /\ agentTools # {} => ValidDefinition(def)

\* What a run offers is what the filter makes of the caller's own request.
RequestInv ==
  /\ at \in {"filter"} \cup Running => (choice = "none" <=> raw.choice = "none")
  /\ at \in Running => offered = IF choice = "none" THEN {} ELSE Filtered
  /\ at \in Early => step = 0 /\ offered = {}
  /\ at \in Running \ {"turn"} => step < maxSteps

\* A call goes on only with a name that is available, and with an identifier.
CallInv ==
  /\ at \in Running \ {"turn"} => call.input \in Inputs
  /\ at \in Calling => Available(call.name) /\ call.id # Unset
  /\ outcome # "none" => at = "done"
  /\ outcome = "unavailable" => ~Permitted(call.name)

\* What validation has said of what goes into the tool, and of what came out of it
\* and is given to the next turn.
CheckedInv ==
  /\ step > 0 => ValidDefinition(def)
  /\ at = "called" => Errors(call.input, def.in) = {}
  /\ outcome = "invalid_input" =>
       ValidDefinition(def) /\ call.input \in Inputs /\ Errors(call.input, def.in) # {}
  /\ at = "returned" => value \in Outputs
  /\ at = "turn" /\ step > 0 => value \in Outputs /\ Errors(value, def.out) = {}
  /\ outcome = "invalid_output" =>
       ValidDefinition(def) /\ value \in Outputs /\ Errors(value, def.out) # {}

ToolInv == CallTypeOK /\ AgentInv /\ RequestInv /\ CallInv /\ CheckedInv

-----------------------------------------------------------------------------
LEMMA PlainIsRequest == PlainRequest \in Requests
  <1>1. 0 \in -1..(AgentSteps + 1) BY StepsAssumption
  <1>2. QED BY <1>1, ListsAssumption DEF PlainRequest, Requests

LEMMA RequestShape ==
  ASSUME NEW r \in Requests
  PROVE  /\ r.choice \in {Unset, "auto", "none", "required"}
         /\ r.steps \in -1..(AgentSteps + 1)
  BY DEF Requests

LEMMA ToolInit == ASSUME CallInit PROVE ToolInv
  <1>1. cands \subseteq Written /\ \A c \in cands : c.name # Unset
    <2>1. CASE IsTypical BY <2>1 DEF CallInit
    <2>2. CASE ~IsTypical
      <3>1. PICK m \in ToolNames : m \notin Reserved BY ReservedAssumption
      <3> DEFINE k == CHOOSE n \in ToolNames : n \notin Reserved
      <3>2. k \in ToolNames BY <3>1
      <3>3. cands = {Exact(k)} BY <2>2 DEF CallInit
      <3> HIDE DEF k
      <3>4. QED BY <3>2, <3>3, ReservedAssumption DEF Exact, Written
    <2>3. QED BY <2>1, <2>2
  <1>2. def \in [in : Schemas, out : Schemas] BY TypicalAssumption DEF CallInit
  <1>3. NoCall \in CallRecords
    BY DEF CallRecords, NoCall, Exact, Written, Unset
  <1>4. CallTypeOK
    <2>1. /\ raw \in Requests /\ maxSteps \in 1..AgentSteps /\ step \in 0..maxSteps
          /\ outcome \in Outcomes
      BY PlainIsRequest, StepsAssumption DEF CallInit, Outcomes
    <2>2. QED BY <1>1, <1>2, <1>3, <2>1 DEF CallRecords, CallInit, CallTypeOK
  <1>5. AgentInv /\ RequestInv /\ CallInv /\ CheckedInv
    BY <1>1
       DEF CallInit, AgentInv, RequestInv, CallInv, CheckedInv, Early, Running, Calling
  <1>6. QED BY <1>4, <1>5 DEF ToolInv

\* What somebody puts in a call.
LEMMA CallShape ==
  ASSUME CallTypeOK
  PROVE  /\ SomeNames \subseteq Written /\ SomeInputs \subseteq Inputs
         /\ SomeOutputs \subseteq Outputs
  <1>1. SomeNames \subseteq Written
    <2>1. agentTools \subseteq ToolNames BY DEF CallTypeOK
    <2>2. \A n \in agentTools : Exact(n) \in Written
      BY <2>1 DEF Exact, Written
    <2>3. QED BY <2>2 DEF SomeNames
  <1>2. QED
    BY <1>1, TypicalAssumption DEF SomeInputs, SomeOutputs

\* A name is available exactly when the caller permits it.
LEMMA AvailableIffPermitted ==
  ASSUME CallTypeOK, AgentInv, RequestInv, at \in Running, NEW w \in Written
  PROVE  Available(w) <=> Permitted(w)
  <1>1. w = [name |-> w.name, padded |-> w.padded] /\ w.padded \in BOOLEAN
    BY DEF Written
  <1>2. w.padded = FALSE <=> w = Exact(w.name) BY <1>1 DEF Exact
  <1>3. agentTools = {c.name : c \in cands} BY DEF AgentInv
  <1>4. Available(w) <=>
          /\ w = Exact(w.name) /\ w.name \in agentTools \ Reserved
          /\ choice # "none" /\ (raw.allowed # {} => w \in raw.allowed)
    BY <1>1, <1>2 DEF Available, RequestInv, Filtered
  <1>5. w \in {Exact(n) : n \in agentTools \ Reserved} <=>
          w = Exact(w.name) /\ w.name \in agentTools \ Reserved
    BY DEF Exact
  <1>6. QED BY <1>3, <1>4, <1>5 DEF Permitted, RequestInv

LEMMA CallTypeKept ==
  ASSUME ToolInv, [CallNext]_callVars
  PROVE  CallTypeOK'
  <1> USE StepsAssumption DEF Unset, ToolInv, agentVars, reqVars, Fail
  <1>1. CASE NewRejects BY <1>1 DEF NewRejects, CallTypeOK, Outcomes
  <1>2. CASE New
    <2>1. \A c \in cands : c.name \in ToolNames \ Reserved
      BY <1>2 DEF New, Refused, CallTypeOK, AgentInv, Written
    <2>2. agentTools' \subseteq ToolNames \ Reserved BY <1>2, <2>1 DEF New
    <2>3. offered' = {} BY <1>2 DEF New, RequestInv, Early
    <2>4. QED BY <1>2, <2>2, <2>3 DEF New, CallTypeOK
  <1>3. CASE Ask BY <1>3, PlainIsRequest DEF Ask, CallTypeOK
  <1>4. CASE NormalizeRejects
    BY <1>4 DEF NormalizeRejects, CallTypeOK, Outcomes
  <1>5. CASE Normalize
    <2>1. raw.choice \in {Unset, "auto", "none", "required"} /\ raw.steps \in Int
      BY RequestShape DEF CallTypeOK
    <2>2. EffectiveSteps \in 1..AgentSteps
      BY <2>1 DEF EffectiveSteps
    <2>3. step' = 0 BY <1>5 DEF Normalize, RequestInv, Early
    <2>4. step' \in 0..maxSteps' BY <2>2, <2>3, <1>5 DEF Normalize
    <2>5. QED BY <1>5, <2>1, <2>2, <2>4 DEF Normalize, CallTypeOK
  <1>6. CASE FilterTools BY <1>6 DEF FilterTools, CallTypeOK, Filtered
  <1>7. CASE ModelCalls
    <2>1. call' \in CallRecords
      BY <1>7, CallShape DEF CallRecords, ModelCalls
    <2>2. QED BY <1>7, <2>1 DEF CallRecords, ModelCalls, CallTypeOK, Outcomes
  <1>8. CASE Suggested
    <2>1. call' \in CallRecords
      BY <1>8, CallShape DEF CallRecords, Suggested
    <2>2. QED BY <1>8, <2>1 DEF CallRecords, Suggested, CallTypeOK
  <1>9. CASE Answers BY <1>9 DEF Answers, CallTypeOK, Outcomes
  <1>10. CASE StepsUsed BY <1>10 DEF StepsUsed, CallTypeOK, Outcomes
  <1>11. CASE ResolveRejects
    BY <1>11 DEF ResolveRejects, CallTypeOK, Outcomes
  <1>12. CASE Resolve BY <1>12 DEF Resolve, CallID, CallTypeOK
  <1>13. CASE InvokeRejects
    BY <1>13
       DEF InvokeRejects, Refusal, NoRefusal, CallTypeOK, Outcomes
  <1>14. CASE Invoke BY <1>14 DEF Invoke, CallTypeOK
  <1>15. CASE ToolFails BY <1>15 DEF ToolFails, CallTypeOK, Outcomes
  <1>16. CASE ToolReturns BY <1>16, CallShape DEF ToolReturns, CallTypeOK
  <1>17. CASE OutputRejects
    BY <1>17 DEF OutputRejects, CallTypeOK, Outcomes
  <1>18. CASE Record
    <2>1. step < maxSteps BY <1>18 DEF Record, RequestInv, Running
    <2>2. step' \in 0..maxSteps'
      BY <1>18, <2>1 DEF Record, CallTypeOK
    <2>3. QED
      BY <1>18, <2>2 DEF Record, CallTypeOK, NoCall, Exact, Written
  <1>19. CASE ContextEnds BY <1>19 DEF ContextEnds, CallTypeOK
  <1>20. CASE UNCHANGED callVars BY <1>20 DEF callVars, CallTypeOK
  <1>21. QED
    BY <1>1, <1>2, <1>3, <1>4, <1>5, <1>6, <1>7, <1>8, <1>9, <1>10, <1>11, <1>12,
       <1>13, <1>14, <1>15, <1>16, <1>17, <1>18, <1>19, <1>20 DEF CallNext, CallDone

LEMMA AgentKept == ASSUME ToolInv, [CallNext]_callVars PROVE AgentInv'
  <1> USE DEF Unset, ToolInv, AgentInv, agentVars, reqVars, Fail,
              Early, Running
  <1>1. CASE New
    BY <1>1 DEF New, Refused
  <1>2. CASE UNCHANGED agentVars /\ (at \in (Early \ {"new"}) \cup Running
             \/ at' \in {"new", "done"})
    BY <1>2
  <1>3. CASE UNCHANGED callVars BY <1>3 DEF callVars
  <1>4. CASE NewRejects \/ Ask \/ NormalizeRejects \/ Normalize
             \/ FilterTools
    BY <1>4, <1>2
       DEF NewRejects, Ask, NormalizeRejects, Normalize,
           FilterTools
  <1>5. CASE ModelCalls \/ Suggested \/ Answers \/ StepsUsed
    BY <1>5, <1>2 DEF ModelCalls, Suggested, Answers, StepsUsed
  <1>6. CASE ResolveRejects \/ Resolve \/ InvokeRejects \/ Invoke
    BY <1>6, <1>2 DEF ResolveRejects, Resolve, InvokeRejects, Invoke
  <1>7. CASE ToolFails \/ ToolReturns \/ OutputRejects \/ Record
    BY <1>7, <1>2 DEF ToolFails, ToolReturns, OutputRejects, Record
  <1>8. CASE ContextEnds BY <1>8 DEF ContextEnds
  <1>9. QED BY <1>1, <1>3, <1>4, <1>5, <1>6, <1>7, <1>8 DEF CallNext, CallDone

LEMMA RequestKept == ASSUME ToolInv, [CallNext]_callVars PROVE RequestInv'
  <1> USE DEF Unset, ToolInv, RequestInv, agentVars, reqVars, Fail,
              Early, Running, Filtered
  <1>1. CASE NewRejects \/ New \/ Ask \/ NormalizeRejects
    BY <1>1 DEF NewRejects, New, Ask, NormalizeRejects
  <1>2. CASE Normalize BY <1>2 DEF Normalize
  <1>3. CASE FilterTools
    <2>1. step' = 0 /\ maxSteps' \in 1..AgentSteps
      BY <1>3 DEF FilterTools, CallTypeOK
    <2>2. QED BY <1>3, <2>1 DEF FilterTools
  <1>4. CASE ModelCalls \/ Suggested \/ Answers \/ StepsUsed
    BY <1>4 DEF ModelCalls, Suggested, Answers, StepsUsed
  <1>5. CASE ResolveRejects \/ Resolve \/ InvokeRejects \/ Invoke
    BY <1>5 DEF ResolveRejects, Resolve, InvokeRejects, Invoke
  <1>6. CASE ToolFails \/ ToolReturns \/ OutputRejects \/ Record
    BY <1>6 DEF ToolFails, ToolReturns, OutputRejects, Record
  <1>7. CASE ContextEnds BY <1>7 DEF ContextEnds
  <1>8. CASE UNCHANGED callVars BY <1>8 DEF callVars
  <1>9. QED
    BY <1>1, <1>2, <1>3, <1>4, <1>5, <1>6, <1>7, <1>8 DEF CallNext, CallDone

LEMMA CallKept ==
  ASSUME ToolInv, [CallNext]_callVars
  PROVE  CallInv'
  <1> USE DEF Unset, ToolInv, CallInv, agentVars, reqVars, Fail,
              Running, Calling, Available, Permitted
  <1>1. CASE NewRejects \/ New \/ Ask \/ NormalizeRejects
             \/ Normalize \/ FilterTools
    BY <1>1
       DEF NewRejects, New, Ask, NormalizeRejects, Normalize,
           FilterTools
  <1>2. CASE ModelCalls
    BY <1>2, CallShape DEF ModelCalls
  <1>3. CASE Suggested
    BY <1>3, CallShape DEF Suggested
  <1>4. CASE Answers \/ StepsUsed BY <1>4 DEF Answers, StepsUsed
  <1>5. CASE ResolveRejects
    <2> HIDE DEF Available, Permitted
    <2>1. call.name \in Written BY DEF CallTypeOK
    <2>2. ~Permitted(call.name)
      BY <1>5, <2>1, AvailableIffPermitted DEF ResolveRejects
    <2>3. Permitted(call.name)' = Permitted(call.name)
      BY <1>5 DEF ResolveRejects, Permitted
    <2>4. QED BY <1>5, <2>2, <2>3 DEF ResolveRejects
  <1>6. CASE Resolve BY <1>6 DEF Resolve, CallID, CallTypeOK
  <1>7. CASE InvokeRejects BY <1>7 DEF InvokeRejects, Refusal
  <1>8. CASE Invoke BY <1>8 DEF Invoke
  <1>9. CASE ToolFails \/ ToolReturns \/ OutputRejects \/ Record
    BY <1>9 DEF ToolFails, ToolReturns, OutputRejects, Record
  <1>10. CASE ContextEnds BY <1>10 DEF ContextEnds
  <1>11. CASE UNCHANGED callVars BY <1>11 DEF callVars
  <1>12. QED
    BY <1>1, <1>2, <1>3, <1>4, <1>5, <1>6, <1>7, <1>8, <1>9, <1>10, <1>11
       DEF CallNext, CallDone

\* Whoever is at a call has a valid definition.
LEMMA DefinitionAtCall == ASSUME ToolInv, at \in Calling PROVE ValidDefinition(def)
  BY DEF ToolInv, CallTypeOK, CallInv, AgentInv, Available, Calling, Running

LEMMA CheckedKept ==
  ASSUME ToolInv, [CallNext]_callVars
  PROVE  CheckedInv'
  <1> USE DEF Unset, ToolInv, CheckedInv, agentVars, reqVars, Fail,
              Running, Calling
  <1>1. CASE NewRejects \/ New \/ Ask \/ NormalizeRejects
             \/ Normalize
    BY <1>1
       DEF NewRejects, New, Ask, NormalizeRejects, Normalize,
           CallInv
  <1>2. CASE FilterTools BY <1>2 DEF FilterTools, RequestInv, Early, CallInv
  <1>3. CASE ModelCalls \/ Suggested \/ Answers \/ StepsUsed
    BY <1>3 DEF ModelCalls, Suggested, Answers, StepsUsed, CallInv
  <1>4. CASE ResolveRejects \/ Resolve
    BY <1>4 DEF ResolveRejects, Resolve, CallInv
  <1>5. CASE InvokeRejects
    BY <1>5, DefinitionAtCall
       DEF InvokeRejects, Refusal, NoRefusal, CallInv
  <1>6. CASE Invoke
    BY <1>6, DefinitionAtCall DEF Invoke, Refusal, NoRefusal, CallInv
  <1>7. CASE ToolFails BY <1>7 DEF ToolFails, CallInv
  <1>8. CASE ToolReturns BY <1>8, CallShape DEF ToolReturns, CallInv
  <1>9. CASE OutputRejects BY <1>9, DefinitionAtCall DEF OutputRejects, CallInv
  <1>10. CASE Record BY <1>10, DefinitionAtCall DEF Record, CallInv
  <1>11. CASE ContextEnds BY <1>11 DEF ContextEnds
  <1>12. CASE UNCHANGED callVars BY <1>12 DEF callVars
  <1>13. QED
    BY <1>1, <1>2, <1>3, <1>4, <1>5, <1>6, <1>7, <1>8, <1>9, <1>10, <1>11, <1>12
       DEF CallNext, CallDone

LEMMA ToolHolds == CallSpec => []ToolInv
  <1>1. CallInit => ToolInv BY ToolInit
  <1>2. ToolInv /\ [CallNext]_callVars => ToolInv'
    BY CallTypeKept, AgentKept, RequestKept, CallKept, CheckedKept DEF ToolInv
  <1>3. QED BY <1>1, <1>2, PTL DEF CallSpec

\* A tool is called only if the agent's configuration and the request permit it,
\* whoever asked for it, and only what is not permitted is turned down as not
\* available (OnlyPermitted).
THEOREM CallsPermitted == CallSpec => []OnlyPermitted
  <1>1. ToolInv => OnlyPermitted
    <2> SUFFICES ASSUME ToolInv PROVE OnlyPermitted OBVIOUS
    <2>1. ASSUME at = "called" PROVE Permitted(call.name)
      <3>1. call.name \in Written /\ Available(call.name) /\ at \in Running
        BY <2>1 DEF ToolInv, CallTypeOK, CallInv, Calling, Running
      <3>2. QED BY <3>1, AvailableIffPermitted DEF ToolInv
    <2>2. QED BY <2>1 DEF ToolInv, CallInv, OnlyPermitted
  <1>2. QED BY <1>1, ToolHolds, PTL

\* No call gets past the validation, on either side of a tool, and none is refused
\* that the schemas stand for (ToolContract): neither the model's calls nor the
\* reasoning's suggestions have a way around it, and what a turn is given is what
\* was validated.
THEOREM ContractKept == CallSpec => []ToolContract
  <1>1. ToolInv => ToolContract
    <2> SUFFICES ASSUME ToolInv PROVE ToolContract OBVIOUS
    <2>1. MeaningOf[def.in] = Meaning(def.in, Depth)
          /\ MeaningOf[def.out] = Meaning(def.out, Depth)
          /\ def.in \in Schemas /\ def.out \in Schemas
      BY DEF ToolInv, CallTypeOK, MeaningOf
    <2>2. at = "called" => call.input \in MeaningOf[def.in]
      BY <2>1, ValidationExact, ValuesAssumption
         DEF ToolInv, CallInv, CheckedInv, Running
    <2>3. outcome = "invalid_input" => call.input \notin MeaningOf[def.in]
      BY <2>1, ValidationExact, ValuesAssumption DEF ToolInv, CheckedInv
    <2>4. at = "turn" /\ step > 0 => value \in MeaningOf[def.out]
      BY <2>1, ValidationExact, ValuesAssumption DEF ToolInv, CheckedInv
    <2>5. outcome = "invalid_output" => value \notin MeaningOf[def.out]
      BY <2>1, ValidationExact, ValuesAssumption DEF ToolInv, CheckedInv
    <2>6. QED BY <2>2, <2>3, <2>4, <2>5 DEF ToolContract
  <1>2. QED BY <1>1, ToolHolds, PTL

\* What is wrong with a definition is found when the agent is built
\* (DefinitionsSettled): a tool of an agent that was built has an input it accepts
\* and an output it may return, and no call comes upon a schema of a type that is
\* not supported, however deep.
THEOREM SettledWhenBuilt == CallSpec => []DefinitionsSettled
  <1>1. ToolInv => DefinitionsSettled
    <2> SUFFICES ASSUME ToolInv PROVE DefinitionsSettled OBVIOUS
    <2>1. MeaningOf[def.in] = Meaning(def.in, Depth)
          /\ MeaningOf[def.out] = Meaning(def.out, Depth)
          /\ def.in \in Schemas /\ def.out \in Schemas
      BY DEF ToolInv, CallTypeOK, MeaningOf
    <2>2. agentTools # {} => MeaningOf[def.in] # {} /\ MeaningOf[def.out] # {}
      BY <2>1, ValidIsMeant DEF ToolInv, AgentInv, ValidDefinition
    <2>3. at = "invoke" => "unsupported" \notin Errors(call.input, def.in)
      BY <2>1, DefinitionAtCall, ValidIsSupported, ValuesAssumption
         DEF ToolInv, CallInv, Calling, Running, ValidDefinition
    <2>4. at = "returned" => "unsupported" \notin Errors(value, def.out)
      BY <2>1, DefinitionAtCall, ValidIsSupported, ValuesAssumption
         DEF ToolInv, CheckedInv, Calling, ValidDefinition
    <2>5. QED BY <2>2, <2>3, <2>4 DEF DefinitionsSettled
  <1>2. QED BY <1>1, ToolHolds, PTL
=============================================================================
