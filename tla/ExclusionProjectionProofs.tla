---------------------- MODULE ExclusionProjectionProofs ----------------------
(***************************************************************************)
(* The inductive invariant of ExclusionProjection, for any number of users, *)
(* loads and revisions: what a status stands for is in ClickHouse, because  *)
(* a row that is written late is older than the change it does not know.    *)
(***************************************************************************)
EXTENDS ExclusionProjection, FiniteSetTheorems, TLAPS

(* Nothing is newer than the revision, and a change is never at zero.       *)
Bounded ==
  /\ \A u \in Users : /\ row[u].revision <= revision
                      /\ view[u].revision <= revision
                      /\ Kept(u) => row[u].revision > 0
  /\ \A t \in Loads : rev[t] <= revision
  /\ \A t \in Loads : \A u \in Users : batch[t][u].revision <= revision
  /\ \A a \in applied : a <= revision

(* The rows v hold every user excluded by the revision n and kept since.    *)
Covers(v, n) == \A u \in Users : Kept(u) /\ row[u].revision <= n =>
                  Excluding(v[u]) /\ v[u].revision >= row[u].revision

(* No row of v, of a user who is kept, is newer and says otherwise.         *)
Current(v) == \A u \in Users : Kept(u) /\ v[u].revision >= row[u].revision =>
                Excluding(v[u])

LoadOK(t) == /\ Current(batch[t])
             /\ pc[t] = "insert" => Covers(batch[t], rev[t])
             /\ pc[t] = "checkpoint" => Covers(view, rev[t])

IInv == /\ TypeOK /\ Bounded /\ Current(view)
        /\ \A a \in applied : Covers(view, a)
        /\ \A t \in Loads : LoadOK(t)

LEMMA InitIInv == Init => IInv
<1> SUFFICES ASSUME Init PROVE IInv
  OBVIOUS
<1> USE ProjectionAssumption DEF Init, LedgerInit, NoRow, NoBatch, Absent
<1>1. TypeOK
  BY DEF TypeOK, Revision, Row, ViewRow
<1>2. \A u \in Users : ~Kept(u)
  BY DEF Kept, Excluding
<1>3. Bounded
  BY <1>2 DEF Bounded
<1>4. Current(view) /\ \A t \in Loads : LoadOK(t)
  BY <1>2 DEF Current, LoadOK
<1> QED
  BY <1>1, <1>3, <1>4 DEF IInv

-----------------------------------------------------------------------------
(* What a step of the writers does to a user: nothing, a change with the    *)
(* next revision, or one without that the user does not outlast as kept.    *)
LEMMA WriteFacts ==
  ASSUME TypeOK, LedgerNext
  PROVE  /\ row' \in [Users -> Row] /\ revision' \in Revision
         /\ revision' \in {revision, revision + 1}
         /\ \A u \in Users :
              \/ row'[u] = row[u]
              \/ ~Kept(u)' /\ row'[u].revision \in {0, row[u].revision}
              \/ row'[u].revision = revision + 1 /\ revision' = revision + 1
<1>0. /\ revision \in Nat /\ revision \in Revision /\ row \in [Users -> Row]
      /\ \A u \in Users : row[u].revision \in Revision
  BY ProjectionAssumption DEF TypeOK, Revision, Row
<1>1. PICK S \in SUBSET Users, T \in SUBSET Users :
        Reserve(S) \/ Consume(S) \/ Release(S) \/ Lapse(S) \/ Return(S) \/ Lose(S, T)
  BY DEF LedgerNext
<1>2. ASSUME NEW u \in Users, NEW x \in {"reserved", "consumed", "released"},
             NEW n \in Revision, NEW h \in {"kept", "over", "again"}
      PROVE  [state |-> x, revision |-> n, hold |-> h] \in Row
  BY DEF Row, Revision
<1>3. ASSUME NEW u \in Users, NEW h \in {"kept", "over", "again"}
      PROVE  /\ Held(u, h) \in Row /\ Held(u, h).revision = row[u].revision
             /\ h # "kept" => Held(u, h).hold # "kept"
  BY <1>0, <1>3 DEF Held, Row, Revision
<1>4. CASE Reserve(S) \/ Consume(S) \/ Release(S)
  <2>1. /\ revision' = revision + 1 /\ revision' \in Revision
    BY <1>0, <1>4, ProjectionAssumption
       DEF Reserve, Consume, Release, Change, Advanced, Revision
  <2>2. \A u \in Users : row[u].hold \in {"kept", "over", "again"}
    BY <1>0 DEF Row
  <2>3. \A u \in Users :
          \/ row'[u] = row[u]
          \/ \E x \in {"reserved", "consumed", "released"} :
             \E h \in {"kept", "over", "again"} :
               row'[u] = [state |-> x, revision |-> revision', hold |-> h]
    BY <1>4, <2>2 DEF Reserve, Consume, Release, Change
  <2>4. row' \in [Users -> Row]
    <3>1. row' = [u \in Users |-> row'[u]]
      BY <1>4 DEF Reserve, Consume, Release, Change
    <3>2. \A u \in Users : row'[u] \in Row
      BY <1>0, <1>2, <2>1, <2>3
    <3> QED
      BY <3>1, <3>2
  <2>5. \A u \in Users : row'[u] = row[u] \/ row'[u].revision = revision + 1
    BY <2>1, <2>3
  <2> QED
    BY <2>1, <2>4, <2>5
<1>5. CASE Lapse(S) \/ Return(S)
  <2>1. revision' = revision
    BY <1>5 DEF Lapse, Return
  <2>2. \A u \in Users :
          \/ row'[u] = row[u]
          \/ \E h \in {"over", "again"} : row'[u] = Held(u, h)
    BY <1>5 DEF Lapse, Return
  <2>3. row' \in [Users -> Row]
    <3>1. row' = [u \in Users |-> row'[u]]
      BY <1>5 DEF Lapse, Return
    <3> QED
      BY <1>0, <1>3, <2>2, <3>1
  <2>4. \A u \in Users :
          row'[u] = row[u] \/ (~Kept(u)' /\ row'[u].revision = row[u].revision)
    BY <1>3, <2>2 DEF Kept
  <2> QED
    BY <1>0, <2>1, <2>3, <2>4
<1>6. CASE Lose(S, T)
  <2>1. NoRow \in Row /\ ~Excluding(NoRow) /\ NoRow.revision = 0
    BY ProjectionAssumption DEF NoRow, Row, Excluding
  <2>2. revision' = revision + 1 /\ revision' \in Revision
    BY <1>0, <1>6, ProjectionAssumption DEF Lose, Advanced, Revision
  <2>3. \A u \in Users : row'[u] \in {row[u], NoRow, Held(u, "again")}
    BY <1>6 DEF Lose
  <2>4. row' \in [Users -> Row]
    <3>1. row' = [u \in Users |-> row'[u]]
      BY <1>6 DEF Lose
    <3> QED
      BY <1>0, <1>3, <2>1, <2>3, <3>1
  <2>5. \A u \in Users :
          \/ row'[u] = row[u]
          \/ ~Kept(u)' /\ row'[u].revision \in {0, row[u].revision}
    BY <1>3, <2>1, <2>3 DEF Kept
  <2> QED
    BY <2>2, <2>4, <2>5
<1> QED
  BY <1>1, <1>4, <1>5, <1>6

(* A change is newer than all that was read before it.                      *)
LEMMA WriteCovers ==
  ASSUME IInv, LedgerNext, NEW v \in [Users -> ViewRow], NEW n \in Revision,
         n <= revision, Covers(v, n)
  PROVE  \A u \in Users : Kept(u)' /\ row'[u].revision <= n =>
           Excluding(v[u]) /\ v[u].revision >= row'[u].revision
<1>1. TypeOK /\ n \in Nat /\ revision \in Nat
  BY ProjectionAssumption DEF IInv, TypeOK, Revision
<1>2. SUFFICES ASSUME NEW u \in Users, Kept(u)', row'[u].revision <= n
               PROVE  Excluding(v[u]) /\ v[u].revision >= row'[u].revision
  OBVIOUS
<1>3. row'[u] = row[u]
  BY <1>1, <1>2, WriteFacts
<1>4. Kept(u)
  BY <1>2, <1>3 DEF Kept
<1> QED
  BY <1>2, <1>3, <1>4 DEF Covers

LEMMA WriteCurrent ==
  ASSUME IInv, LedgerNext, NEW v \in [Users -> ViewRow],
         \A u \in Users : v[u].revision <= revision, Current(v)
  PROVE  \A u \in Users : Kept(u)' /\ v[u].revision >= row'[u].revision =>
           Excluding(v[u])
<1>1. TypeOK /\ revision \in Nat
  BY ProjectionAssumption DEF IInv, TypeOK, Revision
<1>2. SUFFICES ASSUME NEW u \in Users, Kept(u)', v[u].revision >= row'[u].revision
               PROVE  Excluding(v[u])
  OBVIOUS
<1>3. v[u].revision \in Nat /\ v[u].revision <= revision
  BY ProjectionAssumption DEF ViewRow, Revision
<1>4. row'[u] = row[u]
  BY <1>1, <1>2, <1>3, WriteFacts
<1>5. Kept(u)
  BY <1>2, <1>4 DEF Kept
<1> QED
  BY <1>2, <1>4, <1>5 DEF Current

LEMMA WriteStep ==
  ASSUME IInv, Write
  PROVE  IInv'
<1>0. /\ TypeOK /\ LedgerNext /\ UNCHANGED <<view, applied, pc, rev, count, batch>>
      /\ Bounded
  BY DEF IInv, Write
<1>1. /\ view \in [Users -> ViewRow] /\ \A a \in applied : a \in Revision /\ a <= revision
      /\ \A t \in Loads : /\ batch[t] \in [Users -> ViewRow]
                          /\ rev[t] \in Revision /\ rev[t] <= revision
  BY <1>0 DEF TypeOK, Bounded
<1>2. TypeOK'
  BY <1>0, WriteFacts DEF TypeOK
<1>3. Bounded'
  <2>1. revision \in Nat /\ revision' \in Nat /\ revision <= revision'
        /\ \A u \in Users : /\ row[u].revision \in Nat /\ view[u].revision \in Nat
                            /\ row'[u].revision \in Nat
    BY <1>0, WriteFacts, ProjectionAssumption DEF TypeOK, Revision, Row, ViewRow
  <2>2. \A u \in Users : row'[u].revision <= revision' /\ view'[u].revision <= revision'
    BY <1>0, <2>1, WriteFacts DEF Bounded
  <2>3. \A u \in Users : Kept(u)' => row'[u].revision > 0
    <3>1. SUFFICES ASSUME NEW u \in Users, Kept(u)' PROVE row'[u].revision > 0
      OBVIOUS
    <3>2. CASE row'[u] = row[u]
      BY <1>0, <3>1, <3>2 DEF Kept, Bounded
    <3>3. CASE row'[u].revision = revision + 1
      BY <2>1, <3>3
    <3> QED
      BY <1>0, <3>1, <3>2, <3>3, WriteFacts
  <2>4. \A t \in Loads : rev'[t] <= revision'
    BY <1>0, <1>1, <2>1 DEF Revision
  <2>5. \A t \in Loads : \A u \in Users : batch'[t][u].revision <= revision'
    <3>1. \A t \in Loads : \A u \in Users : batch[t][u].revision \in Nat
      BY <1>1, ProjectionAssumption DEF ViewRow, Revision
    <3> QED
      BY <1>0, <2>1, <3>1 DEF Bounded
  <2>6. \A a \in applied' : a <= revision'
    BY <1>0, <1>1, <2>1 DEF Revision
  <2> QED
    BY <2>2, <2>3, <2>4, <2>5, <2>6 DEF Bounded
<1>4. Current(view)'
  BY <1>0, <1>1, WriteCurrent DEF IInv, Current, Bounded
<1>5. \A a \in applied' : Covers(view, a)'
  <2>1. ASSUME NEW a \in applied
        PROVE  \A u \in Users : Kept(u)' /\ row'[u].revision <= a =>
                 Excluding(view[u]) /\ view[u].revision >= row'[u].revision
    BY <1>0, <1>1, WriteCovers DEF IInv
  <2> QED
    BY <1>0, <2>1 DEF Covers
<1>6. ASSUME NEW t \in Loads PROVE LoadOK(t)'
  <2>1. LoadOK(t)
    BY DEF IInv
  <2>2. Current(batch[t])'
    <3>1. \A u \in Users : batch[t][u].revision <= revision
      BY <1>0 DEF Bounded
    <3> QED
      BY <1>0, <1>1, <2>1, <3>1, WriteCurrent DEF LoadOK, Current
  <2>3. CASE pc[t] = "insert"
    <3>1. \A u \in Users : Kept(u)' /\ row'[u].revision <= rev[t] =>
            Excluding(batch[t][u]) /\ batch[t][u].revision >= row'[u].revision
      BY <1>0, <1>1, <2>1, <2>3, WriteCovers DEF LoadOK
    <3> QED
      BY <1>0, <2>2, <2>3, <3>1 DEF LoadOK, Covers
  <2>4. CASE pc[t] = "checkpoint"
    <3>1. \A u \in Users : Kept(u)' /\ row'[u].revision <= rev[t] =>
            Excluding(view[u]) /\ view[u].revision >= row'[u].revision
      BY <1>0, <1>1, <2>1, <2>4, WriteCovers DEF LoadOK
    <3> QED
      BY <1>0, <2>2, <2>4, <3>1 DEF LoadOK, Covers
  <2>5. CASE pc[t] \notin {"insert", "checkpoint"}
    BY <1>0, <2>2, <2>5 DEF LoadOK
  <2> QED
    BY <2>3, <2>4, <2>5
<1> QED
  BY <1>2, <1>3, <1>4, <1>5, <1>6 DEF IInv

-----------------------------------------------------------------------------
LEMMA LocalStep ==
  ASSUME IInv, NEW t \in Loads,
         Load(t) \/ Compare(t) \/ Leave(t) \/ Checkpoint(t)
  PROVE  IInv'
<1>0. /\ TypeOK /\ Bounded /\ LoadOK(t) /\ UNCHANGED <<ledger, view>>
      /\ \A u \in Users : Kept(u)' = Kept(u)
  BY DEF IInv, Load, Compare, Leave, Checkpoint, ledger, Kept
<1>1. \A x \in Loads \ {t} : pc'[x] = pc[x] /\ rev'[x] = rev[x] /\ batch'[x] = batch[x]
  BY <1>0 DEF TypeOK, Load, Compare, Leave, Checkpoint, Finish, GoTo
<1>2. /\ pc'[t] \notin {"insert", "checkpoint"}
      /\ batch' \in [Loads -> [Users -> ViewRow]] /\ batch'[t] \in {batch[t], NoBatch}
      /\ rev' \in [Loads -> Revision] /\ rev'[t] \in {0, rev[t], revision}
      /\ pc' \in [Loads -> {"idle", "compare", "members", "insert", "checkpoint"}]
      /\ count' \in [Loads -> Nat]
      /\ \/ applied' = applied
         \/ applied' = applied \cup {rev[t]} /\ pc[t] = "checkpoint"
  <2>1. CASE Load(t)
    <3>1. Cardinality(Excluded) \in Nat
      <4>1. IsFiniteSet(Excluded)
        BY ProjectionAssumption, FS_Subset DEF Excluded
      <4> QED
        BY <4>1, FS_CardinalityType
    <3>2. /\ pc' = [pc EXCEPT ![t] = "compare"] /\ rev' = [rev EXCEPT ![t] = revision]
          /\ count' = [count EXCEPT ![t] = Cardinality(Excluded)]
          /\ UNCHANGED <<applied, batch>>
      BY <2>1 DEF Load, GoTo
    <3> QED
      BY <1>0, <3>1, <3>2 DEF TypeOK
  <2>2. ASSUME Finish(t)
        PROVE  /\ pc'[t] = "idle"
               /\ batch' \in [Loads -> [Users -> ViewRow]] /\ batch'[t] = NoBatch
               /\ rev' \in [Loads -> Revision] /\ rev'[t] = 0
               /\ pc' \in [Loads -> {"idle", "compare", "members", "insert", "checkpoint"}]
               /\ count' \in [Loads -> Nat]
    <3>1. 0 \in Revision /\ 0 \in Nat /\ NoBatch \in [Users -> ViewRow]
      BY ProjectionAssumption DEF NoBatch, Absent, ViewRow, Revision
    <3>2. /\ pc' = [pc EXCEPT ![t] = "idle"] /\ rev' = [rev EXCEPT ![t] = 0]
          /\ count' = [count EXCEPT ![t] = 0] /\ batch' = [batch EXCEPT ![t] = NoBatch]
      BY <2>2 DEF Finish, GoTo
    <3> QED
      BY <1>0, <3>1, <3>2 DEF TypeOK
  <2>3. CASE Compare(t)
    <3>1. CASE Finish(t)
      <4>1. UNCHANGED applied
        BY <2>3 DEF Compare
      <4> QED
        BY <2>2, <3>1, <4>1
    <3>2. CASE GoTo(t, "members") /\ UNCHANGED <<rev, count, batch>>
      <4>1. pc' = [pc EXCEPT ![t] = "members"] /\ UNCHANGED <<applied, rev, count, batch>>
        BY <2>3, <3>2 DEF Compare, GoTo
      <4> QED
        BY <1>0, <4>1 DEF TypeOK
    <3> QED
      BY <2>3, <3>1, <3>2 DEF Compare
  <2>4. CASE Leave(t) \/ Checkpoint(t)
    <3>1. /\ Finish(t)
          /\ \/ applied' = applied
             \/ applied' = applied \cup {rev[t]} /\ pc[t] = "checkpoint"
      BY <2>4 DEF Leave, Checkpoint
    <3> QED
      BY <2>2, <3>1
  <2> QED
    BY <2>1, <2>2, <2>3, <2>4
<1>3. TypeOK'
  BY <1>0, <1>2 DEF TypeOK, ledger
<1>4. Current(NoBatch)
  <2>1. \A u \in Users : NoBatch[u].revision = 0
    BY DEF NoBatch, Absent
  <2>2. \A u \in Users : Kept(u) => row[u].revision > 0 /\ row[u].revision \in Nat
    BY <1>0, ProjectionAssumption DEF Bounded, TypeOK, Row, Revision
  <2> QED
    BY <2>1, <2>2 DEF Current
<1>5. Bounded'
  <2>1. revision \in Nat
    BY <1>0, ProjectionAssumption DEF TypeOK, Revision
  <2>2. \A u \in Users : NoBatch[u].revision = 0
    BY DEF NoBatch, Absent
  <2>3. \A x \in Loads : rev'[x] <= revision
    BY <1>0, <1>1, <1>2, <2>1 DEF Bounded
  <2>4. \A x \in Loads : \A u \in Users : batch'[x][u].revision <= revision
    <3>1. ASSUME NEW x \in Loads, NEW u \in Users
          PROVE  batch'[x][u].revision <= revision
      <4>1. CASE batch'[x] = batch[x]
        BY <1>0, <4>1 DEF Bounded
      <4>2. CASE batch'[x] = NoBatch
        BY <2>1, <2>2, <4>2
      <4> QED
        BY <1>1, <1>2, <4>1, <4>2
    <3> QED
      BY <3>1
  <2>5. \A a \in applied' : a <= revision
    BY <1>0, <1>2 DEF Bounded
  <2> QED
    BY <1>0, <2>3, <2>4, <2>5 DEF Bounded, ledger
<1>6. \A v, n : (Covers(v, n) => \A u \in Users : Kept(u)' /\ row'[u].revision <= n =>
                    Excluding(v[u]) /\ v[u].revision >= row'[u].revision)
                /\ (Current(v) => \A u \in Users :
                      Kept(u)' /\ v[u].revision >= row'[u].revision => Excluding(v[u]))
  BY <1>0 DEF Covers, Current, ledger
<1>7. Current(view)'
  BY <1>0, <1>6 DEF IInv, Current
<1>8. \A a \in applied' : Covers(view, a)'
  <2>1. \A a \in applied' : Covers(view, a)
    BY <1>0, <1>2 DEF IInv, LoadOK
  <2> QED
    BY <1>0, <1>6, <2>1 DEF Covers
<1>9. ASSUME NEW x \in Loads PROVE LoadOK(x)'
  <2>1. CASE x = t
    <3>1. Current(batch'[t])
      BY <1>0, <1>2, <1>4 DEF LoadOK
    <3>2. Current(batch[t])'
      BY <1>6, <3>1 DEF Current
    <3> QED
      BY <1>2, <2>1, <3>2 DEF LoadOK
  <2>2. CASE x # t
    <3>1. LoadOK(x) /\ pc'[x] = pc[x] /\ rev'[x] = rev[x] /\ batch'[x] = batch[x]
      BY <1>1, <2>2 DEF IInv
    <3> QED
      BY <1>0, <1>6, <3>1 DEF LoadOK, Covers, Current
  <2> QED
    BY <2>1, <2>2
<1> QED
  BY <1>3, <1>5, <1>7, <1>8, <1>9 DEF IInv

(* Another place, and nothing new in ClickHouse.                            *)
LEMMA MembersStep ==
  ASSUME IInv, NEW t \in Loads, Members(t)
  PROVE  IInv'
<1> DEFINE new == [u \in Users |-> Projected(row[u], rev[t])]
<1>0. /\ TypeOK /\ Bounded /\ UNCHANGED <<ledger, view, applied, rev, count>>
      /\ pc' = [pc EXCEPT ![t] = "insert"] /\ batch' = [batch EXCEPT ![t] = new]
  BY DEF IInv, Members, GoTo
<1>1. /\ \A u \in Users : row[u] \in Row
      /\ rev[t] \in Revision /\ rev[t] <= revision
      /\ rev[t] \in Nat /\ revision \in Nat
      /\ \A u \in Users : row[u].revision \in Nat
  BY <1>0, ProjectionAssumption DEF TypeOK, Bounded, Revision, Row
<1>2. ASSUME NEW u \in Users
      PROVE  /\ new[u] \in ViewRow /\ new[u].revision <= revision
             /\ Kept(u) => Excluding(new[u]) /\ new[u].revision = row[u].revision
  <2>1. /\ row[u] \in Row /\ row[u].revision <= revision /\ new[u] = Projected(row[u], rev[t])
        /\ row[u].revision \in Revision
    BY <1>0, <1>1 DEF Bounded, Row, Revision
  <2>2. CASE row[u].hold = "over"
    <3>1. new[u] = [state |-> "released", revision |-> rev[t]]
      BY <2>1, <2>2 DEF Projected
    <3> QED
      BY <1>1, <2>2, <3>1 DEF ViewRow, Kept, Excluding
  <2>3. CASE row[u].hold # "over"
    <3>1. new[u] = [state |-> row[u].state, revision |-> row[u].revision]
      BY <2>1, <2>3 DEF Projected
    <3> QED
      BY <2>1, <3>1 DEF ViewRow, Row, Kept, Excluding
  <2> QED
    BY <2>2, <2>3
<1>3. new \in [Users -> ViewRow]
  BY <1>2
<1> HIDE DEF new
<1>4. TypeOK'
  BY <1>0, <1>3 DEF TypeOK, ledger
<1>5. /\ batch'[t] = new /\ pc'[t] = "insert"
      /\ \A x \in Loads \ {t} : batch'[x] = batch[x] /\ pc'[x] = pc[x]
  BY <1>0, <1>3 DEF TypeOK
<1>6. Bounded'
  <2>1. \A x \in Loads : \A u \in Users : batch'[x][u].revision <= revision
    BY <1>0, <1>2, <1>5 DEF Bounded
  <2> QED
    BY <1>0, <2>1 DEF Bounded, ledger, Kept
<1>7. Current(view)' /\ \A a \in applied' : Covers(view, a)'
  BY <1>0 DEF IInv, Current, Covers, Kept, ledger
<1>8. ASSUME NEW x \in Loads PROVE LoadOK(x)'
  <2>1. CASE x = t
    <3>1. Current(batch[t])' /\ Covers(batch[t], rev[t])'
      BY <1>0, <1>1, <1>2, <1>5 DEF Current, Covers, Kept, ledger
    <3> QED
      BY <1>5, <2>1, <3>1 DEF LoadOK
  <2>2. CASE x # t
    <3>1. LoadOK(x)
      BY DEF IInv
    <3> QED
      BY <1>0, <1>5, <2>2, <3>1 DEF LoadOK, Current, Covers, Kept, ledger
  <2> QED
    BY <2>1, <2>2
<1> QED
  BY <1>4, <1>6, <1>7, <1>8 DEF IInv

(* Rows that are written late take nothing away.                            *)
LEMMA InsertStep ==
  ASSUME IInv, NEW t \in Loads, Insert(t)
  PROVE  IInv'
<1>0. /\ TypeOK /\ Bounded /\ UNCHANGED <<ledger, applied, rev, count, batch>>
      /\ pc[t] = "insert" /\ pc' = [pc EXCEPT ![t] = "checkpoint"]
      /\ view' \in Merged(view, batch[t])
      /\ Current(view) /\ LoadOK(t)
  BY DEF IInv, Insert, GoTo
<1>1. /\ view' \in [Users -> ViewRow]
      /\ \A u \in Users :
           \/ /\ view'[u] = batch[t][u] /\ batch[t][u].state # "none"
              /\ batch[t][u].revision >= view[u].revision
           \/ /\ view'[u] = view[u]
              /\ \/ batch[t][u].state = "none"
                 \/ view[u].revision >= batch[t][u].revision
  BY <1>0 DEF Merged
<1>2. TypeOK'
  BY <1>0, <1>1 DEF TypeOK, ledger
<1>3. \A u \in Users : /\ view[u].revision \in Nat /\ batch[t][u].revision \in Nat
                       /\ row[u].revision \in Nat
  BY <1>0, ProjectionAssumption DEF TypeOK, ViewRow, Row, Revision
<1>4. Bounded'
  <2>1. \A u \in Users : view'[u].revision <= revision
    BY <1>0, <1>1 DEF Bounded
  <2> QED
    BY <1>0, <2>1 DEF Bounded, ledger, Kept
<1>5. Current(batch[t]) /\ Covers(batch[t], rev[t])
  BY <1>0 DEF LoadOK
<1>6. Current(view)'
  <2>1. \A u \in Users : Kept(u) /\ view'[u].revision >= row[u].revision =>
          Excluding(view'[u])
    BY <1>0, <1>1, <1>5 DEF Current
  <2> QED
    BY <1>0, <2>1 DEF Current, Kept, ledger
<1>7. ASSUME NEW n \in Revision, Covers(view, n)
      PROVE  \A u \in Users : Kept(u) /\ row[u].revision <= n =>
               Excluding(view'[u]) /\ view'[u].revision >= row[u].revision
  <2>1. SUFFICES ASSUME NEW u \in Users, Kept(u), row[u].revision <= n
                 PROVE  Excluding(view'[u]) /\ view'[u].revision >= row[u].revision
    OBVIOUS
  <2>2. Excluding(view[u]) /\ view[u].revision >= row[u].revision
    BY <1>7, <2>1 DEF Covers
  <2> QED
    BY <1>1, <1>3, <1>5, <2>1, <2>2 DEF Current
<1>8. ASSUME NEW u \in Users, Kept(u), row[u].revision <= rev[t]
      PROVE  Excluding(view'[u]) /\ view'[u].revision >= row[u].revision
  <2>1. /\ Excluding(batch[t][u]) /\ batch[t][u].revision >= row[u].revision
        /\ batch[t][u].state # "none"
    BY <1>5, <1>8 DEF Covers, Excluding
  <2>2. CASE view'[u] = batch[t][u]
    BY <2>1, <2>2
  <2>3. CASE view'[u] = view[u] /\ view[u].revision >= batch[t][u].revision
    BY <1>0, <1>3, <1>8, <2>1, <2>3 DEF Current
  <2> QED
    BY <1>1, <2>1, <2>2, <2>3
<1>9. \A a \in applied' : Covers(view, a)'
  BY <1>0, <1>7 DEF IInv, TypeOK, Covers, Kept, ledger
<1>10. ASSUME NEW x \in Loads PROVE LoadOK(x)'
  <2>1. LoadOK(x) /\ rev[x] \in Revision
    BY <1>0 DEF IInv, TypeOK
  <2>2. Current(batch[x])'
    BY <1>0, <2>1 DEF LoadOK, Current, Kept, ledger
  <2>3. CASE x = t
    <3>1. pc'[t] = "checkpoint"
      BY <1>0 DEF TypeOK
    <3>2. Covers(view, rev[t])'
      BY <1>0, <1>8 DEF Covers, Kept, ledger
    <3> QED
      BY <2>2, <2>3, <3>1, <3>2 DEF LoadOK
  <2>4. CASE x # t
    <3>1. pc'[x] = pc[x]
      BY <1>0, <2>4 DEF TypeOK
    <3>2. pc[x] = "insert" => Covers(batch[x], rev[x])'
      BY <1>0, <2>1 DEF LoadOK, Covers, Kept, ledger
    <3>3. pc[x] = "checkpoint" => Covers(view, rev[x])'
      BY <1>0, <1>7, <2>1 DEF LoadOK, Covers, Kept, ledger
    <3> QED
      BY <2>2, <3>1, <3>2, <3>3 DEF LoadOK
  <2> QED
    BY <2>3, <2>4
<1> QED
  BY <1>2, <1>4, <1>6, <1>9, <1>10 DEF IInv

LEMMA Invariance == Spec => []IInv
<1>1. IInv /\ [Next]_vars => IInv'
  <2>1. SUFFICES ASSUME IInv, [Next]_vars PROVE IInv'
    OBVIOUS
  <2>2. CASE UNCHANGED vars
    <3>1. UNCHANGED <<revision, row, view, applied, pc, rev, count, batch>>
      BY <2>2 DEF vars, ledger
    <3>2. TypeOK' /\ Bounded'
      BY <2>1, <3>1 DEF IInv, TypeOK, Bounded, Kept
    <3>3. Current(view)' /\ \A a \in applied' : Covers(view, a)'
      BY <2>1, <3>1 DEF IInv, Current, Covers, Kept
    <3>4. \A t \in Loads : LoadOK(t)'
      BY <2>1, <3>1 DEF IInv, LoadOK, Current, Covers, Kept
    <3> QED
      BY <3>2, <3>3, <3>4 DEF IInv
  <2>3. CASE Write
    BY <2>1, <2>3, WriteStep
  <2>4. ASSUME NEW t \in Loads,
               \/ Load(t) \/ Compare(t) \/ Members(t) \/ Insert(t)
               \/ Checkpoint(t) \/ Leave(t)
        PROVE  IInv'
    BY <2>1, <2>4, LocalStep, MembersStep, InsertStep
  <2> QED
    BY <2>1, <2>2, <2>3, <2>4 DEF Next
<1> QED
  BY InitIInv, <1>1, PTL DEF Spec

(* Every variable keeps its type.                                           *)
THEOREM TypeCorrect == Spec => []TypeOK
<1>1. IInv => TypeOK
  BY DEF IInv
<1> QED
  BY Invariance, <1>1, PTL

(* Whoever was excluded by a revision that ClickHouse claims to have, and   *)
(* is still kept, is excluded there, whichever loads raced or were cut off, *)
(* and whatever targets were stopped or runs ended without a revision.      *)
THEOREM StatusCoversMembers == Spec => []CheckpointCovers
<1>1. IInv => CheckpointCovers
  BY DEF IInv, CheckpointCovers, Covers
<1> QED
  BY Invariance, <1>1, PTL

(* A current status and equal numbers of users mean equal sets of users, as *)
(* long as none is excluded by a stopped target that was approved again.    *)
THEOREM CountsAreEnough == Spec => []EqualCountsSuffice
<1>1. IInv => EqualCountsSuffice
  <2>1. SUFFICES ASSUME IInv, \A u \in Excluded : Kept(u),
                        NEW a \in applied, a >= revision,
                        Cardinality(Viewed) = Cardinality(Excluded)
                 PROVE  Viewed = Excluded
    BY DEF EqualCountsSuffice
  <2>2. IsFiniteSet(Viewed)
    BY ProjectionAssumption, FS_Subset DEF Viewed
  <2>3. Excluded \subseteq Viewed
    <3>1. ASSUME NEW u \in Users, Active(u)
          PROVE  Excluding(view[u])
      <4>1. /\ row[u].revision \in Nat /\ revision \in Nat /\ a \in Nat
            /\ row[u].revision <= revision
        BY <2>1, ProjectionAssumption DEF IInv, TypeOK, Row, Revision, Bounded
      <4> QED
        BY <2>1, <3>1, <4>1 DEF IInv, Covers, Excluded
    <3> QED
      BY <3>1 DEF Excluded, Viewed
  <2> QED
    BY <2>1, <2>2, <2>3, FS_Subset
<1> QED
  BY Invariance, <1>1, PTL
=============================================================================
