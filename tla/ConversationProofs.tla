------------------------- MODULE ConversationProofs -------------------------
(***************************************************************************)
(* The safety properties of ConversationTurns, and that it implements      *)
(* TurnContract, for every finite set of requests, every way of addressing *)
(* the conversation and every number of earlier turns. Below them, those   *)
(* of RollingSummary, for every window, trigger and number of turns.       *)
(***************************************************************************)
EXTENDS ConversationTurns, RollingSummary, FiniteSetTheorems, WellFoundedInduction, TLAPS

-----------------------------------------------------------------------------
(* The inductive invariant, in parts.                                      *)

\* The run holds the registry's entry.
Holds(r) == run[r] \in {"active", "undoing"} /\ way[r] # "legacy"

\* Mutual exclusion, of the runs by the registry and of the transactions by
\* the row lock.
LockInv ==
    /\ \A r \in Requests : Holds(r) => registry
    /\ \A q, r \in Requests : Holds(q) /\ Holds(r) => q = r
    /\ \A q, r \in Requests : save[q] = "open" /\ save[r] = "open" => q = r

\* How a request's progress and its transaction go together.
ProgressInv == \A r \in Requests :
    /\ run[r] = "idle" => way[r] = "none"
    /\ run[r] # "idle" => way[r] # "none"
    /\ run[r] \in {"idle", "resolved", "refused"} => save[r] = "none"
    /\ save[r] \in {"entered", "open"} => run[r] = "active" \/ r \in abandoned
    /\ run[r] = "answered" => save[r] = "committed"
    /\ run[r] = "undoing" => way[r] = "stream"
    /\ created[r] => save[r] \in {"open", "committed", "failed"}
    /\ r \in turns => save[r] = "committed"

\* Turns live in a stored conversation; what the client was told of is there,
\* and a run that created the conversation and is not over is alone in it.
RowsInv ==
    /\ turns # {} => exists
    /\ ~Bypassed => \A r \in Requests :
        /\ run[r] = "answered" => r \in turns
        /\ run[r] = "active" /\ save[r] = "committed" => r \in turns
        /\ created[r] /\ Holds(r) => \A q \in Requests : run[q] # "answered"

Orderly == ~deleted \/ (~Bypassed /\ abandoned = {})

\* The indexes are dense; an open transaction has counted every stored turn,
\* and a run that may still be undone has stored the last one.
IndexInv == Orderly =>
    /\ Dense
    /\ \A r \in Requests : save[r] = "open" => index[r] = NextIndex
    /\ ~Bypassed /\ abandoned = {} => \A r \in turns :
        Holds(r) => index[r] = past + Cardinality(turns) - 1

IInv == TypeOK /\ LockInv /\ ProgressInv /\ RowsInv /\ IndexInv
-----------------------------------------------------------------------------
(* Type correctness.                                                       *)

\* The requests have not arrived yet.
LEMMA TypeOKInit == Init => TypeOK
<1> SUFFICES ASSUME Init PROVE TypeOK
  OBVIOUS
<1>1. exists \in BOOLEAN /\ registry \in BOOLEAN /\ deleted \in BOOLEAN
  BY Zenon DEF Init
<1> QED
  BY <1>1, MaxPastAssumption DEF Init, TypeOK

\* The number of stored turns is a number, and counts one up or down with them.
LEMMA TurnsCounted ==
    ASSUME TypeOK
    PROVE  /\ IsFiniteSet(turns) /\ Cardinality(turns) \in Nat
           /\ NextIndex \in Nat
           /\ \A r \in Requests \ turns :
                Cardinality(turns \cup {r}) = Cardinality(turns) + 1
           /\ \A r \in turns : Cardinality(turns \ {r}) = Cardinality(turns) - 1
<1>1. IsFiniteSet(turns)
  BY RequestsAssumption, FS_Subset DEF TypeOK
<1>2. Cardinality(turns) \in Nat
  BY <1>1, FS_CardinalityType
<1> QED
  BY <1>1, <1>2, FS_AddElement, FS_RemoveElement DEF NextIndex, TypeOK

\* The two flags that operations compute.
LEMMA FlagsStep ==
    ASSUME TypeOK, Next
    PROVE  registry' \in BOOLEAN /\ exists' \in BOOLEAN /\ deleted' \in BOOLEAN
<1> PICK r \in Requests : Provision(r) \/ (\E w \in Ways : Resolve(r, w)) \/ Run(r)
                         \/ Transaction(r)
  BY DEF Next
<1>1. registry \in BOOLEAN /\ exists \in BOOLEAN /\ deleted \in BOOLEAN
  BY DEF TypeOK
<1>2. CASE Provision(r) \/ (\E w \in Ways : Resolve(r, w))
  BY <1>1, <1>2, Zenon DEF Provision, Resolve, rows
<1>3. CASE Run(r)
  BY <1>1, <1>3, Zenon DEF Run, Acquire, EnterPersist, Succeed, FailJson, FailStream, Undo,
     Release, Delete, rows
<1>4. CASE Transaction(r)
  BY <1>1, <1>4, Zenon DEF Transaction, BeginSave, CommitSave, RollbackSave, rows
<1> QED
  BY <1>2, <1>3, <1>4

\* Every step of every request keeps the types.
LEMMA TypeOKStep == TypeOK /\ [Next]_vars => TypeOK'
<1> SUFFICES ASSUME TypeOK, [Next]_vars PROVE TypeOK'
  OBVIOUS
<1>1. CASE UNCHANGED vars
  BY <1>1 DEF vars, TypeOK
<1>2. CASE Next
  <2>1. registry' \in BOOLEAN /\ exists' \in BOOLEAN /\ deleted' \in BOOLEAN
    BY <1>2, FlagsStep
  <2> PICK r \in Requests : Provision(r) \/ (\E w \in Ways : Resolve(r, w)) \/ Run(r)
                           \/ Transaction(r)
    BY <1>2 DEF Next
  <2> USE <2>1 DEF TypeOK, rows, txns
  <2>2. CASE Provision(r)
    BY <2>2, WaysAssumption DEF Provision
  <2>3. CASE \E w \in Ways : Resolve(r, w)
    BY <2>3, WaysAssumption DEF Resolve
  <2>4. CASE Acquire(r)
    BY <2>4 DEF Acquire
  <2>5. CASE EnterPersist(r)
    BY <2>5 DEF EnterPersist
  <2>6. CASE Succeed(r)
    BY <2>6 DEF Succeed
  <2>7. CASE FailJson(r)
    BY <2>7 DEF FailJson
  <2>8. CASE FailStream(r)
    BY <2>8 DEF FailStream
  <2>9. CASE Undo(r)
    BY <2>9 DEF Undo, Delete
  <2>10. CASE BeginSave(r)
    BY <2>10, TurnsCounted DEF BeginSave
  <2>11. CASE CommitSave(r)
    BY <2>11 DEF CommitSave
  <2>12. CASE RollbackSave(r)
    BY <2>12 DEF RollbackSave
  <2> QED
    BY <2>2, <2>3, <2>4, <2>5, <2>6, <2>7, <2>8, <2>9, <2>10, <2>11, <2>12 DEF Run, Transaction
<1> QED
  BY <1>1, <1>2

\* Every variable keeps to its type in every reachable state.
THEOREM TypeCorrect == Spec => []TypeOK
BY TypeOKInit, TypeOKStep, PTL DEF Spec
-----------------------------------------------------------------------------
(* The inductive invariant.                                                *)

\* Before any request arrives nothing is locked, written or undone.
LEMMA IInvInit == Init => IInv
<1> SUFFICES ASSUME Init PROVE IInv
  OBVIOUS
<1>1. TypeOK
  BY TypeOKInit
<1>2. LockInv /\ ProgressInv
  BY DEF Init, LockInv, ProgressInv, Holds
<1>3. RowsInv /\ IndexInv
  BY DEF Init, RowsInv, IndexInv, Dense, Holds
<1> QED
  BY <1>1, <1>2, <1>3 DEF IInv

\* The steps of one request.
Step(r) == Provision(r) \/ (\E w \in Ways : Resolve(r, w)) \/ Run(r) \/ Transaction(r)

\* A request changes its own progress and transaction only.
LEMMA OwnStep ==
    ASSUME TypeOK, NEW r \in Requests, Step(r), NEW q \in Requests, q # r
    PROVE  /\ way'[q] = way[q] /\ run'[q] = run[q] /\ save'[q] = save[q]
           /\ index'[q] = index[q] /\ created'[q] = created[q]
<1> USE DEF TypeOK, rows, txns
<1>1. CASE Provision(r)
  BY <1>1 DEF Provision
<1>2. CASE \E w \in Ways : Resolve(r, w)
  BY <1>2 DEF Resolve
<1>3. CASE Acquire(r)
  BY <1>3 DEF Acquire
<1>4. CASE EnterPersist(r)
  BY <1>4 DEF EnterPersist
<1>5. CASE Succeed(r)
  BY <1>5 DEF Succeed
<1>6. CASE FailJson(r)
  BY <1>6 DEF FailJson
<1>7. CASE FailStream(r)
  BY <1>7 DEF FailStream
<1>8. CASE Undo(r)
  BY <1>8 DEF Undo
<1>9. CASE BeginSave(r)
  BY <1>9 DEF BeginSave
<1>10. CASE CommitSave(r)
  BY <1>10 DEF CommitSave
<1>11. CASE RollbackSave(r)
  BY <1>11 DEF RollbackSave
<1> QED
  BY <1>1, <1>2, <1>3, <1>4, <1>5, <1>6, <1>7, <1>8, <1>9, <1>10, <1>11 DEF Step, Run, Transaction

\* The registry admits one run at a time, and the row lock one transaction.
LEMMA LockStep == ASSUME IInv, NEW r \in Requests, Step(r) PROVE LockInv'
<1> USE DEF IInv, TypeOK, LockInv, ProgressInv, Holds, rows, txns
<1>0. \A q \in Requests : q # r =>
        way'[q] = way[q] /\ run'[q] = run[q] /\ save'[q] = save[q]
  BY OwnStep
<1>1. CASE Provision(r)
  BY <1>0, <1>1 DEF Provision
<1>2. CASE \E w \in Ways : Resolve(r, w)
  BY <1>0, <1>2 DEF Resolve
<1>3. CASE Acquire(r)
  <2>1. registry => registry'
    BY <1>3, Zenon DEF Acquire
  <2>2. run'[r] = "active" /\ way[r] # "legacy" => ~registry /\ registry'
    BY <1>3, Zenon DEF Acquire, Free
  <2>3. UNCHANGED <<way, save>> /\ run'[r] # "undoing"
    BY <1>3 DEF Acquire
  <2> QED
    BY <1>0, <2>1, <2>2, <2>3
<1>4. CASE EnterPersist(r)
  BY <1>0, <1>4 DEF EnterPersist
<1>5. CASE Succeed(r)
  BY <1>0, <1>5 DEF Succeed, Release
<1>6. CASE FailJson(r)
  BY <1>0, <1>6 DEF FailJson, Release
<1>7. CASE FailStream(r)
  BY <1>0, <1>7 DEF FailStream
<1>8. CASE Undo(r)
  BY <1>0, <1>8 DEF Undo, Release
<1>9. CASE BeginSave(r)
  BY <1>0, <1>9 DEF BeginSave, RowFree
<1>10. CASE CommitSave(r)
  BY <1>0, <1>10 DEF CommitSave
<1>11. CASE RollbackSave(r)
  BY <1>0, <1>11 DEF RollbackSave
<1> QED
  BY <1>1, <1>2, <1>3, <1>4, <1>5, <1>6, <1>7, <1>8, <1>9, <1>10, <1>11 DEF Step, Run, Transaction

\* Progress and transaction of each request stay in step.
LEMMA ProgressStep == ASSUME IInv, NEW r \in Requests, Step(r) PROVE ProgressInv'
<1> USE DEF IInv, TypeOK, ProgressInv, rows, txns
<1>0. \A q \in Requests : q # r =>
        way'[q] = way[q] /\ run'[q] = run[q] /\ save'[q] = save[q] /\ created'[q] = created[q]
  BY OwnStep
<1>1. CASE Provision(r)
  BY <1>0, <1>1 DEF Provision
<1>2. CASE \E w \in Ways : Resolve(r, w)
  BY <1>0, <1>2, WaysAssumption DEF Resolve
<1>3. CASE Acquire(r)
  BY <1>0, <1>3 DEF Acquire
<1>4. CASE EnterPersist(r)
  BY <1>0, <1>4 DEF EnterPersist
<1>5. CASE Succeed(r)
  BY <1>0, <1>5 DEF Succeed, Saved
<1>6. CASE FailJson(r)
  BY <1>0, <1>6 DEF FailJson
<1>7. CASE FailStream(r)
  BY <1>0, <1>7 DEF FailStream
<1>8. CASE Undo(r)
  BY <1>0, <1>8 DEF Undo, Delete, Saved
<1>9. CASE BeginSave(r)
  BY <1>0, <1>9 DEF BeginSave
<1>10. CASE CommitSave(r)
  BY <1>0, <1>10 DEF CommitSave
<1>11. CASE RollbackSave(r)
  BY <1>0, <1>11 DEF RollbackSave
<1> QED
  BY <1>1, <1>2, <1>3, <1>4, <1>5, <1>6, <1>7, <1>8, <1>9, <1>10, <1>11 DEF Step, Run, Transaction

\* How a client addressed the conversation is decided once, on arrival; what
\* breaks the order is never forgotten.
LEMMA NothingForgotten ==
    ASSUME IInv, NEW r \in Requests, Step(r)
    PROVE  /\ Bypassed => Bypassed'
           /\ abandoned \subseteq abandoned'
           /\ deleted => deleted'
<1> USE DEF IInv, TypeOK, rows, txns
<1>1. \A q \in Requests : way[q] = "legacy" => way'[q] = "legacy"
  <2>0. \A q \in Requests : q # r => way'[q] = way[q]
    BY OwnStep
  <2>1. CASE run[r] = "idle"
    BY <2>0, <2>1 DEF ProgressInv
  <2>2. CASE run[r] # "idle"
    <3>1. way' = way
      BY <2>2 DEF Step, Run, Transaction, Provision, Resolve, Acquire, EnterPersist, Succeed,
         FailJson, FailStream, Undo, BeginSave, CommitSave, RollbackSave
    <3> QED
      BY <3>1
  <2> QED
    BY <2>1, <2>2
<1>2. abandoned \subseteq abandoned'
  BY DEF Step, Run, Transaction, Provision, Resolve, Acquire, EnterPersist, Succeed,
     FailJson, FailStream, Undo, BeginSave, CommitSave, RollbackSave
<1>3. deleted => deleted'
  BY Zenon DEF Step, Run, Transaction, Provision, Resolve, Acquire, EnterPersist, Succeed,
     FailJson, FailStream, Undo, BeginSave, CommitSave, RollbackSave
<1> QED
  BY <1>1, <1>2, <1>3 DEF Bypassed

\* Answered turns stay stored, and no run in progress could take them along.
LEMMA RowsStep == ASSUME IInv, NEW r \in Requests, Step(r) PROVE RowsInv'
<1> USE DEF IInv, TypeOK, LockInv, ProgressInv, RowsInv, Bypassed, Holds, rows, txns
<1>0. \A q \in Requests : q # r =>
        way'[q] = way[q] /\ run'[q] = run[q] /\ save'[q] = save[q] /\ created'[q] = created[q]
  BY OwnStep
<1>b. Bypassed => Bypassed'
  BY NothingForgotten
<1>1. CASE Provision(r)
  BY <1>0, <1>b, <1>1 DEF Provision
<1>2. CASE \E w \in Ways : Resolve(r, w)
  BY <1>0, <1>b, <1>2 DEF Resolve
<1>3. CASE Acquire(r)
  BY <1>0, <1>b, <1>3 DEF Acquire, Free
<1>4. CASE EnterPersist(r)
  BY <1>0, <1>b, <1>4 DEF EnterPersist
<1>5. CASE Succeed(r)
  BY <1>0, <1>b, <1>5 DEF Succeed, Saved
<1>6. CASE FailJson(r)
  BY <1>0, <1>b, <1>6 DEF FailJson
<1>7. CASE FailStream(r)
  BY <1>0, <1>b, <1>7 DEF FailStream
<1>8. CASE Undo(r)
  BY <1>0, <1>b, <1>8 DEF Undo, Delete, Saved
<1>9. CASE BeginSave(r)
  BY <1>0, <1>b, <1>9 DEF BeginSave, RowFree
<1>10. CASE CommitSave(r)
  BY <1>0, <1>b, <1>10 DEF CommitSave
<1>11. CASE RollbackSave(r)
  BY <1>0, <1>b, <1>11 DEF RollbackSave
<1> QED
  BY <1>1, <1>2, <1>3, <1>4, <1>5, <1>6, <1>7, <1>8, <1>9, <1>10, <1>11 DEF Step, Run, Transaction

\* A step that touches no turn row and opens no transaction keeps the indexes.
LEMMA IndexKept ==
    ASSUME IInv, NEW r \in Requests, Step(r), UNCHANGED <<past, turns, index>>,
           save'[r] # "open" \/ save'[r] = save[r],
           run'[r] \in {"active", "undoing"} => run[r] \in {"active", "undoing"} \/ r \notin turns,
           way'[r] = way[r] \/ run'[r] \notin {"active", "undoing"}
    PROVE  IndexInv'
<1> USE DEF IInv, TypeOK, IndexInv
<1>0. \A q \in Requests : q # r =>
        way'[q] = way[q] /\ run'[q] = run[q] /\ save'[q] = save[q]
  BY OwnStep
<1>1. (Orderly' => Orderly) /\ (Bypassed => Bypassed') /\ abandoned \subseteq abandoned'
  BY NothingForgotten DEF Orderly
<1>2. Dense' <=> Dense
  BY DEF Dense
<1>3. NextIndex' = NextIndex
  BY DEF NextIndex
<1>4. ASSUME NEW q \in Requests PROVE save'[q] = "open" => save[q] = "open"
  BY <1>0
<1>5. ASSUME NEW q \in turns PROVE Holds(q)' => Holds(q)
  BY <1>0, <1>5 DEF Holds
<1> QED
  BY <1>1, <1>2, <1>3, <1>4, <1>5

\* Every step keeps the indexes dense: an open transaction counts under the row
\* lock, a compensation removes the last index.
LEMMA IndexStep == ASSUME IInv, NEW r \in Requests, Step(r) PROVE IndexInv'
<1> USE DEF IInv, TypeOK, rows, txns
<1>0. \A q \in Requests : q # r =>
        /\ way'[q] = way[q] /\ run'[q] = run[q] /\ save'[q] = save[q]
        /\ index'[q] = index[q] /\ created'[q] = created[q]
  BY OwnStep
<1>a. (Orderly' => Orderly) /\ (Bypassed => Bypassed') /\ abandoned \subseteq abandoned'
  BY NothingForgotten DEF Orderly
<1>c. IsFiniteSet(turns) /\ Cardinality(turns) \in Nat /\ NextIndex \in Nat
  BY TurnsCounted
<1>1. CASE Provision(r)
  BY <1>1, IndexKept DEF Provision, ProgressInv
<1>2. CASE \E w \in Ways : Resolve(r, w)
  BY <1>2, IndexKept DEF Resolve, ProgressInv
<1>3. CASE Acquire(r)
  BY <1>3, IndexKept DEF Acquire, ProgressInv
<1>4. CASE EnterPersist(r)
  BY <1>4, IndexKept DEF EnterPersist, ProgressInv
<1>5. CASE Succeed(r)
  BY <1>5, IndexKept DEF Succeed, ProgressInv
<1>6. CASE FailJson(r)
  BY <1>6, IndexKept DEF FailJson, ProgressInv
<1>7. CASE FailStream(r)
  BY <1>7, IndexKept DEF FailStream, ProgressInv
<1>8. CASE RollbackSave(r)
  BY <1>8, IndexKept DEF RollbackSave, ProgressInv
<1>9. CASE BeginSave(r)
  <2>1. r \notin turns /\ UNCHANGED <<past, turns, run, way, abandoned, deleted>>
    BY <1>9 DEF BeginSave, ProgressInv
  <2>2. index'[r] = NextIndex /\ NextIndex' = NextIndex
    BY <1>9, <2>1 DEF BeginSave, NextIndex
  <2>3. \A q \in turns : index'[q] = index[q] /\ (Holds(q)' <=> Holds(q))
    BY <1>0, <2>1 DEF Holds
  <2>4. Dense' <=> Dense
    BY <2>1, <2>3 DEF Dense
  <2>5. \A q \in Requests : save'[q] = "open" => q = r
    BY <1>0, <1>9 DEF BeginSave, RowFree
  <2> QED
    BY <1>a, <2>1, <2>2, <2>3, <2>4, <2>5 DEF IndexInv
<1>10. CASE CommitSave(r)
  <2>1. /\ r \notin turns /\ turns' = turns \cup {r}
        /\ UNCHANGED <<past, run, way, index, abandoned, deleted>>
    BY <1>10 DEF CommitSave, ProgressInv
  <2>2. Cardinality(turns') = Cardinality(turns) + 1
    BY <2>1, TurnsCounted
  <2>3. \A q \in Requests : save'[q] # "open"
    BY <1>0, <1>10 DEF CommitSave, LockInv
  <2> SUFFICES ASSUME Orderly' PROVE Dense' /\ (~Bypassed' /\ abandoned' = {} =>
                 \A q \in turns' : Holds(q)' => index'[q] = past' + Cardinality(turns') - 1)
    BY <2>3 DEF IndexInv
  <2>4. Dense /\ index[r] = past + Cardinality(turns)
    BY <1>a, <1>10 DEF IndexInv, CommitSave, NextIndex
  <2>5. Dense'
    BY <1>c, <2>1, <2>2, <2>4 DEF Dense
  <2>6. ASSUME ~Bypassed', abandoned' = {}, NEW q \in turns', Holds(q)' PROVE q = r
    <3>1. run[r] = "active" /\ way[r] # "legacy"
      BY <1>10, <1>a, <2>1, <2>6 DEF CommitSave, ProgressInv, Bypassed
    <3> QED
      BY <2>1, <2>6, <3>1 DEF Holds, LockInv
  <2> QED
    BY <1>c, <2>1, <2>2, <2>4, <2>5, <2>6
<1>11. CASE Undo(r)
  <2>1. /\ run[r] = "undoing" /\ run'[r] = "failed"
        /\ UNCHANGED <<past, save, index, way, abandoned>>
    BY <1>11 DEF Undo
  <2>2. CASE UNCHANGED rows
    BY <2>1, <2>2, IndexKept
  <2>3. CASE Saved(r) /\ Delete(r) /\ deleted' = TRUE
    <3>0. turns' \subseteq Requests
      BY <2>3 DEF Delete
    <3> SUFFICES ASSUME Orderly' PROVE Dense' /\ (\A q \in Requests : save'[q] # "open")
                   /\ (\A q \in Requests : ~Holds(q)')
      BY <3>0 DEF IndexInv
    <3>1. Orderly /\ ~Bypassed /\ abandoned = {}
      BY <1>a, <2>1, <2>3 DEF Orderly
    <3>2. Holds(r) /\ save[r] = "committed"
      BY <2>1, <2>3, <3>1 DEF Holds, Bypassed, Saved
    <3>3. ASSUME NEW q \in Requests PROVE ~Holds(q)'
      BY <1>0, <2>1, <3>2, <3>3 DEF Holds, LockInv
    <3>4. ASSUME NEW q \in Requests PROVE save'[q] # "open"
      BY <2>1, <3>1, <3>2 DEF Holds, LockInv, ProgressInv, Bypassed
    <3>5. Dense'
      <4>1. CASE turns' = {}
        BY <4>1 DEF Dense
      <4>2. CASE r \notin turns /\ turns' = turns
        BY <2>1, <3>1, <4>2 DEF Dense, IndexInv
      <4>3. CASE r \in turns /\ turns' = turns \ {r}
        <5>1. Cardinality(turns') = Cardinality(turns) - 1
          BY <4>3, TurnsCounted
        <5>2. Dense /\ index[r] = past + Cardinality(turns) - 1
          BY <3>1, <3>2, <4>3 DEF IndexInv
        <5> QED
          BY <1>c, <2>1, <4>3, <5>1, <5>2 DEF Dense
      <4> QED
        BY <2>3, <4>1, <4>2, <4>3 DEF Delete
    <3> QED
      BY <3>3, <3>4, <3>5
  <2> QED
    BY <1>11, <2>2, <2>3 DEF Undo
<1> QED
  BY <1>1, <1>2, <1>3, <1>4, <1>5, <1>6, <1>7, <1>8, <1>9, <1>10, <1>11
  DEF Step, Run, Transaction

\* The invariant is inductive.
LEMMA IInvStep == IInv /\ [Next]_vars => IInv'
<1> SUFFICES ASSUME IInv, [Next]_vars PROVE IInv'
  OBVIOUS
<1>1. TypeOK'
  BY TypeOKStep DEF IInv
<1>2. CASE UNCHANGED vars
  BY <1>1, <1>2 DEF vars, IInv, LockInv, ProgressInv, RowsInv, IndexInv, Orderly, Bypassed,
     Dense, NextIndex, Holds
<1>3. CASE Next
  <2> PICK r \in Requests : Step(r)
    BY <1>3 DEF Next, Step
  <2> QED
    BY <1>1, LockStep, ProgressStep, RowsStep, IndexStep DEF IInv
<1> QED
  BY <1>2, <1>3

\* The inductive invariant holds in every reachable state: the runs exclude each
\* other, and the run that may still be undone has stored the last turn.
THEOREM Invariance == Spec => []IInv
BY IInvInit, IInvStep, PTL DEF Spec

-----------------------------------------------------------------------------
(* The properties.                                                         *)

\* The turn indexes have neither hole nor duplicate.
THEOREM IndexesDense == Spec => []IndexesAreDense
<1>1. IInv => IndexesAreDense
  BY DEF IInv, IndexInv, Orderly, IndexesAreDense
<1> QED
  BY <1>1, Invariance, PTL

\* An answered request's turn is never lost.
THEOREM AnsweredKept == Spec => []AnsweredIsKept
<1>1. IInv => AnsweredIsKept
  BY DEF IInv, RowsInv, AnsweredIsKept
<1> QED
  BY <1>1, Invariance, PTL

\* The endpoints implement the contract of the turns: a step of a request stores
\* a turn once, withdraws what was not answered, or tells of what is stored.
THEOREM Implements == Spec => KeepsContract
<1> DEFINE withdrawn == {r \in Requests : save[r] = "committed"} \ turns
           told == {r \in Requests : run[r] = "answered"}
<1>1. Init => Contract!Init
  BY DEF Init, Contract!Init, Bypassed
<1>2. IInv /\ [Next]_vars => [Contract!Next]_(Contract!vars)
  <2> SUFFICES ASSUME IInv, [Next]_vars PROVE Contract!Next \/ UNCHANGED Contract!vars
    OBVIOUS
  <2> USE DEF IInv, TypeOK, rows, txns
  <2>1. CASE UNCHANGED vars
    BY <2>1 DEF vars, Contract!vars, Bypassed
  <2>2. CASE Next
    <3> PICK r \in Requests : Step(r)
      BY <2>2 DEF Next, Step
    <3>0. \A q \in Requests : q # r =>
            way'[q] = way[q] /\ run'[q] = run[q] /\ save'[q] = save[q]
      BY OwnStep
    <3>1. CASE way' # way
      <4>1. Provision(r) \/ \E w \in Ways : Resolve(r, w)
        BY <3>1 DEF Step, Run, Transaction, Acquire, EnterPersist, Succeed, FailJson,
           FailStream, Undo, BeginSave, CommitSave, RollbackSave
      <4>2. UNCHANGED <<turns, save>> /\ run[r] = "idle" /\ run'[r] \in {"resolved", "refused"}
        BY <4>1 DEF Provision, Resolve
      <4>3. UNCHANGED <<turns, withdrawn, told>>
        BY <3>0, <4>2
      <4>4. (Bypassed' = Bypassed) \/ (Bypassed' = TRUE)
        BY NothingForgotten, Zenon DEF Bypassed
      <4> QED
        BY <4>3, <4>4, Zenon DEF Contract!Next, Contract!Bypass, Contract!vars
    <3>2. CASE way' = way
      <4>0. Bypassed' = Bypassed
        BY <3>2, Zenon DEF Bypassed
      <4>1. CASE CommitSave(r)
        <5>1. r \notin turns \cup withdrawn /\ turns' = turns \cup {r} /\ run' = run
          BY <4>1 DEF CommitSave, ProgressInv
        <5>2. withdrawn' = withdrawn
          BY <3>0, <4>1, <5>1 DEF CommitSave
        <5>3. Contract!Store(r)
          BY <4>0, <5>1, <5>2, Zenon DEF Contract!Store
        <5> QED
          BY <5>3, Zenon DEF Contract!Next
      <4>2. CASE Succeed(r)
        <5>1. /\ UNCHANGED <<turns, withdrawn>> /\ told' = told \cup {r} /\ r \notin told
              /\ Bypassed \/ r \in turns
          BY <4>2 DEF Succeed, Saved, RowsInv
        <5>2. Contract!Tell(r)
          BY <4>0, <5>1, Zenon DEF Contract!Tell
        <5> QED
          BY <5>2, Zenon DEF Contract!Next
      <4>3. CASE Undo(r)
        <5>1. save' = save /\ told' = told /\ r \notin told /\ run[r] = "undoing"
          BY <3>0, <4>3 DEF Undo
        <5>2. CASE turns' = turns
          BY <4>0, <5>1, <5>2, Zenon DEF Contract!vars
        <5>3. CASE Saved(r) /\ r \in turns /\ turns' = turns \ {r}
          <6>1. withdrawn' = withdrawn \cup {r}
            BY <5>1, <5>3 DEF Saved
          <6>2. Contract!Withdraw(r)
            BY <4>0, <5>1, <5>3, <6>1, Zenon DEF Contract!Withdraw
          <6> QED
            BY <6>2, Zenon DEF Contract!Next
        <5>4. CASE created[r] /\ turns' = {}
          <6>1. withdrawn' = withdrawn \cup turns
            BY <5>1, <5>4 DEF ProgressInv
          <6>2. told = {} \/ Bypassed
            BY <5>1, <5>4 DEF RowsInv, Holds, Bypassed
          <6>3. Contract!WithdrawAll
            BY <4>0, <5>1, <5>4, <6>1, <6>2, Zenon DEF Contract!WithdrawAll
          <6> QED
            BY <6>3, Zenon DEF Contract!Next
        <5> QED
          BY <4>3, <5>2, <5>3, <5>4 DEF Undo, Delete
      <4>4. CASE /\ UNCHANGED turns /\ told' = told
                 /\ \A q \in Requests : save'[q] = "committed" <=> save[q] = "committed"
        BY <4>0, <4>4, Zenon DEF Contract!vars
      <4>5. CASE ~CommitSave(r) /\ ~Succeed(r) /\ ~Undo(r)
        <5>1. turns' = turns /\ (run'[r] = "answered" <=> run[r] = "answered")
          BY <4>5 DEF Step, Run, Transaction, Provision, Resolve, Acquire, EnterPersist,
             FailJson, FailStream, BeginSave, RollbackSave
        <5>2. save'[r] = "committed" <=> save[r] = "committed"
          BY <4>5 DEF Step, Run, Transaction, Provision, Resolve, Acquire, EnterPersist,
             FailJson, FailStream, BeginSave, RollbackSave
        <5> QED
          BY <3>0, <4>4, <5>1, <5>2
      <4> QED
        BY <4>1, <4>2, <4>3, <4>5
    <3> QED
      BY <3>1, <3>2
  <2> QED
    BY <2>1, <2>2
<1> QED
  BY <1>1, <1>2, Invariance, PTL DEF Spec, KeepsContract, Contract!Spec

-----------------------------------------------------------------------------
(* The rolling summary of the conversation (RollingSummary) never loses,   *)
(* repeats or invents a turn: for every window, every trigger and every    *)
(* number of turns and overlapping jobs.                                   *)

(* The inductive invariant, in parts.                                      *)

\* The turns stored, in the order they were saved.
LogInv == log \subseteq 1 .. last /\ (open => last \in log)

\* A row, or no row, holds the stored turns up to the one it covers.
UpTo(u, stored) == {t \in stored : t <= u}

RowInv ==
    /\ summary.covered = 0 <=> summary = NoSummary
    /\ summary.covered # 0 => summary.covered \in log
    /\ summary.text = UpTo(summary.covered, log)
    /\ summary.count = Cardinality(summary.text)

\* A job that waits for the LLM will write such a row, unless the last turn it
\* took has been withdrawn in the meantime: then it cannot write.
Writes(j, stored, n) ==
    /\ j.until \in j.take /\ j.until <= n
    /\ j.base.count = Cardinality(j.base.text)
    /\ j.base.text \cap j.take = {}
    /\ j.until \in stored => j.base.text \cup j.take = UpTo(j.until, stored)

JobInv == \A t \in Turns : job[t].pc = "writing" => Writes(job[t], log, last)

SummaryTypes == [covered : 0 .. MaxTurns, text : SUBSET Turns, count : Nat]
JobTypes == [pc : {"none", "queued", "counted", "writing", "done"}, total : Nat,
             base : SummaryTypes, take : SUBSET Turns, until : 0 .. MaxTurns]

Types ==
    /\ log \subseteq Turns /\ last \in 0 .. MaxTurns
    /\ summary \in SummaryTypes
    /\ job \in [Turns -> JobTypes]

SummaryInv == Types /\ LogInv /\ RowInv /\ JobInv
-----------------------------------------------------------------------------
\* Sets of turns are finite, and their sizes are numbers.
LEMMA TurnsFinite ==
    ASSUME NEW S, S \subseteq Turns
    PROVE  IsFiniteSet(S) /\ Cardinality(S) \in Nat /\ Cardinality(S) <= MaxTurns
<1>1. IsFiniteSet(Turns) /\ Cardinality(Turns) = MaxTurns
  BY MaxTurnsAssumption, FS_Interval DEF Turns
<1>2. IsFiniteSet(S) /\ Cardinality(S) <= Cardinality(Turns)
  BY <1>1, FS_Subset
<1> QED
  BY <1>1, <1>2, FS_CardinalityType

\* The job that is not there, and the finished one.
LEMMA NoJobTypes ==
    /\ NoSummary \in SummaryTypes
    /\ NoJob \in JobTypes /\ NoJob.pc = "none"
    /\ Finished \in JobTypes /\ Finished.pc = "done"
<1>1. NoSummary \in SummaryTypes
  BY MaxTurnsAssumption DEF NoSummary, SummaryTypes
<1>2. NoJob \in JobTypes /\ NoJob.pc = "none"
  BY <1>1, MaxTurnsAssumption DEF NoJob, JobTypes
<1>3. Finished \in JobTypes /\ Finished.pc = "done"
  BY <1>2 DEF Finished, JobTypes
<1> QED
  BY <1>1, <1>2, <1>3

\* A conversation without turns or jobs.
LEMMA SummaryInvInit == SummaryInit => SummaryInv
<1> SUFFICES ASSUME SummaryInit PROVE SummaryInv
  OBVIOUS
<1>1. Cardinality({}) = 0
  BY FS_EmptySet
<1>2. Types
  BY MaxTurnsAssumption, NoJobTypes DEF SummaryInit, Types
<1>3. LogInv /\ RowInv /\ JobInv
  BY <1>1, NoJobTypes DEF SummaryInit, LogInv, RowInv, JobInv, Writes, UpTo, NoSummary
<1> QED
  BY <1>2, <1>3 DEF SummaryInv

\* The requests' steps: a saved turn comes after every turn a job has taken, and
\* a withdrawn one is the last, which neither the row nor, any more, a job's
\* write can cover.
LEMMA RequestStep == SummaryInv /\ (SaveTurn \/ Answer \/ Withdraw) => SummaryInv'
<1> SUFFICES ASSUME SummaryInv, SaveTurn \/ Answer \/ Withdraw PROVE SummaryInv'
  OBVIOUS
<1> USE DEF SummaryInv, Types, LogInv
<1>0. Types' /\ LogInv'
  <2>1. CASE SaveTurn
    BY <2>1, MaxTurnsAssumption DEF SaveTurn, Turns
  <2>2. CASE Answer
    BY <2>2 DEF Answer, JobTypes
  <2>3. CASE Withdraw
    BY <2>3 DEF Withdraw
  <2> QED
    BY <2>1, <2>2, <2>3
<1>1. ASSUME NEW u \in 0 .. last, u = 0 \/ u \in log, u = 0 \/ u \in log'
      PROVE  UpTo(u, log') = UpTo(u, log)
  BY <1>1, MaxTurnsAssumption DEF SaveTurn, Answer, Withdraw, UpTo, Turns
<1>2. summary' = summary /\ (summary.covered # 0 => summary.covered \in log')
  BY DEF SaveTurn, Answer, Withdraw, Referenced, RowInv
<1>3. RowInv'
  <2>1. summary.covered \in 0 .. last /\ UpTo(summary.covered, log') = UpTo(summary.covered, log)
    BY <1>1, <1>2 DEF RowInv, SummaryTypes
  <2> QED
    BY <1>2, <2>1 DEF RowInv
<1>4. ASSUME NEW t \in Turns, job'[t].pc = "writing"
      PROVE  job'[t] = job[t]
  <2>1. CASE Answer
    <3>1. t # last
      BY <1>4, <2>1 DEF Answer, JobTypes
    <3> QED
      BY <2>1, <3>1 DEF Answer
  <2>2. CASE SaveTurn \/ Withdraw
    BY <2>2 DEF SaveTurn, Withdraw
  <2> QED
    BY <2>1, <2>2
<1>5. ASSUME NEW t \in Turns, job[t].pc = "writing", job[t].until \in log'
      PROVE  job[t].until \in log
  BY <1>5 DEF SaveTurn, Answer, Withdraw, JobInv, Writes
<1>6. last <= last'
  BY DEF SaveTurn, Answer, Withdraw
<1>7. JobInv'
  <2> SUFFICES ASSUME NEW t \in Turns, job'[t].pc = "writing"
               PROVE  Writes(job[t], log', last')
    BY <1>4 DEF JobInv
  <2>1. job[t].pc = "writing" /\ Writes(job[t], log, last)
    BY <1>4 DEF JobInv
  <2>2. job[t].until \in 0 .. last /\ job[t].until <= last'
    BY <1>0, <1>6, <2>1, MaxTurnsAssumption DEF JobTypes, Writes
  <2>3. job[t].until \in log' => UpTo(job[t].until, log') = UpTo(job[t].until, log)
                                  /\ job[t].until \in log
    BY <1>1, <1>5, <2>1, <2>2
  <2> QED
    BY <2>1, <2>2, <2>3 DEF Writes
<1> QED
  BY <1>0, <1>3, <1>7

\* The jobs' steps.
LEMMA JobStep == ASSUME SummaryInv, NEW t \in Turns, Job(t) PROVE SummaryInv'
<1> USE DEF SummaryInv, Types
<1>0. UNCHANGED <<log, last, open>>
  BY DEF Job, CountTurns, ReadTurns, WriteSummary, JobFails
<1>1. LogInv' /\ \A u : UpTo(u, log') = UpTo(u, log)
  BY <1>0 DEF LogInv, UpTo
<1>2. CASE job' = [job EXCEPT ![t] = Finished] /\ summary' = summary
  BY <1>0, <1>1, <1>2, NoJobTypes DEF RowInv, JobInv, Writes
<1>3. CASE CountTurns(t)
  <2>1. Cardinality(log) \in Nat
    BY TurnsFinite
  <2> QED
    BY <1>0, <1>1, <1>2, <1>3, <2>1 DEF CountTurns, RowInv, JobInv, Writes, JobTypes
<1>4. CASE ReadTurns(t)
  <2>1. CASE job' = [job EXCEPT ![t] = Finished]
    BY <1>2, <1>4, <2>1 DEF ReadTurns
  <2>2. CASE job' # [job EXCEPT ![t] = Finished]
    <3>0. PICK new \in SUBSET Uncovered : \E until \in new :
            /\ FirstOf(new, Uncovered, Compress(t))
            /\ \A u \in new : u <= until
            /\ job' = [job EXCEPT ![t].pc = "writing", ![t].base = summary, ![t].take = new,
                                  ![t].until = until]
      BY <1>4, <2>2 DEF ReadTurns
    <3> PICK until \in new :
            /\ FirstOf(new, Uncovered, Compress(t))
            /\ \A u \in new : u <= until
            /\ job' = [job EXCEPT ![t].pc = "writing", ![t].base = summary, ![t].take = new,
                                  ![t].until = until]
      BY <3>0
    <3>1. summary' = summary
      BY <1>4 DEF ReadTurns
    <3>2. /\ job'[t].pc = "writing" /\ job'[t].base = summary /\ job'[t].take = new
          /\ job'[t].until = until
          /\ \A s \in Turns : s # t => job'[s] = job[s]
      OBVIOUS
    <3>3. until \in log /\ until <= last /\ new \subseteq Turns /\ until \in 0 .. MaxTurns
      BY DEF Uncovered, LogInv, Turns
    <3>4. summary.text \cap new = {} /\ summary.text \cup new = UpTo(until, log)
      <4>1. log \subseteq Nat /\ summary.covered \in Nat
        BY MaxTurnsAssumption DEF Turns, SummaryTypes
      <4>2. \A u \in new, v \in Uncovered \ new : u < v
        BY DEF FirstOf
      <4> QED
        BY <3>3, <4>1, <4>2 DEF Uncovered, RowInv, UpTo
    <3>5. Types'
      <4>1. [job[t] EXCEPT !.pc = "writing", !.base = summary, !.take = new, !.until = until]
               \in JobTypes
        <5>1. job[t] \in JobTypes /\ summary \in SummaryTypes
          OBVIOUS
        <5> QED
          BY <3>3, <5>1 DEF JobTypes
      <4>2. job' \in [Turns -> JobTypes]
        BY <4>1
      <4> QED
        BY <1>0, <3>1, <4>2
    <3>6. RowInv' /\ JobInv'
      BY <1>0, <1>1, <3>1, <3>2, <3>3, <3>4 DEF RowInv, JobInv, Writes
    <3> QED
      BY <1>1, <3>5, <3>6
  <2> QED
    BY <2>1, <2>2
<1>5. CASE WriteSummary(t)
  <2> DEFINE base == job[t].base
             take == job[t].take
             until == job[t].until
  <2>1. /\ summary' = [covered |-> until, text |-> base.text \cup take,
                       count |-> base.count + Cardinality(take)]
        /\ job' = [job EXCEPT ![t] = Finished]
        /\ until \in log /\ job[t].pc = "writing"
    BY <1>5 DEF WriteSummary, Accepted
  <2>2. /\ base.text \subseteq Turns /\ take \subseteq Turns /\ base.text \cap take = {}
        /\ base.text \cup take = UpTo(until, log) /\ base.count = Cardinality(base.text)
    BY <2>1 DEF JobInv, Writes, JobTypes, SummaryTypes
  <2>3. /\ Cardinality(base.text) \in Nat /\ Cardinality(take) \in Nat
        /\ Cardinality(base.text \cup take) = Cardinality(base.text) + Cardinality(take)
    <3>1. /\ IsFiniteSet(base.text) /\ Cardinality(base.text) \in Nat
          /\ IsFiniteSet(take) /\ Cardinality(take) \in Nat
      BY <2>2, TurnsFinite
    <3>2. Cardinality(base.text \cup take) = Cardinality(base.text) + Cardinality(take)
                                             - Cardinality(base.text \cap take)
      BY <3>1, FS_Union
    <3>3. Cardinality(base.text \cap take) = 0
      BY <2>2, FS_EmptySet
    <3> QED
      BY <2>2, <3>1, <3>2, <3>3
  <2>4. until # 0
    BY <2>1 DEF Turns
  <2>5. Types'
    BY <1>0, <2>1, <2>2, <2>3, NoJobTypes DEF JobTypes, SummaryTypes
  <2>6. RowInv'
    BY <1>0, <1>1, <2>1, <2>2, <2>3, <2>4 DEF RowInv, NoSummary
  <2>7. JobInv'
    BY <1>0, <1>1, <2>1, NoJobTypes DEF JobInv, Writes
  <2> QED
    BY <1>1, <2>5, <2>6, <2>7
<1>6. CASE JobFails(t)
  BY <1>2, <1>6 DEF JobFails
<1> QED
  BY <1>3, <1>4, <1>5, <1>6 DEF Job

\* The invariant is inductive.
LEMMA SummaryInvStep == SummaryInv /\ [SummaryNext]_summaryVars => SummaryInv'
<1> SUFFICES ASSUME SummaryInv, [SummaryNext]_summaryVars PROVE SummaryInv'
  OBVIOUS
<1>1. CASE UNCHANGED summaryVars
  BY <1>1 DEF summaryVars, SummaryInv, Types, LogInv, RowInv, JobInv, Writes, UpTo
<1>2. CASE SummaryNext
  BY <1>2, RequestStep, JobStep DEF SummaryNext
<1> QED
  BY <1>1, <1>2

\* The row, and what each waiting job may still write, are always prefixes of the
\* stored turns.
THEOREM SummaryInvariance == SummarySpec => []SummaryInv
BY SummaryInvInit, SummaryInvStep, PTL DEF SummarySpec

\* No stored turn up to the covered one is missing from the summary, and no
\* withdrawn turn is in it.
THEOREM PrefixSummarised == SummarySpec => []SummaryIsPrefix
<1>1. SummaryInv => SummaryIsPrefix
  BY DEF SummaryInv, RowInv, SummaryIsPrefix, UpTo
<1> QED
  BY <1>1, SummaryInvariance, PTL

-----------------------------------------------------------------------------
(* Nothing is missing between the summary and the window.                  *)

\* The number of the stored turns up to t, and a summary that leaves no more of them
\* than the window holds.
Rank(t) == Cardinality(UpTo(t, log))
Meets(count, t) == count + KeepRecent >= Rank(t)

\* Only a turn whose run is over has a job.
StartedInv == \A t \in Turns : job[t].pc # "none" => t <= last /\ ~(open /\ t = last)

\* As long as no job is missing, has failed or has lost an update: a job counts at least
\* the turns up to its own, and at its end the summary leaves them to the window only. A
\* job that has read a row which was written over since cannot write without being noticed.
Waits(j, t) ==
    /\ j.base.count <= summary.count
    /\ j.base = summary => Meets(j.base.count + Cardinality(j.take), t)

CleanInv ==
    clean =>
        /\ \A t \in log : job[t].pc = "none" => open /\ t = last
        /\ \A t \in Turns :
             /\ job[t].pc = "counted" => job[t].total >= Rank(t)
             /\ job[t].pc = "writing" => Waits(job[t], t)
             /\ job[t].pc = "done" /\ Rank(t) >= Trigger => Meets(summary.count, t)

CInv == StartedInv /\ CleanInv

LEMMA RankFacts ==
    ASSUME Types, NEW t \in Turns
    PROVE  /\ Cardinality(log) \in Nat /\ Rank(t) \in Nat /\ Rank(t) <= Cardinality(log)
           /\ UpTo(t, log) = log => Rank(t) = Cardinality(log)
<1>1. log \subseteq Turns /\ UpTo(t, log) \in SUBSET log
  BY DEF Types, UpTo
<1>2. IsFiniteSet(log) /\ Cardinality(log) \in Nat
  BY <1>1, TurnsFinite
<1> QED
  BY <1>1, <1>2, FS_Subset, FS_CardinalityType DEF Rank

\* The last of some turns.
LEMMA LastTurn ==
    ASSUME NEW S, S \subseteq Turns, S # {}
    PROVE  \E t \in S : \A u \in S : u <= t
<1> DEFINE R == OpToRel(<, Nat)
           T == {MaxTurns - u : u \in S}
<1>0. \A u \in S : u \in Nat /\ MaxTurns - u \in Nat
  BY MaxTurnsAssumption DEF Turns
<1>1. T \subseteq Nat /\ T # {}
  <2>1. T \subseteq Nat
    BY <1>0
  <2>2. PICK u \in S : TRUE
    OBVIOUS
  <2>3. MaxTurns - u \in T
    OBVIOUS
  <2> QED
    BY <2>1, <2>3
<1>2. PICK d \in T : \A c \in T : ~(<<c, d>> \in R)
  <2> HIDE DEF R, T
  <2> QED
    BY <1>1, NatLessThanWellFounded, WFMin DEF R
<1>3. \A c \in T : ~(c < d)
  BY <1>1, <1>2 DEF OpToRel
<1>4. PICK t \in S : d = MaxTurns - t
  OBVIOUS
<1>5. ASSUME NEW u \in S PROVE u <= t
  <2>1. ~(MaxTurns - u < MaxTurns - t)
    BY <1>3, <1>4
  <2> QED
    BY <2>1, MaxTurnsAssumption DEF Turns
<1> QED
  BY <1>5

LEMMA CInvInit == SummaryInit => CInv
  BY NoJobTypes DEF SummaryInit, CInv, StartedInv, CleanInv

\* The turns up to one whose job exists stay.
LEMMA RequestKeepsClean ==
    ASSUME SummaryInv, CInv, SaveTurn \/ Answer \/ Withdraw
    PROVE  CInv'
<1> USE DEF SummaryInv
<1>1. /\ log \subseteq Turns /\ log \subseteq 1 .. last /\ last \in 0 .. MaxTurns
      /\ job \in [Turns -> JobTypes] /\ summary' = summary
      /\ open => last \in log
  BY DEF Types, LogInv, SaveTurn, Answer, Withdraw
<1>2. ASSUME NEW t \in Turns, t <= last, ~(open /\ t = last)
      PROVE  UpTo(t, log') = UpTo(t, log) /\ Rank(t)' = Rank(t)
  <2>1. UpTo(t, log') = UpTo(t, log)
    BY <1>1, <1>2, MaxTurnsAssumption DEF SaveTurn, Answer, Withdraw, UpTo, Turns
  <2> QED
    BY <2>1 DEF Rank
<1>3. ASSUME NEW t \in Turns
      PROVE  \/ job'[t] = job[t]
             \/ Answer /\ t = last /\ job'[t].pc = "queued"
  BY <1>1, <1>3 DEF SaveTurn, Answer, Withdraw, JobTypes
<1>4. last \in Nat /\ last <= last' /\ (Answer => ~open')
  BY <1>1, MaxTurnsAssumption DEF SaveTurn, Answer, Withdraw
<1>5. StartedInv'
  <2> SUFFICES ASSUME NEW t \in Turns, job'[t].pc # "none"
               PROVE  t <= last' /\ ~(open' /\ t = last')
    BY DEF StartedInv
  <2>1. CASE job'[t] = job[t]
    BY <1>1, <2>1, MaxTurnsAssumption DEF CInv, StartedInv, SaveTurn, Answer, Withdraw, Turns
  <2>2. CASE Answer /\ t = last
    BY <1>4, <2>2
  <2> QED
    BY <1>3, <2>1, <2>2
<1>6. CleanInv'
  <2> SUFFICES ASSUME clean'
               PROVE  /\ \A t \in log' : job'[t].pc = "none" => open' /\ t = last'
                      /\ \A t \in Turns :
                           /\ job'[t].pc = "counted" => job'[t].total >= Rank(t)'
                           /\ job'[t].pc = "writing" => Waits(job[t], t)'
                           /\ job'[t].pc = "done" /\ Rank(t)' >= Trigger =>
                                  Meets(summary.count, t)'
    BY DEF CleanInv
  <2>1. clean
    BY DEF SaveTurn, Answer, Withdraw
  <2>2. ASSUME NEW t \in log', job'[t].pc = "none" PROVE open' /\ t = last'
    <3>1. CASE SaveTurn
      <4>1. t = last' \/ t \in log
        BY <2>2, <3>1 DEF SaveTurn
      <4> QED
        BY <2>1, <2>2, <3>1, <4>1 DEF SaveTurn, CInv, CleanInv
    <3>2. CASE Answer
      <4>1. t \in log /\ t \in Turns
        BY <1>1, <2>2, <3>2 DEF Answer
      <4>2. t # last
        BY <1>1, <2>2, <3>2, <4>1 DEF Answer, JobTypes
      <4>3. job[t].pc = "none"
        BY <1>3, <2>2, <4>1, <4>2
      <4> QED
        BY <2>1, <4>1, <4>2, <4>3 DEF CInv, CleanInv
    <3>3. CASE Withdraw
      BY <2>1, <2>2, <3>3 DEF Withdraw, CInv, CleanInv
    <3> QED
      BY <3>1, <3>2, <3>3
  <2>3. ASSUME NEW t \in Turns, job'[t] = job[t]
        PROVE  /\ job'[t].pc = "counted" => job'[t].total >= Rank(t)'
               /\ job'[t].pc = "writing" => Waits(job[t], t)'
               /\ job'[t].pc = "done" /\ Rank(t)' >= Trigger => Meets(summary.count, t)'
    <3>1. CASE job[t].pc = "none"
      BY <2>3, <3>1
    <3>2. CASE job[t].pc # "none"
      <4>1. Rank(t)' = Rank(t)
        BY <1>2, <3>2 DEF CInv, StartedInv
      <4> QED
        BY <1>1, <2>1, <2>3, <4>1 DEF CInv, CleanInv, Waits, Meets
    <3> QED
      BY <3>1, <3>2
  <2> QED
    BY <1>3, <2>2, <2>3
<1> QED
  BY <1>5, <1>6 DEF CInv

\* A job's step changes no turn, and no other job. The summary only grows.
LEMMA JobKeepsClean == ASSUME SummaryInv, CInv, NEW t \in Turns, Job(t) PROVE CInv'
<1> USE DEF SummaryInv
<1>1. /\ UNCHANGED <<log, last, open>> /\ job[t].pc \notin {"none", "done"}
      /\ job \in [Turns -> JobTypes] /\ summary \in SummaryTypes /\ Types
  BY DEF Job, CountTurns, ReadTurns, WriteSummary, JobFails, Types
<1>2. /\ \A u \in Turns : u # t => job'[u] = job[u]
      /\ job'[t].pc # "none" /\ summary' \in SummaryTypes
  <2>1. summary' \in SummaryTypes
    BY JobStep DEF Types
  <2>2. CASE job' = [job EXCEPT ![t] = Finished]
    BY <1>1, <2>1, <2>2, NoJobTypes
  <2>3. CASE CountTurns(t) /\ job' # [job EXCEPT ![t] = Finished]
    BY <1>1, <2>1, <2>3 DEF CountTurns, JobTypes
  <2>4. CASE ReadTurns(t) /\ job' # [job EXCEPT ![t] = Finished]
    <3>1. PICK new \in SUBSET Uncovered :
            \E until \in new :
              job' = [job EXCEPT ![t].pc = "writing", ![t].base = summary, ![t].take = new,
                                 ![t].until = until]
      BY <2>4 DEF ReadTurns
    <3>2. PICK until \in new :
            job' = [job EXCEPT ![t].pc = "writing", ![t].base = summary, ![t].take = new,
                               ![t].until = until]
      BY <3>1
    <3> QED
      BY <1>1, <2>1, <3>2 DEF JobTypes
  <2> QED
    BY <2>2, <2>3, <2>4 DEF Job, WriteSummary, JobFails
<1>3. \A u : Rank(u)' = Rank(u)
  BY <1>1 DEF Rank, UpTo
<1>4. StartedInv'
  BY <1>1, <1>2 DEF CInv, StartedInv
<1>5. /\ Cardinality(log) \in Nat
      /\ \A u \in Turns : Rank(u) \in Nat /\ Rank(u) <= Cardinality(log)
  BY <1>1, RankFacts
<1>6. ASSUME clean', clean,
             summary'.count >= summary.count,
             summary' = summary \/ summary'.count > summary.count,
             /\ job'[t].pc = "counted" => job'[t].total >= Rank(t)
             /\ job'[t].pc = "writing" => Waits(job[t], t)'
             /\ job'[t].pc = "done" /\ Rank(t) >= Trigger => Meets(summary.count, t)'
      PROVE  CleanInv'
  <2>1. ASSUME NEW u \in Turns, u # t
        PROVE  /\ job'[u].pc = "counted" => job'[u].total >= Rank(u)'
               /\ job'[u].pc = "writing" => Waits(job[u], u)'
               /\ job'[u].pc = "done" /\ Rank(u)' >= Trigger => Meets(summary.count, u)'
    <3>1. /\ job'[u] = job[u] /\ Rank(u)' = Rank(u) /\ Rank(u) \in Nat
          /\ summary.count \in Nat /\ summary'.count >= summary.count
      BY <1>1, <1>2, <1>3, <1>5, <1>6, <2>1 DEF SummaryTypes
    <3>2. /\ job[u].pc = "counted" => job[u].total >= Rank(u)
          /\ job[u].pc = "writing" => Waits(job[u], u)
          /\ job[u].pc = "done" /\ Rank(u) >= Trigger => Meets(summary.count, u)
      BY <1>6 DEF CInv, CleanInv
    <3>3. job[u].pc = "writing" => Waits(job[u], u)'
      <4>1. job[u].base.count \in Nat /\ summary'.count \in Nat
        BY <1>1, <1>2 DEF JobTypes, SummaryTypes
      <4> QED
        BY <1>6, <3>1, <3>2, <4>1 DEF Waits, Meets
    <3>4. Meets(summary.count, u) => Meets(summary.count, u)'
      <4>1. summary'.count \in Nat
        BY <1>2 DEF SummaryTypes
      <4> QED
        BY <3>1, <4>1, SettingsAssumption DEF Meets
    <3> QED
      BY <3>1, <3>2, <3>3, <3>4
  <2>2. ASSUME NEW u \in log', job'[u].pc = "none" PROVE open' /\ u = last'
    BY <1>1, <1>2, <1>6, <2>2 DEF CInv, CleanInv, Types
  <2> QED
    BY <1>3, <1>6, <2>1, <2>2 DEF CleanInv
<1>7. CASE CountTurns(t)
  <2>1. summary' = summary /\ clean' = clean
    BY <1>7 DEF CountTurns
  <2>2. CASE Cardinality(log) < Trigger /\ job' = [job EXCEPT ![t] = Finished]
    <3>1. job'[t].pc = "done" /\ ~(Rank(t) >= Trigger)
      BY <1>1, <1>5, <2>2, NoJobTypes, SettingsAssumption
    <3> QED
      BY <1>1, <1>4, <1>6, <2>1, <3>1 DEF CInv, CleanInv, SummaryTypes
  <2>3. CASE job' = [job EXCEPT ![t].pc = "counted", ![t].total = Cardinality(log)]
    <3>1. job'[t].pc = "counted" /\ job'[t].total = Cardinality(log)
      BY <1>1, <2>3 DEF JobTypes
    <3> QED
      BY <1>1, <1>4, <1>5, <1>6, <2>1, <3>1 DEF CInv, CleanInv, SummaryTypes
  <2> QED
    BY <1>7, <2>2, <2>3 DEF CountTurns
<1>8. CASE ReadTurns(t)
  <2>1. summary' = summary /\ clean' = clean /\ job[t].pc = "counted"
    BY <1>8 DEF ReadTurns
  <2>2. /\ job[t].total \in Nat /\ Compress(t) \in Nat /\ summary.count \in Nat
        /\ Compress(t) + KeepRecent >= job[t].total
    BY <1>1, SettingsAssumption DEF Compress, JobTypes, SummaryTypes
  <2>3. clean => job[t].total >= Rank(t)
    BY <2>1 DEF CInv, CleanInv
  <2>4. CASE Sufficient(t) /\ job' = [job EXCEPT ![t] = Finished]
    <3>1. job'[t].pc = "done" /\ (clean => Meets(summary.count, t))
      BY <1>1, <1>5, <2>2, <2>3, <2>4, NoJobTypes, SettingsAssumption DEF Sufficient, Meets
    <3>2. clean => Meets(summary.count, t)'
      BY <1>3, <2>1, <3>1 DEF Meets
    <3> QED
      BY <1>1, <1>4, <1>6, <2>1, <2>2, <3>1, <3>2 DEF CInv, CleanInv
  <2>5. ASSUME NEW new \in SUBSET Uncovered, FirstOf(new, Uncovered, Compress(t)), clean
        PROVE  Meets(summary.count + Cardinality(new), t) /\ Cardinality(new) \in Nat
    <3>1. /\ Uncovered \subseteq Turns /\ new \subseteq Turns
          /\ Cardinality(new) \in Nat /\ Cardinality(Uncovered) \in Nat
          /\ IsFiniteSet(Uncovered) /\ IsFiniteSet(summary.text)
      <4>1. Uncovered \subseteq Turns /\ new \subseteq Turns /\ summary.text \subseteq Turns
        BY <1>1 DEF Uncovered, Types, SummaryTypes
      <4> QED
        BY <4>1, TurnsFinite
    <3>2. CASE Cardinality(new) = Compress(t)
      BY <1>5, <2>2, <2>3, <2>5, <3>2, SettingsAssumption DEF Meets
    <3>3. CASE Cardinality(new) = Cardinality(Uncovered)
      <4>1. summary.text \cup Uncovered = log /\ summary.text \cap Uncovered = {}
        <5>1. summary.covered \in Nat /\ log \subseteq Nat /\ summary.text = UpTo(summary.covered, log)
          BY <1>1, MaxTurnsAssumption DEF RowInv, Types, SummaryTypes, Turns
        <5>2. /\ summary.text = {u \in log : u <= summary.covered}
              /\ Uncovered = {u \in log : u > summary.covered}
          BY <5>1 DEF Uncovered, UpTo
        <5>3. \A u \in log : u <= summary.covered <=> ~(u > summary.covered)
          BY ONLY <5>1
        <5>4. \A u : /\ u \in summary.text <=> u \in log /\ ~(u > summary.covered)
                     /\ u \in Uncovered <=> u \in log /\ u > summary.covered
          BY ONLY <5>2, <5>3
        <5> QED
          BY ONLY <5>4, Zenon
      <4>2. Cardinality(log) = summary.count + Cardinality(Uncovered)
        <5>1. Cardinality(summary.text \cup Uncovered) =
                Cardinality(summary.text) + Cardinality(Uncovered)
                  - Cardinality(summary.text \cap Uncovered)
          BY <3>1, FS_Union
        <5>2. Cardinality(summary.text \cap Uncovered) = 0
          BY <4>1, FS_EmptySet
        <5>3. summary.count = Cardinality(summary.text)
          BY DEF RowInv
        <5>4. Cardinality(summary.text \cup Uncovered) = Cardinality(log)
          BY <4>1
        <5>5. Cardinality(log) = summary.count + Cardinality(Uncovered) - 0
          BY ONLY <5>1, <5>2, <5>3, <5>4
        <5> QED
          BY ONLY <2>2, <3>1, <5>5
      <4> QED
        BY <1>5, <2>2, <3>1, <3>3, <4>2, SettingsAssumption DEF Meets
    <3> QED
      BY <2>5, <3>1, <3>2, <3>3 DEF FirstOf
  <2>6. ASSUME NEW new \in SUBSET Uncovered, FirstOf(new, Uncovered, Compress(t)), new = {},
               job' = [job EXCEPT ![t] = Finished]
        PROVE  CInv'
    <3>1. Cardinality(new) = 0 /\ job'[t].pc = "done"
      BY <1>1, <2>6, FS_EmptySet, NoJobTypes
    <3>2. clean => Meets(summary.count, t)
      BY <2>2, <2>5, <2>6, <3>1
    <3>3. clean => Meets(summary.count, t)'
      BY <1>3, <2>1, <3>2 DEF Meets
    <3> QED
      BY <1>1, <1>4, <1>6, <2>1, <2>2, <3>1, <3>3 DEF CInv, CleanInv
  <2>7. ASSUME NEW new \in SUBSET Uncovered, FirstOf(new, Uncovered, Compress(t)),
               NEW until \in new,
               job' = [job EXCEPT ![t].pc = "writing", ![t].base = summary,
                                  ![t].take = new, ![t].until = until]
        PROVE  CInv'
    <3>1. job'[t].pc = "writing" /\ job'[t].base = summary /\ job'[t].take = new
      BY <1>1, <2>7 DEF JobTypes
    <3>2. clean => Meets(summary.count + Cardinality(new), t)
      BY <2>5, <2>7
    <3>3. clean => Waits(job[t], t)'
      BY <1>3, <2>1, <2>2, <3>1, <3>2 DEF Waits, Meets
    <3> QED
      BY <1>1, <1>4, <1>6, <2>1, <2>2, <3>1, <3>3 DEF CInv, CleanInv
  <2> QED
    BY <1>8, <2>4, <2>6, <2>7 DEF ReadTurns
<1>9. CASE WriteSummary(t)
  <2>1. /\ job'[t].pc = "done" /\ job[t].pc = "writing"
        /\ clean' = (clean /\ summary = job[t].base)
        /\ summary'.count = job[t].base.count + Cardinality(job[t].take)
    BY <1>1, <1>9, NoJobTypes DEF WriteSummary
  <2>2. CASE ~clean'
    BY <1>4, <2>2 DEF CInv, CleanInv
  <2>3. CASE clean'
    <3>1. clean /\ summary = job[t].base
      BY <2>1, <2>3
    <3>2. Waits(job[t], t) /\ Writes(job[t], log, last)
      BY <2>1, <3>1 DEF CInv, CleanInv, JobInv
    <3>3. Cardinality(job[t].take) \in Nat /\ Cardinality(job[t].take) # 0
      <4>1. job[t].take \subseteq Turns /\ job[t].take # {}
        BY <1>1, <3>2 DEF Writes, JobTypes
      <4> QED
        BY <4>1, TurnsFinite, FS_EmptySet
    <3>4. Meets(summary.count, t)'
      BY <1>3, <2>1, <3>1, <3>2 DEF Waits, Meets
    <3>5. summary.count \in Nat
      BY <1>1 DEF SummaryTypes
    <3>6. summary'.count > summary.count
      BY <2>1, <3>1, <3>3, <3>5
    <3> QED
      BY <1>2, <1>4, <1>6, <2>1, <2>3, <3>1, <3>4, <3>5, <3>6 DEF CInv, SummaryTypes
  <2> QED
    BY <2>2, <2>3
<1>10. CASE JobFails(t)
  BY <1>4, <1>10 DEF JobFails, CInv, CleanInv
<1> QED
  BY <1>7, <1>8, <1>9, <1>10 DEF Job

LEMMA CInvStep == SummaryInv /\ CInv /\ [SummaryNext]_summaryVars => CInv'
<1> SUFFICES ASSUME SummaryInv, CInv, [SummaryNext]_summaryVars PROVE CInv'
  OBVIOUS
<1>1. CASE UNCHANGED summaryVars
  BY <1>1 DEF summaryVars, CInv, StartedInv, CleanInv, Waits, Meets, Rank, UpTo
<1>2. CASE SummaryNext
  BY <1>2, RequestKeepsClean, JobKeepsClean DEF SummaryNext
<1> QED
  BY <1>1, <1>2

\* When the jobs are over, the one of the last stored turn has seen to it that the
\* turns after the summary are not more than the window shows.
LEMMA CleanIsComplete == ASSUME SummaryInv, CInv PROVE ContextComplete
<1> USE DEF SummaryInv
<1> SUFFICES ASSUME clean, Quiet, Cardinality(log) >= Trigger, NEW u \in log,
                    u \notin summary.text
             PROVE  u \in Recent
  BY DEF ContextComplete, Context
<1>1. /\ log \subseteq Turns /\ Cardinality(log) \in Nat /\ IsFiniteSet(log)
      /\ summary.text \subseteq log /\ summary.count = Cardinality(summary.text)
      /\ summary.covered \in Nat
  BY TurnsFinite, MaxTurnsAssumption DEF Types, RowInv, UpTo, SummaryTypes
<1>2. PICK t \in log : \A v \in log : v <= t
  BY <1>1, LastTurn
<1>3. Rank(t) = Cardinality(log)
  <2>1. UpTo(t, log) = log
    BY <1>2 DEF UpTo
  <2> QED
    BY <2>1 DEF Rank
<1>4. job[t].pc = "done"
  BY <1>1 DEF Quiet, CInv, CleanInv
<1>5. summary.count + KeepRecent >= Cardinality(log)
  BY <1>1, <1>3, <1>4 DEF CInv, CleanInv, Meets
<1> DEFINE later == {v \in log : v > u}
           rest == log \ summary.text
<1>6. Cardinality(rest) = Cardinality(log) - summary.count /\ IsFiniteSet(rest)
  <2>1. log \cap summary.text = summary.text
    BY <1>1
  <2> QED
    BY <1>1, <2>1, FS_Difference
<1>7. later \in SUBSET (rest \ {u}) /\ u \in rest
  <2>1. u > summary.covered /\ log \subseteq Nat
    BY <1>1 DEF RowInv, UpTo, Turns
  <2>2. u \in rest
    OBVIOUS
  <2>3. ASSUME NEW v \in later PROVE v \in rest \ {u}
    <3>1. v \in Nat /\ u \in Nat /\ v > u /\ v \in log /\ v # u
      BY <2>1, <2>3
    <3>2. v \notin summary.text
      BY <1>1, <2>1, <3>1 DEF RowInv, UpTo
    <3> QED
      BY <3>1, <3>2
  <2> QED
    BY <2>2, <2>3
<1>8. /\ IsFiniteSet(rest \ {u}) /\ Cardinality(rest \ {u}) = Cardinality(rest) - 1
  BY <1>6, <1>7, FS_RemoveElement
<1>9. Cardinality(later) <= Cardinality(rest \ {u}) /\ Cardinality(later) \in Nat
  BY <1>7, <1>8, FS_Subset, FS_CardinalityType
<1>10. summary.count \in Nat
  BY DEF Types, SummaryTypes
<1> HIDE DEF rest
<1>11. Cardinality(later) < KeepRecent
  BY <1>1, <1>5, <1>6, <1>8, <1>9, <1>10, SettingsAssumption
<1> QED
  BY <1>11 DEF Recent

\* Between the summary and the recent window no turn is missing from the next prompt,
\* however the jobs overlapped, unless one failed or wrote over another.
THEOREM NoGap == SummarySpec => []ContextComplete
<1>1. SummaryInv /\ CInv => ContextComplete
  BY CleanIsComplete
<1> QED
  BY <1>1, SummaryInvInit, SummaryInvStep, CInvInit, CInvStep, PTL DEF SummarySpec
=============================================================================
