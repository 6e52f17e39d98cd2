------------------------- MODULE StreamRunProofs -------------------------
(***************************************************************************)
(* The safety properties of StreamRun for every number of graph events and *)
(* of aborts, and with activity events on or off.                          *)
(***************************************************************************)
EXTENDS StreamRun, TLAPS

-----------------------------------------------------------------------------
(* The inductive invariant, in parts.                                      *)

Settled == worker \in {"idle", "saved", "failed"}

\* What the producer's control point says about the persist thread: outside
\* "persist" and "cancelled" the thread is not in flight.
ProducerInv ==
    /\ producer \in {"none", "graph"} => worker = "idle"
    /\ producer = "persist" => worker # "idle"
    /\ producer = "complete" => worker = "saved" /\ checkpoint
    /\ producer \in {"failed", "done"} => Settled
    /\ slot = "complete" => producer = "done" /\ worker = "saved" /\ checkpoint
    /\ slot = "error" => producer = "done"

\* What the database and the receipt hold, by the thread's progress. A
\* compensation that is not racing the thread restores the base rows.
RowsInv ==
    /\ worker \in {"idle", "writing", "flushed", "failed"} => db = BaseRows /\ receipt = {}
    /\ worker = "committed" => db = Rows /\ receipt = {}
    /\ worker = "saved" =>
        /\ receipt = CreatedRows
        /\ db \in {Rows, BaseRows}
        /\ comp # "done" => db = Rows
        /\ comp = "done" /\ ~Abandoned => db = BaseRows

\* How the producer and the outcome stand at each of the consumer's control
\* points.
ControlInv ==
    /\ pc \in {"new", "dropped", "starting"} => producer = "none"
    /\ pc \in {"sayCancelled", "sayError", "unwinding", "compensating"} => ProducerDone
    /\ pc \in {"completed", "sayFinal", "sayDone"} =>
        producer = "done" /\ worker = "saved" /\ checkpoint
    /\ producer = "cancelled" => pc \in {"sayCancelled", "finally", "unwinding",
                                         "compensating", "closed", "ended"}
    /\ noticed => producer # "cancelled"
    /\ interrupted => pc \in {"closed", "ended"}

\* What has been decided once the run unwinds: either it succeeded and is
\* never compensated, or it is compensated, with the producer settled before.
OutcomeInv ==
    /\ comp # "idle" => pc \in {"compensating", "closed", "ended"} /\ ProducerDone
                        /\ ~successful
    /\ pc = "compensating" => comp # "idle"
    /\ successful => /\ pc \in {"finally", "unwinding", "closed", "ended"}
                     /\ producer = "done" /\ worker = "saved" /\ checkpoint
    /\ pc \in {"closed", "ended"} /\ ~interrupted =>
        /\ ProducerDone
        /\ ~successful => comp \in {"done", "failed"}
        /\ ~successful /\ ~Abandoned => ~deferred
    /\ background => pc = "ended"
    /\ memoryWork /\ Orderly => successful
    /\ memoryWork => background

SaidInv == Said("done") => successful

IInv == TypeOK /\ ProducerInv /\ RowsInv /\ ControlInv /\ OutcomeInv /\ SaidInv
-----------------------------------------------------------------------------
(* Type correctness.                                                       *)

\* The accepted request starts well typed.
LEMMA TypeOKInit == Init => TypeOK
<1> SUFFICES ASSUME Init PROVE TypeOK
  OBVIOUS
<1>1. FlagsOK
  BY Zenon DEF Init, FlagsOK
<1>2. stream \in Seq(Events)
  BY DEF Init
<1>3. db \subseteq Rows
  BY DEF Init, BaseRows, Rows
<1> QED
  BY <1>1, <1>2, <1>3, BoundsAssumption DEF Init, TypeOK, Rows, Empty

\* Every step leaves the flags Boolean (proved apart: the flags need Zenon, the
\* counters and the stream arithmetic).
LEMMA FlagsStep == FlagsOK /\ [Next]_vars => FlagsOK'
<1> SUFFICES ASSUME FlagsOK, [Next]_vars PROVE FlagsOK'
  OBVIOUS
<1> USE DEF FlagsOK, consumerVars, producerVars, envVars, afterVars
<1>1. CASE UNCHANGED vars
  BY <1>1, ZenonT(30) DEF vars
<1>2. CASE Environment
  BY <1>2, ZenonT(30) DEF Environment, Disconnect, DropResponse, Abort, AbortCleanup
<1>3. CASE Consumer
  <2> USE DEF Say, Goto
  <2>1. CASE Start \/ SayCancelled
    BY <2>1, ZenonT(30) DEF Start, SayCancelled
  <2>10. CASE SayFinal \/ SayError
    BY <2>10, ZenonT(30) DEF SayFinal, SayError
  <2>11. CASE SayDone
    BY <2>11, ZenonT(30) DEF SayDone
  <2>6. CASE CreateProducer
    BY <2>6, ZenonT(30) DEF CreateProducer
  <2>7. CASE Completed
    BY <2>7, ZenonT(30) DEF Completed
  <2>2. CASE Get
    BY <2>2, ZenonT(30) DEF Get
  <2>3. CASE Poll
    BY <2>3, ZenonT(30) DEF Poll, CancelProducer
  <2>8. CASE Finally
    BY <2>8, ZenonT(30) DEF Finally, CancelProducer
  <2>9. CASE Unwind
    BY <2>9, ZenonT(30) DEF Unwind
  <2>4. CASE Drain("draining", "sayCancelled") \/ Drain("finishing", "unwinding")
    BY <2>4, ZenonT(30) DEF Drain
  <2>5. CASE Compensated \/ Release \/ RunDeferred
    BY <2>5, ZenonT(30) DEF Compensated, ClearDeferred, Release, RunDeferred
  <2> QED
    BY <1>3, <2>1, <2>2, <2>3, <2>4, <2>5, <2>6, <2>7, <2>8, <2>9,
       <2>10, <2>11 DEF Consumer
<1>4. CASE Producer
  <2> USE DEF producerFrame
  <2>1. CASE GraphEvent \/ GraphFails
    BY <2>1, ZenonT(30) DEF GraphEvent, GraphFails
  <2>2. CASE EnterPersist
    BY <2>2, ActivityEventsAssumption, ZenonT(30) DEF EnterPersist
  <2>3. CASE ForwardPersisting \/ PersistRaises
    BY <2>3, ZenonT(30) DEF ForwardPersisting, PersistRaises
  <2>4. CASE PersistReturns
    BY <2>4, ZenonT(30) DEF PersistReturns
  <2>5. CASE PutOutcome
    BY <2>5, ZenonT(30) DEF PutOutcome
  <2> QED
    BY <1>4, <2>1, <2>2, <2>3, <2>4, <2>5 DEF Producer
<1>5. CASE Worker
  BY <1>5, ZenonT(30) DEF Worker, workerFrame, Flush, PersistFails, Commit, WriteReceipt
<1>6. CASE Compensate
  BY <1>6, ZenonT(30) DEF Compensate
<1> QED
  BY <1>1, <1>2, <1>3, <1>4, <1>5, <1>6 DEF Next

\* What the consumer yields at its control points are sequences of public events.
LEMMA SaidTypes ==
    /\ <<>> \in Seq(Events) /\ <<"run_started">> \in Seq(Events)
    /\ <<"cancelled">> \in Seq(Events) /\ <<"citations", "final">> \in Seq(Events)
    /\ <<"done">> \in Seq(Events) /\ <<"error">> \in Seq(Events)
<1> "run_started" \in Events /\ "cancelled" \in Events /\ "citations" \in Events
    /\ "final" \in Events /\ "done" \in Events /\ "error" \in Events
  BY DEF Events, Terminal
<1> QED
  OBVIOUS

\* Every step of every actor keeps the types.
LEMMA TypeOKStep == TypeOK /\ [Next]_vars => TypeOK'
<1> SUFFICES ASSUME TypeOK, [Next]_vars PROVE TypeOK'
  OBVIOUS
<1>0. FlagsOK'
  BY FlagsStep DEF TypeOK
<1> USE <1>0 DEF TypeOK, consumerVars, producerVars, envVars, afterVars
<1>1. CASE UNCHANGED vars
  BY <1>1 DEF vars
<1>2. CASE Environment
  BY <1>2, BoundsAssumption DEF Environment, Disconnect, DropResponse, Abort, AbortCleanup
<1>3. CASE Consumer
  <2> USE SaidTypes DEF Say, Goto
  <2>1. CASE Start
    BY <2>1 DEF Start
  <2>8. CASE SayFinal
    BY <2>8 DEF SayFinal
  <2>9. CASE SayDone
    BY <2>9 DEF SayDone
  <2>10. CASE SayError
    BY <2>10 DEF SayError
  <2>7. CASE CreateProducer \/ Completed
    BY <2>7 DEF CreateProducer, Completed
  <2>2. CASE SayCancelled
    BY <2>2 DEF SayCancelled, AfterCancelled
  <2>3. CASE Get
    <3>1. slot \in {"event", "persisting"} => Append(stream, slot) \in Seq(Events)
      BY DEF Events
    <3>2. stream' \in Seq(Events)
      BY <2>3, <3>1 DEF Get
    <3> QED
      BY <2>3, <3>2 DEF Get
  <2>4. CASE Poll \/ Finally \/ Unwind
    BY <2>4 DEF Poll, Finally, Unwind, CancelProducer
  <2>5. CASE Drain("draining", "sayCancelled") \/ Drain("finishing", "unwinding")
    BY <2>5 DEF Drain, Discard
  <2>6. CASE Compensated \/ Release \/ RunDeferred
    BY <2>6 DEF Compensated, Release, RunDeferred
  <2> QED
    BY <1>3, <2>1, <2>2, <2>3, <2>4, <2>5, <2>6, <2>7, <2>8, <2>9,
       <2>10 DEF Consumer
<1>4. CASE Producer
  BY <1>4, BoundsAssumption DEF Producer, producerFrame, GraphEvent, GraphFails,
     EnterPersist, ForwardPersisting, PersistReturns, PersistRaises, PutOutcome, Put,
     Items, CompletionItem
<1>5. CASE Worker
  BY <1>5, ZenonT(60) DEF Worker, workerFrame, Flush, PersistFails, Commit, WriteReceipt, CreatedRows,
     Rows
<1>6. CASE Compensate
  BY <1>6 DEF Compensate
<1> QED
  BY <1>1, <1>2, <1>3, <1>4, <1>5, <1>6 DEF Next

\* Every variable keeps to its type in every reachable state.
THEOREM TypeCorrect == Spec => []TypeOK
BY TypeOKInit, TypeOKStep, PTL DEF Spec
-----------------------------------------------------------------------------
(* The inductive invariant holds initially and is preserved.               *)

\* The accepted request, not yet iterated, satisfies the inductive invariant.
LEMMA IInvInit == Init => IInv
<1> SUFFICES ASSUME Init PROVE IInv
  OBVIOUS
<1>1. TypeOK
  BY TypeOKInit
<1>2. ProducerInv /\ ControlInv /\ OutcomeInv
  BY DEF Init, ProducerInv, ControlInv, OutcomeInv, Empty, Orderly, ProducerDone
<1>3. RowsInv
  BY DEF Init, RowsInv
<1>4. SaidInv
  BY DEF Init, SaidInv, Said
<1> QED
  BY <1>1, <1>2, <1>3, <1>4 DEF IInv

\* A step that appends no `done` does not make the stream contain one.
LEMMA SaidUnchanged ==
    ASSUME stream \in Seq(Events), NEW said \in Seq(Events), stream' = stream \o said,
           \A i \in 1 .. Len(said) : said[i] # "done"
    PROVE  Said("done")' => Said("done")
<1> SUFFICES ASSUME NEW i \in DOMAIN stream', stream'[i] = "done"
             PROVE  \E j \in DOMAIN stream : stream[j] = "done"
  BY DEF Said
<1>1. i \in 1 .. Len(stream) \/ i - Len(stream) \in 1 .. Len(said)
  OBVIOUS
<1>2. CASE i \in 1 .. Len(stream)
  BY <1>2
<1>3. CASE i - Len(stream) \in 1 .. Len(said) /\ i \notin 1 .. Len(stream)
  BY <1>3
<1> QED
  BY <1>1, <1>2, <1>3

\* A disconnect, a dropped response and an exception thrown into the generator
\* preserve the invariant: they move the consumer and touch no row.
LEMMA EnvironmentStep == IInv /\ Environment => IInv'
<1> SUFFICES ASSUME IInv, Environment PROVE IInv'
  OBVIOUS
<1> USE DEF IInv, consumerVars, producerVars, envVars, afterVars
<1>1. TypeOK'
  BY TypeOKStep DEF Next
<1>2. UNCHANGED <<noticed, successful, stream, slot, producer, produced, announce, checkpoint,
                  worker, receipt, deferred, existing, db, comp, locked, background,
                  memoryWork>>
  BY DEF Environment, Disconnect, DropResponse, Abort, AbortCleanup
<1>3. ProducerInv' /\ RowsInv' /\ SaidInv'
  BY <1>2 DEF ProducerInv, RowsInv, SaidInv, Settled, Said, BaseRows, CreatedRows, Abandoned
<1>4. \/ UNCHANGED <<pc, interrupted>>
      \/ pc = "new" /\ pc' = "dropped" /\ UNCHANGED interrupted
      \/ pc \in AbortPoints /\ pc' = "finally" /\ UNCHANGED interrupted
      \/ pc \in {"finishing", "compensating"} /\ pc' = "closed" /\ interrupted' = TRUE
  BY DEF Environment, Disconnect, DropResponse, Abort, AbortCleanup
<1>5. ControlInv'
  BY <1>2, <1>4 DEF ControlInv, ProducerDone, AbortPoints
<1>6. OutcomeInv'
  BY <1>2, <1>4 DEF OutcomeInv, ProducerDone, AbortPoints, Abandoned, Orderly
<1> QED
  BY <1>1, <1>3, <1>5, <1>6

\* So do the producer's steps: it leaves "persist" only over a settled thread.
LEMMA ProducerStep == IInv /\ Producer => IInv'
<1> SUFFICES ASSUME IInv, Producer PROVE IInv'
  OBVIOUS
<1> USE DEF IInv, producerFrame, consumerVars, envVars, afterVars
<1>1. TypeOK'
  BY TypeOKStep DEF Next
<1>2. UNCHANGED <<pc, noticed, successful, stream, disconnected, aborts, interrupted, locked,
                  background, memoryWork, receipt, deferred, existing, db, comp>>
  BY DEF Producer, GraphEvent, GraphFails, EnterPersist, ForwardPersisting, PersistReturns,
     PersistRaises, PutOutcome
<1>3. /\ producer \notin {"none", "done", "cancelled"}
      /\ producer' \notin {"none", "cancelled"}
      /\ \/ UNCHANGED worker
         \/ worker = "idle" /\ worker' = "writing"
  <2>1. CASE GraphEvent \/ GraphFails
    BY <2>1 DEF GraphEvent, GraphFails
  <2>2. CASE EnterPersist \/ ForwardPersisting
    BY <2>2 DEF EnterPersist, ForwardPersisting, ProducerInv
  <2>3. CASE PersistReturns \/ PersistRaises
    BY <2>3 DEF PersistReturns, PersistRaises
  <2>4. CASE PutOutcome
    BY <2>4 DEF PutOutcome
  <2> QED
    BY <2>1, <2>2, <2>3, <2>4 DEF Producer
<1>4. ProducerInv'
  <2> USE DEF ProducerInv, Settled, Put, Empty, CompletionItem
  <2>1. CASE GraphEvent \/ GraphFails
    BY <2>1 DEF GraphEvent, GraphFails
  <2>2. CASE EnterPersist \/ ForwardPersisting
    BY <2>2 DEF EnterPersist, ForwardPersisting
  <2>3. CASE PersistReturns \/ PersistRaises
    BY <2>3 DEF PersistReturns, PersistRaises
  <2>4. CASE PutOutcome
    BY <2>4 DEF PutOutcome
  <2> QED
    BY <2>1, <2>2, <2>3, <2>4 DEF Producer
<1>5. RowsInv' /\ SaidInv'
  BY <1>2, <1>3 DEF RowsInv, SaidInv, Said, BaseRows, CreatedRows, Abandoned
<1>6. ControlInv'
  BY <1>2, <1>3 DEF ControlInv, ProducerDone
<1>7. OutcomeInv'
  BY <1>2, <1>3 DEF OutcomeInv, ProducerDone, Abandoned, Orderly
<1> QED
  BY <1>1, <1>4, <1>5, <1>6, <1>7

\* So do the persist thread's, which run whatever became of the producer: a
\* commit after an abandonment is where the compensation may already be over.
LEMMA WorkerStep == IInv /\ Worker => IInv'
<1> SUFFICES ASSUME IInv, Worker PROVE IInv'
  OBVIOUS
<1> USE DEF IInv, workerFrame, consumerVars, producerVars, envVars, afterVars
<1>1. TypeOK'
  BY TypeOKStep DEF Next
<1>2. UNCHANGED <<pc, noticed, successful, stream, producer, produced, announce, checkpoint,
                  disconnected, aborts, interrupted, locked, background, memoryWork, slot,
                  existing, comp>>
  BY DEF Worker, Flush, PersistFails, Commit, WriteReceipt
<1>3. /\ worker \in {"writing", "flushed", "committed"}
      /\ worker' # "idle"
      /\ producer \in {"persist", "cancelled"}
  BY DEF Worker, Flush, PersistFails, Commit, WriteReceipt, ProducerInv, Settled, TypeOK
<1>4. ProducerInv' /\ ControlInv' /\ SaidInv'
  BY <1>2, <1>3 DEF ProducerInv, ControlInv, SaidInv, Said, ProducerDone, Settled
<1>5. comp = "done" => Abandoned /\ Abandoned'
  BY <1>2, <1>3 DEF OutcomeInv, ProducerDone, Abandoned
<1>6. RowsInv'
  <2> USE <1>2, <1>5 DEF RowsInv, BaseRows, CreatedRows, Rows
  <2>1. CASE Flush \/ PersistFails
    BY <2>1 DEF Flush, PersistFails
  <2>2. CASE Commit
    BY <2>2 DEF Commit
  <2>3. CASE WriteReceipt
    BY <2>3 DEF WriteReceipt
  <2> QED
    BY <2>1, <2>2, <2>3 DEF Worker
<1>7. OutcomeInv'
  BY <1>2, <1>3 DEF OutcomeInv, ProducerDone, Abandoned, Orderly
<1> QED
  BY <1>1, <1>4, <1>6, <1>7

\* So does the compensation: it deletes exactly what the receipt names.
LEMMA CompensateStep == IInv /\ Compensate => IInv'
<1> SUFFICES ASSUME IInv, Compensate PROVE IInv'
  OBVIOUS
<1> USE DEF IInv, Compensate, consumerVars, producerVars, envVars, afterVars
<1>1. TypeOK'
  BY TypeOKStep DEF Next
<1>2. ProducerInv' /\ ControlInv' /\ SaidInv'
  BY DEF ProducerInv, ControlInv, SaidInv, Said, ProducerDone, Settled
<1>3. RowsInv'
  BY DEF RowsInv, BaseRows, CreatedRows, Rows, Abandoned
<1>4. OutcomeInv'
  BY DEF OutcomeInv, ProducerDone, Abandoned, Orderly
<1> QED
  BY <1>1, <1>2, <1>3, <1>4

\* What no consumer step touches, and how it may touch the producer: by
\* cancelling it, when it has not noticed a save.
LEMMA ConsumerFrame ==
    ASSUME IInv, Consumer
    PROVE  /\ UNCHANGED <<produced, announce, checkpoint, worker, receipt, existing, db>>
           /\ \/ comp' = comp
              \/ comp = "idle" /\ comp' = "running"
           /\ \/ slot' = slot
              \/ slot' = Empty
<1> USE DEF consumerVars, producerVars, envVars, afterVars, Say, Goto
<1>1. CASE Start \/ CreateProducer
  BY <1>1 DEF Start, CreateProducer
<1>2. CASE SayCancelled \/ SayFinal \/ SayDone \/ SayError \/ Completed
  BY <1>2 DEF SayCancelled, SayFinal, SayDone, SayError, Completed
<1>3. CASE Poll \/ Finally
  BY <1>3 DEF Poll, Finally, CancelProducer
<1>4. CASE Get \/ Drain("draining", "sayCancelled") \/ Drain("finishing", "unwinding")
  BY <1>4 DEF Get, Drain, Discard
<1>5. CASE Unwind
  BY <1>5 DEF Unwind, OutcomeInv, IInv, TypeOK
<1>6. CASE Compensated \/ Release \/ RunDeferred
  BY <1>6 DEF Compensated, Release, RunDeferred
<1> QED
  BY <1>1, <1>2, <1>3, <1>4, <1>5, <1>6 DEF Consumer

\* The consumer creates the producer once and cancels it only while no save has
\* been noticed.
LEMMA ConsumerProducer ==
    ASSUME IInv, Consumer
    PROVE  \/ producer' = producer
           \/ pc = "starting" /\ producer' = "graph"
           \/ /\ ~ProducerDone /\ ~noticed /\ ~noticed'
              /\ producer' = "cancelled" /\ pc' \in {"sayCancelled", "unwinding"}
<1> USE DEF consumerVars, producerVars, envVars, afterVars, Say, Goto
<1>1. CASE Start \/ CreateProducer
  BY <1>1 DEF Start, CreateProducer
<1>2. CASE SayCancelled \/ SayFinal \/ SayDone \/ SayError \/ Completed
  BY <1>2 DEF SayCancelled, SayFinal, SayDone, SayError, Completed
<1>3. CASE Poll \/ Finally
  BY <1>3 DEF Poll, Finally, CancelProducer, MustFinish
<1>4. CASE Get \/ Drain("draining", "sayCancelled") \/ Drain("finishing", "unwinding")
  BY <1>4 DEF Get, Drain
<1>5. CASE Unwind \/ Compensated \/ Release \/ RunDeferred
  BY <1>5 DEF Unwind, Compensated, Release, RunDeferred
<1> QED
  BY <1>1, <1>2, <1>3, <1>4, <1>5 DEF Consumer

\* A consumer step keeps the producer's and the rows' parts of the invariant.
LEMMA ConsumerRows == IInv /\ Consumer => ProducerInv' /\ RowsInv'
<1> SUFFICES ASSUME IInv, Consumer PROVE ProducerInv' /\ RowsInv'
  OBVIOUS
<1>1. ProducerInv'
  BY ConsumerFrame, ConsumerProducer DEF IInv, ControlInv, ProducerInv, Settled, Empty,
     ProducerDone
<1>2. Abandoned => Abandoned'
  BY ConsumerFrame, ConsumerProducer DEF IInv, ControlInv, Abandoned
<1>3. RowsInv'
  BY <1>2, ConsumerFrame DEF IInv, RowsInv, BaseRows, CreatedRows
<1> QED
  BY <1>1, <1>3

\* ... and the control part, one step per operation.
LEMMA ConsumerControl == IInv /\ Consumer => ControlInv'
<1> SUFFICES ASSUME IInv, Consumer PROVE ControlInv'
  OBVIOUS
<1> USE DEF IInv, ControlInv, ProducerDone, consumerVars, producerVars, envVars, afterVars,
        Say, Goto
<1>1. CASE Start
  BY <1>1 DEF Start
<1>2. CASE CreateProducer
  BY <1>2 DEF CreateProducer
<1>3. CASE SayCancelled \/ SayFinal
  BY <1>3 DEF SayCancelled, SayFinal, AfterCancelled
<1>4. CASE SayDone \/ SayError
  BY <1>4 DEF SayDone, SayError
<1>5. CASE Completed
  <2>1. pc = "completed" /\ pc' \in {"finally", "sayFinal", "sayError"}
    BY <1>5 DEF Completed
  <2>2. UNCHANGED <<producer, worker, checkpoint, noticed, interrupted>>
    BY <1>5 DEF Completed
  <2> QED
    BY <2>1, <2>2
<1>6. CASE Poll
  BY <1>6 DEF Poll, CancelProducer, MustFinish
<1>7. CASE Finally
  BY <1>7 DEF Finally, CancelProducer, MustFinish
<1>8. CASE Get
  <2>1. pc = "getting" /\ producer # "cancelled" /\ ~interrupted
    BY <1>8 DEF Get
  <2>2. UNCHANGED <<producer, worker, checkpoint, interrupted>>
    BY <1>8 DEF Get
  <2>3. \/ pc' = "polling"
        \/ pc' = "completed" /\ slot = "complete"
        \/ pc' = "sayError" /\ slot = "error"
    BY <1>8 DEF Get
  <2>4. slot \in {"complete", "error"} => producer = "done"
    BY DEF ProducerInv
  <2> QED
    BY <2>1, <2>2, <2>3, <2>4 DEF ProducerInv
<1>9. CASE Drain("draining", "sayCancelled") \/ Drain("finishing", "unwinding")
  BY <1>9 DEF Drain
<1>10. CASE Unwind
  BY <1>10 DEF Unwind
<1>11. CASE Compensated \/ Release \/ RunDeferred
  BY <1>11 DEF Compensated, Release, RunDeferred
<1> QED
  BY <1>1, <1>2, <1>3, <1>4, <1>5, <1>6, <1>7, <1>8, <1>9, <1>10, <1>11 DEF Consumer

\* ... and the outcome part: success is decided once and excludes compensation.
LEMMA ConsumerOutcome == IInv /\ Consumer => OutcomeInv'
<1> SUFFICES ASSUME IInv, Consumer PROVE OutcomeInv'
  OBVIOUS
<1> USE DEF IInv, OutcomeInv, ProducerDone, Abandoned, Orderly, consumerVars, producerVars,
        envVars, afterVars, Say, Goto
<1>1. CASE Start \/ CreateProducer
  BY <1>1 DEF Start, CreateProducer
<1>3. CASE SayCancelled \/ SayFinal
  BY <1>3 DEF SayCancelled, SayFinal, AfterCancelled
<1>4. CASE SayDone
  BY <1>4 DEF SayDone, ControlInv
<1>12. CASE SayError
  BY <1>12 DEF SayError
<1>5. CASE Completed
  BY <1>5 DEF Completed
<1>6. CASE Poll
  BY <1>6 DEF Poll, CancelProducer
<1>7. CASE Finally
  BY <1>7 DEF Finally, CancelProducer
<1>8. CASE Get
  BY <1>8 DEF Get
<1>9. CASE Drain("draining", "sayCancelled") \/ Drain("finishing", "unwinding")
  BY <1>9 DEF Drain
<1>10. CASE Unwind
  BY <1>10 DEF Unwind, ShouldCompensate, ControlInv
<1>11. CASE Compensated
  <2>1. ~deferred'
    BY <1>11, Zenon DEF Compensated, ClearDeferred
  <2>2. comp \in {"done", "failed"}
    BY <1>11 DEF Compensated, CompensationReturned, TypeOK
  <2> QED
    BY <1>11, <2>1, <2>2 DEF Compensated, ControlInv
<1>13. CASE Release
  BY <1>13 DEF Release
<1>14. CASE RunDeferred
  BY <1>14 DEF RunDeferred
<1> QED
  BY <1>1, <1>3, <1>4, <1>5, <1>6, <1>7, <1>8, <1>9, <1>10, <1>11, <1>12, <1>13, <1>14
  DEF Consumer

\* ... and the stream's part: `done` is appended only together with success.
LEMMA ConsumerSaid == IInv /\ Consumer => SaidInv'
<1> SUFFICES ASSUME IInv, Consumer PROVE SaidInv'
  OBVIOUS
<1> USE DEF IInv, consumerVars, producerVars, envVars, afterVars, Say, Goto
<1>1. successful => successful'
  <2>1. CASE SayDone
    BY <2>1 DEF SayDone
  <2>2. CASE ~SayDone
    BY <2>2 DEF Consumer, Start, CreateProducer, Poll, Get, SayCancelled, Completed, Drain,
       SayFinal, SayError, Finally, CancelProducer, Unwind, Compensated, Release, RunDeferred
  <2> QED
    BY <2>1, <2>2
<1>2. CASE SayDone
  BY <1>2 DEF SayDone, SaidInv
<1>3. CASE ~SayDone
  <2> DEFINE Harmless == {<<>>, <<"run_started">>, <<"cancelled">>, <<"citations", "final">>,
                          <<"error">>, <<"event">>, <<"persisting">>}
  <2>1. \/ \E said \in Harmless : stream' = stream \o said
        \/ stream' = stream
    <3>1. CASE Start \/ CreateProducer \/ SayCancelled
      BY <3>1 DEF Start, CreateProducer, SayCancelled
    <3>2. CASE SayFinal \/ SayError \/ Completed
      BY <3>2 DEF SayFinal, SayError, Completed
    <3>3. CASE Poll \/ Finally \/ Unwind
      BY <3>3 DEF Poll, Finally, Unwind, CancelProducer
    <3>4. CASE Drain("draining", "sayCancelled") \/ Drain("finishing", "unwinding")
      BY <3>4 DEF Drain
    <3>5. CASE Compensated \/ Release \/ RunDeferred
      BY <3>5 DEF Compensated, Release, RunDeferred
    <3>6. CASE Get
      <4>1. CASE slot \in {"event", "persisting"}
        <5>1. Append(stream, slot) = stream \o <<slot>>
          BY <4>1 DEF TypeOK
        <5>2. <<slot>> \in Harmless
          BY <4>1
        <5>3. stream' = stream \/ stream' = Append(stream, slot)
          BY <3>6 DEF Get
        <5> HIDE DEF Harmless
        <5> QED
          BY <5>1, <5>2, <5>3
      <4>2. CASE slot \notin {"event", "persisting"}
        BY <4>2, <3>6 DEF Get
      <4> QED
        BY <4>1, <4>2
    <3> QED
      BY <1>3, <3>1, <3>2, <3>3, <3>4, <3>5, <3>6 DEF Consumer
  <2>2. ASSUME NEW said \in Harmless
        PROVE  said \in Seq(Events) /\ \A i \in 1 .. Len(said) : said[i] # "done"
    <3>1. {<<"event">>, <<"persisting">>} \subseteq Seq(Events)
      BY DEF Events
    <3>2. said \in Seq(Events)
      BY <3>1, SaidTypes
    <3>3. CASE said = <<>>
      BY <3>2, <3>3
    <3>4. CASE said = <<"citations", "final">>
      BY <3>2, <3>4
    <3>5. CASE said \in {<<"run_started">>, <<"cancelled">>, <<"error">>, <<"event">>,
                        <<"persisting">>}
      BY <3>2, <3>5
    <3> QED
      BY <3>3, <3>4, <3>5
  <2>3. Said("done")' => Said("done")
    <3> HIDE DEF Harmless
    <3> QED
      BY <2>1, <2>2, SaidUnchanged DEF TypeOK, Said
  <2> QED
    BY <1>1, <2>3 DEF SaidInv
<1> QED
  BY <1>2, <1>3

\* The invariant is inductive: the steps of the five actors together.
LEMMA IInvStep == IInv /\ [Next]_vars => IInv'
<1> SUFFICES ASSUME IInv, [Next]_vars PROVE IInv'
  OBVIOUS
<1>1. TypeOK'
  BY TypeOKStep DEF IInv
<1>2. CASE UNCHANGED vars
  BY <1>1, <1>2 DEF vars, IInv, ProducerInv, RowsInv, ControlInv, OutcomeInv, SaidInv, Said,
     BaseRows, CreatedRows, Settled, ProducerDone, Abandoned, Orderly
<1>3. CASE Consumer
  BY <1>1, <1>3, ConsumerRows, ConsumerControl, ConsumerOutcome, ConsumerSaid DEF IInv
<1> QED
  BY <1>2, <1>3, EnvironmentStep, ProducerStep, WorkerStep, CompensateStep DEF Next

\* The inductive invariant holds in every reachable state: the four actors agree,
\* at every control point, on what has been written and who will undo it.
THEOREM Invariance == Spec => []IInv
BY IInvInit, IInvStep, PTL DEF Spec

-----------------------------------------------------------------------------
(* The properties.                                                         *)

\* `done` is only ever said over a saved turn and a stored checkpoint, and a
\* run that said it is never compensated.
THEOREM DoneIsSaved == Spec => []DoneMeansSaved
<1>1. IInv => DoneMeansSaved
  BY DEF IInv, SaidInv, OutcomeInv, RowsInv, DoneMeansSaved
<1> QED
  BY <1>1, Invariance, PTL

\* Commit or compensate: an orderly run that ends without success leaves the
\* database as it found it unless its compensation failed.
THEOREM CommitsOrCompensates == Spec => []CommitOrCompensate
<1>1. IInv => CommitOrCompensate
  <2> SUFFICES ASSUME IInv, pc = "ended", Orderly, ~successful, comp # "failed"
               PROVE  db = BaseRows
    BY DEF CommitOrCompensate
  <2>1. comp = "done" /\ ProducerDone /\ ~Abandoned
    BY DEF IInv, OutcomeInv, Orderly
  <2>2. worker \in {"idle", "saved", "failed"}
    BY <2>1 DEF IInv, TypeOK, ProducerInv, ProducerDone, Abandoned, Settled
  <2> QED
    BY <2>1, <2>2 DEF IInv, RowsInv
<1> QED
  BY <1>1, Invariance, PTL

\* A save the consumer has noticed is never abandoned.
THEOREM NoticedSavesAreAwaited == Spec => []NoticedSaveIsAwaited
<1>1. IInv => NoticedSaveIsAwaited
  BY DEF IInv, ControlInv, NoticedSaveIsAwaited, Abandoned
<1> QED
  BY <1>1, Invariance, PTL

\* No run deletes a conversation it did not create.
THEOREM ConversationsAreKept == Spec => []ConversationKept
<1>1. IInv => ConversationKept
  BY DEF IInv, RowsInv, ConversationKept, BaseRows, Rows, TypeOK
<1> QED
  BY <1>1, Invariance, PTL

\* Memory work of an orderly run implies its success.
THEOREM MemoryAfterSuccess == Spec => []MemoryOnlyAfterSuccess
<1>1. IInv => MemoryOnlyAfterSuccess
  BY DEF IInv, OutcomeInv, MemoryOnlyAfterSuccess
<1> QED
  BY <1>1, Invariance, PTL

\* After an orderly end no actor touches the rows, the receipt or the
\* collected tasks again.
THEOREM NothingAfterEnd == Spec => SettledAfterEnd
<1>1. IInv /\ [Next]_vars =>
        [pc = "ended" /\ Orderly => UNCHANGED <<db, deferred, receipt>>]_vars
  <2> SUFFICES ASSUME IInv, Next, pc = "ended", Orderly
               PROVE  UNCHANGED <<db, deferred, receipt>>
    OBVIOUS
  <2>1. ProducerDone /\ comp # "running" /\ worker \in {"idle", "saved", "failed"}
    BY DEF IInv, OutcomeInv, Orderly, TypeOK, ProducerInv, ProducerDone, Abandoned, Settled
  <2>2. CASE Environment
    BY <2>2 DEF Environment, Disconnect, DropResponse, Abort, AbortCleanup
  <2>3. CASE Consumer
    BY <2>3 DEF Consumer, Start, CreateProducer, Poll, Get, SayCancelled, Completed, Drain,
       SayFinal, SayDone, SayError, Finally, Unwind, Compensated, Release, RunDeferred
  <2>4. CASE Producer
    BY <2>1, <2>4 DEF Producer, ProducerDone, GraphEvent, GraphFails, EnterPersist,
       ForwardPersisting, PersistReturns, PersistRaises, PutOutcome
  <2>5. CASE Worker
    BY <2>1, <2>5 DEF Worker, Flush, PersistFails, Commit, WriteReceipt
  <2>6. CASE Compensate
    BY <2>1, <2>6 DEF Compensate
  <2> QED
    BY <2>2, <2>3, <2>4, <2>5, <2>6 DEF Next
<1> QED
  BY <1>1, Invariance, PTL DEF Spec, SettledAfterEnd
=============================================================================
