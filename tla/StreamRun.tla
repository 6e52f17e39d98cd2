---------------------------- MODULE StreamRun ----------------------------
(***************************************************************************)
(* One streamed agent run, from the accepted POST /agent/chat/stream to    *)
(* the end of its response (backend/app/streaming/service.py).             *)
(*                                                                         *)
(* Four actors share the run's state:                                      *)
(*   - the consumer, the async generator stream_agent_sse that the web     *)
(*     framework iterates and that may be closed or cancelled at any await *)
(*     or yield;                                                           *)
(*   - the producer, an asyncio task that runs the graph and forwards its  *)
(*     events through a queue of one slot;                                 *)
(*   - the persist node, which runs in an executor thread: cancelling the  *)
(*     producer does not stop it;                                          *)
(*   - the compensation, a second thread that deletes what the receipt     *)
(*     names when the run did not succeed.                                 *)
(***************************************************************************)
EXTENDS Naturals, Sequences

CONSTANTS
    ActivityEvents,  \* settings.agent_activity_events_enabled
    MaxEvents,       \* bound: graph events forwarded before the persist node
    MaxAborts        \* bound: CancelledError / GeneratorExit deliveries

ASSUME ActivityEventsAssumption == ActivityEvents \in BOOLEAN
ASSUME BoundsAssumption == MaxEvents \in Nat /\ MaxAborts \in Nat

VARIABLES
    pc,            \* the consumer's control point
    disconnected,  \* what request.is_disconnected() answers
    aborts,        \* exceptions the framework has thrown into the generator
    interrupted,   \* one of them cut the generator's finally short
    noticed,       \* persistence_started
    successful,    \* successful
    stream,        \* the public events yielded so far
    slot,          \* the queue of maxsize 1
    producer,      \* the producer task's control point
    produced,      \* graph events forwarded so far
    announce,      \* "persisting" written by the node, not yet forwarded
    worker,        \* the persist node's thread
    receipt,       \* the rows persistence_receipt names
    deferred,      \* the collector holds the memory task
    existing,      \* the conversation row existed before the run
    db,            \* committed rows of this run's conversation
    checkpoint,    \* the exit checkpoint of the thread was stored
    comp,          \* the compensation thread
    locked,        \* the registry holds the conversation id
    background,    \* the response's background task has run
    memoryWork     \* ... and found a memory task to run

consumerVars == <<pc, noticed, successful, stream>>
producerVars == <<producer, produced, announce, checkpoint>>
envVars == <<disconnected, aborts, interrupted>>
afterVars == <<locked, background, memoryWork>>
vars == <<pc, noticed, successful, stream, producer, produced, announce, checkpoint,
          disconnected, aborts, interrupted, locked, background, memoryWork, slot,
          worker, receipt, deferred, existing, db, comp>>

-----------------------------------------------------------------------------
Rows == {"conversation", "turn", "event"}
Empty == "empty"
Items == {"event", "persisting", "complete", "error"}
Terminal == {"done", "cancelled", "error"}
Events == {"run_started", "event", "persisting", "citations", "final"} \cup Terminal

\* What the database holds of this conversation when the run starts.
BaseRows == IF existing THEN {"conversation"} ELSE {}

FlagsOK ==
    /\ disconnected \in BOOLEAN /\ interrupted \in BOOLEAN /\ noticed \in BOOLEAN
    /\ successful \in BOOLEAN /\ announce \in BOOLEAN /\ deferred \in BOOLEAN
    /\ existing \in BOOLEAN /\ checkpoint \in BOOLEAN /\ locked \in BOOLEAN
    /\ background \in BOOLEAN /\ memoryWork \in BOOLEAN

TypeOK ==
    /\ FlagsOK
    /\ pc \in {"new", "dropped", "starting", "polling", "getting", "draining",
               "sayCancelled", "completed", "sayFinal", "sayDone", "sayError",
               "finally", "finishing", "unwinding", "compensating", "closed", "ended"}
    /\ aborts \in 0 .. MaxAborts
    /\ stream \in Seq(Events)
    /\ slot \in Items \cup {Empty}
    /\ producer \in {"none", "graph", "persist", "complete", "failed", "done", "cancelled"}
    /\ produced \in 0 .. MaxEvents
    /\ worker \in {"idle", "writing", "flushed", "committed", "saved", "failed"}
    /\ receipt \subseteq Rows
    /\ db \subseteq Rows
    /\ comp \in {"idle", "running", "done", "failed"}

\* The endpoint has resolved the conversation, acquired the lock and returned
\* a response whose generator has not been iterated yet.
Init ==
    /\ pc = "new" /\ disconnected = FALSE /\ aborts = 0 /\ interrupted = FALSE
    /\ noticed = FALSE /\ successful = FALSE /\ stream = <<>> /\ slot = Empty
    /\ producer = "none" /\ produced = 0 /\ announce = FALSE /\ checkpoint = FALSE
    /\ worker = "idle" /\ receipt = {} /\ deferred = FALSE
    /\ existing \in BOOLEAN
    /\ db = BaseRows
    /\ comp = "idle" /\ locked = TRUE /\ background = FALSE /\ memoryWork = FALSE

ProducerDone == producer \in {"none", "done", "cancelled"}

-----------------------------------------------------------------------------
(* The framework and the client.                                           *)

\* The client goes away.
Disconnect ==
    /\ ~disconnected /\ pc # "ended"
    /\ disconnected' = TRUE
    /\ UNCHANGED <<consumerVars, producerVars, afterVars, aborts, interrupted, slot,
                   worker, receipt, deferred, existing, db, comp>>

\* The framework drops the response before it asks for the first chunk: a
\* generator that never started runs no finally.
DropResponse ==
    /\ pc = "new"
    /\ pc' = "dropped"
    /\ UNCHANGED <<producerVars, envVars, afterVars, noticed, successful, stream, slot,
                   worker, receipt, deferred, existing, db, comp>>

AbortPoints == {"starting", "polling", "getting", "draining", "completed", "sayFinal",
                "sayDone"}

\* CancelledError at an await or GeneratorExit at a yield: recorded, re-raised,
\* and the finally block runs.
Abort ==
    /\ aborts < MaxAborts /\ pc \in AbortPoints
    /\ aborts' = aborts + 1
    /\ pc' = "finally"
    /\ UNCHANGED <<producerVars, afterVars, disconnected, interrupted, noticed, successful,
                   stream, slot, worker, receipt, deferred, existing, db, comp>>

\* A CancelledError delivered at an await of the finally block itself: what is
\* left of the block is skipped. A thread that was started keeps running.
AbortCleanup ==
    /\ aborts < MaxAborts /\ pc \in {"finishing", "compensating"}
    /\ aborts' = aborts + 1
    /\ interrupted' = TRUE
    /\ pc' = "closed"
    /\ UNCHANGED <<producerVars, afterVars, disconnected, noticed, successful, stream,
                   slot, worker, receipt, deferred, existing, db, comp>>

Environment == Disconnect \/ DropResponse \/ Abort \/ AbortCleanup

-----------------------------------------------------------------------------
(* The consumer: stream_agent_sse.                                         *)

\* Yields an event (or several with no effect in between) and goes on.
Say(events, next) ==
    /\ stream' = stream \o events
    /\ pc' = next
    /\ UNCHANGED <<producerVars, envVars, afterVars, noticed, slot, worker, receipt,
                   deferred, existing, db, comp>>

Goto(next) == Say(<<>>, next) /\ UNCHANGED successful

Start ==
    /\ pc = "new"
    /\ Say(<<"run_started">>, "starting") /\ UNCHANGED successful

\* Builds the graph and creates the producer task; building may raise.
CreateProducer ==
    /\ pc = "starting"
    /\ \/ Goto("sayError")
       \/ /\ producer' = "graph"
          /\ pc' = "polling"
          /\ UNCHANGED <<envVars, afterVars, produced, announce, checkpoint, noticed,
                         successful, stream, slot, worker, receipt, deferred, existing,
                         db, comp>>

MustFinishNever == FALSE
\* if persistence_started: the producer is drained to its end, else cancelled.
MustFinish == noticed

\* producer.cancel() and the await that follows it. A persist thread that is
\* already running is not stopped.
CancelProducer(next) ==
    /\ producer' = IF ProducerDone THEN producer ELSE "cancelled"
    /\ pc' = next
    /\ UNCHANGED <<envVars, afterVars, produced, announce, checkpoint, noticed, successful,
                   stream, slot, worker, receipt, deferred, existing, db, comp>>

\* The disconnect check at the head of the loop.
Poll ==
    /\ pc = "polling"
    /\ \/ ~disconnected /\ Goto("getting")
       \/ disconnected /\ MustFinish /\ Goto("draining")
       \/ disconnected /\ ~MustFinish /\ CancelProducer("sayCancelled")

\* One queue.get() of _finish_persistence_producer: the item is thrown away.
Discard == slot # Empty /\ slot' = Empty

\* _finish_persistence_producer, in the loop and in the finally block.
Drain(at, next) ==
    /\ pc = at
    /\ \/ ProducerDone /\ Goto(next)
       \/ /\ ~ProducerDone /\ Discard
          /\ UNCHANGED <<consumerVars, producerVars, envVars, afterVars, worker, receipt,
                         deferred, existing, db, comp>>

\* return, from inside the try.
AfterCancelled == "finally"

SayCancelled ==
    /\ pc = "sayCancelled"
    /\ Say(<<"cancelled">>, AfterCancelled) /\ UNCHANGED successful

\* queue.get() with a timeout: back to the disconnect check with nothing, or
\* with an item, which is published, completes the loop or is raised.
Get ==
    /\ pc = "getting"
    /\ \/ slot = Empty /\ Goto("polling")
       \/ /\ slot # Empty
          /\ slot' = Empty
          /\ stream' = IF slot \in {"event", "persisting"} THEN Append(stream, slot)
                                                           ELSE stream
          /\ noticed' = (noticed \/ slot = "persisting")
          /\ \/ slot = "complete" /\ pc' = "completed"
             \/ slot = "error" /\ pc' = "sayError"
             \/ slot \notin {"complete", "error"} /\ pc' = "polling"
          /\ UNCHANGED <<producerVars, envVars, afterVars, successful, worker, receipt,
                         deferred, existing, db, comp>>

\* The disconnect check after the loop returns with no terminal event; a final
\* state without a valid response raises.
Completed ==
    /\ pc = "completed"
    /\ \/ disconnected /\ Goto("finally")
       \/ ~disconnected /\ (Goto("sayFinal") \/ Goto("sayError"))

SayFinal ==
    /\ pc = "sayFinal"
    /\ Say(<<"citations", "final">>, "sayDone") /\ UNCHANGED successful

SayDone ==
    /\ pc = "sayDone"
    /\ Say(<<"done">>, "finally")
    /\ successful' = TRUE

SayError ==
    /\ pc = "sayError"
    /\ Say(<<"error">>, "finally") /\ UNCHANGED successful

\* finally: settle the producer if it still runs.
Finally ==
    /\ pc = "finally"
    /\ \/ ProducerDone /\ Goto("unwinding")
       \/ ~ProducerDone /\ MustFinish /\ Goto("finishing")
       \/ ~ProducerDone /\ ~MustFinish /\ CancelProducer("unwinding")

AlwaysCompensate == TRUE
\* if not successful and receipt: the receipt always holds the request id.
ShouldCompensate == ~successful

Unwind ==
    /\ pc = "unwinding"
    /\ \/ ~ShouldCompensate /\ Goto("closed")
       \/ /\ ShouldCompensate
          /\ comp' = "running" /\ pc' = "compensating"
          /\ UNCHANGED <<producerVars, envVars, afterVars, noticed, successful, stream, slot,
                         worker, receipt, deferred, existing, db>>

FireAndForget == TRUE
\* await asyncio.to_thread(compensate_stream_persistence, ...)
CompensationReturned == comp # "running"

ForgetToClear == UNCHANGED deferred
ClearDeferred == deferred' = FALSE

Compensated ==
    /\ pc = "compensating" /\ CompensationReturned
    /\ ClearDeferred
    /\ pc' = "closed"
    /\ UNCHANGED <<producerVars, envVars, afterVars, noticed, successful, stream, slot,
                   worker, receipt, existing, db, comp>>

\* The finally of stream_agent_sse_with_run_lock.
Release ==
    /\ pc = "closed"
    /\ pc' = "ended" /\ locked' = FALSE
    /\ UNCHANGED <<producerVars, envVars, background, memoryWork, noticed, successful,
                   stream, slot, worker, receipt, deferred, existing, db, comp>>

\* run_deferred_stream_tasks, the response's BackgroundTask.
RunDeferred ==
    /\ pc = "ended" /\ ~background
    /\ background' = TRUE /\ memoryWork' = deferred
    /\ UNCHANGED <<consumerVars, producerVars, envVars, locked, slot, worker, receipt,
                   deferred, existing, db, comp>>

Consumer ==
    \/ Start \/ CreateProducer \/ Poll \/ Get \/ SayCancelled \/ Completed
    \/ Drain("draining", "sayCancelled") \/ Drain("finishing", "unwinding")
    \/ SayFinal \/ SayDone \/ SayError \/ Finally \/ Unwind \/ Compensated
    \/ Release \/ RunDeferred

-----------------------------------------------------------------------------
(* The producer: _produce_graph_events around graph.astream.               *)

\* queue.put waits for the slot.
Put(item) == slot = Empty /\ slot' = item

producerFrame == <<consumerVars, envVars, afterVars, receipt, deferred, existing, db, comp>>

GraphEvent ==
    /\ producer = "graph" /\ produced < MaxEvents
    /\ Put("event")
    /\ produced' = produced + 1
    /\ UNCHANGED <<producerFrame, producer, announce, checkpoint, worker>>

\* A node before the persist node raises (a provider error, an empty answer).
GraphFails ==
    /\ producer = "graph"
    /\ producer' = "failed"
    /\ UNCHANGED <<producerFrame, produced, announce, checkpoint, slot, worker>>

\* The graph hands the persist node to an executor thread, which writes the
\* "persisting" activity unless activity events are off.
EnterPersist ==
    /\ producer = "graph"
    /\ producer' = "persist" /\ worker' = "writing" /\ announce' = ActivityEvents
    /\ UNCHANGED <<producerFrame, produced, checkpoint, slot>>

ForwardPersisting ==
    /\ producer = "persist" /\ announce
    /\ Put("persisting")
    /\ announce' = FALSE
    /\ UNCHANGED <<producerFrame, producer, produced, checkpoint, worker>>

\* The node's result is applied, the response formatted and the exit
\* checkpoint stored, before astream ends; either of the last two may raise.
PersistReturns ==
    /\ producer = "persist" /\ worker = "saved" /\ ~announce
    /\ \/ producer' = "complete" /\ checkpoint' = TRUE
       \/ producer' = "failed" /\ UNCHANGED checkpoint
    /\ UNCHANGED <<producerFrame, produced, announce, slot, worker>>

\* A failing node may take its unforwarded activity with it.
PersistRaises ==
    /\ producer = "persist" /\ worker = "failed"
    /\ producer' = "failed" /\ announce' = FALSE
    /\ UNCHANGED <<producerFrame, produced, checkpoint, slot, worker>>

CompletionItem == "complete"

PutCompletionOnly ==
    /\ \/ producer = "complete" /\ Put(CompletionItem)
       \/ producer = "failed" /\ UNCHANGED slot
    /\ producer' = "done"
    /\ UNCHANGED <<producerFrame, produced, announce, checkpoint, worker>>

PutOutcome ==
    /\ \/ producer = "complete" /\ Put(CompletionItem)
       \/ producer = "failed" /\ Put("error")
    /\ producer' = "done"
    /\ UNCHANGED <<producerFrame, produced, announce, checkpoint, worker>>

Producer ==
    \/ GraphEvent \/ GraphFails \/ EnterPersist \/ ForwardPersisting
    \/ PersistReturns \/ PersistRaises \/ PutOutcome

-----------------------------------------------------------------------------
(* The persist node's thread: streaming_persist_node.                      *)

workerFrame == <<consumerVars, producerVars, envVars, afterVars, slot, existing, comp>>

\* The rows the node's transaction adds: ensure_conversation creates the
\* conversation only when it is absent.
CreatedRows == {"turn", "event"} \cup (IF existing THEN {} ELSE {"conversation"})

\* ensure_conversation, save_memory (which hands the memory task to the
\* collector) and record_learning_event, flushed and not yet committed.
Flush ==
    /\ worker = "writing"
    /\ worker' = "flushed" /\ deferred' = TRUE
    /\ UNCHANGED <<workerFrame, receipt, db>>

\* Any statement, or the commit, raises: rollback.
PersistFails ==
    /\ worker \in {"writing", "flushed"}
    /\ worker' = "failed"
    /\ UNCHANGED <<workerFrame, receipt, deferred, db>>

Commit ==
    /\ worker = "flushed"
    /\ worker' = "committed" /\ db' = db \cup CreatedRows
    /\ UNCHANGED <<workerFrame, receipt, deferred>>

\* persistence_receipt.update(result), after the commit.
WriteReceipt ==
    /\ worker = "committed"
    /\ worker' = "saved" /\ receipt' = CreatedRows
    /\ UNCHANGED <<workerFrame, deferred, db>>

Worker == Flush \/ PersistFails \/ Commit \/ WriteReceipt

-----------------------------------------------------------------------------
(* The compensation thread: compensate_stream_persistence.                 *)

\* One transaction deletes what the receipt names, or is rolled back and
\* logged as critical.
Compensate ==
    /\ comp = "running"
    /\ \/ comp' = "done" /\ db' = db \ receipt
       \/ comp' = "failed" /\ UNCHANGED db
    /\ UNCHANGED <<consumerVars, producerVars, envVars, afterVars, slot, worker, receipt,
                   deferred, existing>>

-----------------------------------------------------------------------------
Next == Environment \/ Consumer \/ Producer \/ Worker \/ Compensate

\* The event loop runs every ready coroutine, the executor every submitted
\* function. A node ends: provider and database calls carry timeouts.
Fairness ==
    /\ WF_vars(Consumer)
    /\ WF_vars(Producer)
    /\ WF_vars(Worker)
    /\ WF_vars(Compensate)

Spec == Init /\ [][Next]_vars /\ Fairness
-----------------------------------------------------------------------------
(* Properties.                                                             *)

\* The producer was cancelled over a persist thread that was already running.
Abandoned == producer = "cancelled" /\ worker # "idle"

\* No abandoned thread, and the finally block ran to its end.
Orderly == ~Abandoned /\ ~interrupted

Said(event) == \E i \in DOMAIN stream : stream[i] = event

\* `done` is yielded only over a committed turn whose graph checkpoint is
\* stored, and the rows are there ever after: nothing compensates a run that
\* said `done`.
DoneMeansSaved ==
    Said("done") => Rows \subseteq db /\ checkpoint

\* Commit or compensate: when an orderly response has ended without success,
\* the database holds what it held before the run, unless the compensation
\* itself failed (it logs a critical record). Whatever raced: a disconnect seen
\* at any poll, a node or checkpoint failure, a close at any yield.
CommitOrCompensate ==
    pc = "ended" /\ Orderly /\ ~successful /\ comp # "failed" => db = BaseRows

\* From the moment the consumer has forwarded "persisting" the producer is
\* never cancelled, so the thread is never abandoned: every later end of the
\* run waits for the transaction.
NoticedSaveIsAwaited ==
    noticed => ~Abandoned

\* A conversation that existed before the run survives it, however it ends and
\* however late the thread commits.
ConversationKept ==
    existing => "conversation" \in db

\* Post-response memory work runs only for a successful run, if the run is
\* orderly.
MemoryOnlyAfterSuccess ==
    memoryWork /\ Orderly => successful

\* Once an orderly response has ended no step of any actor touches the rows or
\* leaves a task in the collector: the answer of the next request is based on a
\* settled conversation.
SettledAfterEnd ==
    [][pc = "ended" /\ Orderly => UNCHANGED <<db, deferred, receipt>>]_vars

\* Every started response ends and releases its conversation, whatever the
\* client does: the consumer's loop always receives an outcome, and waiting for the
\* producer cannot deadlock with a producer that waits for the one-slot queue.
RunEnds ==
    (pc = "starting") ~> (pc = "ended" /\ ~locked)

\* AGENT.md:112-113, taken without the proviso that the persist thread was not
\* abandoned: no unsuccessful run leaves a completed turn, once its threads are
\* over and its compensation succeeded.
NoTurnWithoutSuccess ==
    ( /\ pc = "ended" /\ ~successful /\ comp = "done"
      /\ worker \in {"idle", "saved", "failed"} )
    => "turn" \notin db

=============================================================================
