---------------------------- MODULE MCPClient ----------------------------
(***************************************************************************)
(* MCPClientManager (backend/app/mcp/client.py) for one server: the calls  *)
(* of many requests share one runtime, a worker task that owns the         *)
(* session and serves a bounded queue. A call that fails, times out or is  *)
(* cancelled discards the runtime, whoever else uses it; a retry replaces  *)
(* it; shutdown stops it.                                                  *)
(*                                                                         *)
(* All of it runs on one event loop. An action is what one task does       *)
(* between two awaits that suspend it; the manager's lock is never held    *)
(* across such an await, so it is not seen here.                           *)
(***************************************************************************)
EXTENDS Naturals, Sequences

CONSTANTS
    Calls,       \* the calls of call_tool
    Runtimes,    \* bound: runtimes alive or in use at the same time
    MaxPending,  \* max_pending_calls
    MaxRetries   \* max_retries

None == 0

ASSUME CallsAssumption == None \notin Calls
ASSUME RuntimesAssumption == Runtimes \subseteq Nat \ {None}
ASSUME LimitsAssumption == MaxPending \in Nat \ {0} /\ MaxRetries \in Nat

VARIABLES
    pc,        \* each call's control point
    attempt,   \* attempts it has begun
    used,      \* last_runtime
    future,    \* the future of its command
    table,     \* _runtimes: the server's runtime
    task,      \* each runtime's worker task
    asked,     \* ... has been cancelled and has not ended yet
    ready,     \* the runtime's ready future
    queue,     \* the runtime's queue; a command is named by its call
    running,   \* the command its worker executes
    phase,     \* of the manager
    closing    \* the runtime that shutdown stops

callVars == <<pc, attempt, used>>
workVars == <<task, running>>
downVars == <<phase, closing>>
vars == <<callVars, future, table, workVars, asked, ready, queue, downVars>>

-----------------------------------------------------------------------------
TypeOK ==
    /\ pc \in [Calls -> {"new", "ready", "putting", "waiting", "undiscovered", "retrying",
                         "backoff", "revoked", "interrupted", "leaving", "answered",
                         "failed"}]
    /\ attempt \in [Calls -> 0 .. MaxRetries + 1]
    /\ used \in [Calls -> Runtimes \cup {None}]
    /\ future \in [Calls -> {"none", "pending", "result", "retryable", "final", "cancelled"}]
    /\ table \in Runtimes \cup {None}
    /\ task \in [Runtimes -> {"none", "connecting", "idle", "busy", "done"}]
    /\ asked \in [Runtimes -> BOOLEAN]
    /\ ready \in [Runtimes -> {"pending", "tools", "failed"}]
    /\ queue \in [Runtimes -> Seq(Calls)]
    /\ \A r \in Runtimes : Len(queue[r]) <= MaxPending
    /\ running \in [Runtimes -> Calls \cup {None}]
    /\ phase \in {"up", "closing", "waiting", "down"}
    /\ closing \in Runtimes \cup {None}

Init ==
    /\ pc = [c \in Calls |-> "new"] /\ attempt = [c \in Calls |-> 0]
    /\ used = [c \in Calls |-> None] /\ future = [c \in Calls |-> "none"]
    /\ table = None
    /\ task = [r \in Runtimes |-> "none"] /\ asked = [r \in Runtimes |-> FALSE]
    /\ ready = [r \in Runtimes |-> "pending"] /\ queue = [r \in Runtimes |-> <<>>]
    /\ running = [r \in Runtimes |-> None]
    /\ phase = "up" /\ closing = None

\* task is not None and not task.done()
Alive(r) == r # None /\ task[r] \in {"connecting", "idle", "busy"}

\* The name of a runtime that is over and that nothing refers to is taken again.
Unused(r) ==
    /\ ~Alive(r) /\ r # table /\ r # closing
    /\ \A c \in Calls : used[c] # r
Fresh(r) == Unused(r) /\ \A q \in Runtimes : Unused(q) => r <= q

Queued(r) == {queue[r][i] : i \in DOMAIN queue[r]}

-----------------------------------------------------------------------------
(* Stopping a runtime.                                                     *)

PendingQueuedOnly(r) == Queued(r)
\* The commands whose callers _fail_pending has to tell.
PendingOf(r) == Queued(r) \cup {running[r]}

\* _fail_pending: the callers of the command in execution and of those in the
\* queue, which is emptied, and whoever waits for the connection.
FailPending(r, error) ==
    /\ future' = [c \in Calls |-> IF c \in PendingOf(r) /\ future[c] = "pending"
                                  THEN error ELSE future[c]]
    /\ queue' = [queue EXCEPT ![r] = <<>>]
    /\ ready' = [ready EXCEPT ![r] = IF @ = "pending" THEN "failed" ELSE @]

\* _stop_runtime up to its wait, which ends with the task or after
\* connect_timeout_seconds: whoever waits may go on at any time. MCPError is not
\* retryable.
Stop(r) ==
    /\ FailPending(r, "final")
    /\ asked' = [asked EXCEPT ![r] = @ \/ Alive(r)]

\* _discard_runtime up to the wait.
Discard(r) ==
    /\ table' = IF table = r THEN None ELSE table
    /\ Stop(r)

-----------------------------------------------------------------------------
(* A call: call_tool, _call_once, _runtime, discover_tools.                *)

\* The attempt's variables are left behind, at the end those of the call.
End(c, outcome) ==
    /\ pc' = [pc EXCEPT ![c] = outcome]
    /\ used' = [used EXCEPT ![c] = None]
    /\ future' = [future EXCEPT ![c] = "none"]
    /\ attempt' = IF outcome = "backoff" THEN attempt ELSE [attempt EXCEPT ![c] = 0]

\* not queue.full()
Room(r) == Len(queue[r]) < MaxPending

GoOn(c, point, r, n) ==
    /\ pc' = [pc EXCEPT ![c] = point]
    /\ used' = [used EXCEPT ![c] = r]
    /\ attempt' = [attempt EXCEPT ![c] = n]

\* The tool is not among those the server offers, the command enters the
\* queue, or the queue is full.
Enqueue(c, r, n) ==
    \/ End(c, "failed") /\ UNCHANGED queue
    \/ /\ Room(r)
       /\ queue' = [queue EXCEPT ![r] = Append(@, c)]
       /\ future' = [future EXCEPT ![c] = "pending"]
       /\ GoOn(c, "waiting", r, n)
    \/ /\ ~Room(r)
       /\ GoOn(c, "putting", r, n)
       /\ UNCHANGED <<future, queue>>

\* _runtime after shutdown raises.
Refuse(c) ==
    /\ phase # "up" /\ pc[c] \in {"new", "backoff"}
    /\ End(c, "failed")
    /\ UNCHANGED <<table, workVars, asked, ready, queue, downVars>>

\* A first attempt shares the server's runtime.
Reuse(c) ==
    /\ phase = "up" /\ pc[c] = "new" /\ Alive(table)
    /\ \/ ready[table] = "tools" /\ Enqueue(c, table, 1)
       \/ ready[table] # "tools" /\ GoOn(c, "ready", table, 1) /\ UNCHANGED <<future, queue>>
    /\ UNCHANGED <<table, workVars, asked, ready, downVars>>

ForgetReplaced(q) == FALSE
\* existing.task.cancel()
CancelReplaced(q) == q = table

\* There is none, it is over, or this is a retry, which replaces it.
Create(c) ==
    /\ phase = "up"
    /\ pc[c] = "backoff" \/ (pc[c] = "new" /\ ~Alive(table))
    /\ \E r \in Runtimes :
        /\ Fresh(r)
        /\ table' = r
        /\ task' = [task EXCEPT ![r] = "connecting"]
        /\ asked' = [q \in Runtimes |-> IF q = r THEN FALSE
                                        ELSE asked[q] \/ (CancelReplaced(q) /\ Alive(q))]
        /\ ready' = [ready EXCEPT ![r] = "pending"]
        /\ queue' = [queue EXCEPT ![r] = <<>>]
        /\ running' = [running EXCEPT ![r] = None]
        /\ GoOn(c, "ready", r, attempt[c] + 1)
    /\ UNCHANGED <<future, downVars>>

Connected(c) ==
    /\ pc[c] = "ready" /\ ready[used[c]] = "tools"
    /\ Enqueue(c, used[c], attempt[c])
    /\ UNCHANGED <<table, workVars, asked, ready, downVars>>

\* queue.put goes on when there is room, whatever has become of the runtime.
Put(c) ==
    /\ pc[c] = "putting" /\ Room(used[c])
    /\ queue' = [queue EXCEPT ![used[c]] = Append(@, c)]
    /\ future' = [future EXCEPT ![c] = "pending"]
    /\ pc' = [pc EXCEPT ![c] = "waiting"]
    /\ UNCHANGED <<attempt, used, table, workVars, asked, ready, downVars>>

\* The connection fails, whatever the reason, or takes too long: discover_tools
\* discards the runtime, and call_tool will once more.
FailDiscovery(c) ==
    /\ pc[c] = "ready" /\ ready[used[c]] # "tools"
    /\ Discard(used[c])
    /\ pc' = [pc EXCEPT ![c] = "undiscovered"]
    /\ UNCHANGED <<attempt, used, workVars, downVars>>

\* The attempt fails with an MCPRetryableError.
FailAttempt(c) ==
    /\ \/ pc[c] = "undiscovered"
       \/ pc[c] = "waiting" /\ future[c] = "retryable"
    /\ Discard(used[c])
    /\ pc' = [pc EXCEPT ![c] = "retrying"]
    /\ UNCHANGED <<attempt, used, workVars, downVars>>

Retry(c) ==
    /\ pc[c] = "retrying"
    /\ End(c, IF attempt[c] > MaxRetries THEN "failed" ELSE "backoff")
    /\ UNCHANGED <<table, workVars, asked, ready, queue, downVars>>

\* Another MCPError is raised as it is.
Receive(c) ==
    /\ pc[c] = "waiting" /\ future[c] \in {"result", "final"}
    /\ End(c, IF future[c] = "result" THEN "answered" ELSE "failed")
    /\ UNCHANGED <<table, workVars, asked, ready, queue, downVars>>

TimedConnection == {"ready", "putting", "undiscovered", "retrying", "backoff"}
\* What the total timeout covers, and where a cancelled caller may be.
Timed == {"ready", "putting", "waiting", "undiscovered", "retrying", "backoff"}

\* The total timeout, or the caller is cancelled: the await that is pending is,
\* and with it the command's future.
Interrupt(c) ==
    /\ pc[c] \in Timed
    /\ \/ pc[c] = "backoff" /\ End(c, "failed")
       \/ /\ pc[c] # "backoff"
          /\ GoOn(c, IF pc[c] = "ready" THEN "revoked" ELSE "interrupted",
                  used[c], attempt[c])
          /\ future' = [future EXCEPT ![c] = IF @ = "pending" THEN "cancelled" ELSE @]
    /\ UNCHANGED <<table, workVars, asked, ready, queue, downVars>>

LeaveRuntime(r) == UNCHANGED <<table, future, queue, ready, asked>>
\* The runtime of an interrupted call is discarded, by discover_tools first if
\* that is where it waited.
DiscardInterrupted(r) == Discard(r)

Leave(c) ==
    /\ pc[c] \in {"revoked", "interrupted"}
    /\ DiscardInterrupted(used[c])
    /\ pc' = [pc EXCEPT ![c] = IF @ = "revoked" THEN "interrupted" ELSE "leaving"]
    /\ UNCHANGED <<attempt, used, workVars, downVars>>

Left(c) ==
    /\ pc[c] = "leaving"
    /\ End(c, "failed")
    /\ UNCHANGED <<table, workVars, asked, ready, queue, downVars>>

Call(c) ==
    \/ Refuse(c) \/ Reuse(c) \/ Create(c) \/ Connected(c) \/ Put(c)
    \/ FailDiscovery(c) \/ FailAttempt(c) \/ Retry(c) \/ Receive(c) \/ Leave(c) \/ Left(c)

-----------------------------------------------------------------------------
(* A worker: _run_server. A worker that was cancelled gets the             *)
(* CancelledError at its next step.                                        *)

\* The except and finally blocks: MCPServerExitedError is retryable.
Exit(r) ==
    /\ FailPending(r, "retryable")
    /\ task' = [task EXCEPT ![r] = "done"]
    /\ running' = [running EXCEPT ![r] = None]
    /\ asked' = [asked EXCEPT ![r] = FALSE]
    /\ UNCHANGED <<callVars, table, downVars>>

Connect(r) ==
    /\ task[r] = "connecting" /\ ~asked[r]
    /\ task' = [task EXCEPT ![r] = "idle"]
    /\ ready' = [ready EXCEPT ![r] = "tools"]
    /\ UNCHANGED <<callVars, future, table, asked, queue, running, downVars>>

\* if command.future.cancelled(): continue
Wanted(c) == future[c] # "cancelled"

Take(r) ==
    /\ task[r] = "idle" /\ ~asked[r] /\ queue[r] # <<>>
    /\ queue' = [queue EXCEPT ![r] = Tail(@)]
    /\ \/ ~Wanted(Head(queue[r])) /\ UNCHANGED workVars
       \/ /\ Wanted(Head(queue[r]))
          /\ running' = [running EXCEPT ![r] = Head(queue[r])]
          /\ task' = [task EXCEPT ![r] = "busy"]
    /\ UNCHANGED <<callVars, future, table, asked, ready, downVars>>

\* The tool returns, fails or runs out of tool_timeout_seconds, and the worker
\* goes on. A future that is no longer pending cannot be set: see Break.
Finish(r) ==
    /\ task[r] = "busy" /\ ~asked[r] /\ future[running[r]] = "pending"
    /\ \E outcome \in {"result", "retryable"} :
          future' = [future EXCEPT ![running[r]] = outcome]
    /\ task' = [task EXCEPT ![r] = "idle"]
    /\ running' = [running EXCEPT ![r] = None]
    /\ UNCHANGED <<callVars, table, asked, ready, queue, downVars>>

\* The connection fails or is lost, or setting a future that was cancelled
\* raises InvalidStateError.
Break(r) == Alive(r) /\ ~asked[r] /\ Exit(r)

\* The session is closed.
Cancelled(r) == Alive(r) /\ asked[r] /\ Exit(r)

Worker(r) == Connect(r) \/ Take(r) \/ Finish(r) \/ Break(r) \/ Cancelled(r)

-----------------------------------------------------------------------------
(* shutdown, at the end of the application's lifespan.                     *)

BeginShutdown ==
    /\ phase = "up"
    /\ phase' = "closing" /\ closing' = table /\ table' = None
    /\ UNCHANGED <<callVars, future, workVars, asked, ready, queue>>

StopAll ==
    /\ phase = "closing" /\ closing # None
    /\ Stop(closing)
    /\ phase' = "waiting"
    /\ UNCHANGED <<callVars, table, workVars, closing>>

EndShutdown ==
    /\ \/ phase = "closing" /\ closing = None
       \/ phase = "waiting"
    /\ phase' = "down" /\ closing' = None
    /\ UNCHANGED <<callVars, future, table, workVars, asked, ready, queue>>

Shutdown == BeginShutdown \/ StopAll \/ EndShutdown

-----------------------------------------------------------------------------
Next ==
    \/ \E c \in Calls : Call(c) \/ Interrupt(c)
    \/ \E r \in Runtimes : Worker(r)
    \/ Shutdown

\* The event loop runs the calls and their timers. Nothing is assumed of a
\* server: it may not answer and its session may not close.
Fairness == \A c \in Calls : WF_vars(Call(c)) /\ WF_vars(Interrupt(c))

Spec == Init /\ [][Next]_vars /\ Fairness
-----------------------------------------------------------------------------
(* Properties.                                                             *)

\* A worker nobody has cancelled is the one in the table or the one shutdown
\* is about to stop: no subprocess is left behind that no later call, discard
\* or shutdown would find.
NoOrphanWorker ==
    \A r \in Runtimes : Alive(r) /\ ~asked[r] =>
        r = table \/ (phase = "closing" /\ r = closing)

\* A caller that waits for its result can still be reached: its command is in
\* the queue or in execution, where each stop and each exit looks for it, so
\* that none is forgotten between a queue, a worker and those who drain it.
NoLostCommand ==
    \A c \in Calls : pc[c] = "waiting" /\ future[c] = "pending" =>
        c \in Queued(used[c]) \/ running[used[c]] = c

\* The tool of a call that is over is not left running: its worker has been
\* cancelled.
EndedIsStopped ==
    \A r \in Runtimes : running[r] # None /\ pc[running[r]] \in {"answered", "failed"} =>
        asked[r]

\* A worker never starts the tool of a caller that no longer waits for it.
CancelledNeverRuns ==
    [][\A r \in Runtimes : running'[r] # running[r] /\ running'[r] # None =>
            /\ pc[running'[r]] = "waiting" /\ future[running'[r]] = "pending"]_vars

\* Every call ends, whatever the server, the other calls and shutdown do, even
\* if its command is in the queue of a runtime whose worker is over.
EveryCallEnds ==
    \A c \in Calls : pc[c] # "new" ~> pc[c] \in {"answered", "failed"}
=============================================================================
