------------------------- MODULE MCPClientProofs -------------------------
(***************************************************************************)
(* The safety properties of MCPClient for every set of calls, every queue  *)
(* length and every number of retries.                                     *)
(***************************************************************************)
EXTENDS MCPClient, TLAPS

-----------------------------------------------------------------------------
(* The inductive invariant, in parts.                                      *)

\* A call that is in an attempt has a runtime; before one, an attempt is left.
UsedInv == \A c \in Calls :
    /\ pc[c] \in {"ready", "putting", "waiting", "undiscovered", "retrying", "revoked",
                  "interrupted", "leaving"} => used[c] \in Runtimes
    /\ pc[c] \in {"new", "backoff"} => attempt[c] <= MaxRetries

\* After shutdown has begun there is no runtime in the table.
PhaseInv == phase # "up" => table = None

\* The caller of a command waits for it, or has been interrupted and has not
\* discarded the runtime yet.
Awaited(c) ==
    \/ pc[c] = "waiting" /\ future[c] = "pending"
    \/ pc[c] = "interrupted" /\ future[c] = "cancelled"

\* The caller has been told that the runtime was stopped, or stopped it itself.
Dropped(c) ==
    \/ pc[c] = "waiting" /\ future[c] = "final"
    \/ pc[c] \in {"interrupted", "leaving"} /\ future[c] \in {"final", "cancelled"}
    \/ pc[c] = "failed" /\ future[c] = "none"

Distinct(q) == \A i, j \in DOMAIN q : q[i] = q[j] => i = j

\* A call has at most one command in the queues, for the runtime it uses.
QueuedInv == \A r \in Runtimes :
    /\ Distinct(queue[r])
    /\ \A c \in Queued(r) : used[c] = r /\ Awaited(c)

\* A command in execution has left its queue; its caller has not left it,
\* unless the worker has been cancelled.
RunningInv == \A r \in Runtimes : running[r] # None =>
    /\ task[r] = "busy"
    /\ running[r] \notin Queued(r)
    /\ \/ used[running[r]] = r /\ Awaited(running[r])
       \/ asked[r] /\ Dropped(running[r])

\* NoLostCommand, of the commands of one runtime.
LostInv == \A r \in Runtimes, c \in Calls :
    used[c] = r /\ pc[c] = "waiting" /\ future[c] = "pending" =>
        c \in Queued(r) \/ running[r] = c

CommandInv == QueuedInv /\ RunningInv /\ LostInv

IInv == TypeOK /\ UsedInv /\ PhaseInv /\ NoOrphanWorker /\ CommandInv
-----------------------------------------------------------------------------
(* Queues.                                                                 *)

Items(q) == {q[i] : i \in DOMAIN q}

\* The commands in a runtime's queue, before and after a step.
LEMMA QueuedItems ==
    ASSUME NEW r \in Runtimes
    PROVE  Queued(r) = Items(queue[r]) /\ (Queued(r))' = Items(queue'[r])
BY DEF Queued, Items

\* An emptied or new queue.
LEMMA EmptyQueue == <<>> \in Seq(Calls) /\ Len(<<>>) = 0 /\ Items(<<>>) = {} /\ Distinct(<<>>)
BY DEF Items, Distinct

\* A command enters a queue.
LEMMA AppendQueue ==
    ASSUME NEW q \in Seq(Calls), NEW c \in Calls
    PROVE  /\ Append(q, c) \in Seq(Calls)
           /\ Len(Append(q, c)) = Len(q) + 1
           /\ Items(Append(q, c)) = Items(q) \cup {c}
           /\ Distinct(q) /\ c \notin Items(q) => Distinct(Append(q, c))
<1>1. Append(q, c) \in Seq(Calls) /\ Len(Append(q, c)) = Len(q) + 1
  OBVIOUS
<1>2. /\ DOMAIN q = 1 .. Len(q) /\ DOMAIN Append(q, c) = 1 .. Len(q) + 1 /\ Len(q) \in Nat
      /\ \A i \in 1 .. Len(q) : Append(q, c)[i] = q[i]
      /\ Append(q, c)[Len(q) + 1] = c
  OBVIOUS
<1>3. Items(Append(q, c)) = Items(q) \cup {c}
  BY <1>2 DEF Items
<1>4. Distinct(q) /\ c \notin Items(q) => Distinct(Append(q, c))
  BY <1>2 DEF Items, Distinct
<1> QED
  BY <1>1, <1>3, <1>4

\* The worker takes a command.
LEMMA TailQueue ==
    ASSUME NEW q \in Seq(Calls), q # <<>>
    PROVE  /\ Head(q) \in Calls /\ Tail(q) \in Seq(Calls)
           /\ Len(Tail(q)) = Len(q) - 1 /\ Len(q) \in Nat
           /\ Items(q) = Items(Tail(q)) \cup {Head(q)}
           /\ Distinct(q) => Distinct(Tail(q)) /\ Head(q) \notin Items(Tail(q))
<1>1. /\ Head(q) \in Calls /\ Tail(q) \in Seq(Calls)
      /\ Len(Tail(q)) = Len(q) - 1 /\ Len(q) \in Nat \ {0}
  OBVIOUS
<1>2. /\ DOMAIN q = 1 .. Len(q) /\ DOMAIN Tail(q) = 1 .. Len(q) - 1
      /\ \A i \in 1 .. Len(q) - 1 : Tail(q)[i] = q[i + 1]
      /\ Head(q) = q[1]
  BY <1>1
<1>3. Items(q) \subseteq Items(Tail(q)) \cup {Head(q)}
  <2> SUFFICES ASSUME NEW i \in 1 .. Len(q) PROVE q[i] \in Items(Tail(q)) \cup {Head(q)}
    BY <1>2 DEF Items
  <2>1. CASE i = 1
    BY <2>1, <1>2
  <2>2. CASE i # 1
    <3>1. i - 1 \in 1 .. Len(q) - 1 /\ Tail(q)[i - 1] = q[i]
      BY <2>2, <1>1, <1>2
    <3> QED
      BY <3>1, <1>2 DEF Items
  <2> QED
    BY <2>1, <2>2
<1>4. Items(Tail(q)) \cup {Head(q)} \subseteq Items(q)
  BY <1>1, <1>2 DEF Items
<1>5. Distinct(q) => Distinct(Tail(q)) /\ Head(q) \notin Items(Tail(q))
  BY <1>1, <1>2 DEF Items, Distinct
<1> QED
  BY <1>1, <1>3, <1>4, <1>5

-----------------------------------------------------------------------------
(* Type correctness.                                                       *)

\* Discarding or leaving a runtime that the call has keeps the types.
LEMMA FailPendingTypes ==
    ASSUME TypeOK, NEW r \in Runtimes, NEW error \in {"retryable", "final"},
           FailPending(r, error)
    PROVE  /\ future' \in [Calls -> {"none", "pending", "result", "retryable", "final",
                                     "cancelled"}]
           /\ queue' \in [Runtimes -> Seq(Calls)]
           /\ \A q \in Runtimes : Len(queue'[q]) <= MaxPending
           /\ ready' \in [Runtimes -> {"pending", "tools", "failed"}]
BY EmptyQueue, LimitsAssumption DEF TypeOK, FailPending

\* There are no calls and no runtimes yet.
LEMMA TypeOKInit == Init => TypeOK
BY EmptyQueue, LimitsAssumption DEF Init, TypeOK

\* A step of a call keeps the types; its runtime is where UsedInv says.
LEMMA TypeOKCall ==
    ASSUME TypeOK, UsedInv, NEW c \in Calls, Call(c) \/ Interrupt(c)
    PROVE  TypeOK' /\ UsedInv'
<1> USE DEF callVars, workVars, downVars
<1>0. None \notin Runtimes /\ MaxPending \in Nat \ {0} /\ MaxRetries \in Nat
  BY RuntimesAssumption, LimitsAssumption
<1>1. ASSUME NEW r \in Runtimes, NEW n \in 0 .. MaxRetries + 1, Enqueue(c, r, n),
             UNCHANGED <<table, workVars, asked, ready, downVars>>
      PROVE  TypeOK' /\ UsedInv'
  <2>1. CASE End(c, "failed") /\ UNCHANGED queue
    BY <1>0, <1>1, <2>1 DEF End, TypeOK, UsedInv
  <2>2. CASE /\ Room(r) /\ queue' = [queue EXCEPT ![r] = Append(@, c)]
             /\ future' = [future EXCEPT ![c] = "pending"] /\ GoOn(c, "waiting", r, n)
    BY <1>0, <1>1, <2>2, AppendQueue DEF Room, GoOn, TypeOK, UsedInv
  <2>3. CASE GoOn(c, "putting", r, n) /\ UNCHANGED <<future, queue>>
    BY <1>0, <1>1, <2>3 DEF GoOn, TypeOK, UsedInv
  <2> QED
    BY <1>1, <2>1, <2>2, <2>3 DEF Enqueue
<1>2. CASE Refuse(c)
  BY <1>0, <1>2 DEF Refuse, End, TypeOK, UsedInv
<1>3. CASE Reuse(c)
  <2>1. table \in Runtimes /\ 1 \in 0 .. MaxRetries + 1
    BY <1>0, <1>3 DEF Reuse, Alive, TypeOK
  <2>2. CASE Enqueue(c, table, 1)
    BY <1>1, <1>3, <2>1, <2>2 DEF Reuse
  <2>3. CASE GoOn(c, "ready", table, 1) /\ UNCHANGED <<future, queue>>
    BY <1>3, <2>1, <2>3 DEF Reuse, GoOn, TypeOK, UsedInv
  <2> QED
    BY <1>3, <2>2, <2>3 DEF Reuse
<1>4. CASE Create(c)
  <2>1. attempt[c] + 1 \in 0 .. MaxRetries + 1
    BY <1>0, <1>4 DEF Create, TypeOK, UsedInv
  <2> PICK r \in Runtimes :
        /\ table' = r
        /\ task' = [task EXCEPT ![r] = "connecting"]
        /\ asked' = [q \in Runtimes |-> IF q = r THEN FALSE
                                        ELSE asked[q] \/ (CancelReplaced(q) /\ Alive(q))]
        /\ ready' = [ready EXCEPT ![r] = "pending"]
        /\ queue' = [queue EXCEPT ![r] = <<>>]
        /\ running' = [running EXCEPT ![r] = None]
        /\ GoOn(c, "ready", r, attempt[c] + 1)
    BY <1>4 DEF Create
  <2>2. asked' \in [Runtimes -> BOOLEAN]
    BY Zenon DEF TypeOK
  <2>3. queue' \in [Runtimes -> Seq(Calls)] /\ \A q \in Runtimes : Len(queue'[q]) <= MaxPending
    BY <1>0, EmptyQueue DEF TypeOK
  <2>4. UNCHANGED <<future, phase, closing>>
    BY <1>4 DEF Create
  <2> QED
    BY <1>0, <2>1, <2>2, <2>3, <2>4 DEF GoOn, TypeOK, UsedInv
<1>5. CASE Connected(c)
  BY <1>1, <1>5 DEF Connected, TypeOK, UsedInv
<1>6. CASE Put(c)
  BY <1>0, <1>6, AppendQueue DEF Put, Room, TypeOK, UsedInv
<1>7. ASSUME used[c] \in Runtimes, Discard(used[c]), UNCHANGED <<attempt, used, workVars, downVars>>,
             NEW p \in {"undiscovered", "retrying", "interrupted", "leaving"},
             pc' = [pc EXCEPT ![c] = p]
      PROVE  TypeOK' /\ UsedInv'
  <2>1. /\ future' \in [Calls -> {"none", "pending", "result", "retryable", "final", "cancelled"}]
        /\ queue' \in [Runtimes -> Seq(Calls)]
        /\ \A q \in Runtimes : Len(queue'[q]) <= MaxPending
        /\ ready' \in [Runtimes -> {"pending", "tools", "failed"}]
    BY <1>7, FailPendingTypes DEF Discard, Stop
  <2>2. asked' \in [Runtimes -> BOOLEAN]
    BY <1>7, Zenon DEF Discard, Stop, TypeOK
  <2> QED
    BY <1>0, <1>7, <2>1, <2>2 DEF Discard, TypeOK, UsedInv
<1>8. CASE FailDiscovery(c)
  BY <1>7, <1>8 DEF FailDiscovery, UsedInv
<1>9. CASE FailAttempt(c)
  BY <1>7, <1>9 DEF FailAttempt, UsedInv
<1>10. CASE Retry(c)
  BY <1>0, <1>10 DEF Retry, End, TypeOK, UsedInv
<1>11. CASE Receive(c)
  BY <1>0, <1>11 DEF Receive, End, TypeOK, UsedInv
<1>12. CASE Leave(c)
  <2> DEFINE p == IF pc[c] = "revoked" THEN "interrupted" ELSE "leaving"
  <2>1. used[c] \in Runtimes /\ Discard(used[c]) /\ UNCHANGED <<attempt, used, workVars, downVars>>
    BY <1>12 DEF Leave, DiscardInterrupted, UsedInv
  <2>2. pc' = [pc EXCEPT ![c] = p] /\ p \in {"interrupted", "leaving"}
    BY <1>12 DEF Leave, TypeOK
  <2> HIDE DEF p
  <2> QED
    BY <1>7, <2>1, <2>2
<1>13. CASE Left(c)
  BY <1>0, <1>13 DEF Left, End, TypeOK, UsedInv
<1>14. CASE Interrupt(c)
  <2>1. CASE pc[c] = "backoff" /\ End(c, "failed")
    BY <1>0, <1>14, <2>1 DEF Interrupt, End, TypeOK, UsedInv
  <2>2. CASE pc[c] # "backoff"
    <3> DEFINE p == IF pc[c] = "ready" THEN "revoked" ELSE "interrupted"
    <3>1. used[c] \in Runtimes
      BY <1>14, <2>2 DEF Interrupt, Timed, UsedInv
    <3>2. GoOn(c, p, used[c], attempt[c]) /\ p \in {"revoked", "interrupted"}
      BY <1>14, <2>2 DEF Interrupt
    <3>3. future' = [future EXCEPT ![c] = IF @ = "pending" THEN "cancelled" ELSE @]
      BY <1>14, <2>2 DEF Interrupt
    <3> HIDE DEF p
    <3> QED
      BY <1>14, <3>1, <3>2, <3>3 DEF Interrupt, GoOn, TypeOK, UsedInv
  <2> QED
    BY <1>14, <2>1, <2>2 DEF Interrupt
<1> QED
  BY <1>2, <1>3, <1>4, <1>5, <1>6, <1>8, <1>9, <1>10, <1>11, <1>12, <1>13, <1>14 DEF Call

\* A step of a worker or of shutdown keeps the types, and leaves the calls alone.
LEMMA TypeOKRest ==
    ASSUME TypeOK, UsedInv, (\E r \in Runtimes : Worker(r)) \/ Shutdown
    PROVE  TypeOK' /\ UsedInv'
<1> USE DEF callVars, workVars, downVars
<1>0. None \notin Runtimes /\ MaxPending \in Nat \ {0}
  BY RuntimesAssumption, LimitsAssumption
<1>1. CASE \E r \in Runtimes : Worker(r)
  <2> PICK r \in Runtimes : Worker(r)
    BY <1>1
  <2>1. CASE Connect(r)
    BY <2>1 DEF Connect, TypeOK, UsedInv
  <2>2. CASE Take(r)
    <3>1. queue[r] \in Seq(Calls) /\ queue[r] # <<>>
      BY <2>2 DEF Take, TypeOK
    <3>2. /\ Head(queue[r]) \in Calls /\ Tail(queue[r]) \in Seq(Calls)
          /\ Len(Tail(queue[r])) <= MaxPending
      BY <1>0, <3>1, TailQueue DEF TypeOK
    <3>3. queue' \in [Runtimes -> Seq(Calls)] /\ \A q \in Runtimes : Len(queue'[q]) <= MaxPending
      BY <2>2, <3>2 DEF Take, TypeOK
    <3>4. /\ running' \in [Runtimes -> Calls \cup {None}]
          /\ task' \in [Runtimes -> {"none", "connecting", "idle", "busy", "done"}]
      BY <2>2, <3>2 DEF Take, TypeOK
    <3> QED
      BY <2>2, <3>3, <3>4 DEF Take, TypeOK, UsedInv
  <2>3. CASE Finish(r)
    <3>1. future' \in [Calls -> {"none", "pending", "result", "retryable", "final", "cancelled"}]
      BY <2>3 DEF Finish, TypeOK
    <3>2. task' \in [Runtimes -> {"none", "connecting", "idle", "busy", "done"}]
      BY <2>3 DEF Finish, TypeOK
    <3>3. running' \in [Runtimes -> Calls \cup {None}]
      BY <2>3 DEF Finish, TypeOK
    <3> QED
      BY <2>3, <3>1, <3>2, <3>3 DEF Finish, TypeOK, UsedInv
  <2>4. CASE Exit(r)
    BY <2>4, FailPendingTypes DEF Exit, TypeOK, UsedInv
  <2> QED
    BY <2>1, <2>2, <2>3, <2>4 DEF Worker, Break, Cancelled
<1>2. CASE BeginShutdown
  BY <1>2 DEF BeginShutdown, TypeOK, UsedInv
<1>3. CASE StopAll
  <2>1. closing \in Runtimes
    BY <1>3 DEF StopAll, TypeOK
  <2>2. asked' \in [Runtimes -> BOOLEAN]
    BY <1>3, Zenon DEF StopAll, Stop, TypeOK
  <2> QED
    BY <1>3, <2>1, <2>2, FailPendingTypes DEF StopAll, Stop, TypeOK, UsedInv
<1>4. CASE EndShutdown
  BY <1>4 DEF EndShutdown, TypeOK, UsedInv
<1> QED
  BY <1>1, <1>2, <1>3, <1>4 DEF Shutdown

-----------------------------------------------------------------------------
(* No worker is left behind.                                               *)

\* Only Create starts a worker, and cancels the one it replaces; who takes a
\* runtime out of the table cancels it, at once or next.
LEMMA OrphanStep ==
    ASSUME TypeOK, UsedInv, PhaseInv, NoOrphanWorker, Next
    PROVE  PhaseInv' /\ NoOrphanWorker'
<1> USE DEF callVars, workVars, downVars
<1>0. None \notin Runtimes
  BY RuntimesAssumption
<1>1. ASSUME UNCHANGED <<table, task, asked, phase, closing>>
      PROVE  PhaseInv' /\ NoOrphanWorker'
  BY <1>1 DEF PhaseInv, NoOrphanWorker, Alive
<1>2. ASSUME NEW r \in Runtimes, Discard(r), UNCHANGED <<task, phase, closing>>
      PROVE  PhaseInv' /\ NoOrphanWorker'
  <2>1. \A q \in Runtimes : asked'[q] <=> asked[q] \/ (q = r /\ Alive(r))
    BY <1>2, Zenon DEF Discard, Stop, TypeOK
  <2>2. table' = IF table = r THEN None ELSE table
    BY <1>2 DEF Discard
  <2> QED
    BY <1>0, <1>2, <2>1, <2>2 DEF PhaseInv, NoOrphanWorker, Alive
<1>3. ASSUME NEW c \in Calls, Call(c) \/ Interrupt(c) PROVE PhaseInv' /\ NoOrphanWorker'
  <2>1. CASE Refuse(c) \/ Reuse(c) \/ Connected(c) \/ Put(c) \/ Retry(c) \/ Receive(c)
             \/ Left(c) \/ Interrupt(c)
    BY <1>1, <2>1 DEF Refuse, Reuse, Connected, Put, Retry, Receive, Left, Interrupt
  <2>2. CASE FailDiscovery(c) \/ FailAttempt(c) \/ Leave(c)
    <3>1. used[c] \in Runtimes /\ Discard(used[c]) /\ UNCHANGED <<task, phase, closing>>
      BY <2>2 DEF FailDiscovery, FailAttempt, Leave, DiscardInterrupted, UsedInv
    <3> QED
      BY <1>2, <3>1
  <2>3. CASE Create(c)
    <3> PICK r \in Runtimes :
          /\ table' = r
          /\ asked' = [q \in Runtimes |-> IF q = r THEN FALSE
                                          ELSE asked[q] \/ (CancelReplaced(q) /\ Alive(q))]
          /\ task' = [task EXCEPT ![r] = "connecting"]
      BY <2>3 DEF Create
    <3>1. phase = "up" /\ UNCHANGED <<phase, closing>>
      BY <2>3 DEF Create
    <3>2. \A q \in Runtimes \ {r} : asked'[q] <=> asked[q] \/ (q = table /\ Alive(q))
      BY Zenon DEF CancelReplaced
    <3>3. \A q \in Runtimes \ {r} : task'[q] = task[q]
      BY DEF TypeOK
    <3> QED
      BY <3>1, <3>2, <3>3 DEF PhaseInv, NoOrphanWorker, Alive
  <2> QED
    BY <1>3, <2>1, <2>2, <2>3 DEF Call
<1>4. ASSUME NEW r \in Runtimes, Worker(r) PROVE PhaseInv' /\ NoOrphanWorker'
  <2>1. CASE Connect(r)
    BY <2>1 DEF Connect, TypeOK, PhaseInv, NoOrphanWorker, Alive
  <2>2. CASE Take(r)
    BY <2>2 DEF Take, TypeOK, PhaseInv, NoOrphanWorker, Alive
  <2>3. CASE Finish(r)
    BY <2>3 DEF Finish, TypeOK, PhaseInv, NoOrphanWorker, Alive
  <2>4. CASE Exit(r)
    BY <2>4 DEF Exit, TypeOK, PhaseInv, NoOrphanWorker, Alive
  <2> QED
    BY <1>4, <2>1, <2>2, <2>3, <2>4 DEF Worker, Break, Cancelled
<1>5. CASE BeginShutdown
  BY <1>0, <1>5 DEF BeginShutdown, PhaseInv, NoOrphanWorker, Alive
<1>6. CASE StopAll
  <2>1. \A q \in Runtimes : asked'[q] <=> asked[q] \/ (q = closing /\ Alive(closing))
    BY <1>6, Zenon DEF StopAll, Stop, TypeOK
  <2>2. phase = "closing" /\ phase' = "waiting" /\ UNCHANGED <<table, task, closing>>
    BY <1>6 DEF StopAll
  <2> QED
    BY <1>0, <2>1, <2>2 DEF PhaseInv, NoOrphanWorker, Alive
<1>7. CASE EndShutdown
  BY <1>0, <1>7 DEF EndShutdown, PhaseInv, NoOrphanWorker, Alive
<1> QED
  BY <1>3, <1>4, <1>5, <1>6, <1>7 DEF Next, Shutdown

-----------------------------------------------------------------------------
(* Commands and those who wait for them.                                   *)

\* A drained runtime: its queue is empty, nobody waits for it, and the callers
\* of other runtimes do not notice.
LEMMA FailPendingEffect ==
    ASSUME TypeOK, CommandInv, NEW r \in Runtimes, NEW error \in {"retryable", "final"},
           FailPending(r, error)
    PROVE  /\ (Queued(r))' = {} /\ queue'[r] = <<>>
           /\ \A q \in Runtimes \ {r} : queue'[q] = queue[q] /\ (Queued(q))' = Queued(q)
           /\ \A q \in Runtimes \ {r}, c \in Calls :
                c \in Queued(q) \/ c = running[q] => future'[c] = future[c]
           /\ \A c \in Calls : c = running[r] =>
                future'[c] = IF future[c] = "pending" THEN error ELSE future[c]
           /\ \A c \in Calls : future'[c] = "pending" =>
                future[c] = "pending" /\ c \notin Queued(r) /\ c # running[r]
           /\ \A c \in Calls : future[c] # "pending" => future'[c] = future[c]
<1>1. queue' = [queue EXCEPT ![r] = <<>>] /\ queue'[r] = <<>>
  BY DEF FailPending, TypeOK
<1>2. (Queued(r))' = {}
  BY <1>1, QueuedItems, EmptyQueue
<1>3. ASSUME NEW q \in Runtimes \ {r} PROVE queue'[q] = queue[q] /\ (Queued(q))' = Queued(q)
  BY <1>1, QueuedItems DEF TypeOK
<1>4. \A c \in Calls : future'[c] = IF c \in PendingOf(r) /\ future[c] = "pending"
                                    THEN error ELSE future[c]
  BY DEF FailPending
<1>5. ASSUME NEW q \in Runtimes \ {r}, NEW c \in Calls, c \in Queued(q) \/ c = running[q]
      PROVE  future'[c] = future[c]
  <2> SUFFICES ASSUME future[c] = "pending", c \in PendingOf(r) PROVE FALSE
    BY <1>4
  <2>1. c # None
    BY CallsAssumption
  <2>2. used[c] = q
    BY <1>5, <2>1 DEF CommandInv, QueuedInv, RunningInv, Dropped
  <2>3. used[c] = r
    BY <2>1 DEF PendingOf, CommandInv, QueuedInv, RunningInv, Dropped
  <2> QED
    BY <2>2, <2>3
<1> QED
  BY <1>1, <1>2, <1>3, <1>4, <1>5 DEF PendingOf

\* What the caller of a command sees and does keeps the invariant, as long as
\* it neither puts a command nor touches a runtime.
LEMMA CallerStep ==
    ASSUME TypeOK, CommandInv, NEW c \in Calls,
           UNCHANGED <<queue, running, task, asked>>,
           \A d \in Calls \ {c} : pc'[d] = pc[d] /\ used'[d] = used[d] /\ future'[d] = future[d],
           Awaited(c) => (Awaited(c))' /\ used'[c] = used[c],
           Dropped(c) => (Dropped(c))' /\ (pc'[c] = "failed" \/ used'[c] = used[c]),
           ~ (pc'[c] = "waiting" /\ future'[c] = "pending")
    PROVE  CommandInv'
<1>1. \A d \in Calls : /\ Awaited(d) => (Awaited(d))' /\ used'[d] = used[d]
                       /\ Dropped(d) => (Dropped(d))'
  BY DEF Awaited, Dropped
<1>2. \A r \in Runtimes : (Queued(r))' = Queued(r) /\ Queued(r) \subseteq Calls
  BY DEF Queued, TypeOK
<1>3. QueuedInv'
  BY <1>1, <1>2 DEF CommandInv, QueuedInv
<1>4. RunningInv'
  <2> SUFFICES ASSUME NEW r \in Runtimes, running[r] # None
               PROVE  /\ task[r] = "busy" /\ running[r] \notin Queued(r)
                      /\ \/ used'[running[r]] = r /\ (Awaited(running[r]))'
                         \/ asked[r] /\ (Dropped(running[r]))'
    BY <1>2 DEF RunningInv, Awaited, Dropped
  <2>1. PICK d \in Calls : d = running[r]
    BY DEF TypeOK
  <2>2. /\ task[r] = "busy" /\ d \notin Queued(r)
        /\ \/ used[d] = r /\ Awaited(d)
           \/ asked[r] /\ Dropped(d)
    BY <2>1 DEF CommandInv, RunningInv
  <2>3. (Awaited(d) => (Awaited(d))' /\ used'[d] = used[d]) /\ (Dropped(d) => (Dropped(d))')
    BY <1>1, <2>1
  <2>4. /\ task[r] = "busy" /\ d \notin Queued(r)
        /\ \/ used'[d] = r /\ (Awaited(d))'
           \/ asked[r] /\ (Dropped(d))'
    BY <2>2, <2>3, Zenon
  <2> QED
    BY <2>1, <2>4
<1>5. LostInv'
  <2> SUFFICES ASSUME NEW r \in Runtimes, NEW d \in Calls, used'[d] = r,
                      pc'[d] = "waiting", future'[d] = "pending"
               PROVE  d \in Queued(r) \/ running[r] = d
    BY <1>2 DEF LostInv
  <2>1. d \in Calls \ {c}
    OBVIOUS
  <2> QED
    BY <2>1 DEF CommandInv, LostInv
<1> QED
  BY <1>3, <1>4, <1>5 DEF CommandInv

\* A command enters a queue.
LEMMA EnterStep ==
    ASSUME TypeOK, CommandInv, NEW c \in Calls, NEW r \in Runtimes,
           pc[c] \in {"new", "ready", "putting"},
           queue' = [queue EXCEPT ![r] = Append(@, c)],
           future' = [future EXCEPT ![c] = "pending"],
           pc' = [pc EXCEPT ![c] = "waiting"],
           used' = [used EXCEPT ![c] = r],
           UNCHANGED <<running, task, asked>>
    PROVE  CommandInv'
<1>0. c # None /\ ~Awaited(c) /\ ~Dropped(c)
  BY CallsAssumption DEF Awaited, Dropped
<1>1. \A d \in Calls \ {c} : /\ Awaited(d) => (Awaited(d))' /\ used'[d] = used[d]
                             /\ Dropped(d) => (Dropped(d))'
  BY DEF Awaited, Dropped, TypeOK
<1>2. /\ (Queued(r))' = Queued(r) \cup {c}
      /\ \A q \in Runtimes \ {r} : queue'[q] = queue[q] /\ (Queued(q))' = Queued(q)
  BY QueuedItems, AppendQueue DEF TypeOK
<1>3. \A q \in Runtimes : c \notin Queued(q) /\ c # running[q] /\ Queued(q) \subseteq Calls
  BY <1>0 DEF CommandInv, QueuedInv, RunningInv, Queued, TypeOK
<1>4. Distinct(queue'[r])
  <2>1. c \notin Items(queue[r]) /\ Distinct(queue[r]) /\ queue[r] \in Seq(Calls)
    BY <1>3, QueuedItems DEF CommandInv, QueuedInv, TypeOK
  <2>2. Distinct(Append(queue[r], c))
    BY <2>1, AppendQueue
  <2> QED
    BY <2>2 DEF TypeOK
<1>5. (Awaited(c))' /\ used'[c] = r
  BY DEF Awaited, TypeOK
<1>6. QueuedInv'
  <2> SUFFICES ASSUME NEW q \in Runtimes
               PROVE  /\ Distinct(queue'[q])
                      /\ \A d \in (Queued(q))' : used'[d] = q /\ (Awaited(d))'
    BY DEF QueuedInv, Awaited
  <2>1. Distinct(queue'[q])
    BY <1>2, <1>4 DEF CommandInv, QueuedInv
  <2>2. ASSUME NEW d \in (Queued(q))' PROVE used'[d] = q /\ (Awaited(d))'
    <3>1. CASE d = c
      BY <1>2, <1>3, <1>5, <2>2, <3>1
    <3>2. CASE d # c
      BY <1>1, <1>2, <1>3, <2>2, <3>2 DEF CommandInv, QueuedInv
    <3> QED
      BY <3>1, <3>2
  <2> QED
    BY <2>1, <2>2
<1>7. RunningInv'
  <2> SUFFICES ASSUME NEW q \in Runtimes, running[q] # None
               PROVE  /\ task[q] = "busy" /\ running[q] \notin (Queued(q))'
                      /\ \/ used'[running[q]] = q /\ (Awaited(running[q]))'
                         \/ asked[q] /\ (Dropped(running[q]))'
    BY DEF RunningInv, Awaited, Dropped
  <2>1. running[q] \in Calls \ {c}
    BY <1>3 DEF TypeOK
  <2> QED
    BY <1>1, <1>2, <2>1 DEF CommandInv, RunningInv
<1>8. LostInv'
  <2> SUFFICES ASSUME NEW q \in Runtimes, NEW d \in Calls, used'[d] = q,
                      pc'[d] = "waiting", future'[d] = "pending"
               PROVE  d \in (Queued(q))' \/ running[q] = d
    BY DEF LostInv
  <2>1. CASE d = c
    BY <1>2, <1>5, <2>1
  <2>2. CASE d # c
    <3>1. used[d] = q /\ pc[d] = "waiting" /\ future[d] = "pending"
      BY <2>2 DEF TypeOK
    <3>2. d \in Queued(q) \/ running[q] = d
      BY <3>1 DEF CommandInv, LostInv
    <3> QED
      BY <1>2, <3>2
  <2> QED
    BY <2>1, <2>2
<1> QED
  BY <1>6, <1>7, <1>8 DEF CommandInv

\* A runtime is stopped, by shutdown or by a call that has no command there or
\* has been interrupted.
LEMMA StopStep ==
    ASSUME TypeOK, CommandInv, NEW r \in Runtimes, Stop(r), UNCHANGED <<used, running, task>>,
           \A d \in Calls :
              \/ pc'[d] = pc[d]
              \/ ~Awaited(d) /\ ~Dropped(d) /\ pc'[d] # "waiting"
              \/ used[d] = r /\ pc[d] = "interrupted" /\ pc'[d] = "leaving"
    PROVE  CommandInv'
<1>1. FailPending(r, "final")
  BY DEF Stop
<1>2. \A q \in Runtimes : asked'[q] <=> asked[q] \/ (q = r /\ Alive(r))
  BY Zenon DEF Stop, TypeOK
<1>5. /\ (Queued(r))' = {} /\ queue'[r] = <<>>
      /\ \A q \in Runtimes \ {r} : queue'[q] = queue[q] /\ (Queued(q))' = Queued(q)
      /\ \A q \in Runtimes \ {r}, d \in Calls :
            d \in Queued(q) \/ d = running[q] => future'[d] = future[d]
      /\ \A d \in Calls : d = running[r] =>
            future'[d] = IF future[d] = "pending" THEN "final" ELSE future[d]
      /\ \A d \in Calls : future'[d] = "pending" =>
            future[d] = "pending" /\ d \notin Queued(r) /\ d # running[r]
      /\ \A d \in Calls : future[d] # "pending" => future'[d] = future[d]
  BY <1>1, FailPendingEffect
<1>6. \A q \in Runtimes : Queued(q) \subseteq Calls
  BY DEF Queued, TypeOK
<1>7. QueuedInv'
  <2> SUFFICES ASSUME NEW q \in Runtimes
               PROVE  /\ Distinct(queue'[q])
                      /\ \A d \in (Queued(q))' : used'[d] = q /\ (Awaited(d))'
    BY DEF QueuedInv, Awaited
  <2>1. CASE q = r
    BY <1>5, <2>1, EmptyQueue
  <2>2. CASE q # r
    BY <1>5, <1>6, <2>2 DEF CommandInv, QueuedInv, Awaited
  <2> QED
    BY <2>1, <2>2
<1>8. RunningInv'
  <2> SUFFICES ASSUME NEW q \in Runtimes, running[q] # None
               PROVE  /\ task[q] = "busy" /\ running[q] \notin (Queued(q))'
                      /\ \/ used'[running[q]] = q /\ (Awaited(running[q]))'
                         \/ asked'[q] /\ (Dropped(running[q]))'
    BY DEF RunningInv, Awaited, Dropped
  <2>1. PICK d \in Calls : d = running[q]
    BY DEF TypeOK
  <2>2. /\ task[q] = "busy" /\ d \notin Queued(q)
        /\ \/ used[d] = q /\ Awaited(d)
           \/ asked[q] /\ Dropped(d)
    BY <2>1 DEF CommandInv, RunningInv
  <2>3. d \notin (Queued(q))'
    BY <1>5, <2>2
  <2>4. CASE q = r
    <3>1. asked'[q]
      BY <1>2, <2>2, <2>4, RuntimesAssumption DEF Alive
    <3>2. (Dropped(d))'
      BY <1>5, <2>1, <2>2, <2>4 DEF Awaited, Dropped
    <3> QED
      BY <2>1, <2>2, <2>3, <3>1, <3>2
  <2>5. CASE q # r
    <3>1. future'[d] = future[d] /\ (asked[q] => asked'[q])
      BY <1>2, <1>5, <2>1, <2>5
    <3>2. (Awaited(d) /\ used[d] = q => (Awaited(d))') /\ (Dropped(d) => (Dropped(d))')
      BY <2>5, <3>1 DEF Awaited, Dropped
    <3> QED
      BY <2>1, <2>2, <2>3, <3>1, <3>2
  <2> QED
    BY <2>4, <2>5
<1>9. LostInv'
  <2> SUFFICES ASSUME NEW q \in Runtimes, NEW d \in Calls, used'[d] = q,
                      pc'[d] = "waiting", future'[d] = "pending"
               PROVE  d \in (Queued(q))' \/ running[q] = d
    BY DEF LostInv
  <2>1. pc[d] = "waiting" /\ future[d] = "pending" /\ used[d] = q
    BY <1>5
  <2>2. d \in Queued(q) \/ running[q] = d
    BY <2>1 DEF CommandInv, LostInv
  <2> QED
    BY <1>5, <2>2
<1> QED
  BY <1>7, <1>8, <1>9 DEF CommandInv

\* A worker ends: its command and its queue are gone.
LEMMA ExitStep ==
    ASSUME TypeOK, CommandInv, NEW r \in Runtimes, Exit(r)
    PROVE  CommandInv'
<1> USE DEF callVars
<1>1. /\ (Queued(r))' = {} /\ queue'[r] = <<>>
      /\ \A q \in Runtimes \ {r} : queue'[q] = queue[q] /\ (Queued(q))' = Queued(q)
      /\ \A q \in Runtimes \ {r}, d \in Calls :
            d \in Queued(q) \/ d = running[q] => future'[d] = future[d]
      /\ \A d \in Calls : future'[d] = "pending" =>
            future[d] = "pending" /\ d \notin Queued(r) /\ d # running[r]
  BY FailPendingEffect DEF Exit
<1>2. /\ running'[r] = None /\ UNCHANGED <<pc, used>>
      /\ \A q \in Runtimes \ {r} : /\ running'[q] = running[q] /\ task'[q] = task[q]
                                   /\ asked'[q] = asked[q]
  BY DEF Exit, TypeOK
<1>3. \A q \in Runtimes : Queued(q) \subseteq Calls
  BY DEF Queued, TypeOK
<1>4. QueuedInv'
  <2> SUFFICES ASSUME NEW q \in Runtimes
               PROVE  /\ Distinct(queue'[q])
                      /\ \A d \in (Queued(q))' : used'[d] = q /\ (Awaited(d))'
    BY DEF QueuedInv, Awaited
  <2>1. CASE q = r
    BY <1>1, <2>1, EmptyQueue
  <2>2. CASE q # r
    BY <1>1, <1>2, <1>3, <2>2 DEF CommandInv, QueuedInv, Awaited
  <2> QED
    BY <2>1, <2>2
<1>5. RunningInv'
  <2> SUFFICES ASSUME NEW q \in Runtimes, running'[q] # None
               PROVE  /\ task'[q] = "busy" /\ running'[q] \notin (Queued(q))'
                      /\ \/ used'[running'[q]] = q /\ (Awaited(running[q]))'
                         \/ asked'[q] /\ (Dropped(running[q]))'
    BY DEF RunningInv, Awaited, Dropped
  <2>1. q # r
    BY <1>2
  <2>2. PICK d \in Calls : d = running[q] /\ running'[q] = d
    BY <1>2, <2>1 DEF TypeOK
  <2>3. /\ task[q] = "busy" /\ d \notin Queued(q)
        /\ \/ used[d] = q /\ Awaited(d)
           \/ asked[q] /\ Dropped(d)
    BY <1>2, <2>1, <2>2 DEF CommandInv, RunningInv
  <2>4. (Awaited(d) => (Awaited(d))') /\ (Dropped(d) => (Dropped(d))')
    BY <1>1, <1>2, <2>1, <2>2 DEF Awaited, Dropped
  <2>5. (Awaited(d))' => (Awaited(running[q]))'
    BY <2>2 DEF Awaited
  <2>6. (Dropped(d))' => (Dropped(running[q]))'
    BY <2>2 DEF Dropped
  <2> QED
    BY <1>1, <1>2, <2>1, <2>2, <2>3, <2>4, <2>5, <2>6
<1>6. LostInv'
  <2> SUFFICES ASSUME NEW q \in Runtimes, NEW d \in Calls, used'[d] = q,
                      pc'[d] = "waiting", future'[d] = "pending"
               PROVE  d \in (Queued(q))' \/ running'[q] = d
    BY DEF LostInv
  <2>1. pc[d] = "waiting" /\ future[d] = "pending" /\ used[d] = q
    BY <1>1, <1>2
  <2>2. d \in Queued(q) \/ running[q] = d
    BY <2>1 DEF CommandInv, LostInv
  <2> QED
    BY <1>1, <1>2, <2>1, <2>2
<1> QED
  BY <1>4, <1>5, <1>6 DEF CommandInv

\* A worker takes a command: nobody else's is touched, and it had none.
LEMMA TakeStep ==
    ASSUME TypeOK, CommandInv, NEW r \in Runtimes, Take(r)
    PROVE  /\ CommandInv'
           /\ \A q \in Runtimes : running'[q] # running[q] /\ running'[q] # None =>
                pc[running'[q]] = "waiting" /\ future[running'[q]] = "pending"
<1> USE DEF callVars, workVars
<1>0. /\ queue[r] \in Seq(Calls) /\ queue[r] # <<>> /\ task[r] = "idle" /\ ~asked[r]
      /\ UNCHANGED <<pc, used, future, asked>>
  BY DEF Take, TypeOK
<1> PICK h \in Calls : h = Head(queue[r])
  BY <1>0, TailQueue
<1>1. /\ (Queued(r))' \cup {h} = Queued(r) /\ h \notin (Queued(r))' /\ Distinct(queue'[r])
      /\ \A q \in Runtimes \ {r} : queue'[q] = queue[q] /\ (Queued(q))' = Queued(q)
  <2>1. queue' = [queue EXCEPT ![r] = Tail(queue[r])]
    BY DEF Take
  <2>2. Distinct(queue[r])
    BY DEF CommandInv, QueuedInv
  <2>3. /\ Items(queue[r]) = Items(Tail(queue[r])) \cup {h}
        /\ Distinct(Tail(queue[r])) /\ h \notin Items(Tail(queue[r]))
    BY <1>0, <2>2, TailQueue
  <2> QED
    BY <2>1, <2>3, QueuedItems DEF TypeOK
<1>2. used[h] = r /\ Awaited(h) /\ running[r] = None
  BY <1>0, <1>1 DEF CommandInv, QueuedInv, RunningInv
<1>3. \/ future[h] = "cancelled" /\ UNCHANGED <<running, task>>
      \/ /\ future[h] = "pending" /\ running' = [running EXCEPT ![r] = h]
         /\ task' = [task EXCEPT ![r] = "busy"]
  BY <1>2 DEF Take, Wanted, Awaited
<1>4. QueuedInv'
  <2> SUFFICES ASSUME NEW q \in Runtimes
               PROVE  /\ Distinct(queue'[q])
                      /\ \A d \in (Queued(q))' : used'[d] = q /\ (Awaited(d))'
    BY DEF QueuedInv, Awaited
  <2> QED
    BY <1>0, <1>1 DEF CommandInv, QueuedInv, Awaited
<1>5. RunningInv'
  <2> SUFFICES ASSUME NEW q \in Runtimes, running'[q] # None
               PROVE  /\ task'[q] = "busy" /\ running'[q] \notin (Queued(q))'
                      /\ \/ used'[running'[q]] = q /\ (Awaited(running[q]))'
                         \/ asked'[q] /\ (Dropped(running[q]))'
    BY DEF RunningInv, Awaited, Dropped
  <2>1. CASE running'[q] = running[q]
    <3>1. q # r /\ task'[q] = task[q] /\ running[q] # None
      BY <1>2, <1>3, <2>1 DEF TypeOK
    <3>2. /\ task[q] = "busy" /\ running[q] \notin Queued(q)
          /\ \/ used[running[q]] = q /\ Awaited(running[q])
             \/ asked[q] /\ Dropped(running[q])
      BY <3>1 DEF CommandInv, RunningInv
    <3> QED
      BY <1>0, <1>1, <2>1, <3>1, <3>2 DEF Awaited, Dropped
  <2>2. CASE running'[q] # running[q]
    <3>1. q = r /\ running'[r] = h /\ task'[r] = "busy"
      BY <1>3, <2>2 DEF TypeOK
    <3> QED
      BY <1>0, <1>1, <1>2, <3>1 DEF Awaited
  <2> QED
    BY <2>1, <2>2
<1>6. LostInv'
  <2> SUFFICES ASSUME NEW q \in Runtimes, NEW d \in Calls, used[d] = q,
                      pc[d] = "waiting", future[d] = "pending"
               PROVE  d \in (Queued(q))' \/ running'[q] = d
    BY <1>0 DEF LostInv
  <2>1. d \in Queued(q) \/ running[q] = d
    BY DEF CommandInv, LostInv
  <2>2. CASE q = r
    BY <1>1, <1>2, <1>3, <2>1, <2>2, CallsAssumption DEF TypeOK
  <2>3. CASE q # r
    BY <1>1, <1>3, <2>1, <2>3 DEF TypeOK
  <2> QED
    BY <2>2, <2>3
<1>7. \A q \in Runtimes : running'[q] # running[q] => running'[q] = h /\ future[h] = "pending"
  BY <1>3 DEF TypeOK
<1> QED
  BY <1>2, <1>4, <1>5, <1>6, <1>7 DEF CommandInv, Awaited

\* A worker sets the result of its command.
LEMMA FinishStep ==
    ASSUME TypeOK, CommandInv, NEW r \in Runtimes, Finish(r)
    PROVE  CommandInv'
<1> USE DEF callVars
<1>0. /\ task[r] = "busy" /\ ~asked[r] /\ UNCHANGED <<pc, used, asked, queue>>
      /\ running' = [running EXCEPT ![r] = None] /\ task' = [task EXCEPT ![r] = "idle"]
  BY DEF Finish
<1>1. \A q \in Runtimes : (Queued(q))' = Queued(q) /\ Queued(q) \subseteq Calls
  BY <1>0 DEF Queued, TypeOK
<1>2. \A d \in Calls : d # running[r] => future'[d] = future[d]
  BY DEF Finish, TypeOK
<1>3. running[r] \in Calls => future'[running[r]] # "pending" /\ used[running[r]] = r
                              /\ running[r] \notin Queued(r) /\ Awaited(running[r])
  BY <1>0, CallsAssumption DEF Finish, TypeOK, CommandInv, RunningInv
<1>4. \A q \in Runtimes \ {r} : /\ running[r] \in Calls => running[r] \notin Queued(q)
                                /\ running'[q] = running[q] /\ task'[q] = task[q]
  BY <1>0, <1>3 DEF TypeOK, CommandInv, QueuedInv
<1>5. \A q \in Runtimes : \A d \in Queued(q) : d # running[r]
  BY <1>1, <1>3, <1>4
<1>6. QueuedInv'
  <2> SUFFICES ASSUME NEW q \in Runtimes
               PROVE  /\ Distinct(queue'[q])
                      /\ \A d \in (Queued(q))' : used'[d] = q /\ (Awaited(d))'
    BY DEF QueuedInv, Awaited
  <2> QED
    BY <1>0, <1>1, <1>2, <1>5 DEF CommandInv, QueuedInv, Awaited
<1>7. RunningInv'
  <2> SUFFICES ASSUME NEW q \in Runtimes, running'[q] # None
               PROVE  /\ task'[q] = "busy" /\ running'[q] \notin (Queued(q))'
                      /\ \/ used'[running'[q]] = q /\ (Awaited(running[q]))'
                         \/ asked'[q] /\ (Dropped(running[q]))'
    BY DEF RunningInv, Awaited, Dropped
  <2>1. q # r /\ running'[q] = running[q] /\ task'[q] = task[q]
    BY <1>0 DEF TypeOK
  <2>2. PICK d \in Calls : d = running[q]
    BY <2>1 DEF TypeOK
  <2>3. /\ task[q] = "busy" /\ d \notin Queued(q)
        /\ \/ used[d] = q /\ Awaited(d)
           \/ asked[q] /\ Dropped(d)
    BY <2>1, <2>2 DEF CommandInv, RunningInv
  <2>4. d # running[r]
    <3> SUFFICES ASSUME d = running[r] PROVE FALSE
      OBVIOUS
    <3>1. used[d] = r /\ Awaited(d)
      BY <1>3
    <3>2. asked[q] /\ Dropped(d)
      BY <2>1, <2>3, <3>1
    <3>3. future[d] = "pending"
      BY DEF Finish
    <3> QED
      BY <3>1, <3>2, <3>3 DEF Awaited, Dropped
  <2>5. (Awaited(d) => (Awaited(d))') /\ (Dropped(d) => (Dropped(d))')
    BY <1>0, <1>2, <2>4 DEF Awaited, Dropped
  <2>6. (Awaited(d))' => (Awaited(running[q]))'
    BY <2>1, <2>2 DEF Awaited
  <2>7. (Dropped(d))' => (Dropped(running[q]))'
    BY <2>1, <2>2 DEF Dropped
  <2> QED
    BY <1>0, <1>1, <2>1, <2>2, <2>3, <2>5, <2>6, <2>7
<1>8. LostInv'
  <2> SUFFICES ASSUME NEW q \in Runtimes, NEW d \in Calls, used[d] = q,
                      pc[d] = "waiting", future'[d] = "pending"
               PROVE  d \in Queued(q) \/ running'[q] = d
    BY <1>0, <1>1 DEF LostInv
  <2>1. d # running[r] /\ future[d] = "pending"
    BY <1>2, <1>3
  <2>2. d \in Queued(q) \/ running[q] = d
    BY <2>1 DEF CommandInv, LostInv
  <2> QED
    BY <1>4, <2>1, <2>2
<1> QED
  BY <1>6, <1>7, <1>8 DEF CommandInv

\* A new runtime has no command, and no call had it.
LEMMA CreateStep ==
    ASSUME TypeOK, CommandInv, NEW c \in Calls, Create(c)
    PROVE  CommandInv' /\ \A q \in Runtimes : running'[q] = running[q] \/ running'[q] = None
<1> PICK r \in Runtimes :
      /\ Fresh(r) /\ table' = r /\ task' = [task EXCEPT ![r] = "connecting"]
      /\ asked' = [q \in Runtimes |-> IF q = r THEN FALSE
                                      ELSE asked[q] \/ (CancelReplaced(q) /\ Alive(q))]
      /\ queue' = [queue EXCEPT ![r] = <<>>]
      /\ running' = [running EXCEPT ![r] = None]
      /\ GoOn(c, "ready", r, attempt[c] + 1)
  BY DEF Create
<1>0. ~Awaited(c) /\ ~Dropped(c) /\ UNCHANGED future
  BY DEF Create, Awaited, Dropped
<1>1. \A d \in Calls : used[d] # r
  BY DEF Fresh, Unused
<1>2. /\ (Queued(r))' = {} /\ queue'[r] = <<>> /\ running'[r] = None
      /\ \A q \in Runtimes \ {r} :
            /\ queue'[q] = queue[q] /\ (Queued(q))' = Queued(q)
            /\ running'[q] = running[q]
  BY QueuedItems, EmptyQueue DEF TypeOK
<1>3. /\ pc'[c] = "ready" /\ used'[c] = r
      /\ \A d \in Calls \ {c} : pc'[d] = pc[d] /\ used'[d] = used[d]
  BY DEF GoOn, TypeOK
<1>4. \A d \in Calls : /\ Awaited(d) => (Awaited(d))' /\ used'[d] = used[d]
                       /\ Dropped(d) => (Dropped(d))'
  BY <1>0, <1>3 DEF Awaited, Dropped
<1>5. \A q \in Runtimes : Queued(q) \subseteq Calls
  BY DEF Queued, TypeOK
<1>6. QueuedInv'
  <2> SUFFICES ASSUME NEW q \in Runtimes
               PROVE  /\ Distinct(queue'[q])
                      /\ \A d \in (Queued(q))' : used'[d] = q /\ (Awaited(d))'
    BY DEF QueuedInv, Awaited
  <2>1. CASE q = r
    BY <1>2, <2>1, EmptyQueue
  <2>2. CASE q # r
    BY <1>2, <1>4, <1>5, <2>2 DEF CommandInv, QueuedInv
  <2> QED
    BY <2>1, <2>2
<1>7. RunningInv'
  <2> SUFFICES ASSUME NEW q \in Runtimes, running'[q] # None
               PROVE  /\ task'[q] = "busy" /\ running'[q] \notin (Queued(q))'
                      /\ \/ used'[running'[q]] = q /\ (Awaited(running[q]))'
                         \/ asked'[q] /\ (Dropped(running[q]))'
    BY DEF RunningInv, Awaited, Dropped
  <2>1. q # r /\ running'[q] = running[q] /\ task'[q] = task[q] /\ (asked[q] => asked'[q])
    <3>1. q # r
      BY <1>2
    <3>2. task'[q] = task[q]
      BY <3>1 DEF TypeOK
    <3>3. asked[q] => asked'[q]
      BY <3>1, Zenon
    <3> QED
      BY <1>2, <3>1, <3>2, <3>3
  <2>2. PICK d \in Calls : d = running[q]
    BY <2>1 DEF TypeOK
  <2>3. /\ task[q] = "busy" /\ d \notin Queued(q)
        /\ \/ used[d] = q /\ Awaited(d)
           \/ asked[q] /\ Dropped(d)
    BY <2>1, <2>2 DEF CommandInv, RunningInv
  <2>4. (Awaited(d))' => (Awaited(running[q]))'
    BY <2>1, <2>2 DEF Awaited
  <2>5. (Dropped(d))' => (Dropped(running[q]))'
    BY <2>1, <2>2 DEF Dropped
  <2> QED
    BY <1>2, <1>4, <2>1, <2>2, <2>3, <2>4, <2>5
<1>8. LostInv'
  <2> SUFFICES ASSUME NEW q \in Runtimes, NEW d \in Calls, used'[d] = q,
                      pc'[d] = "waiting", future[d] = "pending"
               PROVE  d \in (Queued(q))' \/ running'[q] = d
    BY <1>0 DEF LostInv
  <2>1. d # c /\ pc[d] = "waiting" /\ used[d] = q
    BY <1>3
  <2>2. q # r /\ (d \in Queued(q) \/ running[q] = d)
    BY <1>1, <2>1 DEF CommandInv, LostInv
  <2> QED
    BY <1>2, <2>2
<1>9. \A q \in Runtimes : running'[q] = running[q] \/ running'[q] = None
  BY DEF TypeOK
<1> QED
  BY <1>6, <1>7, <1>8, <1>9 DEF CommandInv

-----------------------------------------------------------------------------
(* The invariant and the theorems.                                         *)

LEMMA CommandInit == Init => CommandInv
BY EmptyQueue, CallsAssumption DEF Init, CommandInv, QueuedInv, RunningInv, LostInv, Queued,
   Distinct

\* Only Take gives a worker a command, and that command is awaited.
OnlyAwaited == \A r \in Runtimes : running'[r] # running[r] /\ running'[r] # None =>
    pc[running'[r]] = "waiting" /\ future[running'[r]] = "pending"

\* Every step of a call keeps what is known of the commands.
LEMMA CommandCall ==
    ASSUME TypeOK, UsedInv, CommandInv, NEW c \in Calls, Call(c) \/ Interrupt(c)
    PROVE  CommandInv' /\ OnlyAwaited
<1> USE DEF callVars, workVars, downVars
<1>1. ASSUME NEW p, End(c, p), p \in {"answered", "failed", "backoff"},
             UNCHANGED <<queue, running, task, asked>>, ~Awaited(c), Dropped(c) => p = "failed"
      PROVE  CommandInv' /\ OnlyAwaited
  <2>1. /\ \A d \in Calls \ {c} : pc'[d] = pc[d] /\ used'[d] = used[d] /\ future'[d] = future[d]
        /\ pc'[c] = p /\ future'[c] = "none"
    BY <1>1 DEF End, TypeOK
  <2>2. Dropped(c) => (Dropped(c))' /\ pc'[c] = "failed"
    BY <1>1, <2>1 DEF Dropped
  <2> QED
    BY <1>1, <2>1, <2>2, CallerStep DEF OnlyAwaited
<1>2. ASSUME NEW p \in {"ready", "putting"}, NEW r, NEW n, GoOn(c, p, r, n),
             UNCHANGED <<future, queue, running, task, asked>>, ~Awaited(c), ~Dropped(c)
      PROVE  CommandInv' /\ OnlyAwaited
  <2>1. /\ \A d \in Calls \ {c} : pc'[d] = pc[d] /\ used'[d] = used[d] /\ future'[d] = future[d]
        /\ pc'[c] = p
    BY <1>2 DEF GoOn, TypeOK
  <2> QED
    BY <1>2, <2>1, CallerStep DEF OnlyAwaited
<1>3. ASSUME NEW r \in Runtimes, NEW n, Enqueue(c, r, n), pc[c] \in {"new", "ready"},
             UNCHANGED <<running, task, asked>>
      PROVE  CommandInv' /\ OnlyAwaited
  <2>0. ~Awaited(c) /\ ~Dropped(c)
    BY <1>3 DEF Awaited, Dropped
  <2>1. CASE End(c, "failed") /\ UNCHANGED queue
    BY <1>1, <1>3, <2>0, <2>1
  <2>2. CASE /\ Room(r) /\ queue' = [queue EXCEPT ![r] = Append(@, c)]
             /\ future' = [future EXCEPT ![c] = "pending"] /\ GoOn(c, "waiting", r, n)
    BY <1>3, <2>2, EnterStep DEF GoOn, OnlyAwaited
  <2>3. CASE GoOn(c, "putting", r, n) /\ UNCHANGED <<future, queue>>
    BY <1>2, <1>3, <2>0, <2>3
  <2> QED
    BY <1>3, <2>1, <2>2, <2>3 DEF Enqueue
<1>4. ASSUME NEW r \in Runtimes, used[c] = r, Discard(r), UNCHANGED <<used, running, task>>,
             NEW p \in {"undiscovered", "retrying", "interrupted", "leaving"},
             pc' = [pc EXCEPT ![c] = p],
             (~Awaited(c) /\ ~Dropped(c)) \/ (pc[c] = "interrupted" /\ p = "leaving")
      PROVE  CommandInv' /\ OnlyAwaited
  <2>1. \A d \in Calls : \/ pc'[d] = pc[d]
                         \/ ~Awaited(d) /\ ~Dropped(d) /\ pc'[d] # "waiting"
                         \/ used[d] = r /\ pc[d] = "interrupted" /\ pc'[d] = "leaving"
    BY <1>4 DEF TypeOK
  <2> QED
    BY <1>4, <2>1, StopStep DEF Discard, OnlyAwaited
<1>5. CASE Refuse(c)
  BY <1>1, <1>5 DEF Refuse, Awaited, Dropped
<1>6. CASE Reuse(c)
  <2>1. table \in Runtimes /\ pc[c] = "new" /\ ~Awaited(c) /\ ~Dropped(c)
        /\ UNCHANGED <<running, task, asked>>
    BY <1>6, RuntimesAssumption DEF Reuse, Alive, TypeOK, Awaited, Dropped
  <2> QED
    BY <1>2, <1>3, <1>6, <2>1 DEF Reuse
<1>7. CASE Create(c)
  BY <1>7, CreateStep DEF OnlyAwaited
<1>8. CASE Connected(c)
  BY <1>3, <1>8 DEF Connected, UsedInv
<1>9. CASE Put(c)
  <2>1. used[c] \in Runtimes /\ used' = [used EXCEPT ![c] = used[c]]
    BY <1>9 DEF Put, UsedInv, TypeOK
  <2> QED
    BY <1>9, <2>1, EnterStep DEF Put, OnlyAwaited
<1>10. CASE FailDiscovery(c)
  <2>1. ~Awaited(c) /\ ~Dropped(c) /\ used[c] \in Runtimes
    BY <1>10 DEF FailDiscovery, UsedInv, Awaited, Dropped
  <2> PICK r \in Runtimes : r = used[c]
    BY <2>1
  <2>2. /\ Discard(r) /\ UNCHANGED <<used, running, task>>
        /\ pc' = [pc EXCEPT ![c] = "undiscovered"]
    BY <1>10 DEF FailDiscovery
  <2> QED
    BY <1>4, <2>1, <2>2
<1>11. CASE FailAttempt(c)
  <2>1. ~Awaited(c) /\ ~Dropped(c) /\ used[c] \in Runtimes
    BY <1>11 DEF FailAttempt, UsedInv, Awaited, Dropped
  <2> PICK r \in Runtimes : r = used[c]
    BY <2>1
  <2>2. /\ Discard(r) /\ UNCHANGED <<used, running, task>>
        /\ pc' = [pc EXCEPT ![c] = "retrying"]
    BY <1>11 DEF FailAttempt
  <2> QED
    BY <1>4, <2>1, <2>2
<1>12. CASE Retry(c)
  BY <1>1, <1>12 DEF Retry, Awaited, Dropped
<1>13. CASE Receive(c)
  BY <1>1, <1>13 DEF Receive, Awaited, Dropped
<1>14. CASE Leave(c)
  <2> PICK r \in Runtimes : r = used[c]
    BY <1>14 DEF Leave, UsedInv
  <2>0. Discard(r) /\ UNCHANGED <<used, running, task>>
    BY <1>14 DEF Leave, DiscardInterrupted
  <2>1. CASE pc[c] = "revoked"
    <3>1. ~Awaited(c) /\ ~Dropped(c) /\ pc' = [pc EXCEPT ![c] = "interrupted"]
      BY <1>14, <2>1 DEF Leave, Awaited, Dropped
    <3> QED
      BY <1>4, <2>0, <3>1
  <2>2. CASE pc[c] = "interrupted"
    <3>1. pc' = [pc EXCEPT ![c] = "leaving"]
      BY <1>14, <2>2 DEF Leave
    <3> QED
      BY <1>4, <2>0, <2>2, <3>1
  <2> QED
    BY <1>14, <2>1, <2>2 DEF Leave
<1>15. CASE Left(c)
  BY <1>1, <1>15 DEF Left, Awaited
<1>16. CASE Interrupt(c)
  <2>1. CASE pc[c] = "backoff" /\ End(c, "failed")
    BY <1>1, <1>16, <2>1 DEF Interrupt, Awaited
  <2>2. CASE pc[c] # "backoff"
    <3>1. /\ pc'[c] = IF pc[c] = "ready" THEN "revoked" ELSE "interrupted"
          /\ used'[c] = used[c] /\ pc[c] \in Timed
          /\ future'[c] = IF future[c] = "pending" THEN "cancelled" ELSE future[c]
          /\ \A d \in Calls \ {c} : pc'[d] = pc[d] /\ used'[d] = used[d] /\ future'[d] = future[d]
          /\ UNCHANGED <<queue, running, task, asked>>
      BY <1>16, <2>2 DEF Interrupt, GoOn, TypeOK
    <3>2. (Awaited(c) => (Awaited(c))') /\ (Dropped(c) => (Dropped(c))')
      BY <3>1 DEF Timed, Awaited, Dropped
    <3> QED
      BY <3>1, <3>2, CallerStep DEF OnlyAwaited
  <2> QED
    BY <1>16, <2>1, <2>2 DEF Interrupt
<1> QED
  BY <1>5, <1>6, <1>7, <1>8, <1>9, <1>10, <1>11, <1>12, <1>13, <1>14, <1>15, <1>16 DEF Call

\* So does every step of a worker and of shutdown.
LEMMA CommandRest ==
    ASSUME TypeOK, CommandInv, (\E r \in Runtimes : Worker(r)) \/ Shutdown
    PROVE  CommandInv' /\ OnlyAwaited
<1> USE DEF callVars, workVars, downVars
<1>1. CASE \E r \in Runtimes : Worker(r)
  <2> PICK r \in Runtimes : Worker(r)
    BY <1>1
  <2>1. CASE Connect(r)
    <3>1. running[r] = None /\ \A q \in Runtimes \ {r} : task'[q] = task[q]
      BY <2>1 DEF Connect, TypeOK, CommandInv, RunningInv
    <3> QED
      BY <2>1, <3>1 DEF Connect, CommandInv, QueuedInv, RunningInv, LostInv, Queued, Awaited,
         Dropped, Distinct, OnlyAwaited
  <2>2. CASE Take(r)
    BY <2>2, TakeStep DEF OnlyAwaited
  <2>3. CASE Finish(r)
    <3>1. \A q \in Runtimes : running'[q] = running[q] \/ running'[q] = None
      BY <2>3 DEF Finish, TypeOK
    <3> QED
      BY <2>3, <3>1, FinishStep DEF OnlyAwaited
  <2>4. CASE Exit(r)
    <3>1. \A q \in Runtimes : running'[q] = running[q] \/ running'[q] = None
      BY <2>4 DEF Exit, TypeOK
    <3> QED
      BY <2>4, <3>1, ExitStep DEF OnlyAwaited
  <2> QED
    BY <2>1, <2>2, <2>3, <2>4 DEF Worker, Break, Cancelled
<1>2. CASE BeginShutdown \/ EndShutdown
  BY <1>2 DEF BeginShutdown, EndShutdown, CommandInv, QueuedInv, RunningInv, LostInv, Queued,
     Awaited, Dropped, Distinct, OnlyAwaited
<1>3. CASE StopAll
  <2>1. closing \in Runtimes
    BY <1>3 DEF StopAll, TypeOK
  <2> QED
    BY <1>3, <2>1, StopStep DEF StopAll, OnlyAwaited
<1> QED
  BY <1>1, <1>2, <1>3 DEF Shutdown

\* The invariant holds in every reachable state, and every step gives a worker
\* an awaited command only.
LEMMA Invariance == Spec => []IInv /\ [][OnlyAwaited]_vars
<1>1. Init => IInv
  <2>1. Init => UsedInv /\ PhaseInv /\ NoOrphanWorker
    BY LimitsAssumption DEF Init, UsedInv, PhaseInv, NoOrphanWorker, Alive
  <2> QED
    BY <2>1, TypeOKInit, CommandInit DEF IInv
<1>2. IInv /\ [Next]_vars => IInv' /\ [OnlyAwaited]_vars
  <2> SUFFICES ASSUME IInv, [Next]_vars PROVE IInv' /\ [OnlyAwaited]_vars
    OBVIOUS
  <2>1. CASE UNCHANGED vars
    BY <2>1 DEF IInv, vars, callVars, workVars, downVars, TypeOK, UsedInv, PhaseInv,
       NoOrphanWorker, Alive, CommandInv, QueuedInv, RunningInv, LostInv, Queued, Awaited,
       Dropped, Distinct
  <2>2. CASE Next
    <3>1. TypeOK' /\ UsedInv' /\ CommandInv' /\ OnlyAwaited
      BY <2>2, TypeOKCall, TypeOKRest, CommandCall, CommandRest DEF Next, IInv
    <3>2. PhaseInv' /\ NoOrphanWorker'
      BY <2>2, OrphanStep DEF IInv
    <3> QED
      BY <3>1, <3>2 DEF IInv
  <2> QED
    BY <2>1, <2>2
<1> QED
  BY <1>1, <1>2, PTL DEF Spec

\* Every variable keeps to its type in every reachable state: in particular the
\* attempts and the queues keep to their limits.
THEOREM TypeCorrect == Spec => []TypeOK
<1>1. IInv => TypeOK
  BY DEF IInv
<1> QED
  BY <1>1, Invariance, PTL

\* No worker is left behind: one that nobody has cancelled is in the table or
\* about to be stopped by shutdown.
THEOREM NoWorkerLost == Spec => []NoOrphanWorker
<1>1. IInv => NoOrphanWorker
  BY DEF IInv
<1> QED
  BY <1>1, Invariance, PTL

\* A caller that waits can be reached by every stop and every exit.
THEOREM NoCommandLost == Spec => []NoLostCommand
<1>1. IInv => NoLostCommand
  BY DEF IInv, UsedInv, CommandInv, LostInv, NoLostCommand
<1> QED
  BY <1>1, Invariance, PTL

\* A tool does not run on for a call that is over, unless its worker has been
\* cancelled.
THEOREM EndedCallsAreStopped == Spec => []EndedIsStopped
<1>1. IInv => EndedIsStopped
  BY DEF IInv, CommandInv, RunningInv, EndedIsStopped, Awaited
<1> QED
  BY <1>1, Invariance, PTL

\* A tool is never started for a caller that no longer waits for it.
THEOREM CancelledNotRun == Spec => CancelledNeverRuns
<1>1. [OnlyAwaited]_vars =>
        [\A r \in Runtimes : running'[r] # running[r] /\ running'[r] # None =>
            /\ pc[running'[r]] = "waiting" /\ future[running'[r]] = "pending"]_vars
  BY DEF OnlyAwaited
<1> QED
  BY <1>1, Invariance, PTL DEF CancelledNeverRuns
=============================================================================
