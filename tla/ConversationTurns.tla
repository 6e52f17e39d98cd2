------------------------ MODULE ConversationTurns -----------------------
(***************************************************************************)
(* The requests of one conversation: the registry of active runs           *)
(* (streaming/service.py), the JSON and the streaming endpoints            *)
(* (api/agent_routes.py), the row lock and the turn index of save_turn     *)
(* (memory/short_term.py), the creation of a conversation by its first     *)
(* streamed run, and the compensation of a streamed run.                   *)
(*                                                                         *)
(* One run's inside is StreamRun's subject: here it enters its persist     *)
(* node, saves or not, and succeeds or is undone.                          *)
(***************************************************************************)
EXTENDS Naturals, FiniteSets

CONSTANTS
    Requests,  \* the requests that arrive
    Ways,      \* how clients address the conversation
    MaxPast    \* bound: turns stored before the first request

\* "stream" and "json" name the conversation by its id; "legacy" is the JSON
\* endpoint with a session id only.
ASSUME RequestsAssumption == IsFiniteSet(Requests)
ASSUME WaysAssumption == Ways \subseteq {"stream", "json", "legacy"}
ASSUME MaxPastAssumption == MaxPast \in Nat

VARIABLES
    exists,     \* the conversation row is committed
    past,       \* turns of requests before these
    registry,   \* active_agent_runs holds the conversation id
    way,        \* how each request addresses the conversation
    run,        \* each request's progress
    save,       \* its persisting transaction
    index,      \* the turn_index it computed
    created,    \* its transaction created the conversation
    turns,      \* requests whose turn row is committed
    abandoned,  \* streamed runs undone while their persist thread was running
    deleted     \* a compensation has deleted a turn

vars == <<exists, past, registry, way, run, save, index, created, turns, abandoned, deleted>>
rows == <<exists, turns, deleted>>
txns == <<save, index, created>>

TypeOK ==
    /\ exists \in BOOLEAN /\ registry \in BOOLEAN /\ deleted \in BOOLEAN
    /\ past \in Nat
    /\ way \in [Requests -> {"none", "stream", "json", "legacy"}]
    /\ run \in [Requests -> {"idle", "resolved", "active", "undoing", "answered",
                             "failed", "refused"}]
    /\ save \in [Requests -> {"none", "entered", "open", "committed", "failed"}]
    /\ index \in [Requests -> Nat]
    /\ created \in [Requests -> BOOLEAN]
    /\ turns \subseteq Requests
    /\ abandoned \subseteq Requests

\* A stored conversation with some turns, or one a first streamed request will
\* provision and that is not stored yet.
Init ==
    /\ past \in 0 .. MaxPast
    /\ exists \in BOOLEAN /\ (past > 0 => exists)
    /\ registry = FALSE /\ deleted = FALSE
    /\ way = [r \in Requests |-> "none"]
    /\ run = [r \in Requests |-> "idle"]
    /\ save = [r \in Requests |-> "none"]
    /\ index = [r \in Requests |-> 0]
    /\ created = [r \in Requests |-> FALSE]
    /\ turns = {} /\ abandoned = {}

-----------------------------------------------------------------------------
(* A request arrives.                                                      *)

\* A streamed request without ids: the conversation gets an id, not a row.
Provision(r) ==
    /\ ~exists /\ "stream" \in Ways
    /\ \A q \in Requests : run[q] = "idle"
    /\ way' = [way EXCEPT ![r] = "stream"]
    /\ run' = [run EXCEPT ![r] = "resolved"]
    /\ UNCHANGED <<rows, txns, past, registry, abandoned>>

\* The streaming endpoint looks the conversation up before it takes the lock;
\* 422 when it is not stored. A legacy request finds it by its session id. The
\* JSON endpoint takes the lock first and looks the conversation up inside.
Resolve(r, w) ==
    /\ run[r] = "idle" /\ w \in Ways
    /\ w = "legacy" => exists
    /\ way' = [way EXCEPT ![r] = w]
    /\ run' = [run EXCEPT ![r] = IF w = "stream" /\ ~exists THEN "refused" ELSE "resolved"]
    /\ UNCHANGED <<rows, txns, past, registry, abandoned>>

AlwaysFree(r) == TRUE
\* ActiveAgentRunRegistry.acquire; a request without a conversation id asks for
\* no lock.
Free(r) == way[r] = "legacy" \/ ~registry

Acquire(r) ==
    /\ run[r] = "resolved"
    /\ \/ /\ Free(r)
          /\ run' = [run EXCEPT ![r] = "active"]
          /\ registry' = (registry \/ way[r] # "legacy")
       \/ /\ ~Free(r)
          /\ run' = [run EXCEPT ![r] = "refused"]
          /\ UNCHANGED registry
    /\ UNCHANGED <<rows, txns, past, way, abandoned>>

KeepLock(r) == UNCHANGED registry
\* ActiveAgentRunRegistry.release, at the end of whatever took the lock.
Release(r) == registry' = (registry /\ way[r] = "legacy")

-----------------------------------------------------------------------------
(* The persist node and its transaction.                                   *)

\* The run reaches the node (in an executor thread, for a streamed run).
EnterPersist(r) ==
    /\ run[r] = "active" /\ save[r] = "none"
    /\ save' = [save EXCEPT ![r] = "entered"]
    /\ UNCHANGED <<rows, past, registry, way, run, index, created, abandoned>>

NoRowLock == TRUE
\* SELECT ... FOR UPDATE on the conversation row, held to the end of the
\* transaction; the insert of the row excludes others the same way.
RowFree == \A q \in Requests : save[q] # "open"

\* turn_index: the number of turns of the session.
NextIndex == past + Cardinality(turns)

\* ensure_conversation and save_turn. Only a streamed run creates a row that is
\* absent; for the others scalar_one() raises.
BeginSave(r) ==
    /\ save[r] = "entered" /\ RowFree
    /\ exists \/ way[r] = "stream"
    /\ save' = [save EXCEPT ![r] = "open"]
    /\ index' = [index EXCEPT ![r] = NextIndex]
    /\ created' = [created EXCEPT ![r] = ~exists]
    /\ UNCHANGED <<rows, past, registry, way, run, abandoned>>

CommitSave(r) ==
    /\ save[r] = "open"
    /\ save' = [save EXCEPT ![r] = "committed"]
    /\ turns' = turns \cup {r} /\ exists' = TRUE
    /\ UNCHANGED <<past, registry, way, run, index, created, abandoned, deleted>>

RollbackSave(r) ==
    /\ save[r] \in {"entered", "open"}
    /\ save' = [save EXCEPT ![r] = "failed"]
    /\ UNCHANGED <<rows, past, registry, way, run, index, created, abandoned>>

-----------------------------------------------------------------------------
(* A run ends.                                                             *)

SucceedUnsaved(r) == save[r] # "open"
\* The state the graph ended with names the persisted turn.
Saved(r) == save[r] = "committed"

Succeed(r) ==
    /\ run[r] = "active" /\ Saved(r)
    /\ run' = [run EXCEPT ![r] = "answered"]
    /\ Release(r)
    /\ UNCHANGED <<rows, txns, past, way, abandoned>>

\* A JSON request's transaction is its own: nothing to undo.
FailJson(r) ==
    /\ run[r] = "active" /\ way[r] # "stream" /\ save[r] \in {"none", "failed"}
    /\ run' = [run EXCEPT ![r] = "failed"]
    /\ Release(r)
    /\ UNCHANGED <<rows, txns, past, way, abandoned>>

\* A streamed run stops without success: an error, a disconnect, a close. Its
\* persist thread may be running.
FailStream(r) ==
    /\ run[r] = "active" /\ way[r] = "stream"
    /\ run' = [run EXCEPT ![r] = "undoing"]
    /\ abandoned' = IF save[r] \in {"entered", "open"} THEN abandoned \cup {r} ELSE abandoned
    /\ UNCHANGED <<rows, txns, past, registry, way>>

\* The turn, and the conversation if the run created it: its turns go with it
\* (ON DELETE CASCADE), once no transaction holds the row.
Delete(r) ==
    \/ ~created[r] /\ exists' = exists /\ turns' = turns \ {r}
    \/ created[r] /\ RowFree /\ exists' = FALSE /\ turns' = {}

\* compensate_stream_persistence, then the release. It fails, or finds nothing
\* in the receipt: a thread writes it only after its commit.
Undo(r) ==
    /\ run[r] = "undoing"
    /\ \/ Saved(r) /\ Delete(r) /\ deleted' = TRUE
       \/ UNCHANGED rows
    /\ run' = [run EXCEPT ![r] = "failed"]
    /\ Release(r)
    /\ UNCHANGED <<txns, past, way, abandoned>>

-----------------------------------------------------------------------------
Transaction(r) == BeginSave(r) \/ CommitSave(r) \/ RollbackSave(r)

\* The endpoints: take the lock, run the graph, answer. agent_chat_endpoint turns
\* whatever a JSON request raises into an error answer (FailJson).
Run(r) == Acquire(r) \/ EnterPersist(r) \/ Succeed(r) \/ FailJson(r) \/ FailStream(r) \/ Undo(r)

Next == \E r \in Requests :
    \/ Provision(r)
    \/ \E w \in Ways : Resolve(r, w)
    \/ Run(r)
    \/ Transaction(r)

\* The server goes on with every request and every thread; clients need not.
Fairness == \A r \in Requests : WF_vars(Run(r)) /\ WF_vars(Transaction(r))

Spec == Init /\ [][Next]_vars /\ Fairness
-----------------------------------------------------------------------------
(* Properties.                                                             *)

Bypassed == \E r \in Requests : way[r] = "legacy"

Dense == /\ \A r \in turns : index[r] \in past .. past + Cardinality(turns) - 1
         /\ \A q, r \in turns : index[q] = index[r] => q = r

\* The turn indexes of the conversation are past, past + 1, ... without a hole
\* or a duplicate, although each is a count taken in its own transaction: as
\* long as nothing was deleted the row lock alone ensures it, whoever bypasses
\* the registry; with compensations, the registry does, if no thread was
\* abandoned.
IndexesAreDense ==
    ~deleted \/ (~Bypassed /\ abandoned = {}) => Dense

\* A turn whose client was told of success stays, whatever later runs of the
\* conversation undo, even if the conversation was created by a run that is
\* undone: nobody bypassed the registry.
AnsweredIsKept ==
    ~Bypassed => \A r \in Requests : run[r] = "answered" => r \in turns

\* The conversation always becomes free again for the next request.
AlwaysReleased == registry ~> ~registry

Contract == INSTANCE TurnContract WITH
    stored <- turns,
    withdrawn <- {r \in Requests : save[r] = "committed"} \ turns,
    told <- {r \in Requests : run[r] = "answered"},
    bypassed <- Bypassed

\* The endpoints implement the contract of the turns.
KeepsContract == Contract!Spec

=============================================================================
