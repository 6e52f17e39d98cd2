# Personal Learning Agent: TLA+ models and proofs

The repository is a local research assistant: a FastAPI backend
(`backend/app`) that answers questions about a library of documents, the web
and academic sources with a graph of LLM calls, and a React/Tauri frontend.
This directory holds TLA+ modules of the parts whose difficulty is in the
interleavings: what a request commits, what is undone when it is cancelled,
what the next request sees. TLC checks small instances; TLAPS proves the most
important statements for every value of the constants.

## 1. Inventory

| component | state | operations | what is hard |
|---|---|---|---|
| streamed run (`streaming/service.py`) | receipt, one-slot queue, producer task, flags, deferred tasks | iterate, disconnect, close, finish, compensate, release | executor threads survive the cancellation of their task; compensation races commits |
| agent endpoints, run registry (`api/agent_routes.py`, `ActiveAgentRunRegistry`) | set of conversation ids | acquire, release, refuse | release on every path; clients that bypass the registry |
| conversations and turns (`memory/conversations.py`, `short_term.py`) | conversation and turn rows | resolve, ensure, save_turn, delete by compensation | count-based `turn_index`, cascade of a created conversation |
| rolling summary (`memory/summary.py`, `memory/service.py`) | one summary row per conversation | post-response job: count, read, ask the LLM, write | overlapping jobs, turns withdrawn during the LLM call, window arithmetic |
| long-term memory (`memory/consolidation.py`, `extraction.py`, `repository.py`, `api/memory_routes.py`) | memory records with status and validity | extract, consolidate, supersede, create, patch, delete, expire | jobs consolidate what they read before another job or a user changed it |
| agent graph (`graphs/`, `agents/`) | graph state, kept per conversation by the checkpointer | plan, three research branches, merge, grade, corrective retrieval, synthesis, verify | reducers over parallel branches, evidence of an earlier pass or turn, bound of the loop |
| chat clients (`llm/`, `graphs/adaptive.py`) | request snapshot, one response at a time | analyse, generate, stream | streams that break, end early or are cut; a switch of the profile under a run |
| MCP client (`mcp/client.py`) | runtime per server: worker task, ready future, bounded queue | discover, call, retry, discard, restart, shutdown | stale runtimes, shared cancellation, timeouts racing answers |
| library (`library/`) | items, files, processing versions, chunks | import, index, re-index | partial failures around two commits; what a failed attempt leaves behind |
| ingestion (`ingestion/`, `library/indexing.py`) | pages, groups, spans of one document | classify, recognise, group, cut, embed, assign parents | arithmetic of spans, overlaps, blank pages, rows of a batch out of order |
| settings (`settings/`) | profiles, registry, embedding index versions | save, re-index, activate, delete | registry and database disagree on failure; a rebuild against the indexing |
| retrieval (`rag/`, `db/vector_search.py`) | the candidates of one query | resolve the scope, embed, search, fuse, refuse | several statements, between which the library and the profile change |
| frontend (`frontend/src`) | turns, stream parser, workspace | send, stop, switch, receive, restore | stop racing the end, late events, restart |

Calls go frontend -> endpoint -> registry -> run; the run's graph calls the MCP
client, the retrieval, and at its end the turns; after the response the
background task updates the summary and the long-term memory. The shared state
is PostgreSQL (READ COMMITTED, row locks), the in-process registries, and the
graph checkpointer. `PROJECT.json` lists every component with its status and
every hazard with its line.

What makes each of them correct:

- streamed run: `done` means saved; no success means no trace; it always ends.
- endpoints and turns: indexes dense; an answered turn stays; the lock is freed.
- summary: an exact prefix of the turns; nothing lost between it and the window.
- long-term memory: what was stated last is what is recalled; the dead stay dead.
- graph: the loop is bounded; every citation names a source of this turn, under
  the number it had when the text was written.
- chat clients: an incomplete stream is not an answer; a run keeps its provider.
- MCP client: every call ends; no worker and no command is left behind; no tool
  runs for a caller that is gone.
- library and settings: a failure leaves the searched edition in place; a search
  sees one edition of an item and only complete index versions.
- ingestion: no character is lost; a chunk names its pages.
- retrieval: what is found could be searched at some moment of the query; the
  question is compared within its own vector space; a refusal is justified.
- frontend: completed means stored; conversations stay apart; a call that is
  over unlocks its panel.

## 2. Modules

| module | models | composes with |
|---|---|---|
| `StreamRun` | the inside of one streamed run: consumer, producer, persist thread, compensation thread | |
| `ConversationTurns` | all requests of one conversation; a run is one step per phase | implements `TurnContract` |
| `TurnContract` | what the endpoints promise about turns, without locks or transactions | |
| `RollingSummary` | the summary jobs of one conversation over its growing log of turns | uses the density that `ConversationTurns` establishes |
| `ResearchGraph` | the turns of one conversation through the adaptive graph and its checkpointed state | its `persist_final` is the persisting of `StreamRun` |
| `ChatCalls` | the two LLM calls of one run, through each adapter | the calls of `ResearchGraph`'s plan and synthesis |
| `MCPClient` | the calls of one MCP server, their runtimes and workers, shutdown | a caller is a node of the graph; its cancellation may come from `StreamRun`'s abort |
| `MemoryStore` | the long-term memories of one kind under jobs, edits and the clock | its jobs are the other half of `RollingSummary`'s |
| `PdfProcessing` | what the pages of a PDF and the machine's tools make of it | extended by `LibraryIndex` |
| `LibraryIndex` | indexing, import, and the life of embedding profiles on one database | |
| `Retrieval` | one query to the library | extends `LibraryIndex`: its steps lie between those of the library |
| `Chunking`, `MCChunking` | from pages to chunks; the documents TLC tries | what `LibraryIndex` calls one edition |
| `AgentClient` | the chat client with two calls and the server as the client sees it | its server is `ConversationTurns` and `StreamRun` with everything hidden that a client cannot see |
| `*Proofs` | the theorems about `StreamRun`, `MCPClient`, `AgentClient`, `MemoryStore` and `Chunking`, each in a module of its own | `ConversationProofs` extends `ConversationTurns` and `RollingSummary`, `ResearchGraphProofs` extends `ResearchGraph` and `ChatCalls`, `RetrievalProofs` extends `Retrieval` and with it `LibraryIndex` |

### StreamRun

`pc` is the position of `stream_agent_sse` between two awaits or yields:
`starting` after `run_started`, `polling` at the head of the loop, `getting` at
`queue.get`, `draining` in `_finish_persistence_producer`, `completed` after the
loop, `sayFinal`/`sayDone` at the last yields, `finally`, `finishing`,
`unwinding` and `compensating` in the `finally` block, `closed` when the
generator is closed and `ended` when the wrapper has released the registry.
`noticed` is `persistence_started`; `slot` the queue of size one; `stream` what
was yielded; `receipt` the rows `persistence_receipt` names; `deferred` whether
the collector holds the memory task; `worker` the executor thread of
`streaming_persist_node` (`writing`, `flushed`, `committed`, `saved` when the
receipt is written, `failed`); `db` the committed rows of the run.

`Abort` throws CancelledError or GeneratorExit into the generator at any of its
awaits and yields. `AbortCleanup` delivers a cancellation inside the `finally`
block, which skips what is left of it; the framework may do this when a task
group is cancelled, so the properties about a clean end are stated for
`Orderly` runs: the block ran to its end, and no persist thread was abandoned.
`stream_run_orphan` drops the proviso about abandoned threads.
`DropResponse` is the response that is never iterated; nothing releases its
lock, and `RunEnds` speaks of runs that were iterated once.

### ConversationTurns

A request is addressed as `stream`, `json` (both by conversation id) or
`legacy` (the JSON endpoint with a session id only, which takes no lock). `run`
is its progress, `save` its transaction: `open` holds the row lock, taken by
`SELECT ... FOR UPDATE` or by the insert of the row. `FailStream` leaves a
running persist thread behind (`abandoned`); `Undo` deletes what the receipt
names, the conversation and by cascade all turns if the run created it.
`withdrawn` of the contract is derived: committed and no longer there.

Left out: legacy requests to a conversation that does not exist yet, turns
written by the older `/rag` route, conversation deletion by other routes (there
is none). The JSON endpoint's lookup is inside its graph; here it is the guard
of `BeginSave`.

### RollingSummary

Turns are named by the order in which they were saved, so the order of names is
the order of `turn_index`; only the last turn can be withdrawn, and only while
its run is open. A job reads the count, then the summary and the turns, then
asks the LLM, then writes: three transactions' worth of reads that other jobs
and requests interleave with (the statements see committed rows, READ
COMMITTED). `text` is the set of turns in the summary's text. `clean` records
that no job failed, lost an update to another or is missing; `ContextComplete`
is stated for clean histories, since a failed job is only logged and is made up
for by the next one.

### MCPClient

A call's `pc` is where `call_tool` waits: `ready` for the tools in
`discover_tools`, `putting` in `queue.put`, `waiting` for its future, `backoff`
in the sleep before a retry. `undiscovered` and `retrying` are the waits inside
`_stop_runtime` after a failure, in `discover_tools` and in `call_tool`;
`revoked` and `interrupted` say that the timeout or a cancellation has struck
and which handler runs next, and `leaving` is the wait inside the last one.
`used` is `last_runtime`, `table` the server's entry of `_runtimes`. A runtime
is a number; the number of one that is over and that nothing refers to is used
again, so there may be any number of runtimes over time. `running` is the
command whose tool the worker executes: `_fail_pending` clears
`runtime.current`, but the tool goes on until the worker's task gets its
`CancelledError` (`asked`).

A first attempt calls `_runtime` twice (in `call_tool` and in
`discover_tools`); nothing suspends in between, so both return the same runtime.
The waits of `_stop_runtime` end with the task or after
`connect_timeout_seconds`; both may be at any time, so the call simply goes on.
While a session is being closed its runtime is still alive and in the table: it
is the state before `Break`. Left out: health probes and the health record.

### ResearchGraph

`node` is the node that runs next; `running` and `found` are the superstep of
the research: a branch reads the state its superstep began with, and what it
returned is applied at its end. The
channels (`chunks`, `web`, `academic`, `summary`, `grade`, `retries`) outlive the
turn, since the checkpointer stores them under the conversation: `InitialState`
is the merge of the new turn's initial state into them, so a field the code
forgets to reset is a field that leaks. A source is its deduplication key, an
answer the set of its markers `<<"S", n>>` and `<<"W", n>>`. The LLM may write
any markers at all; `VerifyAnswer` repairs or falls back as
`verify_answer_node` does. `merged`, `corrections` and `retrieved` are history.

A question is the set of the groups of words it matches: `Route` and
`RuleAnalysis` are the rules of `agents/router.py` and `adaptive.py`, beside which
an LLM may plan anything that is valid. The two settings `mcp_enabled` and
`memory_checkpointer_backend` (`saver`) are chosen initially. `MCPWebResults` and
`MCPAcademicResults` are what the search plans can make of the tools' replies:
one server after another or both at once, ranked in any order. `LoadFails` is a turn
whose checkpoint cannot be read, `Restart` a shutdown between two turns: the
saver in memory loses every channel, the database none.

A branch that raises in the research fails the
turn; in the corrective pass the branches are gathered with their exceptions, and
the others' results are used (`RaiseGathered`). Clarification without a search is a plan
with no source. After a correction the local summary and the evidence quality
are those of the second pass alone, numbered from [S1], while the list keeps the
chunks of the first: `SummaryIsCited` therefore states equality only before a
correction.

### ChatCalls

The analysis (`adaptive.py`) and the answer of one run. `way` is the adapter's
method: `structured` or `generate` for a whole response, `stream` and `metrics`
for an incremental one. `said`, `ended` are the service's side, `wire` and
`link` what is on its way, `text` and `finish` the adapter's. Any event may be
an error, the connection may close early or break anywhere. `Switch` changes
the active profile in the registry at any time; `snapshot` is what
`provider_request_snapshot` captured. Texts are words and blanks, because the
Gemini adapter strips each delta and treats one of blanks as an error.

### MemoryStore

Memories of one namespace, type and subtype. A candidate says an object of a
subject; it is explicit or implied, and an implied one has the fixed object of
the extractor's patterns. A job reads the newest `RelatedLimit` active records
(`ReadRelated`), then in the same transaction, but at READ COMMITTED,
consolidates against what it read: equal, contradicting, or merely similar
records (`Decisive` lets the similarity pick any). `Create`, `Patch`, `Delete`
are the API, `Lapse` the end of `valid_until`. Numbers are in the order of
`created_at`.

`said` is history: the object last stated of a subject, `Unclear` from the moment
the statements about it did not come one at a time - two jobs overlapped, a
memory was cut off by the limit, changed by hand or lapsed, or a similarity
of 0.96 took it for another. In an unclear subject two
active memories may exist: two jobs of one subject both supersede the same
record. That is what a document would have to exclude; none does.

### LibraryIndex and PdfProcessing

`PdfProcessing` has no state: `Outcomes` is what `process_pdf` can make of any
PDF of at most `MaxPages` pages on any machine - an error, text, or nothing. It
keeps the ratios of `detect_pdf_type` and the two OCR paths.

An item's `sessions` entry is the transaction that indexes it; at most one per
item, since the flushed change of its status locks its row. The edition number
is the attempt: `tries` counts committed ones. `Succeed`, `CommitFailure` and
`Abort` are the three ends of a session (the routes commit after a
`LibraryIndexingError`, so a failure is committed too). `chunks` are the editions
whose chunks are stored, `processed` the processing versions that are ready,
`linked` their index version, `vectors` who embedded what for which version.
`job` is a request about a profile: `BeginReindex`, `Build`, `FinishReindex` and
so on are its steps between two waits; `FlushActivate` is where `service.py:174`
has changed the registry and the database has not committed yet. After a `Restart`
the registry is empty, so that the environment's client is the active one again, and
every session and job is gone.

Four things the model shows that no document excludes. Of a text file the old
chunks are deleted before the new ones are embedded, and an error commits that
(`indexing.py:211`), so `PdfKeptByFailures` is about PDFs. A scanned PDF that is
indexed again with OCR switched off becomes a ready version without a chunk. A
re-index that overlaps with another one of the same profile can delete the
vectors of the version that has meanwhile become active (`settings/service.py:294-299`).
Two activations at once may leave two index versions `active`.

### Retrieval

Adds one `query` to `LibraryIndex`. `asked`, `resolved`, `read`, `embedded`,
`dense`, `text`, `pages`, `found` are the statements of a retrieval: the scope of
an agent run is resolved by its node, a selection is checked again for
embeddings when the search begins, the question is embedded, then the vector,
keyword and visual searches run, each on what is committed at that moment. `by`
is the profile that embedded the question, `snap` the client that an agent run
captured, which the `/api/rag` endpoints do not. `seen`, `dry`, `moved` and `mixed` are
history: what was visible meanwhile, which items were without a searchable
chunk, whether the active client changed. Ranks are left out: a search returns
any subset of what it may see.

`ExactLimit` is `local_exact_search_max_documents`, by default 5. Up to it the code
computes every distance within the selected documents, and `Nearest` finds something
when there is anything. Above it, and in the whole library, the code asks the HNSW
index and filters afterwards (`retrieval.py:527-530`, documented at `AGENT.md:499-502`),
and `Nearest` may find nothing. The request about selected items is then refused
(`retrieval.py:438-441`) although each of them is searchable: TLC shows this at
once for `RefusalIsTrue` without `Exact`. The model keeps the two refusals apart,
`refused` by a check of the items and `empty` after a search without a result, and
`RefusalIsTrue` says that the first is always justified and the second when the
search was exact. Nothing in the documents says more, so this is no finding, but the
message names a cause that need not be there.

### Chunking

The cuts of `_build_readable_chunk_spans` character by character: targets, the
readable end looked for backwards (`End`), the overlap and the advance to a word
(`NextStart`). `PreparePage` classifies a page and carries the section forward,
`TakePage` and `CloseGroup` build the groups, `CutSpan` and `CutText` make the
chunks with the pages, offsets and indexes the code computes beside the text.
Each cell remembers its page and place, so that what a chunk claims can be
compared with what it contains.

`Continued` carries chapter and section titles from page to page, `HeadingOf` takes
those of a chunk's first titled page. `EmbedBatch` sends the chunks in batches whose
rows may come back in any order if they are numbered; `StoreChunks` gives each
chunk its parent and the method by which its pages were read.

Boxes are left out. The properties name what the code does
not do. `NothingLost` says of the spans also that they advance (`Advances`): the cut moves
back and the start moves back by the overlap, so the loop might not end. A chunk may be longer than the size by a rest that is too short for
its own (`indexing.py:699`): up to 2,749 characters where `README.md:937-938`
says 2,400. After a blank page inside a group the offsets are too small by the
length of that page (`indexing.py:649`). A span that is blank is skipped but
counted (`indexing.py:655-662`), so that the next group's first index
(`indexing.py:544`) is used twice.

### AgentClient

`keys` are the local conversations of the workspace, `conv` the server's id each
has learned, `turn` the turns as saved to localStorage, `call` the promise
chain and the refs of the panel that made it (`attached`: the panel is mounted;
`aborted`: its controller was; `dropped`: the panel has forgotten it). A panel
is per conversation and remounts when another one is selected. `srv` is a
run as far as a client can tell; `wire` the events not read yet. `Reload` is a
restart: nothing survives but the workspace, whose pending turns become failed.
`Read` is the reducer of `stateMachine.ts` over one event, `FlushTimer` the
timer of the token buffer, `EndOfStream`, `Interrupted` and `Aborted` the
three other ways a chain ends; where streaming is disabled the call falls back to
the JSON endpoint.

`SettledUnlocks` says two things: a call that was answered or stopped leaves its
panel ready, and in the workspace a turn that is shown as under way has a call that
is, so that a pending turn restored after a restart cannot stay pending. Two paths are
excluded from it by name and would break it: a
stream that breaks with tokens still buffered flushes them after the failure and
puts the status back to `streaming` (`RagQueryPanel.tsx:251-252`); New Chat in
the header during a run forgets the run before its abort is handled
(`RagQueryPanel.tsx:304-312`). And a stop between `final` and `done` leaves the client
with the id of a conversation the server has deleted; its next message is refused.

## 3. Runs

| run | instance | shows |
|---|---|---|
| `stream_run` | 2 graph events, 2 aborts, activity events on; conversation old or new | all properties of `StreamRun` |
| `stream_run_orphan` (violation) | 1 event, no abort | a disconnect before the persisting event is forwarded leaves a completed turn |
| `conversation_turns` | 3 requests, all ways, 0 or 1 past turns | indexes, answered turns, release, contract |
| `rolling_summary` | window 1, trigger 2, 5 turns | prefix and completeness |
| `research_graph` | 2 turns, 2 chunks, 2 external sources, pages of 1, markers up to 2, 1 correction; MCP on or off, either checkpointer, restarts and unreadable checkpoints between the turns | citations, evidence kept and not leaked, the loop is left |
| `chat_calls` | one profile per adapter, 2 deltas a response, 1 switch | complete streams, one provider, every run ends |
| `mcp_client` | 2 calls, 1 retry, a queue of 1, 3 runtimes at a time | no worker or command is lost, no tool runs for nobody, every call ends |
| `memory_store` | 2 subjects (one implied), 2 objects, 4 transactions, 1 edit, 2 records read | the last statement is recalled, nothing revives |
| `library_index` | 1 PDF, 1 text, 1 profile (also the environment's), 2 jobs, 2 sessions, 2 editions, 2 index versions, PDFs up to 2 pages | failures keep the searched edition, one edition at a time, complete versions |
| `retrieval` | 1 PDF, 1 text, 1 profile beside the environment's, 1 job, 1 session, 2 editions, 1 version; scopes: all, the PDF, the text, both; an exact limit of 1 | what is found, compared and refused |
| `chunking` | sizes 6/2/2/3/1 and 3/1; every text of 10 over three, and over two characters; every book of 3 short pages, and of 3 pages with titles or recognised text; batches of 2 | nothing lost, sources true, chunks acceptable, front matter bounded |
| `agent_client` | 2 calls, 2 local conversations, 1 event on the wire | completed is stored, conversations apart, panel ready |

Bounds. Two events fill the queue and leave one waiting, so a full queue meets
every later step; a third behaves as the second. Two aborts are one that starts
the `finally` block and one that cuts it short. Three requests are one that is
answered, one that is undone and one that arrives between them. Five turns with
a trigger of two give three rounds of summaries, with up to four overlapping
jobs. Two MCP calls are one that uses a runtime and one that discards or
replaces it, and with a queue of one the second meets it full; three runtimes
are the two that the calls use and one that replaces both.

Two turns of the graph are one whose state is stored, answered or failed half
way, and one that meets it; two sources that a web and an academic branch can
both find make the merge deduplicate, a page of one lets the second pass find
something else, a marker of two may name a source that is not there. Two deltas
are one that is shown and one that is lost when the stream breaks; one switch
falls before, between or after the calls. Four transactions of memories are a
statement, a job that overlaps it, a correction and one more; `RelatedLimit` 2
of four records is exceeded. Two editions are the one in use and the one that fails or
replaces it; two index versions are the active one and the one being built; two
jobs are the re-indexing and the activation or deletion beside it. In
`retrieval` the same steps fall between the statements of a query; one job and
one version suffice because the environment's client is the other space; of two items,
one is within the exact limit and both are above it. The
sizes of `chunking` keep what matters of the production values (2400, 400, 350,
500, 80): overlap and window together are below the size, the skip within the
overlap, and the window above the overlap, so that a cut does move back; texts of ten characters are several spans long and end in every way
a rest can. In `agent_client` an event is read or waits; more of them on the wire
only wait longer.

Deadlock is not checked where a run, a request, a job, a turn, a call, a query
or a document comes to its end. `library_index`, `memory_store` and
`agent_client` check it.

Fairness. The event loop runs ready coroutines and the executor submitted
functions, so consumer, producer, threads and compensation are weakly fair; a
node ends because provider and database calls carry timeouts. Clients are not
fair: nothing forces a disconnect, an abort, a second request. In
`ConversationTurns` a run and its transaction are fair per request; that the
row lock is taken at last follows since every transaction ends. In `MCPClient`
a call and its total timeout are weakly fair, the workers are not: a server may
never answer and its session may never close. In `ResearchGraph` the nodes are
weakly fair for the same reason, a new turn is not. In `ChatCalls` the run and
the reading of its response are weakly fair, and so is the end of the connection
(the HTTP clients have timeouts); that the service says anything is not.
The other modules state no liveness: what they model is retried by the user.

Every property has a mutant in `PROJECT.json`: a change of one mapped
definition, like a bug in the code, under which TLC finds it violated. Where the
mutated form is easier to read beside the real one, the module defines it there
(`NearestAnywhere`, `CreateOnly`, `ResolvedForEver` and the like); the
specification does not use it.

### Findings

`streaming/service.py:238` (`NoTurnWithoutSuccess`): cancelling the producer
does not stop the persist thread, whose commit then outlives the compensation,
contrary to `AGENT.md:112-113`. `CommitOrCompensate` is what holds: no such turn
when the thread was not abandoned, and by `NoticedSaveIsAwaited` it never is once
the persisting event was forwarded.

Five more disagreements came up while modelling; no run is spent on them.

- `streaming/service.py:365`: the same thread can hand over its memory task after
  the collector was cleared; `README.md:294-295` says deferred memory work is skipped.
- `api/agent_routes.py:108`: JSON requests by session id are not registered;
  `README.md:301-302` says one active run per conversation. The turn indexes stay
  dense all the same as long as nothing is deleted: the row lock ensures it.
- `memory/summary.py:64`: an incremental update may compress turns of the recent
  window; `README.md:1211-1213` speaks of older turns. No turn is lost by it
  (`ContextComplete`); some are both summarised and quoted.
- `library/indexing.py:216`: the index version of an indexing is read at its start
  (line 134) and the client when the extraction is over, so the vectors of one
  profile can be stored in another's version; `AGENT.md:496-498` says that they
  never mix.
- `library/importing.py:85`: a file that cannot be imported takes its own copy with it,
  but the copies of the files before it in the same request stay although their rows
  are rolled back; `AGENT.md:477-479` says "Failed imports must remove their managed
  source copy and orphan OCR derivative before returning". Files are not modelled.

The following is not contrary to any document, or only loosely.

- MCP client: a command put into the queue of a runtime after its last drain is
  read by nobody; the call ends with its total timeout (`EveryCallEnds` counts it
  as ended). The failure of one call discards the runtime that the others use:
  those that wait for a result fail with `MCPError("MCP runtime was stopped")`,
  which is not retried, those that wait for the connection are. Shutdown waits
  for the runtime in the table only: one that was discarded or replaced has been
  cancelled (`NoOrphanWorker`) but is not awaited (`README.md:459-461`).
- Graph: the reducers of warnings and errors (`chat_rag_graph.py:109`) merge those
  of the stored state into those of the new turn, which reports them again; in
  `corrective_retrieval_async` a later result overwrites a warning
  (`chat_rag_graph.py:1170-1178`).
- Chat clients: the Gemini adapter says `stop` at the end of any response and
  drops the blanks at both ends of a delta (`llm/native.py:158, 228`); the Anthropic
  adapter says `stop` for an answer cut at the token limit (`llm/native.py:103`).
- Retrieval: without a snapshot a query follows the registry from one statement to
  the next (`settings/runtime.py:162-175`), so that its question may be embedded by
  another profile than the version it searches (`OwnSpace` says when it cannot).
- Memory: `/api/rag/query` searches memories of every status (`rag_routes.py:66`).

## 4. Proofs

All theorems are checked by TLAPS from the constants' named assumptions only:
`ActivityEventsAssumption` and `BoundsAssumption` (StreamRun);
`RequestsAssumption`, `WaysAssumption`, `MaxPastAssumption` (ConversationTurns);
`SettingsAssumption`, `MaxTurnsAssumption` (RollingSummary);
`CallsAssumption`, `RuntimesAssumption`, `LimitsAssumption` (MCPClient);
`BoundsAssumption` (ResearchGraph; the theorems on ChatCalls need no assumption);
`ConstantsAssumption` (AgentClient); `ImpliedAssumption`, `NothingAssumption`,
`BoundsAssumption` (MemoryStore); `ConstantsAssumption` (LibraryIndex);
`ScopesAssumption` and `ExactLimitAssumption` (Retrieval); `BooksAssumption` and `SizesAssumption` (Chunking). Each
says that a bound is a number, that a null is no member, or that a set is finite, but
for `SizesAssumption`: the window and the overlap together are less than the size and a
start is not moved further than the overlap, as with the values in the code (500 and 400
of 2400; 80). TLC evaluates them all. Every inductive invariant below was checked by TLC
on the run's instance before it was proved, but that of `Chunking` without its types.

- `StreamRunProofs`: `TypeCorrect`, then `Invariance` of the inductive
  invariant, from which `DoneIsSaved`, `CommitsOrCompensates`,
  `NoticedSavesAreAwaited`, `ConversationsAreKept`, `MemoryAfterSuccess` and the
  action property `NothingAfterEnd`. The properties speak of the end of the
  run; the invariant has to say at every control point what thread, receipt,
  queue and rows may hold: where the producer is determines what the worker has
  done, the receipt is empty until the commit and equal to it afterwards, an
  item `complete` is in the queue only over a saved worker, and after the
  compensation the rows are the ones of the start.
- `ConversationProofs` on `ConversationTurns`: `TypeCorrect`, `Invariance`, `IndexesDense`,
  `AnsweredKept`, and `Implements`: every step of the endpoints is a step or a
  stutter of `TurnContract`. The invariant ties the registry to the one
  registered run that is active or undoing, the open transaction to the row
  lock, and each index to the number of committed turns when it was taken.
- `ConversationProofs` on `RollingSummary`: `PrefixSummarised` and `NoGap`. The first invariant adds
  to the property what a job in flight knows: the summary it read was an exact
  prefix and still is one of the log whenever its last turn is still stored, and
  the turns it took follow that prefix without a gap. The second (`CInv`) is about
  numbers: by the rank of a turn in the log, a job that has counted has counted
  the turns up to its own, one that writes will meet the window unless the row
  has been overwritten since (which ends the clean history), and one that is done has
  left the summary within the window. At quiet the job of the last stored turn is done,
  and a turn after the summary but outside the window would make the difference of
  two cardinalities too large.
- `MCPClientProofs`: `TypeCorrect`, `NoWorkerLost`, `NoCommandLost`,
  `EndedCallsAreStopped` and the action property `CancelledNotRun`. The
  invariant follows a command: queues hold no command twice, a queued one
  belongs to a call that uses this runtime and waits or has just been
  interrupted, a running one has left the queue and has the same kind of caller
  unless its worker has been cancelled. Worker ends, stops and discards each
  keep it because they drain the queue and the current command together.
- `ResearchGraphProofs`: `CitationsAreResolved`, `EmptyAfterCorrections`,
  `CorrectionsAreBounded`, `ResponsesAreOfTheirTurn`, `SummariesAreCited` and the
  action property `EvidenceKeepsItsNumber`. The counter in the stored state equals the
  number of corrections of this turn (`CountInv`: this is where a reset that is
  forgotten would show), a question answered directly requires no source
  (`DirectInv`), and what is about to be saved was verified against the lists it is
  saved with (`AnswerInv`); nothing between verification and saving touches the lists.
  The others rest on what `Firsts` does to a list, for lists of any length: its
  members are those of the list and each once (`FirstsFacts`), and a list that
  begins as another does is numbered as that one (`FirstsKeepBeginning`,
  `AppendingExtends`), which is why a second pass leaves every number as it was.
  `FoundInv`, `SummaryInv` and `MergedInv` say of each node which of the lists hold this turn's findings only,
  also after a restart and a turn that could not load its checkpoint.
- `ResearchGraphProofs` on `ChatCalls`: `ProviderCaptured`, a run that has captured a
  client calls no other, wherever the profile is switched; and `AnswersAreComplete`,
  a streamed answer that is taken for complete is all that the service said. What was
  said is cut at a place `at` into what was delivered and what is on the wire
  (`IsCut`); the adapter's text is the first part (`NothingIsLost`), and an end is on the
  wire, or delivered, only when the service has come to one (`EndIsTrue`).
- `AgentClientProofs`: `CompletedTurnsStored`, `ConversationsStayApart`,
  `SettledCallsUnlock`. The
  argument is about names: a server conversation is created by one call and
  bears its name, so a local conversation that has an id is the one in which
  the call of this name was made (`OwnerInv`), and two of them differ. For the first
  theorem the invariant follows the events: `done` on the wire or read comes from a run
  that is closed with its turn stored, after a `final` that names the
  conversation (`WireInv`, `NamedInv`, `CompletedInv`), and a later
  compensation deletes a conversation only for the run that created it, in which no other
  run was accepted meanwhile (`RunInv`). For the third, nothing follows a terminal
  event on the wire, no token comes before the run or from the JSON endpoint, and the turn
  shows the status of its call (`ReadingInv`); hence a call that settles leaves
  nothing to flush that could put the status back (`SettledInv`), but on the two paths
  the property excludes. That a turn under way has its call (`UnderWay`) is an invariant of
  its own: what ends a call or forgets it, a restart included, ends its turn first.
- `MemoryStoreProofs`: `LastStatementIsRecalled` and the action property
  `RevivedByPatchOnly`. For a subject that is clear, at most one job is under way
  (`OneJob`), what it read is still so (`ReadIsTrue`) and is all there is
  (`ReadIsComplete`; a record beyond the limit makes the subject unclear), hence its result leaves
  one active memory with what was said (`OneMemory`). All other subjects may be
  in any state, which is why the invariant speaks of clear ones only.
- `RetrievalProofs` on `LibraryIndex`: `SearchesOneEdition`, `UsedVersionsAreBuilt`
  and the action property `FailuresKeepPdfs`, for any number of items, profiles, jobs
  and versions. `EditionInv` says which edition an item's status stands for: an
  indexed PDF's active edition is its last, a text has the chunks of one edition. Who
  owns an index version is said in three places, the version's row, the registry and
  the jobs under way, which change at different steps; `OwnerInv` says that they
  never disagree although the row may be gone. `BuiltInv` ties a version to its
  vectors: each stored chunk that was read when it was built has one by its owner, and
  `RowsInv` keeps the rows an activation has written until it commits.
- `RetrievalProofs` on `Retrieval`: `NothingReplacedIsFound`, `SnapshotKeepsTheSpace`,
  `RefusedWithReason`, over the steps of the library between those of the query.
  The history `seen` and `dry` grows with every step of the library, so it contains
  what is visible now (`QueryInv`); a captured client's version stays its profile's
  (`ClientInv`, by `OwnerInv`); and an exact search of selected items that finds
  nothing has met one without a chunk to be searched (`EmptyInv`), whatever the limit is.

- `ChunkingProofs`: `FrontMatterIsBounded`, `ChunksAreAcceptable`, `NothingIsLost`,
  `SourcesAreTrueOfAll`, for documents of any length and any characters. The prepared
  pages are the pages that are not blank, in their order (`PagesInv`); those at the end
  that are front matter only because the page before was are fewer than the counter
  (`FrontInv`). A group is described twice, by its pages in a row (`GroupInv`: where a
  span starts and ends, and how far its place in the group may be behind its place in
  the document) and cell by cell (`CellInv`); both together say what a cut will find in it.
  `NothingIsLost` is `CoverInv`: what lies before the start of the next span is in a chunk
  or blank, since `EndFacts` and `NextFacts` put the next start behind the last one and not
  behind the last end, for any boundaries and words (the first half, for every group, is
  `SpansAdvance`); the pages before the group are
  covered, and when it is left behind, so are its own. `OrderInv` says the opposite: what
  is to come lies behind the chunks so far, and it needs the end of the span that overlaps. Where
  a page is in the document is a recursive function over the pages, of which
  `PlaceFacts` proves that it has a solution; the titles carried along are the ones last
  shown (`HeadingInv`). `SourcesInv` splits the property by the step that makes
  it true: the cut (`NewChunkPages`, `NewChunkHeading`, `NewChunkOffsets`), the
  batch (`OrderedIsSent`: rows in any order are put in that of their indexes, by the
  cardinality of those before), and the storing of the rows (`StoredRowsAreTrue`).

Only model-checked: the liveness properties `RunEnds`, `AlwaysReleased`,
`EveryCallEnds`, `TurnEnds` and `RunIsAnswered`: liveness under fairness is out of
this prover's reach.

## 5. Not modelled

A crash of the backend in a streamed run: the registry is in memory and the code has
no recovery step for a half-finished run, so a restart is the initial state over
whatever rows are committed. (`LibraryIndex` and `AgentClient` have a restart, since
their processes do something on start.)

- Evaluation, scripts, reliability, observability: programs and records beside the
  system, without a state it acts on.
- The MCP servers: separate processes around web APIs. What they answer is any
  result in `ResearchGraph` and `MCPClient`.
- Notes and learning events: one row per call. The event of a run is a row of
  `StreamRun`.
- Managed files and their names, generated metadata: no other step of the model depends
  on them.
- PATCH of an item: it can set status, file path and file type by hand, which retrieval
  and a later indexing read. `EditionOfStatus` and the others are about the statuses that
  the indexing writes.
- The building of the visual index: `Retrieval` takes any page of an active edition.
- Scores, rank fusion, neighbours, prompts, wording: data the properties do not tell
  apart. A search may return anything that it is allowed to return.
- The parser of the event stream and the rendering in the frontend.
- The creation of a conversation for an unknown legacy session (two first requests
  race; the unique key lets one win).

`PROJECT.json` lists every component with its status and every hazard with the
properties that cover it, or the reason why none does.

## 6. Plan

1. The composition of `ResearchGraph` with `MCPClient`: the synchronous bridge that
   gives up while its coroutine answers.
2. `ConversationTurns`: first requests of a legacy session, turns of the older
   `/rag` route.
3. `LibraryIndex`: concurrent activations, the visual index of a PDF, managed files.
