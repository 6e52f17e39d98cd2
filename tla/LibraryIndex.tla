--------------------------- MODULE LibraryIndex ---------------------------
(***************************************************************************)
(* The library and its vector spaces: indexing a library item              *)
(* (backend/app/library/indexing.py), importing PDFs (importing.py), and   *)
(* creating, re-indexing, activating and deleting embedding profiles       *)
(* (backend/app/settings/service.py), next to each other on one database   *)
(* and on the process's registry of provider clients (settings/runtime.py).*)
(*                                                                         *)
(* A request is one transaction at PostgreSQL's READ COMMITTED: the        *)
(* variables hold what is committed, a session's record what it has read   *)
(* and will write. The edition of an item is all that one indexing attempt *)
(* stored of it: its chunks, and for a PDF its processing version. A       *)
(* vector says whose chunks it embeds, in which index version it is kept   *)
(* and by whose client it was computed.                                    *)
(***************************************************************************)
EXTENDS PdfProcessing, FiniteSetsExt, TLC

CONSTANTS
    Pdfs, Texts,    \* library items with a PDF, and with a text or Markdown file
    Profiles,       \* embedding profiles
    Env,            \* who computes vectors by the .env settings: the profile whose
                    \* provider, model and dimension they name, or another value
    Jobs,           \* requests of the Settings page in flight
    MaxInFlight,    \* bound: items being indexed and jobs, at one time
    MaxEditions,    \* bound: indexing attempts that are committed or may be
    MaxVersions     \* bound: index versions ever created

ASSUME ConstantsAssumption ==
    /\ Pdfs \cap Texts = {}
    /\ MaxInFlight \in Nat /\ MaxEditions \in Nat /\ MaxVersions \in Nat

Items == Pdfs \cup Texts
Editions == 1 .. MaxEditions
Chunk == Items \X Editions
Versions == 1 .. MaxVersions
Legacy == 0   \* the embedding column of the chunk itself, outside any version
NoClient == [profile |-> Env, ver |-> Legacy]

VARIABLES
    item,      \* item -> its status; "absent" until its row is committed
    tries,     \* item -> editions committed, the failed ones too
    active,    \* item -> active_processing_version_id, 0 for none
    chunks,    \* editions whose chunks are stored
    processed, \* processing versions that are ready
    linked,    \* <<edition, version>>: text_index_version_id of a processing version
    vectors,   \* chunk_embeddings, and the chunks' own embedding column
    profile,   \* profile -> its row
    version,   \* version -> its row
    made,      \* index versions created
    built,     \* history: version -> the chunks its last re-indexing read
    runtime,   \* the registry's active embedding client
    sessions,  \* item -> the request that indexes it
    job        \* job -> the request it serves

library == <<item, tries, active, chunks, processed, linked>>
spaces == <<profile, version, made, built>>
vars == <<library, vectors, spaces, runtime, sessions, job>>

Idle == [phase |-> "idle", ver |-> Legacy, by |-> Env, import |-> FALSE, text |-> TRUE]
NoJob == [op |-> "none", phase |-> "none", on |-> Env, ver |-> Legacy,
          read |-> {}, seen |-> {}, was |-> {}]

Indexing == {i \in Items : sessions[i] # Idle}
CanAttempt == MapThenSumSet(LAMBDA i : tries[i], Items) + Cardinality(Indexing) < MaxEditions
HasRoom == Cardinality(Indexing)
             + Cardinality({j \in Jobs : job[j] # NoJob}) < MaxInFlight

-----------------------------------------------------------------------------
(* What a search sees, and where.                                          *)

Exists(v) == version[v].status # "none"
Owned(p) == {v \in Versions : version[v].owner = p}
Owner(v) == IF v = Legacy THEN Env ELSE version[v].owner

\* active_processing_filter: the chunks of the active processing version, or, for
\* an item without one, those of no processing version.
Visible(i) == {n \in Editions : /\ <<i, n>> \in chunks
                                /\ IF i \in Pdfs THEN n = active[i] ELSE active[i] = 0}
VisibleChunks == {c \in chunks : c[2] \in Visible(c[1])}

\* The chunks a search in version v ranks.
Searched(v) == {c \in VisibleChunks : \E x \in vectors : x.chunk = c /\ x.ver = v}

\* The index version the .env fallback may use when no client is active.
EnvVersions ==
    {v \in Versions : /\ version[v].status = "active" /\ Owner(v) = Env
                      /\ Env \in Profiles /\ profile[Env].active}

ResolvedBy(client) == IF client # NoClient THEN {client.ver}
                      ELSE IF EnvVersions = {} THEN {Legacy} ELSE EnvVersions
Resolve == ResolvedBy(runtime)

\* The rows a transaction has written and not yet committed are locked.
Written(j) ==
    CASE job[j].phase = "building" -> {job[j].ver}
      [] job[j].phase = "flushed" -> (job[j].seen \cup {job[j].ver})
                                     \ (job[j].seen \cap {job[j].ver})
      [] OTHER -> {}
Locked(j) == UNION {Written(k) : k \in Jobs \ {j}}

TypeOK ==
    /\ item \in [Items -> {"absent", "registered", "indexed", "index_failed"}]
    /\ tries \in [Items -> 0 .. MaxEditions]
    /\ active \in [Items -> 0 .. MaxEditions]
    /\ chunks \subseteq Chunk /\ processed \subseteq Chunk
    /\ linked \subseteq Chunk \X Versions
    /\ vectors \subseteq [chunk : Chunk, ver : {Legacy} \cup Versions, by : Profiles \cup {Env}]
    /\ profile \in [Profiles -> [state : {"new", "stored", "deleted"}, active : BOOLEAN]]
    /\ version \in [Versions -> [owner : Profiles \cup {Env},
                                 status : {"none", "pending", "ready", "active"}]]
    /\ made \in 0 .. MaxVersions /\ built \in [Versions -> SUBSET Chunk]
    /\ runtime \in [profile : Profiles \cup {Env}, ver : {Legacy} \cup Versions]
    /\ sessions \in [Items -> [phase : {"idle", "extract", "embed", "staged"},
                               ver : {Legacy} \cup Versions, by : Profiles \cup {Env},
                               import : BOOLEAN, text : BOOLEAN]]
    /\ job \in [Jobs -> [op : {"none", "reindex", "activate", "delete"},
                         phase : {"none", "begun", "building", "flushed"},
                         on : Profiles \cup {Env}, ver : {Legacy} \cup Versions,
                         read : SUBSET Chunk, seen : SUBSET Versions,
                         was : SUBSET Profiles]]

Init ==
    /\ item = [i \in Items |-> "absent"] /\ tries = [i \in Items |-> 0]
    /\ active = [i \in Items |-> 0]
    /\ chunks = {} /\ processed = {} /\ linked = {} /\ vectors = {}
    /\ profile = [p \in Profiles |-> [state |-> "new", active |-> FALSE]]
    /\ version = [v \in Versions |-> [owner |-> Env, status |-> "none"]]
    /\ made = 0 /\ built = [v \in Versions |-> {}] /\ runtime = NoClient
    /\ sessions = [i \in Items |-> Idle]
    /\ job = [j \in Jobs |-> NoJob]

-----------------------------------------------------------------------------
(* Indexing an item.                                                       *)

CreateItem(i) ==
    /\ item[i] = "absent" /\ sessions[i] = Idle
    /\ item' = [item EXCEPT ![i] = "registered"]
    /\ UNCHANGED <<tries, active, chunks, processed, linked, vectors, spaces, runtime, sessions, job>>

\* A PDF's processing version names the index version: its row must exist.
Begin(i, import) ==
    /\ HasRoom /\ CanAttempt /\ sessions[i] = Idle
    /\ \E v \in Resolve :
         /\ (i \in Pdfs /\ v # Legacy) => Exists(v)
         /\ sessions' = [sessions EXCEPT ![i] = [phase |-> "extract", ver |-> v,
                                                 by |-> Env, import |-> import, text |-> TRUE]]
    /\ UNCHANGED <<library, vectors, spaces, runtime, job>>

\* One request indexes one item; the update of the item's status keeps others out.
IndexItem(i) == item[i] # "absent" /\ Begin(i, FALSE)

\* A request imports PDFs one after the other, each with a new item.
ImportPdf(i) ==
    /\ i \in Pdfs /\ item[i] = "absent"
    /\ \A k \in Pdfs : sessions[k].import => sessions[k].phase = "staged"
    /\ Begin(i, TRUE)

\* The path is no readable file of a supported type.
Refuse(i) ==
    /\ item[i] # "absent" /\ sessions[i] = Idle
    /\ item' = [item EXCEPT ![i] = "index_failed"]
    /\ UNCHANGED <<tries, active, chunks, processed, linked, vectors, spaces, runtime, sessions, job>>

\* The extraction may find no text at all; get_embedding_provider asks the registry
\* again, after it.
Extract(i) ==
    /\ sessions[i].phase = "extract"
    /\ \E outcome \in Outcomes \ {"failed"} :
         sessions' = [sessions EXCEPT ![i].phase = "embed", ![i].by = runtime.profile,
                                      ![i].text = (outcome = "text")]
    /\ UNCHANGED <<library, vectors, spaces, runtime, job>>

Edition(i) == <<i, tries[i] + 1>>
Editioned(S) == {Edition(i) : i \in S}
Chunked(S) == {Edition(i) : i \in {k \in S : sessions[k].text}}
OldKept(S) == {}
Old(S) == {c \in chunks : c[1] \in S \cap Texts}
Links(S) == {<<Edition(i), sessions[i].ver>> : i \in {k \in S \cap Pdfs : sessions[k].ver # Legacy}}
NewVectors(S) == {[chunk |-> Edition(i), ver |-> sessions[i].ver, by |-> sessions[i].by]
                  : i \in {k \in S : sessions[k].text}}
Of(cs) == {x \in vectors : x.chunk \in cs}

\* An edition of every item of S is committed and replaces the one before.
Succeed(S) ==
    /\ item' = [i \in Items |-> IF i \in S THEN "indexed" ELSE item[i]]
    /\ tries' = [i \in Items |-> IF i \in S THEN tries[i] + 1 ELSE tries[i]]
    /\ active' = [i \in Items |-> IF i \in S \cap Pdfs THEN tries[i] + 1 ELSE active[i]]
    /\ chunks' = (chunks \ Old(S)) \cup Chunked(S)
    /\ vectors' = (vectors \ Of(Old(S))) \cup NewVectors(S)
    /\ processed' = processed \cup Editioned(S \cap Pdfs)
    /\ linked' = linked \cup Links(S)
    /\ sessions' = [i \in Items |-> IF i \in S THEN Idle ELSE sessions[i]]
    /\ UNCHANGED <<spaces, runtime, job>>

\* LibraryIndexingError: the route commits what is flushed. kept is what stays of the
\* item's chunks, stored is the edition that stays without a vector.
CommitFailure(i, kept, stored) ==
    /\ ~sessions[i].import
    /\ item' = [item EXCEPT ![i] = "index_failed"]
    /\ tries' = [tries EXCEPT ![i] = @ + 1]
    /\ chunks' = {c \in chunks : c[1] = i => c \in kept} \cup stored
    /\ vectors' = {x \in vectors : x.chunk[1] = i => x.chunk \in kept}
    /\ linked' = linked \cup Links({i})
    /\ sessions' = [sessions EXCEPT ![i] = Idle]
    /\ UNCHANGED <<active, processed, spaces, runtime, job>>

Mine(i) == {c \in chunks : c[1] = i}

\* OCR is unavailable, or no page can be extracted.
ExtractionFails(i) ==
    /\ i \in Pdfs /\ sessions[i].phase = "extract" /\ "failed" \in Outcomes
    /\ CommitFailure(i, Mine(i), {})

EmbeddingFailsAfterDelete(i) ==
    /\ sessions[i].phase = "embed"
    /\ CommitFailure(i, {}, {})

\* The chunks of a text are deleted before the new ones are embedded.
EmbeddingFails(i) ==
    /\ sessions[i].phase = "embed" /\ sessions[i].text
    /\ CommitFailure(i, IF i \in Texts THEN {} ELSE Mine(i), {})

VersionGone(i) ==
    /\ i \in Texts /\ sessions[i].phase = "embed"
    /\ sessions[i].ver # Legacy /\ ~Exists(sessions[i].ver)
    /\ CommitFailure(i, {}, Chunked({i}))

Storable(i) ==
    /\ sessions[i].phase = "embed"
    /\ sessions[i].ver # Legacy => /\ Exists(sessions[i].ver)
                                   /\ \A j \in Jobs : sessions[i].ver \notin Written(j)

Store(i) == Storable(i) /\ ~sessions[i].import /\ Succeed({i})

Stage(i) ==
    /\ Storable(i) /\ sessions[i].import
    /\ sessions' = [sessions EXCEPT ![i].phase = "staged"]
    /\ UNCHANGED <<library, vectors, spaces, runtime, job>>

Imported == {i \in Pdfs : sessions[i].import}

CommitImport ==
    /\ Imported # {} /\ \A i \in Imported : sessions[i].phase = "staged"
    /\ Succeed(Imported)

\* Any other exception, and any failure of an import: the transaction is rolled back.
Abort(i) ==
    /\ sessions[i] # Idle
    /\ sessions' = [k \in Items |-> IF k = i \/ (sessions[i].import /\ k \in Imported)
                                    THEN Idle ELSE sessions[k]]
    /\ UNCHANGED <<library, vectors, spaces, runtime, job>>

-----------------------------------------------------------------------------
(* Embedding profiles.                                                     *)

Latest(V) == Max(V)
Removed(p) == IF runtime.profile = p THEN NoClient ELSE runtime

CreateProfile(p) ==
    /\ profile[p].state = "new" /\ made < MaxVersions
    /\ profile' = [profile EXCEPT ![p].state = "stored"]
    /\ made' = made + 1
    /\ version' = [version EXCEPT ![made'] = [owner |-> p, status |-> "pending"]]
    /\ UNCHANGED <<library, vectors, built, runtime, sessions, job>>

\* Without a key the profile cannot be active. The registry forgets it before the
\* commit, which may fail.
ClearSecret(p) ==
    /\ profile[p].state = "stored"
    /\ runtime' = Removed(p)
    /\ \/ profile' = [profile EXCEPT ![p].active = FALSE]
       \/ UNCHANGED profile
    /\ UNCHANGED <<library, vectors, version, made, built, sessions, job>>

Take(j, op, p, v, read, seen, was) ==
    job' = [job EXCEPT ![j] = [op |-> op, phase |-> "begun", on |-> p, ver |-> v,
                               read |-> read, seen |-> seen, was |-> was]]
Give(j) == job' = [job EXCEPT ![j] = NoJob]

At(j, op, phase) == job[j].op = op /\ job[j].phase = phase

Rebuildable(p) == {v \in Owned(p) : version[v].status = "pending"}
ActivatableAny(p) == {v \in Owned(p) : Exists(v)}
Activatable(p) == {v \in Owned(p) : version[v].status \in {"ready", "active"}}

\* The version to build, and the chunks to embed, are read once.
BeginReindex(j, p) ==
    /\ HasRoom /\ job[j] = NoJob /\ profile[p].state = "stored"
    /\ \/ /\ Rebuildable(p) # {}
          /\ LET v == Latest(Rebuildable(p)) IN Take(j, "reindex", p, v, VisibleChunks, {v}, {})
          /\ UNCHANGED made
       \/ /\ Rebuildable(p) = {} /\ made < MaxVersions
          /\ made' = made + 1
          /\ Take(j, "reindex", p, made', VisibleChunks, {}, {})
    /\ UNCHANGED <<library, vectors, profile, version, built, runtime, sessions>>

\* "building" is flushed: a second re-indexing of the version waits here, with what it
\* has read.
Build(j) ==
    /\ At(j, "reindex", "begun")
    /\ job[j].ver \notin Locked(j)
    /\ \A v \in job[j].seen : Exists(v)
    /\ job' = [job EXCEPT ![j].phase = "building"]
    /\ UNCHANGED <<library, vectors, spaces, runtime, sessions>>

ActiveEditions == {<<i, active[i]>> : i \in {k \in Pdfs : active[k] # 0}}
Rebuilt(v, p, cs) == {[chunk |-> c, ver |-> v, by |-> p] : c \in cs}

FinishReindex(j) ==
    LET v == job[j].ver  p == job[j].on IN
    /\ At(j, "reindex", "building")
    /\ job[j].read \subseteq chunks
    /\ vectors' = {x \in vectors : x.ver # v} \cup Rebuilt(v, p, job[j].read)
    /\ version' = [version EXCEPT ![v] = [owner |-> p, status |-> "ready"]]
    /\ linked' = {l \in linked : l[1] \notin ActiveEditions} \cup (ActiveEditions \X {v})
    /\ built' = [built EXCEPT ![v] = job[j].read]
    /\ Give(j)
    /\ UNCHANGED <<item, tries, active, chunks, processed, profile, made, runtime, sessions>>

\* The registry has the client before the transaction is flushed.
BeginActivate(j, p) ==
    /\ HasRoom /\ job[j] = NoJob /\ profile[p].state = "stored" /\ Activatable(p) # {}
    /\ LET v == Latest(Activatable(p)) IN
         /\ runtime' = [profile |-> p, ver |-> v]
         /\ Take(j, "activate", p, v, {}, {u \in Versions : version[u].status = "active"},
                 {q \in {p} : profile[q].active})
    /\ UNCHANGED <<library, vectors, spaces, sessions>>

\* The statuses are flushed, then the other profiles are read.
FlushActivate(j) ==
    LET rows == Written(j)' IN
    /\ At(j, "activate", "begun")
    /\ job' = [job EXCEPT ![j].phase = "flushed",
                          ![j].was = @ \cup {q \in Profiles \ {job[j].on} : profile[q].active}]
    /\ rows \cap Locked(j) = {} /\ \A v \in rows : Exists(v)
    /\ UNCHANGED <<library, vectors, spaces, runtime, sessions>>

\* Only attributes that differ from what was read are written.
FinishActivate(j) ==
    LET p == job[j].on  v == job[j].ver IN
    /\ At(j, "activate", "flushed") /\ profile[p].state = "stored"
    /\ version' = [u \in Versions |->
                     CASE u = v /\ v \notin job[j].seen -> [version[u] EXCEPT !.status = "active"]
                       [] u # v /\ u \in job[j].seen -> [version[u] EXCEPT !.status = "ready"]
                       [] OTHER -> version[u]]
    /\ profile' = [q \in Profiles |->
                     CASE q = p /\ p \notin job[j].was -> [profile[q] EXCEPT !.active = TRUE]
                       [] q # p /\ q \in job[j].was -> [profile[q] EXCEPT !.active = FALSE]
                       [] OTHER -> profile[q]]
    /\ Give(j)
    /\ UNCHANGED <<library, vectors, made, built, runtime, sessions>>

BeginDelete(j, p) ==
    /\ HasRoom /\ job[j] = NoJob /\ profile[p].state = "stored" /\ ~profile[p].active
    /\ Take(j, "delete", p, Legacy, {}, {v \in Owned(p) : Exists(v)}, {})
    /\ UNCHANGED <<library, vectors, spaces, runtime, sessions>>

\* The foreign keys: a processing version may name the index version, another version
\* the profile; a transaction that has inserted such a row holds the key.
Deletable(p, V) ==
    /\ \A l \in linked : l[2] \notin V
    /\ \A i \in Pdfs : sessions[i] # Idle => sessions[i].ver \notin V
    /\ {v \in Owned(p) : Exists(v)} \subseteq V
    /\ \A k \in Jobs : job[k].op = "reindex" => job[k].on # p \/ job[k].seen # {}

FinishDelete(j) ==
    LET p == job[j].on  V == job[j].seen IN
    /\ At(j, "delete", "begun") /\ profile[p].state = "stored"
    /\ V \cap Locked(j) = {} /\ Deletable(p, V)
    /\ vectors' = {x \in vectors : x.ver \notin V}
    /\ version' = [v \in Versions |-> IF v \in V THEN [owner |-> Env, status |-> "none"] ELSE version[v]]
    /\ profile' = [profile EXCEPT ![p] = [state |-> "deleted", active |-> FALSE]]
    /\ built' = [v \in Versions |-> IF v \in V THEN {} ELSE built[v]]
    /\ runtime' = Removed(p)
    /\ Give(j)
    /\ UNCHANGED <<library, made, sessions>>

\* A rollback; what the registry was told stays.
JobFails(j) ==
    /\ job[j] # NoJob
    /\ \/ UNCHANGED runtime
       \/ job[j].op = "delete" /\ runtime' = Removed(job[j].on)
    /\ Give(j)
    /\ UNCHANGED <<library, vectors, spaces, sessions>>

\* The backend stops and starts again.
Restart ==
    /\ runtime' = NoClient
    /\ sessions' = [i \in Items |-> Idle] /\ job' = [j \in Jobs |-> NoJob]
    /\ UNCHANGED <<library, vectors, spaces>>

Index(i) == \/ CreateItem(i) \/ IndexItem(i) \/ ImportPdf(i) \/ Refuse(i) \/ Extract(i)
            \/ ExtractionFails(i) \/ EmbeddingFails(i) \/ VersionGone(i)
            \/ Store(i) \/ Stage(i) \/ Abort(i)
Settle(j) == \/ \E p \in Profiles : BeginReindex(j, p) \/ BeginActivate(j, p) \/ BeginDelete(j, p)
             \/ Build(j) \/ FinishReindex(j) \/ FlushActivate(j) \/ FinishActivate(j)
             \/ FinishDelete(j) \/ JobFails(j)

Serve ==
    \/ \E i \in Items : Index(i)
    \/ CommitImport
    \/ \E p \in Profiles : CreateProfile(p) \/ ClearSecret(p)
    \/ \E j \in Jobs : Settle(j)

Next == Serve \/ Restart

Symmetry == Permutations(Jobs) \cup Permutations(Pdfs)

Spec == Init /\ [][Next]_vars

-----------------------------------------------------------------------------
(* Properties.                                                             *)

\* An attempt to index a PDF again that fails, at the extraction, at the embedding or by
\* a rollback, leaves what is searched of it in place; only a complete processing version,
\* reported as indexed, takes over - with every chunk in the index, or with none when it
\* found no text
\* (README.md: "does not replace the currently active index").
PdfKeptByFailures ==
    [][\A i \in Pdfs : Visible(i)' # Visible(i) =>
          /\ item'[i] = "indexed" /\ active'[i] = tries'[i]
          /\ <<i, active'[i]>> \in processed'
          /\ \A n \in Visible(i) : <<i, n>> \in chunks'
          /\ \A n \in Visible(i)' : \E v \in Versions \cup {Legacy} : <<i, n>> \in Searched(v)']_vars

\* A search never mixes two editions of an item, and of an item reported as indexed it
\* finds the edition of the last attempt only, whatever failed before.
EditionOfStatus ==
    \A i \in Items : /\ Cardinality(Visible(i)) <= 1
                     /\ item[i] = "indexed" => Visible(i) \subseteq {tries[i]}

\* A search filters by an index version only when the version was built to the end: each
\* chunk its re-indexing read, if still stored, has a vector of the version's own profile
\* (AGENT.md: "Never activate an Embedding profile until its index version is `ready`").
ReadyBeforeActive ==
    /\ runtime.ver # Legacy /\ Exists(runtime.ver)
         => version[runtime.ver].status # "pending"
    /\ \A v \in Versions : version[v].status \in {"ready", "active"} =>
         Rebuilt(v, Owner(v), built[v] \cap chunks) \subseteq vectors

===========================================================================
