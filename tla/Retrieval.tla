---------------------------- MODULE Retrieval ----------------------------
(***************************************************************************)
(* A question to the library while the library changes: the retrieval of   *)
(* chunks (backend/app/rag/retrieval.py, hybrid.py, visual.py, fusion.py,  *)
(* db/vector_search.py) next to LibraryIndex, for an agent run or for one  *)
(* of the /api/rag endpoints (api/rag_routes.py).                          *)
(*                                                                         *)
(* Every SELECT sees what is committed when it runs, and a call of the     *)
(* embedding service lies between them. An edition of an item stands for   *)
(* its chunks: at least one of them is of a section type a search does not *)
(* exclude. Ranks and scores are left out: a search returns some of what   *)
(* it may return, and where it is exact, something if there is anything.   *)
(* Of more documents than local_exact_search_max_documents the search is   *)
(* that of the HNSW index, which filters what it met and may return        *)
(* nothing.                                                                *)
(***************************************************************************)
EXTENDS LibraryIndex

CONSTANTS
    Scopes,     \* sets of items a question may select, the empty one for the whole library
    ExactLimit, \* local_exact_search_max_documents; an item has one document
    Hybrid,     \* pdf_text_hybrid_retrieval_enabled
    Encoder     \* a visual encoder is registered, and enabled

ASSUME ScopesAssumption == Scopes \subseteq SUBSET Items
ASSUME ExactLimitAssumption == ExactLimit \in Nat \ {0}

VARIABLE query

EmbeddingProviders == Profiles \cup {Env}
Everything == {}   \* the scope of a question about no selected item

NoQuery == [pc |-> "idle", agent |-> FALSE, scope |-> {}, snap |-> NoClient,
            processed |-> FALSE, by |-> Env, ver |-> Legacy, found |-> {}, pages |-> {},
            seen |-> {}, dry |-> {}, moved |-> FALSE, mixed |-> FALSE]

QueryTypeOK ==
    query \in [pc : {"idle", "asked", "resolved", "questioned", "read", "embedded", "dense", "text",
                     "pages", "found", "answered", "refused", "empty", "failed"},
               agent : BOOLEAN, scope : SUBSET Items,
               snap : [profile : EmbeddingProviders, ver : {Legacy} \cup Versions],
               processed : BOOLEAN, by : EmbeddingProviders, ver : {Legacy} \cup Versions,
               found : SUBSET Chunk, pages : SUBSET Pdfs,
               seen : SUBSET Chunk, dry : SUBSET (Items \X ({Legacy} \cup Versions)),
               moved : BOOLEAN, mixed : BOOLEAN]

Over == query.pc \in {"answered", "refused", "empty", "failed"}
Running == query.pc # "idle" /\ ~Over

InScope(scope) == IF scope = Everything THEN Items ELSE scope
Selected(scope, cs) == {c \in cs : c[1] \in InScope(scope)}

ClientNow == runtime
\* current_embedding_provider, current_embedding_index_version_id: the snapshot, or, when
\* there is none, whatever is active now.
Client == IF query.snap # NoClient THEN query.snap ELSE runtime

End(pc) == query' = [NoQuery EXCEPT !.pc = pc]
Fixed == UNCHANGED vars

-----------------------------------------------------------------------------
(* What the query lives through: the chunks visible at some moment, the    *)
(* items without a searchable chunk in a version at some moment, and       *)
(* whether the active client has changed.                                  *)

Dry == {iv \in Items \X ({Legacy} \cup Versions) : \A c \in Searched(iv[2]) : c[1] # iv[1]}

Observe ==
    query' = IF Running
             THEN [query EXCEPT !.seen = @ \cup Selected(query.scope, VisibleChunks'),
                                !.dry = @ \cup {iv \in Dry' : iv[1] \in query.scope},
                                !.moved = @ \/ runtime' # runtime]
             ELSE query

-----------------------------------------------------------------------------
(* The steps of a query.                                                   *)

Pose(agent, scope, snap) ==
    /\ query.pc = "idle"
    /\ query' = [NoQuery EXCEPT !.pc = "asked", !.agent = agent, !.scope = scope, !.snap = snap,
                    !.seen = Selected(scope, VisibleChunks),
                    !.dry = {iv \in Dry : iv[1] \in scope}]
    /\ Fixed

\* An agent run takes a snapshot of the active client when it is accepted.
AcceptRun(scope) == Pose(TRUE, scope, runtime)
\* An /api/rag endpoint takes none.
CallEndpoint(scope) == Pose(FALSE, scope, NoClient)

\* What the item table and the document table say; neither loses a row.
Registered(i) == item[i] # "absent" /\ tries[i] > 0

\* document_ids_with_embeddings
Searchable(i, v) == \E c \in Searched(v) : c[1] = i

Known == {Legacy} \cup {v \in Versions : Exists(v)}

\* One check of the selected items, with or without their embeddings.
CheckItems(embeddings, passed) ==
    \E v \in ResolvedBy(Client) :
        LET lacking == \E i \in query.scope : embeddings /\ ~Searchable(i, v) IN
        \/ /\ \E i \in query.scope : ~Registered(i)
           /\ query' = [query EXCEPT !.pc = "refused", !.ver = v]
        \/ /\ \A i \in query.scope : Registered(i)
           /\ embeddings => v \in Known
           /\ query' = IF lacking THEN [query EXCEPT !.pc = "refused", !.ver = v] ELSE passed

\* resolve_scope of the agent graph.
ResolveScope ==
    /\ query.pc = "asked" /\ query.agent
    /\ CheckItems(TRUE, [query EXCEPT !.pc = "resolved"])
    /\ Fixed

Ready == query.pc = IF query.agent THEN "resolved" ELSE "asked"
\* The documents are read, with their active processing versions: of a selection before
\* the question is embedded, of the whole library after it.
Read(pc) == [query EXCEPT !.pc = pc, !.agent = FALSE,
                !.processed = \E i \in InScope(query.scope) : active[i] # 0]

\* Several selected items are checked for embeddings again.
ReadSelected ==
    /\ Ready /\ query.scope # Everything
    /\ CheckItems(Cardinality(query.scope) > 1, Read("read"))
    /\ Fixed

EmbedQuestion ==
    /\ \/ query.pc = "read" /\ query' = [query EXCEPT !.pc = "embedded", !.by = Client.profile]
       \/ /\ Ready /\ query.scope = Everything
          /\ query' = [query EXCEPT !.pc = "questioned", !.by = Client.profile]
    /\ Fixed

ReadLibrary == query.pc = "questioned" /\ query' = Read("embedded") /\ Fixed

\* The index of the database may miss what is near, and all that passes the filters.
NearestAnywhere(cs) == SUBSET cs
\* A search over few documents computes every distance.
NearestInDocuments(cs) == {h \in SUBSET cs : cs # {} => h # {}}
Exact == query.scope # Everything /\ Cardinality(query.scope) <= ExactLimit
Nearest(cs) == IF Exact THEN NearestInDocuments(cs) ELSE NearestAnywhere(cs)

\* search_similar_chunks and search_similar_chunks_for_documents resolve the version anew.
DenseSearch ==
    /\ query.pc = "embedded"
    /\ \E v \in ResolvedBy(Client) :
        /\ v \in Known
        /\ \E hits \in Nearest(Selected(query.scope, Searched(v))) :
              query' = [query EXCEPT !.pc = IF Hybrid /\ query.processed THEN "dense" ELSE "found",
                           !.ver = v, !.by = Env, !.processed = FALSE, !.found = hits,
                           !.mixed = query.by # Owner(v)]
    /\ Fixed

KeywordHitsUnfiltered == SUBSET Selected(query.scope, chunks)
\* keyword_search_chunks asks for no vector.
KeywordHits == SUBSET Selected(query.scope, VisibleChunks)

FusedByBoth(a, b) == SUBSET (a \cap b)
\* reciprocal_rank_fusion, then the best of them.
Fused(a, b) == {f \in SUBSET (a \cup b) : a \cup b # {} => f # {}}

KeywordSearch ==
    /\ query.pc = "dense"
    /\ \E hits \in KeywordHits : \E text \in Fused(query.found, hits) :
          query' = [query EXCEPT !.pc = IF Encoder THEN "text" ELSE "found", !.found = text]
    /\ Fixed

\* search_visual_pages: pages of the processing versions active now.
VisualSearch ==
    /\ query.pc = "text"
    /\ \E pages \in SUBSET {c[1] : c \in Selected(query.scope, {d \in processed : active[d[1]] = d[2]})} :
          query' = [query EXCEPT !.pc = "pages", !.pages = pages]
    /\ Fixed

PagesOf(i) == {c \in VisibleChunks : c[1] = i /\ active[i] # 0}
\* visual_candidates_to_chunks: chunks of the processing version active by then.
ChunksOfPages ==
    /\ query.pc = "pages"
    /\ \E visual \in SUBSET UNION {PagesOf(i) : i \in query.pages} :
       \E both \in Fused(query.found, visual) :
          query' = [query EXCEPT !.pc = "found", !.pages = {}, !.found = both]
    /\ Fixed

\* The endpoint or the run goes on to answer, with nothing if there is nothing. The turn
\* and its learning event are stored in one transaction with the answer.
AnswerLibrary == query.pc = "found" /\ query.scope = Everything /\ End("answered") /\ Fixed

AnswerSelected ==
    /\ query.pc = "found" /\ query.scope # Everything /\ query.found # {}
    /\ End("answered")
    /\ Fixed

\* Selected items without a result are refused: they have "no indexed chunks to search".
RefuseEmpty ==
    /\ query.pc = "found" /\ query.scope # Everything /\ query.found = {}
    /\ query' = [query EXCEPT !.pc = "empty"]
    /\ Fixed

\* The database, the embedding service or the LLM fails, the version is gone, or the
\* dimensions differ: the transaction is rolled back.
Fail == Running /\ End("failed") /\ Fixed

QueryStep ==
    \/ \E scope \in Scopes : AcceptRun(scope) \/ CallEndpoint(scope)
    \/ ResolveScope \/ ReadSelected \/ EmbedQuestion \/ ReadLibrary
    \/ DenseSearch \/ KeywordSearch \/ VisualSearch \/ ChunksOfPages
    \/ AnswerLibrary \/ AnswerSelected \/ RefuseEmpty \/ Fail

\* The library is followed to the end of the query.
LibraryStep == ~Over /\ \/ Serve /\ Observe
                        \/ Restart /\ query' = NoQuery

RetrievalInit == Init /\ query = NoQuery
RetrievalNext == QueryStep \/ LibraryStep
RetrievalSpec == RetrievalInit /\ [][RetrievalNext]_<<vars, query>>

-----------------------------------------------------------------------------
(* Properties.                                                             *)

\* What is retrieved was visible at some moment of the query: the chunks of replaced
\* processing versions stay in the database, and none of them is cited however the steps
\* of a query and of a re-indexing interleave.
FoundWasVisible == query.found \subseteq query.seen

\* The vector of the question is compared with vectors of its own profile, unless the
\* active client changed during the query and the query had no snapshot to hold on to
\* (README.md: "switching a profile cannot change an in-flight stream").
OwnSpace == query.mixed => query.moved /\ query.snap = NoClient

\* A question about selected items that are searchable all the time is not refused: one of
\* them had no searchable chunk at some moment, in the version the query searched. So it is
\* for a refusal by a check of the items however many they are, and for one after a search
\* without a result when the search was exact.
RefusalIsTrue ==
    query.pc = "refused" \/ (query.pc = "empty" /\ Exact) =>
        \E i \in query.scope : <<i, query.ver>> \in query.dry
===========================================================================
