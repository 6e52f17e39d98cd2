--------------------------- MODULE ResearchGraph ---------------------------
(***************************************************************************)
(* The adaptive research graph (backend/app/graphs/chat_rag_graph.py and   *)
(* adaptive.py) over the turns of one conversation: a turn plans, searches *)
(* in up to three branches at once, merges and grades what they found,     *)
(* may search again, writes an answer and verifies its citations. The      *)
(* channels of the graph's state outlive the turn: the checkpointer keeps  *)
(* them under the conversation's thread, whether the turn ended or failed. *)
(*                                                                         *)
(* An external source is named by the key under which it is deduplicated   *)
(* (DOI, arXiv id or URL), a local one by its chunk. The n-th source of a  *)
(* list is the one cited as [Sn] or [Wn]; an answer is the set of its      *)
(* markers. A branch reads the state its superstep began with; what it     *)
(* writes (`found`) is applied when the superstep ends. A question is the  *)
(* set of the groups of words it matches.                                  *)
(***************************************************************************)
EXTENDS Naturals, FiniteSets, Functions, SequencesExt

CONSTANTS
    Chunks,          \* chunks the local retrieval can return
    Sources,         \* keys of the web and academic sources
    PageSize,        \* bound: sources in one result of a branch
    MaxCorrections,  \* max_corrective_retries of an execution plan
    MaxMarker,       \* bound: the highest number an LLM puts into a marker
    MaxTurns         \* bound: turns of the conversation

ASSUME BoundsAssumption ==
    /\ PageSize \in Nat /\ MaxCorrections \in Nat
    /\ MaxMarker \in Nat /\ MaxTurns \in Nat

VARIABLES
    mcp,         \* the setting mcp_enabled
    saver,       \* the setting memory_checkpointer_backend
    node,        \* the node of the graph that runs next, or runs
    turn,        \* turns begun
    required,    \* execution_plan: the sources it runs
    running,     \* branches that have not returned in this superstep
    found,       \* what the others returned
    chunks,      \* retrieved_chunks, with the local_citations beside them
    web,         \* web_sources
    academic,    \* academic_sources
    webStatus,   \* web_results["status"]
    summary,     \* local_summary: the n-th chunk is the one it calls [Sn]
    grade,       \* evidence_grade: its status, and whether relevance < 0.3
    retries,     \* retrieval_retry_count
    answer,      \* markers of the answer
    response,    \* what the turn saved and returned
    merged,      \* history: the lists of the last merge of this turn
    corrections, \* history: corrections of this turn
    retrieved    \* history: what the branches found in this turn

settings == <<mcp, saver>>
lists == <<chunks, web, academic, webStatus, summary>>
superstep == <<running, found>>
history == <<merged, corrections, retrieved>>
vars == <<settings, node, turn, required, superstep, lists, grade, retries, answer, response,
          history>>

-----------------------------------------------------------------------------
(* Lists of sources.                                                       *)

Branches == {"local", "web", "academic"}
External == [key : Sources, type : {"web", "academic"}]

\* A branch's result has no source twice.
Pages(S) == {page \in UNION {[1 .. n -> S] : n \in 0 .. PageSize} : IsInjective(page)}
Typed(page, type) == [i \in DOMAIN page |-> [key |-> page[i], type |-> type]]

ChunkKeys(list) == Range(list)
KeysOf(list) == [i \in DOMAIN list |-> list[i].key]
SourceKeys(list) == Range(KeysOf(list))

\* How many different keys there are up to the i-th, and the place at which the n-th new
\* one appears.
Different(keys, i) == Cardinality({keys[j] : j \in 1 .. i})
IsNew(keys, i) == \A j \in 1 .. i - 1 : keys[j] # keys[i]
FirstAt(keys, n) == CHOOSE i \in DOMAIN keys : IsNew(keys, i) /\ Different(keys, i) = n
Firsts(list, keys) == [n \in 1 .. Different(keys, Len(keys)) |-> list[FirstAt(keys, n)]]

\* _dedupe_local_sources and _renumber_web_sources: the first source with a key
\* stays, and its place is its number.
Deduped(list) == Firsts(list, list)
Renumbered(list) == Firsts(list, KeysOf(list))

Ids(cs, ws) == ({"S"} \X DOMAIN cs) \cup ({"W"} \X DOMAIN ws)

-----------------------------------------------------------------------------
(* The turn begins.                                                        *)

NoGrade == [status |-> "none", unrelated |-> FALSE]
NoLists == [chunks |-> <<>>, web |-> <<>>]
NoResponse == [answer |-> {}, chunks |-> <<>>, web |-> <<>>, required |-> {}]

\* The manager starts the saver of the settings.
Init ==
    /\ mcp \in BOOLEAN /\ saver \in {"memory", "postgres"}
    /\ node = "new" /\ turn = 0
    /\ running = {} /\ found = <<>>
    /\ required = {} /\ answer = {}
    /\ chunks = <<>> /\ web = <<>> /\ academic = <<>> /\ summary = <<>>
    /\ webStatus = "none" /\ grade = NoGrade /\ retries = 0
    /\ merged = NoLists /\ corrections = 0 /\ retrieved = {}
    /\ response = NoResponse

InitialStateKeepsRetries ==
    /\ required' = {}
    /\ chunks' = <<>> /\ web' = <<>> /\ academic' = <<>> /\ summary' = <<>>
    /\ grade' = NoGrade
    /\ UNCHANGED <<webStatus, answer, retries>>

InitialStateKeepsSources ==
    /\ required' = {}
    /\ chunks' = <<>> /\ academic' = <<>> /\ summary' = <<>>
    /\ grade' = NoGrade /\ retries' = 0
    /\ UNCHANGED <<webStatus, answer, web>>

\* The channels build_initial_agent_state names are written over; web_results and
\* answer are not named.
InitialState ==
    /\ required' = {}
    /\ chunks' = <<>> /\ web' = <<>> /\ academic' = <<>> /\ summary' = <<>>
    /\ grade' = NoGrade /\ retries' = 0
    /\ UNCHANGED <<webStatus, answer>>

StartTurn ==
    /\ node \in {"new", "answered", "failed"} /\ turn < MaxTurns
    /\ node' = "validate_input" /\ turn' = turn + 1
    /\ InitialState
    /\ running' = {} /\ found' = <<>>
    /\ merged' = NoLists /\ corrections' = 0 /\ retrieved' = {}
    /\ response' = NoResponse
    /\ UNCHANGED <<settings>>

\* The checkpoint of the thread cannot be read: the turn fails before its first node, and
\* what the channels hold is still the turn before.
LoadFails ==
    /\ node \in {"new", "answered", "failed"} /\ turn < MaxTurns
    /\ node' = "failed" /\ turn' = turn + 1
    /\ response' = NoResponse
    /\ UNCHANGED <<settings, required, superstep, lists, grade, retries, answer, history>>

\* The service is shut down between two turns and started again: a saver in memory is a
\* new one, in which no thread has channels.
Restart ==
    /\ node \in {"answered", "failed"}
    /\ node' = "new" /\ response' = NoResponse
    /\ running' = {} /\ found' = <<>>
    /\ IF saver = "memory"
       THEN /\ required' = {} /\ answer' = {}
            /\ chunks' = <<>> /\ web' = <<>> /\ academic' = <<>> /\ summary' = <<>>
            /\ webStatus' = "none" /\ grade' = NoGrade /\ retries' = 0
            /\ merged' = NoLists /\ corrections' = 0 /\ retrieved' = {}
       ELSE UNCHANGED <<required, lists, grade, retries, answer, history>>
    /\ UNCHANGED <<settings, turn>>

\* A node raises: input or scope is refused, a branch of the superstep fails, MCP does
\* not answer the synchronous graph in time, the provider breaks the answer off, the
\* turn is not saved. Or the stream is cancelled. What the superstep found is lost,
\* the channels of the ones before it stay.
Fail ==
    /\ node \notin {"new", "answered", "failed"}
    /\ node' = "failed" /\ running' = {} /\ found' = <<>>
    /\ UNCHANGED <<settings, turn, required, lists, grade, retries, answer, response, history>>

\* The groups of words the rules look for; a greeting and a bare pronoun are a whole
\* message.
Words == {"greeting", "pronoun", "if relevant", "library", "web",
          "academic", "recent", "summarize"}

\* route_question
Route(words) ==
    CASE "greeting" \in words -> "direct"
      [] "pronoun" \in words -> "clarify"
      [] "if relevant" \in words \/ {"library", "web"} \subseteq words -> "both"
      [] "library" \in words -> "local_only"
      [] "web" \in words -> "web_only"
      [] OTHER -> "both"
Messages == {{"greeting"}, {"pronoun"}} \cup SUBSET (Words \ {"greeting", "pronoun"})

Analysis(sources, clear) == [sources |-> sources, clear |-> clear]

\* _rule_analysis; a pronoun is clear in a conversation.
RuleSources(words, selected) ==
    CASE Route(words) \in {"direct", "clarify"} -> {}
      [] "academic" \in words ->
            {"academic"} \cup (IF "recent" \in words THEN {"web"} ELSE {})
                         \cup (IF selected /\ Route(words) # "web_only" THEN {"local"} ELSE {})
      [] "summarize" \in words -> {"local"}
      [] Route(words) = "local_only" -> {"local"}
      [] Route(words) = "web_only" -> {"web"}
      [] OTHER -> {"local", "web"}
RuleAnalysis(words, selected, context) ==
    Analysis(RuleSources(words, selected), Route(words) = "clarify" => context)

\* An LLM is asked about a message that is not of the first two; what it returns is
\* valid, or the rules are taken.
ModelAnalyses == {Analysis(S, clear) : S \in SUBSET Branches, clear \in BOOLEAN}
Analyses(words, selected, context) ==
    {RuleAnalysis(words, selected, context)}
        \cup (IF Route(words) \in {"direct", "clarify"} THEN {} ELSE ModelAnalyses)

\* build_execution_plan: an unclear question and one that requires no source are
\* answered directly.
Planned(analysis) == IF analysis.clear THEN analysis.sources ELSE {}
Direct(sources) == sources = {}

Plan ==
    /\ node = "validate_input"
    /\ \E words \in Messages, selected \in BOOLEAN, context \in {FALSE, turn > 1} :
        \E analysis \in Analyses(words, selected, context) : required' = Planned(analysis)
    /\ IF Direct(required')
       THEN node' = "direct_response" /\ UNCHANGED running
       ELSE node' = "research" /\ running' = Branches
    /\ UNCHANGED <<settings, turn, found, lists, grade, retries, answer, response,
                   history>>

-----------------------------------------------------------------------------
(* The branches, in the research superstep and in the corrective node.     *)

Page(sources, status) == [page |-> sources, status |-> status]

Skipped == Page(<<>>, "skipped")
Unavailable == Page(<<>>, "unavailable")

LocalResults == {Page(p, "available") : p \in Pages(Chunks)}

\* Without a source a research over MCP is unavailable.
Researched(page) == IF page = <<>> THEN Unavailable ELSE Page(page, "available")

\* A call of a tool fails, which finds nothing, or its payload is normalized to a page.
ToolReplies == Pages(Sources)

\* plan_research: how the words of the question ask for it.
WebPlans == {"one", "both"}
AcademicPlans == {"doi", "search"}

\* deduplicate_and_rank over what two calls found: in an order of its own, without what is
\* almost the same, and no more than fits.
Ranked(a, b) == {p \in Pages(Range(a) \cup Range(b)) : p = <<>> => a = <<>> /\ b = <<>>}

\* Both servers are asked at once, or the second when the first fails or finds nothing.
\* A page that cannot be read keeps its snippet.
WebSearch(plan, tavily, brave) ==
    CASE plan = "both" -> Ranked(tavily, brave)
      [] plan = "one" /\ tavily # <<>> -> {tavily}
      [] OTHER -> {brave}
AcademicSearch(plan, first, second) == IF plan = "doi" THEN {first} ELSE Ranked(first, second)

MCPWebResults ==
    {Researched(p) : p \in UNION {WebSearch(plan, a, b) :
                                  plan \in WebPlans, a \in ToolReplies, b \in ToolReplies}}
MCPAcademicResults ==
    {Researched(p) : p \in UNION {AcademicSearch(plan, a, b) :
                                  plan \in AcademicPlans, a \in ToolReplies, b \in ToolReplies}}
MCPResults(branch) == IF branch = "web" THEN MCPWebResults ELSE MCPAcademicResults

\* A search without MCP: Tavily may return a summary without sources.
TavilyResults == {Researched(p) : p \in Pages(Sources)} \cup {Page(<<>>, "available")}
MockResults == {Page(p, "available") : p \in {q \in Pages(Sources) : Len(q) = 1}}
ProviderResults == {Unavailable} \cup TavilyResults \cup MockResults

OutcomesWhenRequired(branch) ==
    IF branch \notin required THEN {}
    ELSE IF branch = "local" THEN LocalResults ELSE MCPResults(branch)

\* _should_run; without MCP there is no academic search.
ShouldRun(branch) == branch \in required /\ (branch = "academic" => mcp)

\* The branch's node.
Outcomes(branch) ==
    IF ~ShouldRun(branch) THEN {Skipped}
    ELSE IF branch = "local" THEN LocalResults
    ELSE IF mcp THEN MCPResults(branch) ELSE ProviderResults

FoundWith(branch, result) ==
    [b \in DOMAIN found \cup {branch} |-> IF b = branch THEN result ELSE found[b]]

Return(branch) ==
    /\ node \in {"research", "corrective_retrieval"} /\ branch \in running
    /\ running' = running \ {branch}
    /\ \E result \in Outcomes(branch) :
        /\ found' = FoundWith(branch, result)
        /\ retrieved' = retrieved \cup Range(result.page)
    /\ UNCHANGED <<settings, node, turn, required, lists, grade, retries, answer,
                   response, merged, corrections>>

\* The corrective node gathers exceptions beside results.
RaiseGathered(branch) ==
    /\ node = "corrective_retrieval" /\ branch \in running
    /\ running' = running \ {branch}
    /\ found' = FoundWith(branch, Page(<<>>, "raised"))
    /\ UNCHANGED <<settings, node, turn, required, lists, grade, retries, answer,
                   response, history>>

\* The end of the superstep: every branch writes its channels.
EndResearch ==
    /\ node = "research" /\ running = {}
    /\ node' = "merge_evidence"
    /\ chunks' = found["local"].page /\ summary' = found["local"].page
    /\ web' = Typed(found["web"].page, "web")
    /\ academic' = Typed(found["academic"].page, "academic")
    /\ webStatus' = found["web"].status
    /\ found' = <<>>
    /\ UNCHANGED <<settings, turn, required, running, grade, retries, answer, response, history>>

-----------------------------------------------------------------------------
(* Merge, grade, correct.                                                  *)

\* _combined_web_result_state
CombinedStatus(sources) == IF sources = <<>> THEN "unavailable" ELSE "available"

MergeEvidence ==
    /\ node = "merge_evidence"
    /\ node' = "grade_evidence"
    /\ chunks' = Deduped(chunks)
    /\ web' = Renumbered(web \o academic)
    /\ webStatus' = CombinedStatus(web')
    /\ merged' = [chunks |-> chunks', web |-> web']
    /\ UNCHANGED <<settings, turn, required, superstep, academic, summary, grade, retries, answer,
                   response, corrections, retrieved>>

\* grade_evidence. Local evidence always counts as related; of the external one any
\* part may share a word with the question. A conflict needs a claim key, which
\* nothing sets, and every source has the title, URL and id a citation needs.
LocalEvidence == [i \in DOMAIN chunks |-> "local"]
WebEvidence == [i \in DOMAIN web |-> web[i].type]
Evidence == LocalEvidence \o WebEvidence

Present == Range(Evidence)
Grade(related) ==
    LET all == Len(Evidence)
        matching == Len(LocalEvidence) + related
    IN  IF all = 0 THEN [status |-> "empty", unrelated |-> TRUE]
        ELSE [status |-> IF required \subseteq Present /\ 2 * matching >= all
                         THEN "sufficient" ELSE "insufficient",
              unrelated |-> 10 * matching < 3 * all]

\* corrective_route
Unsearchable ==
    /\ "web" \in required /\ webStatus = "unavailable" /\ ~mcp
    /\ chunks = <<>>
Lacking(g) == g.status = "empty" \/ (g.status = "insufficient" /\ g.unrelated)

Correctable(g) == ~Unsearchable /\ Lacking(g) /\ retries < MaxCorrections
GradeEvidence ==
    /\ node = "grade_evidence"
    /\ \E related \in 0 .. Len(web) : grade' = Grade(related)
    /\ IF Correctable(grade')
       THEN node' = "corrective_retrieval" /\ running' = required
       ELSE node' = "build_answer_plan" /\ UNCHANGED running
    /\ UNCHANGED <<settings, turn, required, found, lists, retries, answer, response,
                   history>>

NewFirst(prior, new) == new \o prior
PriorOnly(prior, new) == prior

\* _preserve_prior_evidence
Preserved(prior, new) == prior \o new
Ran(branch) == branch \in required /\ found[branch].status # "raised"

\* What is found comes after what there was; the summary is of the new chunks only.
CorrectiveRetrieval ==
    /\ node = "corrective_retrieval" /\ running = {}
    /\ node' = "merge_evidence"
    /\ retries' = retries + 1 /\ corrections' = corrections + 1
    /\ chunks' = IF Ran("local") THEN Preserved(chunks, found["local"].page) ELSE chunks
    /\ summary' = IF Ran("local") THEN found["local"].page ELSE summary
    /\ web' = IF Ran("web") THEN Preserved(web, Typed(found["web"].page, "web")) ELSE web
    /\ academic' = IF Ran("academic")
                   THEN Preserved(academic, Typed(found["academic"].page, "academic"))
                   ELSE academic
    /\ webStatus' = IF Ran("web") THEN found["web"].status ELSE webStatus
    /\ found' = <<>>
    /\ UNCHANGED <<settings, turn, required, running, grade, answer, response, merged, retrieved>>
-----------------------------------------------------------------------------
(* The answer.                                                             *)

BuildAnswerPlan ==
    /\ node = "build_answer_plan"
    /\ node' = "stream_synthesis"
    /\ UNCHANGED <<settings, turn, required, superstep, lists, grade, retries, answer, response,
                   history>>

\* The deterministic answer of prepare_agent_synthesis, which is in the prompt and which
\* the deterministic provider gives: the excerpts of the local summary under their
\* numbers, and a line of all the sources of each kind.
LocalAnswer ==
    IF summary = <<>> THEN {} ELSE {"S"} \X (DOMAIN summary \cup DOMAIN chunks)
WebAnswer == {"W"} \X DOMAIN web
BothAnswer == LocalAnswer \cup WebAnswer \cup ({"S"} \X DOMAIN chunks)
ReferenceAnswer ==
    CASE required = {"local"} -> LocalAnswer
      [] "local" \notin required -> WebAnswer
      [] OTHER -> BothAnswer

\* An LLM may cite what it likes.
Answers == SUBSET ({"S", "W"} \X (1 .. MaxMarker))

Synthesize ==
    /\ node = "stream_synthesis"
    /\ node' = "verify_answer"
    /\ answer' \in Answers \cup {ReferenceAnswer}
    /\ UNCHANGED <<settings, turn, required, superstep, lists, grade, retries, response, history>>

DirectResponse ==
    /\ node = "direct_response"
    /\ node' = "persist_final"
    /\ answer' \in Answers
    /\ UNCHANGED <<settings, turn, required, superstep, lists, grade, retries, response, history>>

\* verify_answer, of the errors that sources with distinct ids and URLs leave.
Valid(markers) ==
    /\ markers \subseteq Ids(chunks, web)
    /\ Ids(chunks, web) # {} => markers # {}

RepairedMarkersOnly(markers) == markers \cap Ids(chunks, web)

\* repair_answer_citations: markers of nothing go; without any, all sources are named.
Repaired(markers) ==
    LET known == markers \cap Ids(chunks, web)
    IN  IF known = {} THEN Ids(chunks, web) ELSE known
VerifyAnswer ==
    /\ node = "verify_answer"
    /\ node' = "persist_final"
    /\ answer' = IF Valid(answer) THEN answer ELSE Repaired(answer)
    /\ UNCHANGED <<settings, turn, required, superstep, lists, grade, retries, response, history>>

FormattedResponse == [answer |-> answer, chunks |-> chunks, web |-> web, required |-> required]

\* The turn's row and the response take the same channels.
PersistFinal ==
    /\ node = "persist_final"
    /\ node' = "answered"
    /\ response' = FormattedResponse
    /\ UNCHANGED <<settings, turn, required, superstep, lists, grade, retries, answer, history>>

Work ==
    \/ Plan
    \/ \E b \in Branches : Return(b) \/ RaiseGathered(b)
    \/ EndResearch \/ MergeEvidence \/ GradeEvidence \/ CorrectiveRetrieval
    \/ BuildAnswerPlan \/ Synthesize \/ DirectResponse \/ VerifyAnswer \/ PersistFinal

Next == StartTurn \/ LoadFails \/ Restart \/ Work \/ Fail

\* Nodes and branches end, since their calls carry timeouts; nobody has to ask, and
\* nothing has to fail.
Fairness == WF_vars(Work)
Spec == Init /\ [][Next]_vars /\ Fairness

-----------------------------------------------------------------------------
(* Properties.                                                             *)

\* The type of every variable; the corrections of a turn keep to the plan's limit
\* although the graph loops (corrective_route, corrective_retrieval).
TypeOK ==
    /\ mcp \in BOOLEAN /\ saver \in {"memory", "postgres"} /\ turn \in 0 .. MaxTurns
    /\ node \in {"new", "validate_input", "research", "merge_evidence", "grade_evidence",
                 "corrective_retrieval", "build_answer_plan", "stream_synthesis",
                 "direct_response", "verify_answer", "persist_final", "answered", "failed"}
    /\ required \subseteq Branches /\ running \subseteq Branches
    /\ DOMAIN found \subseteq Branches
    /\ Range(chunks) \subseteq Chunks /\ Range(summary) \subseteq Chunks
    /\ Range(web) \subseteq External /\ Range(academic) \subseteq External
    /\ webStatus \in {"none", "available", "unavailable", "skipped", "raised"}
    /\ grade.status \in {"none", "empty", "insufficient", "sufficient"}
    /\ retries \in 0 .. MaxCorrections /\ corrections \in 0 .. MaxCorrections
    /\ answer \subseteq {"S", "W"} \X Nat
    /\ Range(merged.chunks) \subseteq Chunks /\ Range(merged.web) \subseteq External
    /\ retrieved \subseteq Chunks \cup Sources

\* Every marker of a researched answer names a source that is saved and returned with
\* it, and an answer that has sources cites one: whatever the LLM wrote, and although
\* the lists were renumbered in between (verify_answer_node, merge_evidence_node).
CitationsResolve ==
    LET ids == Ids(response.chunks, response.web)
    IN  response.required # {} =>
            response.answer \subseteq ids /\ (ids # {} => response.answer # {})

\* The sources of a response were found by its own turn: nothing comes back from the
\* stored channels of an earlier turn or of one that failed half way.
OnlyThisTurn ==
    node = "answered" =>
        Range(response.chunks) \cup SourceKeys(response.web) \subseteq retrieved

\* A merge after a correction keeps every source of the one before, under its number
\* (_preserve_prior_evidence and the order in which merge_evidence_node dedupes).
PriorEvidenceKept ==
    [][node = "merge_evidence" /\ corrections > 0 =>
        /\ IsPrefix(merged.chunks, chunks')
        /\ IsPrefix(merged.web, web')]_vars

\* Until a correction, the numbers in the local summary are those of the sources; after
\* one, the summary still has only chunks that are among them, and the answer that it is
\* put into cites nothing that is not there (local_library_agent_node,
\* _preserve_prior_evidence, prepare_agent_synthesis).
SummaryIsCited ==
    node = "stream_synthesis" =>
        /\ corrections = 0 => summary = chunks
        /\ Range(summary) \subseteq Range(chunks)
        /\ ReferenceAnswer \subseteq Ids(chunks, web)

\* An answer is planned over no evidence at all only when this turn's corrections are
\* used up, or the search is known to be unavailable and nothing local was found.
EmptyOnlyAfterCorrections ==
    node = "build_answer_plan" /\ chunks = <<>> /\ web = <<>> =>
        corrections = MaxCorrections \/ Unsearchable

\* Every turn is answered or fails: the corrective loop is left.
TurnEnds == node = "validate_input" ~> node \in {"answered", "failed"}
=============================================================================
