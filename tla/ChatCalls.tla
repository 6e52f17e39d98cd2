----------------------------- MODULE ChatCalls -----------------------------
(***************************************************************************)
(* The calls of the chat provider that one agent run makes: the analysis   *)
(* of the question (backend/app/graphs/adaptive.py) and the answer, as a   *)
(* stream or in one piece (graphs/chat_rag_graph.py, agents/synthesis.py), *)
(* through one of the adapters of backend/app/llm, while the user switches *)
(* the active profile (settings/runtime.py).                               *)
(*                                                                         *)
(* A text is a sequence of words "w" and of white space "_"; a delta is a  *)
(* short text. Of the provider's service the module has what it said, how  *)
(* it came to an end, and the events and the connection that the adapter   *)
(* has still to see; any of them may fail at any point.                    *)
(***************************************************************************)
EXTENDS Naturals, SequencesExt

CONSTANTS
    OpenAI, Anthropic, Gemini,  \* chat profiles, by the adapter they use
    None,                       \* no profile: the provider of the environment
    MaxDeltas,                  \* bound: deltas of one call
    MaxSwitches                 \* bound: switches of the active profile

Profiles == OpenAI \cup Anthropic \cup Gemini

ASSUME NoneAssumption == None \notin Profiles
ASSUME ResponsesAssumption == MaxDeltas \in Nat /\ MaxSwitches \in Nat

VARIABLES
    environment, \* the adapter LLM_PROVIDER names
    active,    \* registry: the active chat profile
    switches,  \* switches of it so far
    entry,     \* "stream" for the SSE endpoint, "json" for the other
    snapshot,  \* the profile captured for the run
    pc,        \* what the run does
    client,    \* the profile whose client the current call uses
    way,       \* the method of the adapter it uses
    said,      \* the text the model has generated in this call
    ended,     \* how the model's generation ended
    wire,      \* events of the response not read yet
    link,      \* the connection of the call
    text,      \* what the adapter has delivered
    finish,    \* the finish reason it has delivered
    used       \* history: the profiles whose clients this run called

call == <<client, way, said, ended, wire, link, text, finish>>
callVars == <<environment, active, switches, entry, snapshot, pc, call, used>>

-----------------------------------------------------------------------------
(* Texts and events.                                                       *)

Deltas == {<<"w">>, <<"_", "w">>, <<"_">>}

Visible(t) == "w" \in Range(t)

\* str.strip
Stripped(t) ==
    IF ~Visible(t) THEN <<>>
    ELSE LET words == {i \in DOMAIN t : t[i] = "w"}
         IN  SubSeq(t, Min(words), Max(words))

Adapter(profile) ==
    CASE profile \in OpenAI -> "openai"
      [] profile \in Anthropic -> "anthropic"
      [] profile \in Gemini -> "gemini"
      [] OTHER -> environment

Event(kind) == [kind |-> kind, text |-> <<>>, reason |-> "none"]
TextEvent(delta) == [Event("text") EXCEPT !.text = delta]
FinishEvent(reason) == [Event("finish") EXCEPT !.reason = reason]

\* What a service sends when its model has ended, after the last delta. Gemini's
\* reason comes with the last delta, or in an event without text.
Tails(adapter, reason) ==
    CASE adapter = "openai" ->
           {<<FinishEvent(reason), Event("usage"), Event("done")>>}
      [] adapter = "anthropic" -> {<<FinishEvent(reason), Event("done")>>}
      [] OTHER -> {<<>>, <<FinishEvent(reason)>>}

-----------------------------------------------------------------------------
(* The registry and the run.                                               *)

Idle ==
    /\ client = None /\ way = "none" /\ said = <<>> /\ ended = "no"
    /\ wire = <<>> /\ link = "none" /\ text = <<>> /\ finish = "none"

CallsInit ==
    /\ environment \in {"openai", "deterministic"}
    /\ active \in Profiles \cup {None} /\ switches = 0
    /\ entry \in {"stream", "json"} /\ snapshot = None
    /\ pc = "new" /\ Idle /\ used = {}

\* Activation of another profile, or removal, deletion or a lost secret of the active.
Switch ==
    /\ switches < MaxSwitches
    /\ active' \in (Profiles \cup {None}) \ {active}
    /\ switches' = switches + 1
    /\ UNCHANGED <<environment, entry, snapshot, pc, call, used>>

\* Both endpoints capture the active profile before the graph starts.
StartRun ==
    /\ pc = "new"
    /\ pc' = "analyze" /\ snapshot' = active
    /\ UNCHANGED <<environment, active, switches, entry, call, used>>

CurrentNow == active

\* current_chat_provider: a run without a snapshot looks into the registry each time.
Current == IF snapshot # None THEN snapshot ELSE active

\* The deterministic provider has its text, which is a part of the prompt, at once.
Begin(local) ==
    IF local
    THEN [said |-> <<"w">>, ended |-> "stop", link |-> "closed",
          wire |-> <<TextEvent(<<"w">>), FinishEvent("stop")>>]
    ELSE [said |-> <<>>, ended |-> "no", link |-> "open", wire |-> <<>>]
Open(method) ==
    LET begun == Begin(Adapter(Current) = "deterministic")
    IN  /\ client' = Current /\ way' = method
        /\ said' = begun.said /\ ended' = begun.ended
        /\ wire' = begun.wire /\ link' = begun.link
        /\ text' = <<>> /\ finish' = "none"
        /\ used' = used \cup {Current}
        /\ UNCHANGED <<environment, active, switches, entry, snapshot>>

\* The rules do for a greeting and an unclear question; and they always do when
\* LLM_PROVIDER is deterministic, whatever profile is active.
AnalyzeByRules ==
    /\ pc = "analyze"
    /\ pc' = "answer"
    /\ UNCHANGED <<environment, active, switches, entry, snapshot, call, used>>

StructuredWay ==
    IF Adapter(Current) = "anthropic" THEN "generate" ELSE "structured"
AskAnalysis ==
    /\ pc = "analyze" /\ environment # "deterministic"
    /\ pc' = "analyzing"
    /\ Open(StructuredWay)

\* The question of a clarification is the answer; no call is made.
Clarify ==
    /\ pc = "answer"
    /\ pc' = "clarified"
    /\ UNCHANGED <<environment, active, switches, entry, snapshot, call, used>>

\* Streamed answers use the streaming call; the JSON endpoint uses the call with
\* metrics for a synthesis, if the adapter has it, and the plain one.
AnswerWays ==
    IF entry = "stream" THEN {"stream"}
    ELSE IF Adapter(Current) \in {"openai", "deterministic"} THEN {"metrics", "generate"}
    ELSE {"generate"}
AskAnswer ==
    /\ pc = "answer"
    /\ pc' = "answering"
    /\ \E method \in AnswerWays : Open(method)

-----------------------------------------------------------------------------
(* The service, and the connection to it.                                  *)

Calling == pc \in {"analyzing", "answering"}
Service == <<environment, active, switches, entry, snapshot, pc, client, way, text, finish, used>>

Speak ==
    /\ Calling /\ link = "open" /\ ended = "no"
    /\ \E d \in Deltas :
        /\ Len(said) + Len(d) <= 2 * MaxDeltas
        /\ said' = said \o d /\ wire' = Append(wire, TextEvent(d))
    /\ UNCHANGED <<Service, ended, link>>

\* The model stops by itself, or at the limit of tokens or at a filter.
StopSpeaking ==
    /\ Calling /\ link = "open" /\ ended = "no"
    /\ ended' \in {"stop", "length"}
    /\ \E tail \in Tails(Adapter(client), ended') : wire' = wire \o tail
    /\ UNCHANGED <<Service, said, link>>

\* An error inside a response that began well (overload).
ReportError ==
    /\ Calling /\ link = "open" /\ ended = "no"
    /\ ended' = "error" /\ wire' = Append(wire, Event("error"))
    /\ UNCHANGED <<Service, said, link>>

\* The response ends in good order, where it is complete or earlier.
Close ==
    /\ Calling /\ link = "open"
    /\ link' = "closed"
    /\ UNCHANGED <<Service, said, ended, wire>>

\* A refused request, an HTTP error, a connection that breaks, a read timeout.
Break ==
    /\ Calling /\ link = "open"
    /\ link' = "broken"
    /\ UNCHANGED <<Service, said, ended, wire>>

-----------------------------------------------------------------------------
(* The adapters and their consumers.                                       *)

Reader == <<environment, active, switches, entry, snapshot, client, way, said, ended, link, used>>

\* A failed analysis is replaced by the rules, a failed answer fails the run.
GiveUp == pc' = IF pc = "analyzing" THEN "answer" ELSE "failed"

Fails == GiveUp /\ UNCHANGED <<Reader, wire, text, finish>>

Incremental == way \in {"stream", "metrics"}
DeliverOpenAI(e) ==
    /\ text' = text \o e.text
    /\ finish' = IF e.kind = "finish" THEN e.reason ELSE finish

DeliverAnthropic(e) ==
    /\ text' = text \o e.text
    /\ finish' = IF e.kind = "done" THEN "stop" ELSE finish

\* GeminiLLMProvider._text strips the text of every event and refuses an empty one.
Refused(e) == Adapter(client) = "gemini" /\ ~Visible(e.text)
DeliverGemini(e) == text' = text \o Stripped(e.text) /\ finish' = finish

\* Events without a choice or of another type are skipped.
Read ==
    /\ Calling /\ Incremental /\ wire # <<>>
    /\ LET e == Head(wire)
       IN  /\ ~Refused(e)
           /\ CASE Adapter(client) = "anthropic" -> DeliverAnthropic(e)
                [] Adapter(client) = "gemini" -> DeliverGemini(e)
                [] OTHER -> DeliverOpenAI(e)
    /\ wire' = Tail(wire)
    /\ UNCHANGED <<Reader, pc>>

ReadRefused ==
    /\ Calling /\ Incremental /\ wire # <<>> /\ Refused(Head(wire))
    /\ Fails

\* What is buffered may be read before the failure is seen, or not.
ReadBroken == Calling /\ link = "broken" /\ Fails

ExhaustedAfterFinish ==
    Calling /\ Incremental /\ wire = <<>> /\ link = "closed" /\ finish # "none"
Exhausted == Calling /\ Incremental /\ wire = <<>> /\ link = "closed"

\* Gemini's adapter says "stop" when the response is over.
LastFinish == IF Adapter(client) = "gemini" THEN "stop" ELSE finish

FinishedAnyway(reason) == reason # "none"

\* _stream_llm_answer at the end of the stream.
Finished(reason) == reason = "stop"
EndOfStream ==
    /\ Exhausted /\ way = "stream"
    /\ finish' = LastFinish
    /\ IF Visible(text) /\ Finished(finish') THEN pc' = "answered" ELSE GiveUp
    /\ UNCHANGED <<Reader, wire, text>>

\* generate_with_metrics reads a stream too and asks for no reason.
EndOfMetrics ==
    /\ Exhausted /\ way = "metrics"
    /\ text' = Stripped(text)
    /\ IF Visible(text) THEN pc' = "answered" ELSE GiveUp
    /\ UNCHANGED <<Reader, wire, finish>>

\* A response in one piece: a part of one is no JSON.
Whole == link = "closed" /\ ended \in {"stop", "length"} /\ Visible(said)
ReadWhole ==
    /\ Calling /\ way = "generate" /\ link = "closed"
    /\ text' = Stripped(said) /\ finish' = "none" /\ wire' = <<>>
    /\ IF Whole /\ pc = "answering" THEN pc' = "answered" ELSE GiveUp
    /\ UNCHANGED Reader

\* The structured analysis is parsed and validated, which it may not pass; then the
\* rules take its place.
ReadStructured ==
    /\ Calling /\ way = "structured" /\ link = "closed"
    /\ text' = Stripped(said) /\ finish' = "none" /\ wire' = <<>>
    /\ pc' = "answer"
    /\ UNCHANGED Reader

Upstream == Speak \/ StopSpeaking \/ ReportError \/ Close \/ Break
Consume ==
    \/ Read \/ ReadRefused \/ ReadBroken
    \/ EndOfStream \/ EndOfMetrics \/ ReadWhole \/ ReadStructured
Run == StartRun \/ AnalyzeByRules \/ AskAnalysis \/ Clarify \/ AskAnswer
CallsNext == Switch \/ Run \/ Upstream \/ Consume

\* A client with timeouts sees the end of every response or gives up waiting for it,
\* and reads what it has; nobody has to switch the profile.
CallsFairness == WF_callVars(Run) /\ WF_callVars(Consume) /\ WF_callVars(Close \/ Break)
CallsSpec == CallsInit /\ [][CallsNext]_callVars /\ CallsFairness

-----------------------------------------------------------------------------
(* Properties.                                                             *)

Texts == Seq({"w", "_"})
CallsTypeOK ==
    /\ environment \in {"openai", "deterministic"}
    /\ active \in Profiles \cup {None} /\ switches \in 0 .. MaxSwitches
    /\ entry \in {"stream", "json"} /\ snapshot \in Profiles \cup {None}
    /\ pc \in {"new", "analyze", "analyzing", "answer", "answering", "clarified",
               "answered", "failed"}
    /\ client \in Profiles \cup {None}
    /\ way \in {"none", "structured", "generate", "metrics", "stream"}
    /\ said \in Texts /\ ended \in {"no", "stop", "length", "error"}
    /\ link \in {"none", "open", "closed", "broken"}
    /\ text \in Texts /\ finish \in {"none", "stop", "length"}
    /\ used \subseteq Profiles \cup {None}

\* A streamed answer is accepted only if it is all that the model said: a stream that
\* breaks off, ends early or reports an error in its middle is never taken for an
\* answer (_stream_llm_answer and the adapters below it). An answer cut at the token
\* limit passes for complete with Anthropic, whose message_stop becomes "stop". The
\* Gemini adapter is left out: it says "stop" at the end of any response.
StreamedIsComplete ==
    pc = "answered" /\ way = "stream" /\ Adapter(client) # "gemini" =>
        /\ text = said
        /\ ended \in IF Adapter(client) = "anthropic" THEN {"stop", "length"} ELSE {"stop"}

\* Switching the profile does not change a run under way: all its calls use the
\* client it captured, if it has captured one (provider_request_snapshot).
OneProvider == snapshot # None => used \subseteq {snapshot}

\* Every run is answered or fails, whatever the service does: an analysis that fails
\* goes on by the rules, and no end of a stream is waited for in vain.
RunIsAnswered == pc = "analyze" ~> pc \in {"clarified", "answered", "failed"}
=============================================================================
