---------------------------- MODULE AgentClient ----------------------------
(***************************************************************************)
(* The chat client (frontend/src): the conversations of the workspace, the *)
(* panel that shows one of them, and the calls it makes, each a promise    *)
(* chain that outlives its panel. The server is what a client can see of   *)
(* it: the events of a streamed run, the JSON answer, what is stored.      *)
(*                                                                         *)
(* A call is identified by the client's message id. The events of a stream *)
(* arrive in order; the connection may break anywhere. Of the tokens only  *)
(* matters whether some are buffered and not yet shown.                    *)
(***************************************************************************)
EXTENDS Naturals, Sequences, TLC

CONSTANTS
    Calls,       \* message ids: the questions ever submitted
    Keys,        \* local keys of conversations
    NoKey, None, \* no conversation; no server id of a conversation, no call
    MaxWire      \* bound: events under way to the client

ASSUME ConstantsAssumption ==
    /\ MaxWire \in Nat \ {0}
    /\ NoKey \notin Keys /\ None \notin Calls

VARIABLES
    \* the client
    page,      \* "workspace" or "settings"
    keys,      \* conversations of the workspace
    activeKey,
    conv,      \* key -> conversationId
    turn,      \* call -> its turn in the workspace, saved to localStorage as it changes
    panel,     \* the last call of the mounted panel: activeRun
    call,      \* call -> the refs of its panel and where its promise chain is
    \* between them
    wire,      \* call -> events sent and not yet read
    \* the server
    enabled,   \* AGENT_STREAMING_ENABLED
    srv,       \* call -> how far the server is
    stored     \* call -> the server's conversation that holds its turn

client == <<page, keys, activeKey, conv, turn, panel, call>>
server == <<enabled, srv, stored>>
vars == <<client, wire, server>>

Terminal == {"completed", "cancelled", "failed"}
Active == {"pending", "streaming", "persisting"}
Awaiting == {"stream", "fallback"}
Serving == {"running", "saving", "saved", "finaled", "failing", "json"}
Events == {"status", "token", "persisting", "final", "done", "error",
           "disabled", "refused", "answer"}

\* The server's id of a conversation that a call creates is the call itself.
NoTurn == [key |-> NoKey, status |-> "pending"]
NoCall == [at |-> "none", sent |-> None, status |-> "idle", pending |-> FALSE, aborted |-> FALSE,
           attached |-> FALSE, dropped |-> FALSE, end |-> "none"]
NoRun == [at |-> "none", conv |-> None, fresh |-> FALSE]

TypeOK ==
    /\ page \in {"workspace", "settings"}
    /\ keys \subseteq Keys /\ activeKey \in keys
    /\ conv \in [Keys -> Calls \cup {None}]
    /\ turn \in [Calls -> [key : Keys \cup {NoKey}, status : Active \cup Terminal]]
    /\ panel \in Calls \cup {None}
    /\ call \in [Calls -> [at : Awaiting \cup {"none", "over"}, sent : Calls \cup {None},
                           status : {"idle", "working", "streaming", "persisting"} \cup Terminal,
                           pending : BOOLEAN, aborted : BOOLEAN,
                           attached : BOOLEAN, dropped : BOOLEAN,
                           end : {"none", "event", "stopped", "answered", "broken"}]]
    /\ wire \in [Calls -> Seq(Events)]
    /\ enabled \in BOOLEAN
    /\ srv \in [Calls -> [at : Serving \cup {"none", "closed"}, conv : Calls \cup {None},
                          fresh : BOOLEAN]]
    /\ stored \in [Calls -> Calls \cup {None}]

Init ==
    /\ page = "workspace"
    /\ \E k \in Keys : keys = {k} /\ activeKey = k
    /\ conv = [k \in Keys |-> None]
    /\ turn = [c \in Calls |-> NoTurn]
    /\ panel = None
    /\ call = [c \in Calls |-> NoCall]
    /\ wire = [c \in Calls |-> <<>>]
    /\ enabled \in BOOLEAN
    /\ srv = [c \in Calls |-> NoRun]
    /\ stored = [c \in Calls |-> None]

Live(c) == call[c].at \in Awaiting
Loading == panel # None /\ call[panel].status \notin Terminal

-----------------------------------------------------------------------------
(* The reducer: what an event makes of the state of a run.                 *)

Reduce(r, event) ==
    CASE event = "status" -> [r EXCEPT !.status = "working"]
      [] event \in {"persisting", "final"} -> [r EXCEPT !.status = "persisting"]
      [] event = "done" -> [r EXCEPT !.status = "completed"]
      [] event = "error" -> [r EXCEPT !.status = "failed"]
      [] event = "cancelled" -> [r EXCEPT !.status = "cancelled"]

\* flushPendingTokens: the buffered tokens are shown, whatever the status was.
Flush(r) ==
    IF r.pending /\ ~r.dropped THEN [r EXCEPT !.status = "streaming", !.pending = FALSE] ELSE r

\* After New Chat in the header the panel has no run: its events change nothing.
Handle(r, event) == IF r.dropped THEN r ELSE Reduce(Flush(r), event)

AssistantStatus(s) == IF s \in {"idle", "working"} THEN "pending" ELSE s

\* commitRunState: the panel's run, and its turn in the conversation it was asked in.
Shown(c, r) ==
    IF r.attached /\ ~r.dropped
    THEN [turn EXCEPT ![c].status = AssistantStatus(r.status)] ELSE turn
Commit(c, r) == call' = [call EXCEPT ![c] = r] /\ turn' = Shown(c, r)

\* The end of submitQuery: what is still buffered is flushed, after the status was set.
Over(c, r, end) == Commit(c, [Flush(r) EXCEPT !.at = "over", !.end = end])

-----------------------------------------------------------------------------
(* What the user does.                                                     *)

Submit(c) ==
    /\ page = "workspace" /\ ~Loading
    /\ panel # None => ~Live(panel)
    /\ call[c].at = "none"
    /\ call' = [call EXCEPT ![c] = [NoCall EXCEPT !.at = "stream", !.sent = conv[activeKey],
                                                  !.attached = TRUE]]
    /\ turn' = [turn EXCEPT ![c] = [NoTurn EXCEPT !.key = activeKey]]
    /\ panel' = c
    /\ UNCHANGED <<page, keys, activeKey, conv, wire, server>>

\* controller.abort(): the promise chain learns of it later.
Abort(r) == IF r.at \in Awaiting THEN [r EXCEPT !.aborted = TRUE] ELSE r

StopGeneration ==
    /\ page = "workspace" /\ Loading /\ Live(panel)
    /\ call[panel].status # "persisting"
    /\ call' = [call EXCEPT ![panel] = Abort(@)]
    /\ UNCHANGED <<page, keys, activeKey, conv, turn, panel, wire, server>>

\* The effect of a panel that goes away. What it had buffered stays in the call.
Unmount(drop) ==
    /\ call' = [c \in Calls |-> IF c # panel THEN call[c]
                                ELSE [Abort(call[c]) EXCEPT !.dropped = drop]]
    /\ panel' = None

NewChatCarries(drop) ==
    /\ page = "workspace"
    /\ \E k \in Keys \ keys :
         /\ keys' = keys \cup {k} /\ activeKey' = k
         /\ conv' = [conv EXCEPT ![k] = conv[activeKey]]
         /\ Unmount(drop)
    /\ UNCHANGED <<page, turn, wire, server>>

\* An empty conversation without selected books stays. The header's button forgets the
\* run of its panel first, the sidebar's does not.
NewChat(drop) ==
    /\ page = "workspace"
    /\ \E k \in Keys \ keys :
         /\ keys' = keys \cup {k} /\ activeKey' = k
         /\ Unmount(drop)
    /\ UNCHANGED <<page, conv, turn, wire, server>>

SelectConversation(k) ==
    /\ page = "workspace" /\ k \in keys \ {activeKey}
    /\ activeKey' = k
    /\ Unmount(FALSE)
    /\ UNCHANGED <<page, keys, conv, turn, wire, server>>

\* The workspace page goes away too: no later update reaches the conversations.
OpenSettings ==
    /\ page = "workspace" /\ page' = "settings"
    /\ call' = [c \in Calls |-> [(IF c = panel THEN Abort(call[c]) ELSE call[c])
                                    EXCEPT !.attached = FALSE]]
    /\ panel' = None
    /\ UNCHANGED <<keys, activeKey, conv, turn, wire, server>>

\* restoreConversationWorkspace: a turn that was under way is a failed one.
Restored == [c \in Calls |-> IF turn[c].status \in Active /\ turn[c].key # NoKey
                             THEN [turn[c] EXCEPT !.status = "failed"] ELSE turn[c]]

CloseSettings ==
    /\ page = "settings" /\ page' = "workspace"
    /\ turn' = Restored
    /\ UNCHANGED <<keys, activeKey, conv, panel, call, wire, server>>

\* The application is closed, at any point, and opened again.
Reload ==
    /\ page' = "workspace" /\ panel' = None
    /\ turn' = Restored
    /\ call' = [c \in Calls |-> IF Live(c) THEN [call[c] EXCEPT !.at = "over", !.end = "broken",
                                                                !.attached = FALSE]
                                ELSE [call[c] EXCEPT !.attached = FALSE]]
    /\ wire' = [c \in Calls |-> <<>>]
    /\ UNCHANGED <<keys, activeKey, conv, server>>

-----------------------------------------------------------------------------
(* What a call does: it reads events until the stream ends.                *)

Finished(c) == call[c].status \in Terminal

\* handleStreamEvent: tokens wait for the timer, any other event flushes them first.
ReadToken(c, event) ==
    /\ event = "token"
    /\ call' = [call EXCEPT ![c].pending = TRUE]
    /\ UNCHANGED <<turn, conv>>

\* updateConversation writes to the conversation of its own panel.
Identify(c) ==
    IF call[c].attached /\ ~call[c].dropped
    THEN conv' = [conv EXCEPT ![turn[c].key] = srv[c].conv] ELSE UNCHANGED conv

ReadEvent(c, event) ==
    /\ event \in {"status", "persisting", "final", "done", "error"}
    /\ Commit(c, Handle(call[c], event))
    /\ IF event = "final" THEN Identify(c) ELSE UNCHANGED conv

\* The response is an error: another endpoint may still answer.
Fallback(c, event) ==
    /\ event = "disabled"
    /\ call' = [call EXCEPT ![c].at = "fallback"]
    /\ UNCHANGED <<turn, conv>>

ReadRefusal(c, event) ==
    /\ event = "refused"
    /\ Over(c, Handle(call[c], "error"), "broken")
    /\ UNCHANGED conv

\* completeWithNonStreamingFallback.
ReadAnswer(c, event) ==
    /\ event = "answer"
    /\ Over(c, IF call[c].dropped THEN call[c]
               ELSE [call[c] EXCEPT !.status = "completed"], "answered")
    /\ Identify(c)

Read(c) ==
    /\ Live(c) /\ ~call[c].aborted /\ wire[c] # <<>>
    /\ wire' = [wire EXCEPT ![c] = Tail(@)]
    /\ LET event == Head(wire[c]) IN
         \/ ReadToken(c, event) \/ ReadEvent(c, event) \/ Fallback(c, event)
         \/ ReadRefusal(c, event) \/ ReadAnswer(c, event)
    /\ UNCHANGED <<page, keys, activeKey, panel, server>>

\* The timer of the mounted panel.
FlushTimer(c) ==
    /\ c = panel /\ call[c].pending /\ Commit(c, Flush(call[c]))
    /\ UNCHANGED <<page, keys, activeKey, conv, panel, wire, server>>

\* The stream ends after its terminal event.
EndOfStream(c) ==
    /\ call[c].at = "stream" /\ ~call[c].aborted /\ wire[c] = <<>>
    /\ srv[c].at \in {"failing", "closed"} /\ Finished(c)
    /\ Over(c, call[c], "event")
    /\ UNCHANGED <<page, keys, activeKey, conv, panel, wire, server>>

\* No connection, a broken one, an event that does not parse, or an end without a
\* terminal event.
Interrupted(c) ==
    /\ Live(c) /\ ~call[c].aborted
    /\ Over(c, IF call[c].status = "failed" \/ call[c].dropped THEN call[c]
               ELSE [call[c] EXCEPT !.status = "failed"], "broken")
    /\ wire' = [wire EXCEPT ![c] = <<>>]
    /\ UNCHANGED <<page, keys, activeKey, conv, panel, server>>

StoppedUnflushed(c) == [call[c] EXCEPT !.status = "cancelled"]
Stopped(c) == Handle(call[c], "cancelled")

\* The rejected read of an aborted call: the tokens are flushed, then it is cancelled.
Aborted(c) ==
    /\ Live(c) /\ call[c].aborted
    /\ Over(c, Stopped(c), "stopped")
    /\ wire' = [wire EXCEPT ![c] = <<>>]
    /\ UNCHANGED <<page, keys, activeKey, conv, panel, server>>

-----------------------------------------------------------------------------
(* The server.                                                             *)

Send(c, event) ==
    wire' = [wire EXCEPT ![c] = IF Live(c) /\ ~call[c].aborted THEN Append(@, event) ELSE @]
CanSend(c) == Len(wire[c]) < MaxWire

Busy(v) == \E d \in Calls : srv[d].at \in Serving /\ srv[d].conv = v
Exists(v) == \E d \in Calls : stored[d] = v

Refuse(c, event) == Send(c, event) /\ UNCHANGED <<client, server>>

\* The first request of a call. Its conversation must exist and have no other run.
Accept(c) ==
    /\ call[c].at = "stream" /\ srv[c].at = "none" /\ wire[c] = <<>>
    /\ \/ ~enabled /\ Refuse(c, "disabled")
       \/ enabled /\ Refuse(c, "refused")
       \/ /\ enabled
          /\ call[c].sent # None => Exists(call[c].sent) /\ ~Busy(call[c].sent)
          /\ srv' = [srv EXCEPT ![c] = [NoRun EXCEPT !.at = "running",
                        !.conv = IF call[c].sent = None THEN c ELSE call[c].sent,
                        !.fresh = (call[c].sent = None)]]
          /\ UNCHANGED <<client, wire, enabled, stored>>

Emit(c, event, from, to) ==
    /\ srv[c].at = from /\ CanSend(c)
    /\ srv' = [srv EXCEPT ![c].at = to]
    /\ Send(c, event)
    /\ UNCHANGED <<client, enabled, stored>>

EmitToken(c) == Emit(c, "token", "running", "running")
EmitStatus(c) == Emit(c, "status", "running", "running")
EmitPersisting(c) == Emit(c, "persisting", "running", "saving")
EmitFinal(c) == Emit(c, "final", "saved", "finaled")
EmitDoneUnmarked(c) == Emit(c, "done", "finaled", "failing")
EmitDone(c) == Emit(c, "done", "finaled", "closed")
EmitError(c) == \E from \in {"running", "saving", "saved"} : Emit(c, "error", from, "failing")

Store(c) ==
    /\ srv[c].at = "saving"
    /\ srv' = [srv EXCEPT ![c].at = "saved"]
    /\ stored' = [stored EXCEPT ![c] = srv[c].conv]
    /\ UNCHANGED <<client, wire, enabled>>

\* The client has gone away before the run was successful.
Disconnected(c) ==
    /\ srv[c].at \in {"running", "saving", "saved", "finaled"}
    /\ ~Live(c) \/ call[c].aborted
    /\ srv' = [srv EXCEPT ![c].at = "failing"]
    /\ UNCHANGED <<client, wire, enabled, stored>>

\* compensate_stream_persistence: the turn goes, and with a conversation the run created
\* all of its turns.
Compensate(c) ==
    /\ srv[c].at = "failing"
    /\ srv' = [srv EXCEPT ![c].at = "closed"]
    /\ stored' = [d \in Calls |-> IF d = c \/ (srv[c].fresh /\ stored[d] = srv[c].conv)
                                  THEN None ELSE stored[d]]
    /\ UNCHANGED <<client, wire, enabled>>

\* The JSON endpoint, which does not notice that its client is gone.
AcceptJson(c) ==
    /\ call[c].at = "fallback" /\ srv[c].at = "none" /\ wire[c] = <<>>
    /\ \/ Refuse(c, "refused")
       \/ /\ call[c].sent # None => Exists(call[c].sent) /\ ~Busy(call[c].sent)
          /\ srv' = [srv EXCEPT ![c] = [NoRun EXCEPT !.at = "json",
                        !.conv = IF call[c].sent = None THEN c ELSE call[c].sent]]
          /\ UNCHANGED <<client, wire, enabled, stored>>

AnswerJson(c) ==
    /\ srv[c].at = "json"
    /\ srv' = [srv EXCEPT ![c].at = "closed"]
    /\ \/ stored' = [stored EXCEPT ![c] = srv[c].conv] /\ Send(c, "answer")
       \/ Send(c, "refused") /\ UNCHANGED stored
    /\ UNCHANGED <<client, enabled>>

-----------------------------------------------------------------------------

User == \/ \E c \in Calls : Submit(c)
        \/ StopGeneration \/ OpenSettings \/ CloseSettings \/ Reload
        \/ \E drop \in BOOLEAN : NewChat(drop)
        \/ \E k \in Keys : SelectConversation(k)

Chain(c) == Read(c) \/ FlushTimer(c) \/ EndOfStream(c) \/ Interrupted(c) \/ Aborted(c)

Serve(c) == \/ Accept(c) \/ EmitToken(c) \/ EmitStatus(c) \/ EmitPersisting(c)
            \/ EmitFinal(c) \/ EmitDone(c) \/ EmitError(c) \/ Store(c)
            \/ Disconnected(c) \/ Compensate(c) \/ AcceptJson(c) \/ AnswerJson(c)

Next == User \/ \E c \in Calls : Chain(c) \/ Serve(c)

Symmetry == Permutations(Calls) \cup Permutations(Keys)

Spec == Init /\ [][Next]_vars

-----------------------------------------------------------------------------
(* Properties.                                                             *)

\* A turn shown as completed is stored on the server, in the server conversation its
\* local conversation continues: "done" is read only after a run whose persistence is
\* never undone (stateMachine.ts, streaming/service.py).
CompletedIsStored ==
    \A c \in Calls : turn[c].key # NoKey /\ turn[c].status = "completed" =>
        stored[c] # None /\ stored[c] = conv[turn[c].key]

\* Two local conversations never continue the same server conversation, whatever was
\* selected when the answer arrived
\* (conversationWorkspace.test.ts: late updates apply "only to their originating conversation").
ConversationsApart ==
    \A k, l \in Keys : k # l /\ conv[k] # None => conv[k] # conv[l]

\* A call that read a terminal event, was stopped or was answered leaves its panel ready
\* for the next question (RagQueryPanel.streaming.test.tsx: "marks cancellation, and unlocks
\* the next turn"), and a turn that is shown as under way belongs to a call that is: one
\* whose call has settled, or was lost in a restart or behind the settings, is not.
\* Excepted are a stream that breaks with buffered tokens (RagQueryPanel.tsx:251) and
\* New Chat in the header (:304): both leave a turn under way until the next restart.
SettledUnlocks ==
    /\ \A c \in Calls :
        call[c].end \in {"event", "stopped", "answered"} /\ ~call[c].dropped =>
            (panel = c => ~Loading)
    /\ page = "workspace" =>
        \A c \in Calls : turn[c].key # NoKey /\ turn[c].status \in Active =>
            call[c].attached /\ (Live(c) \/ call[c].dropped \/ call[c].end = "broken")
===========================================================================
