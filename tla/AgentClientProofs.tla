------------------------- MODULE AgentClientProofs -------------------------
(***************************************************************************)
(* What the client shows as completed is stored, no two of its             *)
(* conversations continue the same one of the server, and a call that has  *)
(* settled has unlocked its panel: for any number of conversations and     *)
(* calls, in any order of clicks, events and failures.                     *)
(***************************************************************************)
EXTENDS AgentClient, TLAPS

-----------------------------------------------------------------------------
(* The inductive invariant, in parts.                                      *)

Sent(c, event) == \E i \in 1 .. Len(wire[c]) : wire[c][i] = event

\* A call that still reads what is sent to it, and one whose events are shown.
Reading(c) == Live(c) /\ ~call[c].aborted
Showing(c) == call[c].attached /\ ~call[c].dropped

\* The workspace: a key that is not used yet has no conversation, and a turn belongs
\* to a key that is used.
KeysInv ==
    /\ \A k \in Keys \ keys : conv[k] = None
    /\ \A c \in Calls : turn[c].key = NoKey \/ turn[c].key \in keys
    /\ \A c \in Calls : call[c].at = "none" => turn[c] = NoTurn /\ call[c] = NoCall
    /\ \A c \in Calls : call[c].at # "none" => turn[c].key # NoKey

\* Only the call of the mounted panel is read and shown.
PanelInv ==
    /\ \A c \in Calls : Reading(c) /\ Showing(c) =>
           panel = c /\ page = "workspace" /\ turn[c].key = activeKey
    /\ panel # None => ~call[panel].dropped /\ call[panel].at # "none"

\* A conversation of the server bears the name of the call that created it, and is the
\* one of the local conversation in which that call was made.
OwnerInv ==
    /\ \A k \in Keys : conv[k] # None => turn[conv[k]].key = k
    /\ \A c \in Calls : call[c].sent # None =>
           conv[turn[c].key] = call[c].sent

\* The server: a run continues the conversation it was sent, or creates its own.
RunInv ==
    \A c \in Calls :
        /\ srv[c].at = "none" => srv[c] = NoRun /\ stored[c] = None
        /\ srv[c].at # "none" =>
               /\ call[c].at # "none"
               /\ srv[c].conv = IF call[c].sent = None THEN c ELSE call[c].sent
               /\ srv[c].fresh => srv[c].conv = c
               /\ srv[c].conv # c => srv[srv[c].conv].at = "closed"
        /\ stored[c] # None => stored[c] = srv[c].conv
        /\ srv[c].at \in {"saved", "finaled"} => stored[c] = srv[c].conv

\* While a call is shown, its conversation has no other name than the one it was sent or
\* the one its run has.
NamedInv ==
    \A c \in Calls : Reading(c) /\ Showing(c) =>
        conv[turn[c].key] \in {call[c].sent, srv[c].conv}

Identified(c) == Showing(c) => conv[turn[c].key] = srv[c].conv

\* What is under way to a client: "done" comes after "final" and only from a run whose
\* turn stays, an answer only from one that is stored.
WireInv ==
    \A c \in Calls :
        /\ srv[c].at = "none" => ~Sent(c, "final") /\ ~Sent(c, "done") /\ ~Sent(c, "answer")
        /\ Reading(c) =>
            /\ srv[c].at = "finaled" => Identified(c) \/ Sent(c, "final")
            /\ \A i \in 1 .. Len(wire[c]) :
                 /\ wire[c][i] = "done" =>
                        /\ srv[c].at = "closed" /\ stored[c] = srv[c].conv
                        /\ Identified(c) \/ \E j \in 1 .. i - 1 : wire[c][j] = "final"
                 /\ wire[c][i] = "answer" => srv[c].at = "closed" /\ stored[c] = srv[c].conv
                 /\ wire[c][i] = "final" => srv[c].at # "none"

\* A call that is shown as completed has its turn stored and its conversation named.
CompletedInv ==
    \A c \in Calls :
        (call[c].status = "completed" /\ Showing(c)) \/ turn[c].status = "completed" =>
            /\ srv[c].at = "closed" /\ stored[c] = srv[c].conv
            /\ conv[turn[c].key] = srv[c].conv

IInv ==
    /\ TypeOK /\ KeysInv /\ PanelInv /\ OwnerInv /\ RunInv /\ NamedInv /\ WireInv
    /\ CompletedInv

-----------------------------------------------------------------------------
(* The types of the records, and what the operators do to them.            *)

CallType ==
    [at : Awaiting \cup {"none", "over"}, sent : Calls \cup {None},
     status : {"idle", "working", "streaming", "persisting"} \cup Terminal,
     pending : BOOLEAN, aborted : BOOLEAN, attached : BOOLEAN, dropped : BOOLEAN,
     end : {"none", "event", "stopped", "answered", "broken"}]
TurnType == [key : Keys \cup {NoKey}, status : Active \cup Terminal]
RunType == [at : Serving \cup {"none", "closed"}, conv : Calls \cup {None}, fresh : BOOLEAN]

LEMMA Types ==
    TypeOK <=> /\ page \in {"workspace", "settings"}
               /\ keys \subseteq Keys /\ activeKey \in keys
               /\ conv \in [Keys -> Calls \cup {None}]
               /\ turn \in [Calls -> TurnType]
               /\ panel \in Calls \cup {None}
               /\ call \in [Calls -> CallType]
               /\ wire \in [Calls -> Seq(Events)]
               /\ enabled \in BOOLEAN
               /\ srv \in [Calls -> RunType]
               /\ stored \in [Calls -> Calls \cup {None}]
  BY DEF TypeOK, CallType, TurnType, RunType

\* What stays of a call when it is read, flushed or aborted.
SameCall(q, r) ==
    q.at = r.at /\ q.sent = r.sent /\ q.attached = r.attached /\ q.dropped = r.dropped

LEMMA AbortFacts ==
    ASSUME NEW r \in CallType
    PROVE  /\ Abort(r) \in CallType /\ SameCall(Abort(r), r)
           /\ Abort(r).status = r.status
           /\ r.aborted => Abort(r).aborted
           /\ r.at \in Awaiting => Abort(r).aborted
  BY DEF Abort, CallType, SameCall, Awaiting

LEMMA FlushFacts ==
    ASSUME NEW r \in CallType
    PROVE  /\ Flush(r) \in CallType /\ SameCall(Flush(r), r)
           /\ Flush(r).aborted = r.aborted
           /\ Flush(r).status = "completed" => r.status = "completed"
  BY DEF Flush, CallType, SameCall

LEMMA HandleFacts ==
    ASSUME NEW r \in CallType,
           NEW event \in {"status", "persisting", "final", "done", "error", "cancelled"}
    PROVE  /\ Handle(r, event) \in CallType /\ SameCall(Handle(r, event), r)
           /\ Handle(r, event).aborted = r.aborted
           /\ r.dropped => Handle(r, event) = r
           /\ ~r.dropped /\ event # "done" => Handle(r, event).status # "completed"
<1>1. CASE r.dropped
  BY <1>1 DEF Handle, SameCall
<1>2. CASE ~r.dropped
  <2> DEFINE f == Flush(r)
  <2>1. f \in CallType /\ SameCall(f, r) /\ f.aborted = r.aborted
    BY FlushFacts
  <2> HIDE DEF f
  <2>2. Handle(r, event) = Reduce(f, event)
    BY <1>2 DEF Handle, f
  <2>3. /\ Reduce(f, event) \in CallType /\ SameCall(Reduce(f, event), f)
        /\ Reduce(f, event).aborted = f.aborted
        /\ event # "done" => Reduce(f, event).status # "completed"
    <3>1. CASE event = "status"
      BY <2>1, <3>1 DEF Reduce, CallType, SameCall, Terminal
    <3>2. CASE event \in {"persisting", "final"}
      BY <2>1, <3>2 DEF Reduce, CallType, SameCall, Terminal
    <3>3. CASE event = "done"
      BY <2>1, <3>3 DEF Reduce, CallType, SameCall, Terminal
    <3>4. CASE event = "error"
      BY <2>1, <3>4 DEF Reduce, CallType, SameCall, Terminal
    <3>5. CASE event = "cancelled"
      BY <2>1, <3>5 DEF Reduce, CallType, SameCall, Terminal
    <3> QED
      BY <3>1, <3>2, <3>3, <3>4, <3>5
  <2> QED
    BY <1>2, <2>1, <2>2, <2>3 DEF SameCall
<1> QED
  BY <1>1, <1>2

LEMMA NoRecords ==
    /\ NoCall.at = "none" /\ NoCall.sent = None /\ ~NoCall.attached /\ ~NoCall.dropped
    /\ ~NoCall.aborted /\ NoCall.status = "idle"
    /\ NoTurn.status = "pending" /\ NoTurn.key = NoKey
    /\ NoRun.at = "none" /\ NoRun.conv = None /\ ~NoRun.fresh
  BY DEF NoCall, NoTurn, NoRun

LEMMA InitIInv == ASSUME Init PROVE IInv
<1>1. TypeOK
  BY DEF Init, TypeOK, NoTurn, NoCall, NoRun, Active, Terminal
<1>2. \A c \in Calls : /\ call[c] = NoCall /\ turn[c] = NoTurn /\ srv[c] = NoRun
                       /\ stored[c] = None /\ wire[c] = <<>>
  BY DEF Init
<1>3. \A c \in Calls : /\ call[c].at = "none" /\ call[c].sent = None /\ ~call[c].attached
                       /\ turn[c].status = "pending" /\ turn[c].key = NoKey
                       /\ srv[c].at = "none"
  BY <1>2, NoRecords
<1>4. \A c \in Calls : ~Reading(c) /\ ~Showing(c)
  BY <1>3 DEF Reading, Live, Awaiting, Showing
<1>5. KeysInv /\ PanelInv /\ OwnerInv
  BY <1>2, <1>3, <1>4 DEF Init, KeysInv, PanelInv, OwnerInv
<1>6. RunInv /\ NamedInv /\ CompletedInv
  BY <1>2, <1>3, <1>4 DEF RunInv, NamedInv, CompletedInv
<1>7. WireInv
  <2>1. \A c \in Calls, e \in Events : ~Sent(c, e)
    BY <1>2 DEF Sent
  <2> QED
    BY <1>4, <2>1 DEF WireInv, Events
<1> QED
  BY <1>1, <1>5, <1>6, <1>7 DEF IInv

-----------------------------------------------------------------------------
(* The client's steps.                                                     *)

\* A run that has started has a conversation, and the one shown has no other name.
LEMMA RunHasName ==
    ASSUME IInv, NEW c \in Calls, srv[c].at # "none"
    PROVE  /\ srv[c].conv \in Calls /\ srv[c].conv # None
           /\ turn[c].key \in Keys
           /\ Reading(c) /\ Showing(c) =>
                 /\ conv[turn[c].key] \in {None, srv[c].conv}
                 /\ conv[turn[c].key] = None => srv[c].conv = c
<1>1. srv[c].conv \in Calls /\ turn[c].key \in Keys
  BY Types DEF IInv, RunInv, KeysInv, CallType, TurnType
<1>2. Reading(c) /\ Showing(c) => conv[turn[c].key] \in {call[c].sent, srv[c].conv}
  BY DEF IInv, NamedInv
<1>3. srv[c].conv = IF call[c].sent = None THEN c ELSE call[c].sent
  BY DEF IInv, RunInv
<1>4. conv[turn[c].key] = None => call[c].sent = None
  BY DEF IInv, OwnerInv
<1> QED
  BY <1>1, <1>2, <1>3, <1>4, ConstantsAssumption

\* A call keeps its question, and reads and is shown no more than before.
SameCalls ==
    \A d \in Calls :
        /\ turn'[d].key = turn[d].key /\ call'[d].sent = call[d].sent
        /\ call'[d].at = "none" <=> call[d].at = "none"
        /\ call[d].at = "none" => turn'[d] = turn[d] /\ call'[d] = call[d]
        /\ Reading(d)' => Reading(d)
        /\ Showing(d)' => Showing(d)

\* A conversation is named once, by the call that is shown in it.
NamesOnce ==
    \A k \in Keys :
        \/ conv'[k] = conv[k]
        \/ /\ conv[k] = None
           /\ \E c \in Calls : /\ Reading(c) /\ Showing(c) /\ turn[c].key = k
                               /\ srv[c].conv = c /\ conv'[k] = c

ReadsInOrder ==
    \A d \in Calls :
        \/ wire'[d] = wire[d]
        \/ wire'[d] = <<>> /\ ~Reading(d)'
        \/ /\ wire[d] # <<>> /\ wire'[d] = Tail(wire[d])
           /\ Head(wire[d]) = "final" => Identified(d)'

CompletesStored ==
    \A d \in Calls :
        (call'[d].status = "completed" /\ Showing(d)') \/ turn'[d].status = "completed" =>
            \/ (call[d].status = "completed" /\ Showing(d)) \/ turn[d].status = "completed"
            \/ /\ srv[d].at = "closed" /\ stored[d] = srv[d].conv
               /\ conv'[turn[d].key] = srv[d].conv

ClientStep ==
    /\ UNCHANGED server
    /\ SameCalls /\ NamesOnce /\ ReadsInOrder /\ CompletesStored

LEMMA TailFacts ==
    ASSUME NEW s \in Seq(Events), s # <<>>
    PROVE  /\ Tail(s) \in Seq(Events) /\ Len(Tail(s)) = Len(s) - 1 /\ Len(s) \in Nat
           /\ Head(s) = s[1] /\ Head(s) \in Events
           /\ \A i \in 1 .. Len(s) - 1 : Tail(s)[i] = s[i + 1]
  OBVIOUS

\* WireInv of one call.
WireOf(c) ==
    /\ srv[c].at = "none" => ~Sent(c, "final") /\ ~Sent(c, "done") /\ ~Sent(c, "answer")
    /\ Reading(c) =>
        /\ srv[c].at = "finaled" => Identified(c) \/ Sent(c, "final")
        /\ \A i \in 1 .. Len(wire[c]) :
             /\ wire[c][i] = "done" =>
                    /\ srv[c].at = "closed" /\ stored[c] = srv[c].conv
                    /\ Identified(c) \/ \E j \in 1 .. i - 1 : wire[c][j] = "final"
             /\ wire[c][i] = "answer" => srv[c].at = "closed" /\ stored[c] = srv[c].conv
             /\ wire[c][i] = "final" => srv[c].at # "none"

LEMMA WireParts == WireInv <=> \A c \in Calls : WireOf(c)
  BY DEF WireInv, WireOf

LEMMA ClientStepKeeps ==
    ASSUME IInv, TypeOK', KeysInv', PanelInv', ClientStep
    PROVE  IInv'
<1> USE DEF IInv, ClientStep
<1>1. srv' = srv /\ stored' = stored
  BY DEF server
<1>2. \A k \in Keys : conv[k] # None => conv'[k] = conv[k]
  BY DEF NamesOnce
<1>3. OwnerInv'
  <2>1. ASSUME NEW k \in Keys, conv'[k] # None PROVE turn'[conv'[k]].key = k
    <3>1. CASE conv'[k] = conv[k]
      <4>1. conv[k] \in Calls
        BY <2>1, <3>1, Types
      <4> QED
        BY <2>1, <3>1, <4>1 DEF OwnerInv, SameCalls
    <3>2. CASE conv'[k] # conv[k]
      BY <3>2 DEF NamesOnce, SameCalls
    <3> QED
      BY <3>1, <3>2
  <2>2. ASSUME NEW c \in Calls, call'[c].sent # None
        PROVE  conv'[turn'[c].key] = call'[c].sent
    <3>1. call[c].sent # None /\ conv[turn[c].key] = call[c].sent
      BY <2>2 DEF OwnerInv, SameCalls
    <3>2. call[c].at # "none"
      BY <3>1 DEF KeysInv, NoCall
    <3>3. turn[c].key \in Keys
      BY <3>2, Types DEF KeysInv, TurnType
    <3> QED
      BY <1>2, <3>1, <3>3 DEF SameCalls
  <2> QED
    BY <2>1, <2>2 DEF OwnerInv
<1>4. RunInv'
  BY <1>1 DEF RunInv, SameCalls
<1>5. NamedInv'
  <2> SUFFICES ASSUME NEW c \in Calls, Reading(c)', Showing(c)'
               PROVE  conv'[turn'[c].key] \in {call'[c].sent, srv'[c].conv}
    BY DEF NamedInv
  <2>1. Reading(c) /\ Showing(c) /\ turn[c].key \in Keys
    BY Types DEF SameCalls, KeysInv, Reading, Live, Awaiting, TurnType
  <2>2. conv[turn[c].key] \in {call[c].sent, srv[c].conv}
    BY <2>1 DEF NamedInv
  <2>3. CASE conv'[turn[c].key] = conv[turn[c].key]
    BY <1>1, <2>2, <2>3 DEF SameCalls
  <2>4. CASE conv'[turn[c].key] # conv[turn[c].key]
    <3>1. PICK d \in Calls : /\ Reading(d) /\ Showing(d) /\ srv[d].conv = d
                             /\ conv'[turn[c].key] = d
      BY <2>1, <2>4 DEF NamesOnce
    <3>2. d = c
      BY <2>1, <3>1 DEF PanelInv
    <3> QED
      BY <1>1, <3>1, <3>2 DEF SameCalls
  <2> QED
    BY <2>3, <2>4
<1>6. ASSUME NEW c \in Calls, srv[c].at # "none", Identified(c)
      PROVE  Identified(c)'
  BY <1>1, <1>2, <1>6, RunHasName DEF Identified, SameCalls
<1>7. WireInv'
  <2> SUFFICES ASSUME NEW c \in Calls PROVE WireOf(c)'
    BY DEF WireInv, WireOf
  <2>1. WireOf(c) /\ wire[c] \in Seq(Events)
    BY WireParts, Types
  <2>2. CASE wire'[c] = wire[c]
    BY <1>1, <1>6, <2>1, <2>2 DEF WireOf, Sent, SameCalls
  <2>3. CASE wire'[c] = <<>> /\ ~Reading(c)'
    BY <2>3 DEF WireOf, Sent
  <2>4. CASE wire[c] # <<>> /\ wire'[c] = Tail(wire[c])
             /\ (Head(wire[c]) = "final" => Identified(c)')
    <3> DEFINE s == wire[c]
    <3>1. /\ Len(wire'[c]) = Len(s) - 1 /\ Len(s) \in Nat /\ Len(s) > 0
          /\ Head(s) = s[1] /\ \A i \in 1 .. Len(s) - 1 : wire'[c][i] = s[i + 1]
      BY <2>1, <2>4, TailFacts
    <3>2. \A e : Sent(c, e)' => Sent(c, e)
      BY <3>1 DEF Sent
    <3>3. Sent(c, "final") => Identified(c)' \/ Sent(c, "final")'
      <4> SUFFICES ASSUME NEW i \in 1 .. Len(s), s[i] = "final", s[1] # "final"
                   PROVE  Sent(c, "final")'
        BY <2>4, <3>1 DEF Sent
      <4>1. i - 1 \in 1 .. Len(s) - 1 /\ wire'[c][i - 1] = s[i]
        BY <3>1
      <4> QED
        BY <3>1, <4>1 DEF Sent
    <3>4. ASSUME Reading(c)', NEW i \in 1 .. Len(s) - 1, wire'[c][i] = "done"
          PROVE  /\ srv[c].at = "closed" /\ stored[c] = srv[c].conv
                 /\ Identified(c)' \/ \E j \in 1 .. i - 1 : wire'[c][j] = "final"
      <4>1. i + 1 \in 1 .. Len(s) /\ s[i + 1] = "done" /\ Reading(c)
        BY <3>1, <3>4 DEF SameCalls
      <4>2. /\ srv[c].at = "closed" /\ stored[c] = srv[c].conv
            /\ Identified(c) \/ \E j \in 1 .. (i + 1) - 1 : s[j] = "final"
        BY <2>1, <4>1 DEF WireOf
      <4>3. CASE Identified(c)
        BY <1>6, <4>2, <4>3
      <4>4. ASSUME NEW j \in 1 .. (i + 1) - 1, s[j] = "final", j # 1
            PROVE  \E l \in 1 .. i - 1 : wire'[c][l] = "final"
        <5>1. j - 1 \in 1 .. i - 1 /\ wire'[c][j - 1] = s[j]
          BY <3>1, <4>4
        <5> QED
          BY <4>4, <5>1
      <4> QED
        BY <2>4, <3>1, <4>2, <4>3, <4>4
    <3>5. ASSUME Reading(c)', NEW i \in 1 .. Len(s) - 1
          PROVE  /\ wire'[c][i] = "answer" => srv[c].at = "closed" /\ stored[c] = srv[c].conv
                 /\ wire'[c][i] = "final" => srv[c].at # "none"
      <4>1. i + 1 \in 1 .. Len(s) /\ wire'[c][i] = s[i + 1] /\ Reading(c)
        BY <3>1, <3>5 DEF SameCalls
      <4> QED
        BY <2>1, <4>1 DEF WireOf
    <3>6. Reading(c)' /\ srv[c].at = "finaled" => Identified(c)' \/ Sent(c, "final")'
      BY <1>6, <2>1, <3>3 DEF WireOf, SameCalls
    <3>7. srv[c].at = "none" =>
            ~Sent(c, "final")' /\ ~Sent(c, "done")' /\ ~Sent(c, "answer")'
      BY <2>1, <3>2 DEF WireOf
    <3> QED
      BY <1>1, <3>1, <3>4, <3>5, <3>6, <3>7 DEF WireOf
  <2> QED
    BY <2>2, <2>3, <2>4 DEF ReadsInOrder
<1>8. CompletedInv'
  <2> SUFFICES ASSUME NEW c \in Calls,
                      (call'[c].status = "completed" /\ Showing(c)')
                        \/ turn'[c].status = "completed"
               PROVE  /\ srv'[c].at = "closed" /\ stored'[c] = srv'[c].conv
                      /\ conv'[turn'[c].key] = srv'[c].conv
    BY DEF CompletedInv
  <2>1. CASE (call[c].status = "completed" /\ Showing(c)) \/ turn[c].status = "completed"
    <3>1. /\ srv[c].at = "closed" /\ stored[c] = srv[c].conv
          /\ conv[turn[c].key] = srv[c].conv
      BY <2>1 DEF CompletedInv
    <3>2. srv[c].conv # None /\ turn[c].key \in Keys
      BY <3>1, RunHasName
    <3> QED
      BY <1>1, <1>2, <3>1, <3>2 DEF SameCalls
  <2>2. CASE /\ srv[c].at = "closed" /\ stored[c] = srv[c].conv
             /\ conv'[turn[c].key] = srv[c].conv
    BY <1>1, <2>2 DEF SameCalls
  <2> QED
    BY <2>1, <2>2 DEF CompletesStored
<1> QED
  BY <1>3, <1>4, <1>5, <1>7, <1>8

\* A step of a call's promise chain: it changes the call, and what is shown of it.
LEMMA ChainKeeps ==
    ASSUME IInv, NEW c \in Calls, call[c].at # "none",
           NEW r \in CallType, r.sent = call[c].sent, r.attached = call[c].attached,
           r.dropped = call[c].dropped,
           r.at \in {call[c].at, "over"} \/ (r.at = "fallback" /\ Live(c)),
           call[c].aborted => r.aborted,
           call' = [call EXCEPT ![c] = r], turn' \in {turn, Shown(c, r)},
           UNCHANGED <<page, keys, activeKey, panel, server>>,
           conv' \in [Keys -> Calls \cup {None}], NamesOnce,
           wire' \in [Calls -> Seq(Events)], ReadsInOrder,
           r.status = "completed" /\ Showing(c) =>
               \/ call[c].status = "completed"
               \/ /\ srv[c].at = "closed" /\ stored[c] = srv[c].conv
                  /\ conv'[turn[c].key] = srv[c].conv
    PROVE  IInv'
<1> USE DEF IInv
<1>1. /\ call \in [Calls -> CallType] /\ turn \in [Calls -> TurnType]
      /\ call'[c] = r /\ \A d \in Calls \ {c} : call'[d] = call[d]
      /\ call' \in [Calls -> CallType]
  BY Types
<1>2. r.status \in {"idle", "working", "streaming", "persisting"} \cup Terminal
  BY DEF CallType
<1>3. /\ turn' \in [Calls -> TurnType]
      /\ \A d \in Calls : turn'[d].key = turn[d].key /\ (d # c => turn'[d] = turn[d])
      /\ turn'[c].status = "completed" =>
             turn[c].status = "completed" \/ (r.status = "completed" /\ Showing(c))
  <2>1. CASE turn' = turn
    BY <1>1, <2>1
  <2>2. CASE turn' = [turn EXCEPT ![c].status = AssistantStatus(r.status)] /\ Showing(c)
    <3>1. /\ AssistantStatus(r.status) \in Active \cup Terminal
          /\ AssistantStatus(r.status) = "completed" => r.status = "completed"
      BY <1>2 DEF AssistantStatus, Active, Terminal
    <3> DEFINE shown == [turn[c] EXCEPT !.status = AssistantStatus(r.status)]
    <3>2. /\ shown \in TurnType /\ shown.key = turn[c].key
          /\ shown.status = AssistantStatus(r.status)
      BY <1>1, <3>1, SMTT(30) DEF TurnType
    <3>3. turn' = [turn EXCEPT ![c] = shown]
      BY <2>2
    <3> HIDE DEF shown
    <3> QED
      BY <1>1, <2>2, <3>1, <3>2, <3>3
  <2> QED
    BY <2>1, <2>2 DEF Shown, Showing
<1>4. TypeOK'
  BY <1>1, <1>3, Types DEF TypeOK, server, CallType, TurnType
<1>5. SameCalls
  BY <1>1, <1>3 DEF SameCalls, Reading, Live, Showing, Awaiting
<1>6. KeysInv'
  <2>1. ASSUME NEW k \in Keys \ keys PROVE conv'[k] = None
    BY ConstantsAssumption DEF NamesOnce, KeysInv
  <2> QED
    BY <1>1, <1>3, <2>1, SMTT(30) DEF KeysInv
<1>7. PanelInv'
  BY <1>1, <1>3, <1>5, Types DEF PanelInv, SameCalls
<1>8. CompletesStored
  BY <1>1, <1>3 DEF CompletesStored, Showing
<1> QED
  BY <1>4, <1>5, <1>6, <1>7, <1>8, ClientStepKeeps DEF ClientStep

\* The user takes the panel away, or the page.
LEMMA UnmountFacts ==
    ASSUME IInv, NEW drop \in BOOLEAN, Unmount(drop), turn' = turn
    PROVE  /\ call' \in [Calls -> CallType] /\ panel' = None /\ SameCalls
           /\ \A d \in Calls : ~(Reading(d)' /\ Showing(d)')
           /\ \A d \in Calls : call'[d].status = call[d].status
<1> USE DEF IInv
<1>1. call \in [Calls -> CallType] /\ panel \in Calls \cup {None} /\ panel' = None
  BY Types DEF Unmount
<1>2. \A d \in Calls : d # panel => call'[d] = call[d]
  BY DEF Unmount
<1>3. ASSUME NEW p \in Calls, p = panel
      PROVE  /\ call'[p] \in CallType /\ call'[p].sent = call[p].sent
             /\ call'[p].at = call[p].at /\ call[p].at # "none"
             /\ call'[p].status = call[p].status
             /\ ~Reading(p)' /\ (Showing(p)' => Showing(p))
  <2> DEFINE a == Abort(call[p])
  <2>1. call[p] \in CallType /\ panel # None
    BY <1>1, <1>3, ConstantsAssumption
  <2>2. /\ a \in CallType /\ SameCall(a, call[p]) /\ a.status = call[p].status
        /\ call[p].at \in Awaiting => a.aborted
    BY <2>1, AbortFacts
  <2>3. call'[p] = [a EXCEPT !.dropped = drop]
    BY <1>3 DEF Unmount
  <2> HIDE DEF a
  <2> QED
    BY <1>3, <2>1, <2>2, <2>3 DEF CallType, SameCall, PanelInv, Reading, Live, Showing
<1>4. call' \in [Calls -> CallType]
  BY <1>1, <1>2, <1>3 DEF Unmount
<1>5. SameCalls
  BY <1>2, <1>3 DEF SameCalls, Reading, Live, Showing
<1>6. \A d \in Calls : ~(Reading(d)' /\ Showing(d)')
  BY <1>2, <1>3, <1>5 DEF SameCalls, PanelInv
<1>7. \A d \in Calls : call'[d].status = call[d].status
  BY <1>2, <1>3
<1> QED
  BY <1>1, <1>4, <1>5, <1>6, <1>7

LEMMA NewChatKeeps == ASSUME IInv, NEW drop \in BOOLEAN, NewChat(drop) PROVE IInv'
<1> USE DEF IInv
<1>1. Unmount(drop) /\ UNCHANGED <<page, conv, turn, wire, server>>
  BY DEF NewChat
<1>2. keys' \subseteq Keys /\ activeKey' \in keys' /\ keys \subseteq keys'
  BY Types DEF NewChat
<1>3. TypeOK'
  BY <1>1, <1>2, UnmountFacts, Types DEF TypeOK, server, CallType, TurnType
<1>4. KeysInv' /\ PanelInv'
  BY <1>1, <1>2, UnmountFacts DEF KeysInv, PanelInv, SameCalls
<1>5. ClientStep
  BY <1>1, UnmountFacts
     DEF ClientStep, NamesOnce, ReadsInOrder, CompletesStored, SameCalls
<1> QED
  BY <1>3, <1>4, <1>5, ClientStepKeeps

LEMMA SelectKeeps ==
    ASSUME IInv, NEW k \in Keys, SelectConversation(k) PROVE IInv'
<1> USE DEF IInv
<1>1. Unmount(FALSE) /\ UNCHANGED <<page, keys, conv, turn, wire, server>>
  BY DEF SelectConversation
<1>2. activeKey' \in keys
  BY DEF SelectConversation
<1>3. TypeOK'
  BY <1>1, <1>2, UnmountFacts, Types DEF TypeOK, server, CallType, TurnType
<1>4. KeysInv' /\ PanelInv'
  BY <1>1, <1>2, UnmountFacts DEF KeysInv, PanelInv, SameCalls
<1>5. ClientStep
  BY <1>1, UnmountFacts
     DEF ClientStep, NamesOnce, ReadsInOrder, CompletesStored, SameCalls
<1> QED
  BY <1>3, <1>4, <1>5, ClientStepKeeps

LEMMA StopKeeps == ASSUME IInv, StopGeneration PROVE IInv'
<1> USE DEF IInv
<1>1. PICK p \in Calls : p = panel
  BY Types DEF StopGeneration, Loading
<1>2. call \in [Calls -> CallType] /\ call' = [call EXCEPT ![p] = Abort(call[p])]
  BY <1>1, Types DEF StopGeneration
<1>3. /\ Abort(call[p]) \in CallType /\ SameCall(Abort(call[p]), call[p])
      /\ call[p].aborted => Abort(call[p]).aborted
      /\ Abort(call[p]).status = call[p].status
  BY <1>2, AbortFacts
<1>4. call[p].at # "none"
  BY <1>1, ConstantsAssumption DEF PanelInv
<1>5. UNCHANGED <<page, keys, activeKey, conv, turn, panel, wire, server>>
  BY DEF StopGeneration
<1>6. NamesOnce /\ ReadsInOrder
  BY <1>5 DEF NamesOnce, ReadsInOrder
<1>7. conv' \in [Keys -> Calls \cup {None}] /\ wire' \in [Calls -> Seq(Events)]
  BY <1>5, Types
<1> HIDE DEF IInv
<1> QED
  BY <1>2, <1>3, <1>4, <1>5, <1>6, <1>7, ChainKeeps DEF SameCall

LEMMA RestoredFacts ==
    ASSUME TypeOK
    PROVE  /\ Restored \in [Calls -> TurnType]
           /\ \A d \in Calls :
                  /\ Restored[d].status = "completed" => turn[d].status = "completed"
                  /\ Restored[d].key = turn[d].key
                  /\ turn[d].key = NoKey => Restored[d] = turn[d]
<1>1. ASSUME NEW d \in Calls
      PROVE  /\ Restored[d] \in TurnType /\ Restored[d].key = turn[d].key
             /\ Restored[d].status = "completed" => turn[d].status = "completed"
             /\ turn[d].key = NoKey => Restored[d] = turn[d]
  <2>1. turn[d] \in TurnType
    BY Types
  <2>2. CASE Restored[d] = turn[d]
    BY <2>1, <2>2
  <2>3. CASE Restored[d] = [turn[d] EXCEPT !.status = "failed"] /\ turn[d].key # NoKey
    BY <2>1, <2>3 DEF TurnType, Terminal
  <2> QED
    BY <2>2, <2>3 DEF Restored
<1> QED
  BY <1>1 DEF Restored

\* The page goes away, or comes back: no turn is completed by it.
LEMMA PageKeeps ==
    ASSUME IInv, panel' = None, UNCHANGED <<keys, activeKey, conv, server>>,
           page' \in {"workspace", "settings"},
           turn' \in {turn, Restored},
           call' \in [Calls -> CallType], SameCalls,
           \A d \in Calls : ~(Reading(d)' /\ Showing(d)') /\ call'[d].status = call[d].status,
           wire' \in [Calls -> Seq(Events)], ReadsInOrder
    PROVE  IInv'
<1> USE DEF IInv
<1>1. /\ turn' \in [Calls -> TurnType]
      /\ \A d \in Calls : turn'[d].status = "completed" => turn[d].status = "completed"
  BY Types, RestoredFacts
<1>2. TypeOK'
  BY <1>1, Types DEF TypeOK, server, CallType, TurnType
<1>3. KeysInv' /\ PanelInv'
  BY DEF KeysInv, PanelInv, SameCalls
<1>4. ClientStep
  BY <1>1 DEF ClientStep, NamesOnce, CompletesStored, SameCalls
<1> QED
  BY <1>2, <1>3, <1>4, ClientStepKeeps

LEMMA OpenSettingsKeeps == ASSUME IInv, OpenSettings PROVE IInv'
<1> USE DEF IInv
<1> DEFINE q(d) == IF d = panel THEN Abort(call[d]) ELSE call[d]
<1>1. /\ panel' = None /\ page' = "settings"
      /\ UNCHANGED <<keys, activeKey, conv, turn, wire, server>>
  BY DEF OpenSettings
<1>2. \A d \in Calls : /\ q(d) \in CallType /\ SameCall(q(d), call[d])
                       /\ q(d).status = call[d].status
                       /\ call[d].aborted => q(d).aborted
                       /\ d # panel => q(d) = call[d]
  BY Types, AbortFacts DEF SameCall
<1>3. \A d \in Calls : call'[d] = [q(d) EXCEPT !.attached = FALSE]
  BY DEF OpenSettings
<1>4. call' = [d \in Calls |-> call'[d]]
  BY DEF OpenSettings
<1> HIDE DEF q
<1>5. \A d \in Calls : /\ call'[d] \in CallType /\ call'[d].status = call[d].status
                       /\ call'[d].at = call[d].at /\ call'[d].sent = call[d].sent
                       /\ ~call'[d].attached /\ (call[d].aborted => call'[d].aborted)
  <2> TAKE d \in Calls
  <2> DEFINE r == q(d)
  <2>1. /\ r \in CallType /\ SameCall(r, call[d]) /\ r.status = call[d].status
        /\ call[d].aborted => r.aborted
    BY <1>2
  <2>2. call'[d] = [r EXCEPT !.attached = FALSE]
    BY <1>3
  <2> HIDE DEF r
  <2> QED
    BY <2>1, <2>2 DEF CallType, SameCall
<1>6. ASSUME NEW d \in Calls, call[d].at = "none" PROVE call'[d] = call[d]
  <2>1. call[d] = NoCall /\ d # panel
    BY <1>6, ConstantsAssumption DEF KeysInv, PanelInv
  <2> QED
    BY <1>2, <1>3, <2>1 DEF NoCall
<1>7. SameCalls
  BY <1>1, <1>5, <1>6 DEF SameCalls, Reading, Live, Showing
<1>8. call' \in [Calls -> CallType]
  BY <1>4, <1>5
<1>9. ReadsInOrder /\ wire' \in [Calls -> Seq(Events)]
  BY <1>1, Types DEF ReadsInOrder
<1> HIDE DEF IInv
<1> QED
  BY <1>1, <1>5, <1>7, <1>8, <1>9, PageKeeps DEF Showing

LEMMA CloseSettingsKeeps == ASSUME IInv, CloseSettings PROVE IInv'
<1> USE DEF IInv
<1>1. /\ page' = "workspace" /\ turn' = Restored
      /\ UNCHANGED <<keys, activeKey, conv, panel, call, wire, server>>
      /\ page = "settings"
  BY DEF CloseSettings
<1>2. /\ turn' \in [Calls -> TurnType]
      /\ \A d \in Calls : turn'[d].status = "completed" => turn[d].status = "completed"
      /\ \A d \in Calls : turn'[d].key = turn[d].key
      /\ \A d \in Calls : turn[d].key = NoKey => turn'[d] = turn[d]
  BY <1>1, RestoredFacts
<1>3. TypeOK'
  BY <1>1, <1>2, Types DEF TypeOK, server, CallType, TurnType
<1>4. \A d \in Calls : call[d].at = "none" => turn[d].key = NoKey
  BY NoRecords DEF KeysInv
<1>5. SameCalls
  BY <1>1, <1>2, <1>4 DEF SameCalls, Reading, Live, Showing
<1>6. \A d \in Calls : ~(Reading(d) /\ Showing(d))
  BY <1>1 DEF PanelInv
<1>7. KeysInv' /\ PanelInv'
  BY <1>1, <1>2, <1>4, <1>5, <1>6 DEF KeysInv, PanelInv, SameCalls
<1>8. ClientStep
  BY <1>1, <1>2, <1>5
     DEF ClientStep, NamesOnce, ReadsInOrder, CompletesStored, SameCalls
<1> QED
  BY <1>3, <1>7, <1>8, ClientStepKeeps

LEMMA ReloadKeeps == ASSUME IInv, Reload PROVE IInv'
<1> USE DEF IInv
<1>1. /\ panel' = None /\ page' = "workspace" /\ turn' = Restored
      /\ wire' = [c \in Calls |-> <<>>]
      /\ UNCHANGED <<keys, activeKey, conv, server>>
  BY DEF Reload
<1>2. \A d \in Calls : call'[d] = IF Live(d)
                                  THEN [call[d] EXCEPT !.at = "over", !.end = "broken",
                                                       !.attached = FALSE]
                                  ELSE [call[d] EXCEPT !.attached = FALSE]
  BY DEF Reload
<1>3. call' = [d \in Calls |-> call'[d]]
  BY DEF Reload
<1>4. \A d \in Calls : call[d] \in CallType
  BY Types
<1>5. \A d \in Calls : /\ call'[d] \in CallType /\ call'[d].status = call[d].status
                       /\ call'[d].at = IF Live(d) THEN "over" ELSE call[d].at
                       /\ call'[d].sent = call[d].sent /\ ~call'[d].attached
  <2> TAKE d \in Calls
  <2>1. CASE Live(d)
    <3>1. call'[d] = [call[d] EXCEPT !.at = "over", !.end = "broken", !.attached = FALSE]
      BY <1>2, <2>1
    <3>2. call[d] \in CallType
      BY <1>4
    <3> QED
      BY <2>1, <3>1, <3>2 DEF CallType
  <2>2. CASE ~Live(d)
    BY <1>2, <1>4, <2>2, ZenonT(40) DEF CallType
  <2> QED
    BY <2>1, <2>2
<1>6. ASSUME NEW d \in Calls, call[d].at = "none" PROVE call'[d] = call[d]
  <2>1. call[d] = NoCall /\ ~Live(d)
    BY <1>6 DEF KeysInv, Live, Awaiting
  <2>2. call'[d] = [NoCall EXCEPT !.attached = FALSE]
    BY <1>2, <2>1
  <2> QED
    BY <2>1, <2>2 DEF NoCall
<1>7. \A d \in Calls : /\ turn'[d].key = turn[d].key
                       /\ turn[d].key = NoKey => turn'[d] = turn[d]
  BY <1>1, RestoredFacts
<1>8. \A d \in Calls : call[d].at = "none" => turn[d].key = NoKey
  BY NoRecords DEF KeysInv
<1>9. \A d \in Calls : ~Reading(d)'
  BY <1>5 DEF Reading, Live, Awaiting
<1>10. SameCalls
  BY <1>5, <1>6, <1>7, <1>8, <1>9 DEF SameCalls, Showing, Live, Awaiting
<1>11. ReadsInOrder /\ wire' \in [Calls -> Seq(Events)]
  BY <1>1, <1>9 DEF ReadsInOrder
<1>12. call' \in [Calls -> CallType]
  BY <1>3, <1>5
<1> HIDE DEF IInv
<1> QED
  BY <1>1, <1>5, <1>9, <1>10, <1>11, <1>12, PageKeeps

LEMMA SubmitKeeps == ASSUME IInv, NEW c \in Calls, Submit(c) PROVE IInv'
<1> USE DEF IInv
<1> DEFINE new == [NoCall EXCEPT !.at = "stream", !.sent = conv[activeKey], !.attached = TRUE]
           asked == [NoTurn EXCEPT !.key = activeKey]
<1>1. /\ call[c] = NoCall /\ turn[c] = NoTurn /\ srv[c] = NoRun /\ stored[c] = None
      /\ call[c].at = "none" /\ srv[c].at = "none"
  BY NoRecords DEF Submit, KeysInv, RunInv
<1>2. activeKey \in Keys /\ activeKey \in keys /\ conv[activeKey] \in Calls \cup {None}
  BY Types
<1>3. /\ new \in CallType /\ new.at = "stream" /\ new.sent = conv[activeKey]
      /\ ~new.dropped /\ new.status = "idle"
  BY <1>2 DEF NoCall, CallType, Awaiting
<1>4. asked \in TurnType /\ asked.key = activeKey /\ asked.status = "pending"
  BY <1>2 DEF NoTurn, TurnType, Active
<1>5. /\ call' = [call EXCEPT ![c] = new] /\ turn' = [turn EXCEPT ![c] = asked]
      /\ panel' = c /\ page = "workspace"
      /\ UNCHANGED <<page, keys, activeKey, conv, wire, enabled, srv, stored>>
  BY DEF Submit, server
<1> HIDE DEF new, asked
<1>6. /\ call'[c] = new /\ turn'[c] = asked
      /\ \A d \in Calls \ {c} : call'[d] = call[d] /\ turn'[d] = turn[d]
      /\ call' \in [Calls -> CallType] /\ turn' \in [Calls -> TurnType]
  BY <1>3, <1>4, <1>5, Types
<1>7. TypeOK'
  BY <1>5, <1>6, Types DEF TypeOK, CallType, TurnType
<1>8. \A d \in Calls : ~(Reading(d) /\ Showing(d))
  BY <1>2, ConstantsAssumption DEF PanelInv, Submit, Reading
<1>9. \A d \in Calls \ {c} : /\ Reading(d)' <=> Reading(d)
                             /\ Showing(d)' <=> Showing(d)
  BY <1>6 DEF Reading, Live, Showing
<1>10. KeysInv' /\ PanelInv'
  BY <1>2, <1>3, <1>4, <1>5, <1>6, <1>8, <1>9, ConstantsAssumption DEF KeysInv, PanelInv
<1>11. OwnerInv'
  <2>1. ASSUME NEW k \in Keys, conv[k] # None PROVE turn'[conv[k]].key = k
    <3>1. conv[k] \in Calls /\ turn[conv[k]].key = k
      BY <2>1, Types DEF OwnerInv
    <3>2. conv[k] # c
      BY <1>1, <3>1, NoRecords, ConstantsAssumption
    <3> QED
      BY <1>6, <3>1, <3>2
  <2> QED
    BY <1>3, <1>4, <1>5, <1>6, <2>1 DEF OwnerInv
<1>12. RunInv'
  BY <1>1, <1>5, <1>6 DEF RunInv
<1>13. NamedInv'
  BY <1>3, <1>4, <1>5, <1>6, <1>8, <1>9 DEF NamedInv
<1>14. WireInv'
  <2> SUFFICES ASSUME NEW d \in Calls PROVE WireOf(d)'
    BY DEF WireInv, WireOf
  <2>1. CASE d = c
    <3>1. \A i \in 1 .. Len(wire[c]) : wire[c][i] \notin {"final", "done", "answer"}
      BY <1>1 DEF WireInv, Sent
    <3> QED
      BY <1>1, <1>5, <2>1, <3>1 DEF WireOf, Sent
  <2>2. CASE d # c
    <3>1. WireOf(d) /\ turn'[d] = turn[d] /\ call'[d] = call[d]
      BY <1>6, <2>2, WireParts
    <3> QED
      BY <1>5, <1>9, <2>2, <3>1 DEF WireOf, Sent, Identified
  <2> QED
    BY <2>1, <2>2
<1>15. CompletedInv'
  BY <1>3, <1>4, <1>5, <1>6, <1>9 DEF CompletedInv
<1> QED
  BY <1>7, <1>10, <1>11, <1>12, <1>13, <1>14, <1>15

\* updateConversation names the conversation of the call, once.
LEMMA IdentifyFacts ==
    ASSUME IInv, NEW c \in Calls, Reading(c), srv[c].at # "none", Identify(c)
    PROVE  /\ NamesOnce /\ conv' \in [Keys -> Calls \cup {None}]
           /\ Showing(c) => conv'[turn[c].key] = srv[c].conv
<1>1. /\ srv[c].conv \in Calls /\ turn[c].key \in Keys
      /\ Showing(c) => /\ conv[turn[c].key] \in {None, srv[c].conv}
                       /\ conv[turn[c].key] = None => srv[c].conv = c
  BY RunHasName
<1>2. conv \in [Keys -> Calls \cup {None}]
  BY Types DEF IInv
<1>3. CASE Showing(c)
  BY <1>1, <1>2, <1>3 DEF Identify, Showing, NamesOnce
<1>4. CASE ~Showing(c)
  BY <1>2, <1>4 DEF Identify, Showing, NamesOnce
<1> QED
  BY <1>3, <1>4

LEMMA FlushTimerKeeps == ASSUME IInv, NEW c \in Calls, FlushTimer(c) PROVE IInv'
<1>1. /\ c = panel /\ Commit(c, Flush(call[c]))
      /\ UNCHANGED <<page, keys, activeKey, conv, panel, wire, server>>
  BY DEF FlushTimer
<1>2. call[c] \in CallType /\ call[c].at # "none"
  BY <1>1, Types, ConstantsAssumption DEF IInv, PanelInv
<1>3. /\ Flush(call[c]) \in CallType /\ SameCall(Flush(call[c]), call[c])
      /\ Flush(call[c]).aborted = call[c].aborted
      /\ Flush(call[c]).status = "completed" => call[c].status = "completed"
  BY <1>2, FlushFacts
<1>4. NamesOnce /\ ReadsInOrder
  BY <1>1 DEF NamesOnce, ReadsInOrder
<1>5. conv' \in [Keys -> Calls \cup {None}] /\ wire' \in [Calls -> Seq(Events)]
  BY <1>1, Types DEF IInv
<1> QED
  BY <1>1, <1>2, <1>3, <1>4, <1>5, ChainKeeps DEF Commit, SameCall

\* A call is over.
LEMMA OverKeeps ==
    ASSUME IInv, NEW c \in Calls, call[c].at # "none", NEW r \in CallType,
           SameCall(r, call[c]), r.aborted = call[c].aborted,
           NEW end \in {"none", "event", "stopped", "answered", "broken"},
           Over(c, r, end),
           UNCHANGED <<page, keys, activeKey, panel, server>>,
           conv' \in [Keys -> Calls \cup {None}], NamesOnce,
           wire' \in [Calls -> Seq(Events)],
           \A d \in Calls \ {c} : wire'[d] = wire[d],
           \/ wire'[c] = wire[c] \/ wire'[c] = <<>>
           \/ wire[c] # <<>> /\ wire'[c] = Tail(wire[c]) /\ Head(wire[c]) # "final",
           r.status = "completed" /\ Showing(c) =>
               \/ call[c].status = "completed"
               \/ /\ srv[c].at = "closed" /\ stored[c] = srv[c].conv
                  /\ conv'[turn[c].key] = srv[c].conv
    PROVE  IInv'
<1> DEFINE f == Flush(r)
           o == [f EXCEPT !.at = "over", !.end = end]
<1>1. /\ f \in CallType /\ SameCall(f, r) /\ f.aborted = r.aborted
      /\ f.status = "completed" => r.status = "completed"
  BY FlushFacts
<1>2. call' = [call EXCEPT ![c] = o] /\ turn' = Shown(c, o)
  BY DEF Over, Commit
<1> HIDE DEF f
<1>3. /\ o \in CallType /\ o.at = "over" /\ o.sent = call[c].sent
      /\ o.attached = call[c].attached /\ o.dropped = call[c].dropped
      /\ o.aborted = call[c].aborted
      /\ o.status = "completed" => r.status = "completed"
  BY <1>1 DEF CallType, SameCall
<1> HIDE DEF o
<1>4. ~Reading(c)'
  BY <1>2, <1>3, Types DEF IInv, Reading, Live, Awaiting
<1>5. ReadsInOrder
  BY <1>4 DEF ReadsInOrder
<1> QED
  BY <1>2, <1>3, <1>5, ChainKeeps

LEMMA EndOfStreamKeeps == ASSUME IInv, NEW c \in Calls, EndOfStream(c) PROVE IInv'
<1>1. /\ call[c].at # "none" /\ call[c] \in CallType /\ Over(c, call[c], "event")
      /\ UNCHANGED <<page, keys, activeKey, conv, panel, wire, server>>
  BY Types DEF EndOfStream, IInv
<1>2. NamesOnce /\ conv' \in [Keys -> Calls \cup {None}] /\ wire' \in [Calls -> Seq(Events)]
  BY <1>1, Types DEF NamesOnce, IInv
<1> QED
  BY <1>1, <1>2, OverKeeps DEF SameCall

\* A call that ends without its server's last word: it is not completed by that.
LEMMA CutKeeps ==
    ASSUME IInv, NEW c \in Calls, Live(c), NEW r \in CallType, SameCall(r, call[c]),
           r.aborted = call[c].aborted, NEW end \in {"stopped", "broken"}, Over(c, r, end),
           ~r.dropped => r.status = call[c].status \/ r.status # "completed",
           wire' = [wire EXCEPT ![c] = <<>>],
           UNCHANGED <<page, keys, activeKey, conv, panel, server>>
    PROVE  IInv'
<1>1. wire \in [Calls -> Seq(Events)] /\ <<>> \in Seq(Events) /\ call[c].at # "none"
  BY Types DEF IInv, Live, Awaiting
<1>2. /\ wire' \in [Calls -> Seq(Events)] /\ wire'[c] = <<>>
      /\ \A d \in Calls \ {c} : wire'[d] = wire[d]
  BY <1>1
<1>3. NamesOnce /\ conv' \in [Keys -> Calls \cup {None}]
  BY Types DEF NamesOnce, IInv
<1>4. r.status = "completed" /\ Showing(c) => call[c].status = "completed"
  BY DEF Showing, SameCall
<1> QED
  BY <1>1, <1>2, <1>3, <1>4, OverKeeps

LEMMA InterruptedKeeps == ASSUME IInv, NEW c \in Calls, Interrupted(c) PROVE IInv'
<1> DEFINE r == IF call[c].status = "failed" \/ call[c].dropped THEN call[c]
                ELSE [call[c] EXCEPT !.status = "failed"]
<1>1. call[c] \in CallType
  BY Types DEF IInv
<1>2. /\ r \in CallType /\ SameCall(r, call[c]) /\ r.aborted = call[c].aborted
      /\ r.status = call[c].status \/ r.status # "completed"
  BY <1>1 DEF CallType, SameCall, Terminal
<1>3. /\ Live(c) /\ Over(c, r, "broken") /\ wire' = [wire EXCEPT ![c] = <<>>]
      /\ UNCHANGED <<page, keys, activeKey, conv, panel, server>>
  BY DEF Interrupted
<1> HIDE DEF r
<1> QED
  BY <1>2, <1>3, CutKeeps

LEMMA AbortedKeeps == ASSUME IInv, NEW c \in Calls, Aborted(c) PROVE IInv'
<1>1. call[c] \in CallType
  BY Types DEF IInv
<1>2. /\ Stopped(c) \in CallType /\ SameCall(Stopped(c), call[c])
      /\ Stopped(c).aborted = call[c].aborted
      /\ ~call[c].dropped => Stopped(c).status # "completed"
  BY <1>1, HandleFacts DEF Stopped
<1>3. /\ Live(c) /\ Over(c, Stopped(c), "stopped") /\ wire' = [wire EXCEPT ![c] = <<>>]
      /\ UNCHANGED <<page, keys, activeKey, conv, panel, server>>
  BY DEF Aborted
<1> QED
  BY <1>2, <1>3, CutKeeps DEF SameCall

\* A call reads the next event.
LEMMA ReadKeeps == ASSUME IInv, NEW c \in Calls, Read(c) PROVE IInv'
<1> DEFINE event == Head(wire[c])
<1>1. /\ Live(c) /\ Reading(c) /\ call[c].at # "none" /\ call[c] \in CallType
      /\ call \in [Calls -> CallType]
      /\ wire[c] \in Seq(Events) /\ wire[c] # <<>> /\ wire \in [Calls -> Seq(Events)]
      /\ conv \in [Keys -> Calls \cup {None}]
      /\ wire' = [wire EXCEPT ![c] = Tail(wire[c])]
      /\ UNCHANGED <<page, keys, activeKey, panel, server>>
  BY Types DEF Read, Reading, Live, Awaiting, IInv
<1>2. /\ Tail(wire[c]) \in Seq(Events) /\ Len(wire[c]) \in Nat /\ Len(wire[c]) > 0
      /\ event = wire[c][1] /\ event \in Events
  BY <1>1, TailFacts
<1>3. /\ wire' \in [Calls -> Seq(Events)] /\ wire'[c] = Tail(wire[c])
      /\ \A d \in Calls \ {c} : wire'[d] = wire[d]
  BY <1>1, <1>2
<1>4. (event = "final" => Identified(c)') => ReadsInOrder
  BY <1>1, <1>3 DEF ReadsInOrder
<1>5. UNCHANGED conv => NamesOnce
  BY DEF NamesOnce
<1>6. WireOf(c)
  BY WireParts DEF IInv
<1>7. /\ event = "final" => srv[c].at # "none"
      /\ event = "answer" => srv[c].at = "closed" /\ stored[c] = srv[c].conv
      /\ event = "done" => /\ srv[c].at = "closed" /\ stored[c] = srv[c].conv
                           /\ Identified(c)
  <2>1. 1 \in 1 .. Len(wire[c]) /\ ~ \E j \in 1 .. 1 - 1 : wire[c][j] = "final"
    BY <1>2
  <2> QED
    BY <1>1, <1>2, <1>6, <2>1 DEF WireOf
<1> HIDE DEF event
<1>8. CASE ReadToken(c, event)
  <2> DEFINE r == [call[c] EXCEPT !.pending = TRUE]
  <2>1. /\ r \in CallType /\ SameCall(r, call[c]) /\ r.aborted = call[c].aborted
        /\ r.status = call[c].status
    BY <1>1 DEF CallType, SameCall
  <2>2. /\ event = "token" /\ turn' = turn /\ conv' = conv
        /\ call' = [call EXCEPT ![c] = r]
    BY <1>8 DEF ReadToken
  <2> HIDE DEF r
  <2> QED
    BY <1>1, <1>3, <1>4, <1>5, <2>1, <2>2, ChainKeeps DEF SameCall
<1>9. CASE ReadEvent(c, event)
  <2> DEFINE r == Handle(call[c], event)
  <2>1. /\ event \in {"status", "persisting", "final", "done", "error"}
        /\ call' = [call EXCEPT ![c] = r] /\ turn' = Shown(c, r)
        /\ IF event = "final" THEN Identify(c) ELSE UNCHANGED conv
    BY <1>9 DEF ReadEvent, Commit
  <2>2. /\ r \in CallType /\ SameCall(r, call[c]) /\ r.aborted = call[c].aborted
        /\ ~call[c].dropped /\ event # "done" => r.status # "completed"
    <3>1. event \in {"status", "persisting", "final", "done", "error", "cancelled"}
      BY <2>1
    <3> QED
      BY <1>1, <3>1, HandleFacts
  <2> HIDE DEF r
  <2>3. NamesOnce /\ conv' \in [Keys -> Calls \cup {None}]
    BY <1>1, <1>5, <1>7, <2>1, IdentifyFacts
  <2>4. event = "final" => Identified(c)'
    <3>1. event = "final" => (Showing(c) => conv'[turn[c].key] = srv[c].conv)
      BY <1>1, <1>7, <2>1, IdentifyFacts
    <3>2. /\ Showing(c)' => Showing(c) /\ turn'[c].key = turn[c].key
          /\ srv' = srv
      <4>1. turn[c] \in TurnType /\ turn \in [Calls -> TurnType]
        BY Types DEF IInv
      <4>2. turn'[c].key = turn[c].key
        BY <2>1, <4>1 DEF Shown, TurnType
      <4>3. call'[c] = r
        BY <1>1, <2>1
      <4> QED
        BY <1>1, <2>2, <4>2, <4>3 DEF Showing, SameCall, server
    <3> QED
      BY <3>1, <3>2 DEF Identified
  <2>5. r.status = "completed" /\ Showing(c) =>
            /\ srv[c].at = "closed" /\ stored[c] = srv[c].conv
            /\ conv'[turn[c].key] = srv[c].conv
    BY <1>7, <2>1, <2>2 DEF Showing, Identified
  <2> QED
    BY <1>1, <1>3, <1>4, <2>1, <2>2, <2>3, <2>4, <2>5, ChainKeeps DEF SameCall
<1>10. CASE Fallback(c, event)
  <2> DEFINE r == [call[c] EXCEPT !.at = "fallback"]
  <2>1. /\ r \in CallType /\ r.at = "fallback" /\ r.sent = call[c].sent
        /\ r.attached = call[c].attached /\ r.dropped = call[c].dropped
        /\ r.aborted = call[c].aborted /\ r.status = call[c].status
    BY <1>1 DEF CallType, Awaiting
  <2>2. /\ event = "disabled" /\ turn' = turn /\ conv' = conv
        /\ call' = [call EXCEPT ![c] = r]
    BY <1>10 DEF Fallback
  <2> HIDE DEF r
  <2> QED
    BY <1>1, <1>3, <1>4, <1>5, <2>1, <2>2, ChainKeeps
<1>11. CASE ReadRefusal(c, event)
  <2> DEFINE r == Handle(call[c], "error")
  <2>1. /\ event = "refused" /\ conv' = conv /\ Over(c, r, "broken")
    BY <1>11 DEF ReadRefusal
  <2>2. /\ r \in CallType /\ SameCall(r, call[c]) /\ r.aborted = call[c].aborted
        /\ ~call[c].dropped => r.status # "completed"
    BY <1>1, HandleFacts
  <2> HIDE DEF r
  <2>3. Head(wire[c]) # "final"
    BY <2>1 DEF event
  <2>4. ~(r.status = "completed" /\ Showing(c))
    BY <2>2 DEF Showing
  <2> QED
    BY <1>1, <1>3, <1>5, <2>1, <2>2, <2>3, <2>4, OverKeeps
<1>12. CASE ReadAnswer(c, event)
  <2> DEFINE r == IF call[c].dropped THEN call[c] ELSE [call[c] EXCEPT !.status = "completed"]
  <2>1. event = "answer" /\ Identify(c) /\ Over(c, r, "answered")
    BY <1>12 DEF ReadAnswer
  <2>2. r \in CallType /\ SameCall(r, call[c]) /\ r.aborted = call[c].aborted
    BY <1>1 DEF CallType, SameCall, Terminal
  <2> HIDE DEF r
  <2>3. Head(wire[c]) # "final"
    BY <2>1 DEF event
  <2>4. /\ NamesOnce /\ conv' \in [Keys -> Calls \cup {None}]
        /\ Showing(c) => conv'[turn[c].key] = srv[c].conv
    BY <1>1, <1>7, <2>1, IdentifyFacts
  <2> QED
    BY <1>1, <1>3, <1>7, <2>1, <2>2, <2>3, <2>4, OverKeeps
<1> QED
  BY <1>8, <1>9, <1>10, <1>11, <1>12 DEF Read, event

LEMMA UserKeeps == ASSUME IInv, User PROVE IInv'
  BY SubmitKeeps, StopKeeps, OpenSettingsKeeps, CloseSettingsKeeps, ReloadKeeps,
     NewChatKeeps, SelectKeeps DEF User

LEMMA CallKeeps == ASSUME IInv, NEW c \in Calls, Chain(c) PROVE IInv'
  BY ReadKeeps, FlushTimerKeeps, EndOfStreamKeeps, InterruptedKeeps, AbortedKeeps DEF Chain

-----------------------------------------------------------------------------
(* The server's steps.                                                     *)

LEMMA SendFacts ==
    ASSUME TypeOK, NEW c \in Calls, NEW event \in Events, Send(c, event)
    PROVE  /\ wire' \in [Calls -> Seq(Events)]
           /\ \A d \in Calls \ {c} : wire'[d] = wire[d]
           /\ Reading(c) => wire'[c] = Append(wire[c], event)
           /\ ~Reading(c) => wire'[c] = wire[c]
  BY Types DEF Send, Reading

LEMMA AppendFacts ==
    ASSUME NEW s \in Seq(Events), NEW event \in Events
    PROVE  /\ Len(s) \in Nat /\ Len(Append(s, event)) = Len(s) + 1
           /\ \A i \in 1 .. Len(s) : Append(s, event)[i] = s[i]
           /\ Append(s, event)[Len(s) + 1] = event
  OBVIOUS

\* Nothing that the client does depends on a step of the server.
LEMMA ClientUnchanged ==
    ASSUME UNCHANGED client
    PROVE  /\ \A d \in Calls : /\ Reading(d)' = Reading(d) /\ Showing(d)' = Showing(d)
                               /\ Live(d)' = Live(d)
           /\ KeysInv => KeysInv'
           /\ PanelInv => PanelInv'
           /\ OwnerInv => OwnerInv'
<1>1. \A d \in Calls : /\ Reading(d)' = Reading(d) /\ Showing(d)' = Showing(d)
                       /\ Live(d)' = Live(d)
  BY DEF client, Reading, Showing, Live
<1>2. KeysInv => KeysInv'
  BY DEF client, KeysInv
<1>3. PanelInv => PanelInv'
  BY <1>1 DEF client, PanelInv
<1>4. OwnerInv => OwnerInv'
  BY DEF client, OwnerInv
<1> QED
  BY <1>1, <1>2, <1>3, <1>4

\* A run goes on. Only the turns of a conversation it has created can go with it, and no
\* other run has continued that conversation yet.
RunStep(c, to) ==
    /\ srv[c].at \in Serving /\ srv' = [srv EXCEPT ![c].at = to]
    /\ UNCHANGED <<client, enabled>>
    /\ \A d \in Calls \ {c} : \/ stored'[d] = stored[d]
                              \/ stored'[d] = None /\ stored[d] = c
    /\ stored'[c] \in {stored[c], srv[c].conv, None}
    /\ to \in {"saved", "finaled"} => stored'[c] = srv[c].conv

RunSends(c, to) ==
    /\ \A d \in Calls \ {c} : wire'[d] = wire[d]
    /\ ~Reading(c) => wire'[c] = wire[c]
    /\ Reading(c) =>
         \/ wire'[c] = wire[c] /\ to # "finaled"
         \/ \E e \in Events :
               /\ wire'[c] = Append(wire[c], e)
               /\ to = "finaled" => e = "final"
               /\ e \in {"done", "answer"} => to = "closed" /\ stored'[c] = srv[c].conv
               /\ e = "done" => srv[c].at = "finaled"

LEMMA RunGoesOn ==
    ASSUME IInv, NEW c \in Calls, NEW to \in Serving \cup {"closed"},
           RunStep(c, to), RunSends(c, to),
           stored' \in [Calls -> Calls \cup {None}], wire' \in [Calls -> Seq(Events)]
    PROVE  IInv'
<1> USE DEF IInv
<1>1. /\ srv \in [Calls -> RunType] /\ stored \in [Calls -> Calls \cup {None}]
      /\ srv[c].at # "none" /\ srv[c].at # "closed"
  BY Types DEF Serving, RunStep
<1>2. /\ srv' \in [Calls -> RunType] /\ srv'[c].at = to
      /\ srv'[c].conv = srv[c].conv /\ srv'[c].fresh = srv[c].fresh
      /\ \A d \in Calls \ {c} : srv'[d] = srv[d]
  <2>1. [srv[c] EXCEPT !.at = to] \in RunType
    BY <1>1 DEF RunType
  <2> QED
    BY <1>1, <2>1 DEF RunType, RunStep
<1>3. TypeOK'
  BY <1>2, Types DEF TypeOK, client, RunStep, RunType, CallType, TurnType
<1>4. to # "none"
  BY DEF Serving
<1>5. \A d \in Calls \ {c} : srv[d].conv # c
  BY <1>1, NoRecords, ConstantsAssumption, SMTT(30) DEF RunInv
<1>6. \A d \in Calls \ {c} : stored[d] # None => stored'[d] = stored[d]
  BY <1>5 DEF RunInv, RunStep
<1>7. /\ \A d \in Calls : Reading(d)' = Reading(d) /\ Showing(d)' = Showing(d)
      /\ KeysInv' /\ PanelInv' /\ OwnerInv'
      /\ turn' = turn /\ call' = call /\ conv' = conv
  BY ClientUnchanged DEF client, RunStep
<1>8. RunInv'
  <2> SUFFICES ASSUME NEW d \in Calls
               PROVE  /\ srv'[d].at = "none" => srv'[d] = NoRun /\ stored'[d] = None
                      /\ srv'[d].at # "none" =>
                             /\ call[d].at # "none"
                             /\ srv'[d].conv = IF call[d].sent = None THEN d ELSE call[d].sent
                             /\ srv'[d].fresh => srv'[d].conv = d
                             /\ srv'[d].conv # d => srv'[srv'[d].conv].at = "closed"
                      /\ stored'[d] # None => stored'[d] = srv'[d].conv
                      /\ srv'[d].at \in {"saved", "finaled"} => stored'[d] = srv'[d].conv
    BY <1>7 DEF RunInv
  <2>1. CASE d = c
    <3>1. srv[c].conv # c => srv[srv[c].conv].at = "closed" /\ srv[c].conv \in Calls
      BY <1>1, RunHasName DEF RunInv
    <3> QED
      BY <1>1, <1>2, <1>4, <2>1, <3>1 DEF RunInv, RunStep
  <2>2. CASE d # c
    <3>1. srv[d].at # "none" => srv[d].conv \in Calls \ {c} /\ srv[d].conv # None
      BY <1>5, <2>2, RunHasName
    <3> QED
      BY <1>1, <1>2, <1>6, <2>2, <3>1 DEF RunInv, RunStep
  <2> QED
    BY <2>1, <2>2
<1>9. \A d \in Calls : Identified(d)' = Identified(d)
  BY <1>2, <1>7 DEF Identified
<1>10. NamedInv'
  BY <1>2, <1>7 DEF NamedInv
<1>11. CompletedInv'
  <2> SUFFICES ASSUME NEW d \in Calls,
                      (call[d].status = "completed" /\ Showing(d)) \/ turn[d].status = "completed"
               PROVE  /\ srv'[d].at = "closed" /\ stored'[d] = srv'[d].conv
                      /\ conv[turn[d].key] = srv'[d].conv
    BY <1>7 DEF CompletedInv
  <2>1. /\ srv[d].at = "closed" /\ stored[d] = srv[d].conv
        /\ conv[turn[d].key] = srv[d].conv
    BY DEF CompletedInv
  <2>2. d # c /\ srv[d].conv # None
    BY <1>1, <2>1, RunHasName
  <2> QED
    BY <1>2, <1>6, <2>1, <2>2
<1>12. WireInv'
  <2> SUFFICES ASSUME NEW d \in Calls PROVE WireOf(d)'
    BY DEF WireInv, WireOf
  <2>1. WireOf(d)
    BY WireParts
  <2>2. CASE d # c
    <3>1. srv[d].at = "closed" /\ stored[d] = srv[d].conv => stored'[d] = srv[d].conv
      BY <1>6, <2>2, RunHasName
    <3>2. /\ srv'[d] = srv[d] /\ wire'[d] = wire[d] /\ Reading(d)' = Reading(d)
          /\ Identified(d)' = Identified(d)
      BY <1>2, <1>7, <1>9, <2>2 DEF RunSends
    <3>3. \A e : Sent(d, e)' <=> Sent(d, e)
      BY <3>2 DEF Sent
    <3> QED
      BY <2>1, <3>1, <3>2, <3>3 DEF WireOf
  <2>3. CASE d = c /\ ~Reading(c)
    BY <1>2, <1>4, <1>7, <2>3 DEF WireOf
  <2>4. CASE d = c /\ Reading(c)
    <3> DEFINE s == wire[c]
    <3>1. s \in Seq(Events)
      BY Types
    <3>2. \A i \in 1 .. Len(s) : s[i] # "done" /\ s[i] # "answer"
      BY <1>1, <2>1, <2>4 DEF WireOf
    <3>3. srv[c].at = "finaled" => Identified(c) \/ Sent(c, "final")
      BY <2>1, <2>4 DEF WireOf
    <3>4. CASE wire'[c] = s /\ to # "finaled"
      BY <1>2, <1>4, <2>4, <3>2, <3>4 DEF WireOf
    <3>5. ASSUME NEW e \in Events, wire'[c] = Append(s, e),
                 to = "finaled" => e = "final",
                 e \in {"done", "answer"} => to = "closed" /\ stored'[c] = srv[c].conv,
                 e = "done" => srv[c].at = "finaled"
          PROVE  WireOf(c)'
      <4>1. /\ Len(s) \in Nat /\ Len(wire'[c]) = Len(s) + 1
            /\ \A i \in 1 .. Len(s) : wire'[c][i] = s[i]
            /\ wire'[c][Len(s) + 1] = e
        BY <3>1, <3>5, AppendFacts
      <4>2. \A i \in 1 .. Len(wire'[c]) : wire'[c][i] \in {"done", "answer"} =>
                i = Len(s) + 1 /\ wire'[c][i] = e
        BY <3>2, <4>1
      <4>3. e = "done" => Identified(c)' \/ \E j \in 1 .. Len(s) + 1 - 1 : wire'[c][j] = "final"
        BY <1>9, <3>3, <3>5, <4>1 DEF Sent
      <4>4. to = "finaled" => Sent(c, "final")'
        <5>1. Len(s) + 1 \in 1 .. Len(wire'[c])
          BY <4>1
        <5> QED
          BY <3>5, <4>1, <5>1 DEF Sent
      <4>5. ASSUME NEW i \in 1 .. Len(wire'[c]), wire'[c][i] = "done"
            PROVE  /\ to = "closed" /\ stored'[c] = srv[c].conv
                   /\ Identified(c)' \/ \E j \in 1 .. i - 1 : wire'[c][j] = "final"
        <5>1. i = Len(s) + 1 /\ e = "done"
          BY <4>2, <4>5
        <5> QED
          BY <3>5, <4>3, <5>1
      <4>6. ASSUME NEW i \in 1 .. Len(wire'[c]), wire'[c][i] = "answer"
            PROVE  to = "closed" /\ stored'[c] = srv[c].conv
        BY <3>5, <4>2, <4>6
      <4> QED
        BY <1>2, <1>4, <4>4, <4>5, <4>6 DEF WireOf
    <3> QED
      BY <2>4, <3>4, <3>5 DEF RunSends
  <2> QED
    BY <2>2, <2>3, <2>4
<1> QED
  BY <1>3, <1>7, <1>8, <1>10, <1>11, <1>12

\* A request that is turned away.
LEMMA RefuseKeeps ==
    ASSUME IInv, NEW c \in Calls, NEW event \in {"disabled", "refused"}, Refuse(c, event)
    PROVE  IInv'
<1> USE DEF IInv
<1>1. /\ event \in Events /\ Send(c, event) /\ UNCHANGED <<client, enabled, srv, stored>>
  BY DEF Refuse, Events, server
<1>2. /\ wire' \in [Calls -> Seq(Events)] /\ \A d \in Calls \ {c} : wire'[d] = wire[d]
      /\ wire'[c] = wire[c] \/ wire'[c] = Append(wire[c], event)
  BY <1>1, SendFacts
<1>3. /\ \A d \in Calls : Reading(d)' = Reading(d) /\ Showing(d)' = Showing(d)
      /\ KeysInv' /\ PanelInv' /\ OwnerInv'
      /\ turn' = turn /\ call' = call /\ conv' = conv /\ srv' = srv /\ stored' = stored
  BY <1>1, ClientUnchanged DEF client
<1>4. TypeOK'
  BY <1>1, <1>2, Types DEF TypeOK, client, CallType, TurnType, RunType
<1>5. RunInv' /\ NamedInv' /\ CompletedInv'
  BY <1>3 DEF RunInv, NamedInv, CompletedInv
<1>6. WireInv'
  <2> SUFFICES ASSUME NEW d \in Calls PROVE WireOf(d)'
    BY DEF WireInv, WireOf
  <2>1. /\ WireOf(d) /\ srv'[d] = srv[d] /\ stored'[d] = stored[d]
        /\ Reading(d)' = Reading(d) /\ Identified(d)' = Identified(d)
    BY <1>3, WireParts DEF Identified
  <2>2. CASE wire'[d] = wire[d]
    BY <2>1, <2>2 DEF WireOf, Sent
  <2>3. CASE d = c /\ wire'[c] = Append(wire[c], event)
    <3> DEFINE s == wire[c]
    <3>1. /\ Len(s) \in Nat /\ Len(wire'[c]) = Len(s) + 1
          /\ \A i \in 1 .. Len(s) : wire'[c][i] = s[i]
          /\ wire'[c][Len(s) + 1] = event
      BY <1>1, <2>3, Types, AppendFacts
    <3>2. \A e \in {"final", "done", "answer"} : Sent(c, e)' <=> Sent(c, e)
      BY <3>1, SMTT(30) DEF Sent
    <3>3. \A i \in 1 .. Len(wire'[c]) : wire'[c][i] \in {"final", "done", "answer"} =>
              i \in 1 .. Len(s) /\ wire'[c][i] = s[i]
      BY <3>1
    <3>4. \A i \in 1 .. Len(s) : \A j \in 1 .. i - 1 : wire'[c][j] = s[j]
      BY <3>1
    <3> QED
      BY <2>1, <2>3, <3>2, <3>3, <3>4 DEF WireOf
  <2> QED
    BY <1>2, <2>2, <2>3
<1> QED
  BY <1>3, <1>4, <1>5, <1>6

\* A run starts: in a conversation of its own, or in one whose creator has ended.
LEMMA StartKeeps ==
    ASSUME IInv, NEW c \in Calls, call[c].at # "none", srv[c].at = "none", wire[c] = <<>>,
           call[c].sent # None => Exists(call[c].sent) /\ ~Busy(call[c].sent),
           NEW run \in RunType, run.at \in {"running", "json"},
           run.conv = IF call[c].sent = None THEN c ELSE call[c].sent,
           run.fresh => call[c].sent = None,
           srv' = [srv EXCEPT ![c] = run],
           UNCHANGED <<client, wire, enabled, stored>>
    PROVE  IInv'
<1> USE DEF IInv
<1>1. /\ srv \in [Calls -> RunType] /\ srv' \in [Calls -> RunType] /\ srv'[c] = run
      /\ \A d \in Calls \ {c} : srv'[d] = srv[d]
  BY Types
<1>2. srv[c] = NoRun /\ stored[c] = None
  BY DEF RunInv
<1>3. /\ \A d \in Calls : Reading(d)' = Reading(d) /\ Showing(d)' = Showing(d)
      /\ KeysInv' /\ PanelInv' /\ OwnerInv'
      /\ turn' = turn /\ call' = call /\ conv' = conv /\ stored' = stored /\ wire' = wire
  BY ClientUnchanged DEF client
<1>4. TypeOK'
  BY <1>1, Types DEF TypeOK, client, CallType, TurnType, RunType
<1>5. call[c].sent # None => call[c].sent \in Calls /\ srv[call[c].sent].at = "closed"
  <2> SUFFICES ASSUME call[c].sent # None
               PROVE  call[c].sent \in Calls /\ srv[call[c].sent].at = "closed"
    OBVIOUS
  <2>1. call[c].sent \in Calls
    BY Types DEF CallType
  <2>2. PICK d \in Calls : stored[d] = call[c].sent
    BY DEF Exists
  <2>3. srv[d].conv = call[c].sent /\ srv[d].at # "none"
    BY <2>2, ConstantsAssumption DEF RunInv
  <2>4. CASE d # call[c].sent
    <3>1. srv[d].conv # d => srv[srv[d].conv].at = "closed"
      BY <2>3 DEF RunInv
    <3>2. srv[d].conv # d
      BY <2>3, <2>4
    <3> QED
      BY <2>1, <2>3, <3>1, <3>2
  <2>5. CASE d = call[c].sent
    <3>1. srv[d].at \notin Serving
      BY <2>3 DEF Busy
    <3> QED
      BY <1>1, <2>3, <2>5, <3>1 DEF RunType
  <2> QED
    BY <2>1, <2>4, <2>5
<1>6. \A d \in Calls \ {c} : srv[d].at # "none" => srv[d].conv # c
  BY DEF RunInv
<1>7. RunInv'
  <2>1. ASSUME NEW d \in Calls \ {c}
        PROVE  srv[d].at # "none" =>
                 (srv'[d].conv # d => srv'[srv'[d].conv].at = "closed")
    <3>1. srv[d].at # "none" => srv[d].conv \in Calls \ {c}
      BY <1>6, RunHasName
    <3> QED
      BY <1>1, <3>1 DEF RunInv
  <2>2. run.conv # c => srv'[run.conv].at = "closed"
    BY <1>1, <1>5
  <2> QED
    BY <1>1, <1>2, <1>3, <2>1, <2>2 DEF RunInv
<1>8. NamedInv'
  <2>1. Reading(c) /\ Showing(c) => conv[turn[c].key] = call[c].sent
    BY <1>2, NoRecords DEF NamedInv, OwnerInv
  <2> QED
    BY <1>1, <1>3, <2>1 DEF NamedInv
<1>9. CompletedInv'
  BY <1>1, <1>3 DEF CompletedInv
<1>10. WireInv'
  <2> SUFFICES ASSUME NEW d \in Calls PROVE WireOf(d)'
    BY DEF WireInv, WireOf
  <2>1. CASE d = c
    BY <1>1, <1>3, <2>1 DEF WireOf, Sent
  <2>2. CASE d # c
    <3>1. /\ WireOf(d) /\ srv'[d] = srv[d] /\ stored'[d] = stored[d] /\ wire'[d] = wire[d]
          /\ Reading(d)' = Reading(d) /\ Identified(d)' = Identified(d)
      BY <1>1, <1>3, <2>2, WireParts DEF Identified
    <3> QED
      BY <3>1 DEF WireOf, Sent
  <2> QED
    BY <2>1, <2>2
<1> QED
  BY <1>3, <1>4, <1>7, <1>8, <1>9, <1>10

LEMMA AcceptKeeps == ASSUME IInv, NEW c \in Calls, Accept(c) PROVE IInv'
<1>1. call[c].at # "none" /\ srv[c].at = "none" /\ wire[c] = <<>>
  BY DEF Accept
<1>2. CASE Refuse(c, "disabled") \/ Refuse(c, "refused")
  BY <1>2, RefuseKeeps
<1>3. CASE /\ call[c].sent # None => Exists(call[c].sent) /\ ~Busy(call[c].sent)
           /\ srv' = [srv EXCEPT ![c] = [NoRun EXCEPT !.at = "running",
                         !.conv = IF call[c].sent = None THEN c ELSE call[c].sent,
                         !.fresh = (call[c].sent = None)]]
           /\ UNCHANGED <<client, wire, enabled, stored>>
  <2> DEFINE name == IF call[c].sent = None THEN c ELSE call[c].sent
             run == [NoRun EXCEPT !.at = "running", !.conv = name, !.fresh = (call[c].sent = None)]
  <2>1. call[c].sent \in Calls \cup {None}
    BY Types DEF IInv, CallType
  <2>2. /\ run \in RunType /\ run.at = "running" /\ run.conv = name
        /\ run.fresh => call[c].sent = None
    BY <2>1 DEF NoRun, RunType, Serving
  <2>3. srv' = [srv EXCEPT ![c] = run]
    BY <1>3
  <2> HIDE DEF run
  <2> QED
    BY <1>1, <1>3, <2>2, <2>3, StartKeeps
<1> QED
  BY <1>2, <1>3 DEF Accept

LEMMA AcceptJsonKeeps == ASSUME IInv, NEW c \in Calls, AcceptJson(c) PROVE IInv'
<1>1. call[c].at # "none" /\ srv[c].at = "none" /\ wire[c] = <<>>
  BY DEF AcceptJson
<1>2. CASE Refuse(c, "refused")
  BY <1>2, RefuseKeeps
<1>3. CASE /\ call[c].sent # None => Exists(call[c].sent) /\ ~Busy(call[c].sent)
           /\ srv' = [srv EXCEPT ![c] = [NoRun EXCEPT !.at = "json",
                         !.conv = IF call[c].sent = None THEN c ELSE call[c].sent]]
           /\ UNCHANGED <<client, wire, enabled, stored>>
  <2> DEFINE name == IF call[c].sent = None THEN c ELSE call[c].sent
             run == [NoRun EXCEPT !.at = "json", !.conv = name]
  <2>1. call[c].sent \in Calls \cup {None}
    BY Types DEF IInv, CallType
  <2>2. run \in RunType /\ run.at = "json" /\ run.conv = name /\ ~run.fresh
    BY <2>1 DEF NoRun, RunType, Serving
  <2>3. srv' = [srv EXCEPT ![c] = run]
    BY <1>3
  <2> HIDE DEF run
  <2> QED
    BY <1>1, <1>3, <2>2, <2>3, StartKeeps
<1> QED
  BY <1>2, <1>3 DEF AcceptJson

LEMMA EmitKeeps ==
    ASSUME IInv, NEW c \in Calls, NEW event \in {"status", "token", "persisting", "final",
                                               "done", "error"},
           NEW from \in Serving, NEW to \in Serving \cup {"closed"}, Emit(c, event, from, to),
           to = "finaled" <=> event = "final",
           event \in {"final", "done"} => from \in {"saved", "finaled"},
           event = "done" => from = "finaled" /\ to = "closed",
           to # "saved"
    PROVE  IInv'
<1>1. /\ srv[c].at = from /\ srv' = [srv EXCEPT ![c].at = to] /\ Send(c, event)
      /\ UNCHANGED <<client, enabled, stored>> /\ event \in Events
  BY DEF Emit, Events
<1>2. /\ wire' \in [Calls -> Seq(Events)] /\ \A d \in Calls \ {c} : wire'[d] = wire[d]
      /\ Reading(c) => wire'[c] = Append(wire[c], event)
      /\ ~Reading(c) => wire'[c] = wire[c]
  BY <1>1, SendFacts DEF IInv
<1>3. /\ stored' = stored /\ stored \in [Calls -> Calls \cup {None}]
      /\ from \in {"saved", "finaled"} => stored[c] = srv[c].conv
  BY <1>1, Types DEF IInv, RunInv
<1>4. RunStep(c, to)
  BY <1>1, <1>3 DEF RunStep
<1>5. RunSends(c, to)
  BY <1>1, <1>2, <1>3 DEF RunSends
<1> QED
  BY <1>2, <1>3, <1>4, <1>5, RunGoesOn

LEMMA StoreKeeps == ASSUME IInv, NEW c \in Calls, Store(c) PROVE IInv'
<1>1. /\ srv[c].at = "saving" /\ srv' = [srv EXCEPT ![c].at = "saved"]
      /\ stored' = [stored EXCEPT ![c] = srv[c].conv] /\ UNCHANGED <<client, wire, enabled>>
  BY DEF Store
<1>2. /\ stored \in [Calls -> Calls \cup {None}] /\ srv[c].conv \in Calls \cup {None}
      /\ wire \in [Calls -> Seq(Events)] /\ "saving" \in Serving /\ "saved" \in Serving
  BY Types DEF IInv, RunType, Serving
<1>3. RunStep(c, "saved") /\ RunSends(c, "saved")
  BY <1>1, <1>2 DEF RunStep, RunSends
<1> QED
  BY <1>1, <1>2, <1>3, RunGoesOn

LEMMA DisconnectedKeeps == ASSUME IInv, NEW c \in Calls, Disconnected(c) PROVE IInv'
<1>1. /\ srv[c].at \in Serving /\ srv' = [srv EXCEPT ![c].at = "failing"]
      /\ UNCHANGED <<client, wire, enabled, stored>> /\ "failing" \in Serving
  BY DEF Disconnected, Serving
<1>2. stored \in [Calls -> Calls \cup {None}] /\ wire \in [Calls -> Seq(Events)]
  BY Types DEF IInv
<1>3. RunStep(c, "failing") /\ RunSends(c, "failing")
  BY <1>1 DEF RunStep, RunSends
<1> QED
  BY <1>1, <1>2, <1>3, RunGoesOn

LEMMA CompensateKeeps == ASSUME IInv, NEW c \in Calls, Compensate(c) PROVE IInv'
<1>1. /\ srv[c].at = "failing" /\ "failing" \in Serving
      /\ srv' = [srv EXCEPT ![c].at = "closed"]
      /\ UNCHANGED <<client, wire, enabled>>
  BY DEF Compensate, Serving
<1>2. stored \in [Calls -> Calls \cup {None}] /\ wire \in [Calls -> Seq(Events)]
  BY Types DEF IInv
<1>3. srv[c].fresh => srv[c].conv = c
  BY <1>1 DEF IInv, RunInv
<1>4. \A d \in Calls : stored'[d] = IF d = c \/ (srv[c].fresh /\ stored[d] = srv[c].conv)
                                   THEN None ELSE stored[d]
  BY DEF Compensate
<1>5. stored' \in [Calls -> Calls \cup {None}]
  BY <1>2 DEF Compensate
<1>6. RunStep(c, "closed")
  BY <1>1, <1>3, <1>4 DEF RunStep
<1>7. RunSends(c, "closed")
  BY <1>1 DEF RunSends
<1> QED
  BY <1>1, <1>2, <1>5, <1>6, <1>7, RunGoesOn

LEMMA AnswerJsonKeeps == ASSUME IInv, NEW c \in Calls, AnswerJson(c) PROVE IInv'
<1>1. /\ srv[c].at \in Serving /\ srv' = [srv EXCEPT ![c].at = "closed"]
      /\ UNCHANGED <<client, enabled>>
  BY DEF AnswerJson, Serving
<1>2. /\ stored \in [Calls -> Calls \cup {None}] /\ srv[c].conv \in Calls \cup {None}
      /\ "answer" \in Events /\ "refused" \in Events
  BY Types DEF IInv, RunType, Events
<1>3. CASE stored' = [stored EXCEPT ![c] = srv[c].conv] /\ Send(c, "answer")
  <2>1. /\ wire' \in [Calls -> Seq(Events)] /\ \A d \in Calls \ {c} : wire'[d] = wire[d]
        /\ Reading(c) => wire'[c] = Append(wire[c], "answer")
        /\ ~Reading(c) => wire'[c] = wire[c]
    BY <1>2, <1>3, SendFacts DEF IInv
  <2>2. RunStep(c, "closed")
    BY <1>1, <1>2, <1>3 DEF RunStep
  <2>3. RunSends(c, "closed")
    BY <1>2, <1>3, <2>1 DEF RunSends
  <2> QED
    BY <1>2, <1>3, <2>1, <2>2, <2>3, RunGoesOn
<1>4. CASE stored' = stored /\ Send(c, "refused")
  <2>1. /\ wire' \in [Calls -> Seq(Events)] /\ \A d \in Calls \ {c} : wire'[d] = wire[d]
        /\ Reading(c) => wire'[c] = Append(wire[c], "refused")
        /\ ~Reading(c) => wire'[c] = wire[c]
    BY <1>2, <1>4, SendFacts DEF IInv
  <2>2. RunStep(c, "closed")
    BY <1>1, <1>2, <1>4 DEF RunStep
  <2>3. RunSends(c, "closed")
    BY <1>2, <1>4, <2>1 DEF RunSends
  <2> QED
    BY <1>2, <1>4, <2>1, <2>2, <2>3, RunGoesOn
<1> QED
  BY <1>3, <1>4 DEF AnswerJson

LEMMA ServeKeeps == ASSUME IInv, NEW c \in Calls, Serve(c) PROVE IInv'
<1>1. ASSUME EmitToken(c) \/ EmitStatus(c) \/ EmitPersisting(c) \/ EmitFinal(c)
               \/ EmitDone(c) \/ EmitError(c)
      PROVE  IInv'
  <2>1. CASE EmitToken(c) \/ EmitStatus(c) \/ EmitPersisting(c)
    BY <2>1, EmitKeeps DEF EmitToken, EmitStatus, EmitPersisting, Serving
  <2>2. CASE EmitFinal(c) \/ EmitDone(c)
    BY <2>2, EmitKeeps DEF EmitFinal, EmitDone, Serving
  <2>3. CASE EmitError(c)
    BY <2>3, EmitKeeps DEF EmitError, Serving
  <2> QED
    BY <1>1, <2>1, <2>2, <2>3
<1> QED
  BY <1>1, AcceptKeeps, StoreKeeps, DisconnectedKeeps, CompensateKeeps, AcceptJsonKeeps,
     AnswerJsonKeeps DEF Serve

-----------------------------------------------------------------------------
(* The theorems.                                                           *)

LEMMA StutterKeeps == ASSUME IInv, UNCHANGED vars PROVE IInv'
<1>1. UNCHANGED <<client, wire, enabled, srv, stored>>
  BY DEF vars, server
<1>2. /\ \A d \in Calls : Reading(d)' = Reading(d) /\ Showing(d)' = Showing(d)
      /\ KeysInv' /\ PanelInv' /\ OwnerInv'
      /\ turn' = turn /\ call' = call /\ conv' = conv
  BY <1>1, ClientUnchanged DEF client, IInv
<1>3. TypeOK'
  BY <1>1 DEF TypeOK, client, IInv
<1>4. RunInv' /\ NamedInv' /\ CompletedInv'
  BY <1>1, <1>2 DEF RunInv, NamedInv, CompletedInv, IInv
<1>5. WireInv'
  BY <1>1, <1>2 DEF WireInv, Sent, Identified, IInv
<1> QED
  BY <1>2, <1>3, <1>4, <1>5 DEF IInv

LEMMA InvariantHolds == Spec => []IInv
<1>1. Init => IInv
  BY InitIInv
<1>2. IInv /\ [Next]_vars => IInv'
  BY UserKeeps, CallKeeps, ServeKeeps, StutterKeeps DEF Next
<1> QED
  BY <1>1, <1>2, PTL DEF Spec

\* A turn the user sees as completed is one the server keeps, whatever was stopped,
\* left, reloaded or broken meanwhile.
THEOREM CompletedTurnsStored == Spec => []CompletedIsStored
<1>1. IInv => CompletedIsStored
  <2> SUFFICES ASSUME IInv, NEW c \in Calls, turn[c].key # NoKey,
                      turn[c].status = "completed"
               PROVE  stored[c] # None /\ stored[c] = conv[turn[c].key]
    BY DEF CompletedIsStored
  <2>1. /\ srv[c].at = "closed" /\ stored[c] = srv[c].conv
        /\ conv[turn[c].key] = srv[c].conv
    BY DEF IInv, CompletedInv
  <2> QED
    BY <2>1, RunHasName
<1> QED
  BY <1>1, InvariantHolds, PTL

\* An answer that comes back after the user went on to another conversation names the
\* conversation it was asked in, and no other.
THEOREM ConversationsStayApart == Spec => []ConversationsApart
<1>1. IInv => ConversationsApart
  BY Types DEF IInv, OwnerInv, ConversationsApart
<1> QED
  BY <1>1, InvariantHolds, PTL

-----------------------------------------------------------------------------
(* A settled call has unlocked its panel.                                  *)

Ended == {"event", "stopped", "answered"}

\* Nothing follows the end of a run on the wire, nothing is read after it, and tokens
\* come neither before the run nor from the JSON endpoint.
ReadingInv(c) ==
    /\ ~call[c].dropped
    /\ call[c].status \in Terminal =>
           wire[c] = <<>> /\ srv[c].at \in {"failing", "closed"} /\ ~call[c].pending
    /\ \A i \in 1 .. Len(wire[c]) : wire[c][i] \in {"done", "error"} =>
           i = Len(wire[c]) /\ srv[c].at \in {"failing", "closed"}
    /\ srv[c].at = "none" \/ call[c].at = "fallback" =>
           ~call[c].pending /\ ~Sent(c, "token")
    /\ call[c].at = "fallback" => srv[c].at \in {"none", "json", "closed"}
    /\ srv[c].at = "json" \/ Sent(c, "answer") => call[c].at = "fallback"
    /\ Sent(c, "disabled") => srv[c].at = "none"

\* The turn shows the status of its call as long as it is shown; nothing is left to be
\* flushed after a call has settled.
SettledInv(c) ==
    /\ call[c].attached => page = "workspace"
    /\ Showing(c) => turn[c].status = AssistantStatus(call[c].status)
    /\ call[c].end \in Ended /\ ~call[c].dropped =>
           call[c].at = "over" /\ ~call[c].pending /\ call[c].status \in Terminal
    /\ call[c].at = "none" => wire[c] = <<>>
    /\ Reading(c) => ReadingInv(c)

AllSettled == \A c \in Calls : SettledInv(c)

\* Calls that a step leaves alone.
LEMMA OtherCalls ==
    ASSUME NEW d \in Calls, SettledInv(d), page' = page, call'[d] = call[d],
           turn'[d] = turn[d], wire'[d] = wire[d], srv'[d] = srv[d]
    PROVE  SettledInv(d)'
  BY DEF SettledInv, ReadingInv, Showing, Reading, Live, Sent

LEMMA CommitFacts ==
    ASSUME TypeOK, NEW c \in Calls, NEW r \in CallType, Commit(c, r)
    PROVE  /\ call'[c] = r
           /\ \A d \in Calls \ {c} : call'[d] = call[d] /\ turn'[d] = turn[d]
           /\ r.attached /\ ~r.dropped => turn'[c].status = AssistantStatus(r.status)
<1>1. call \in [Calls -> CallType] /\ turn \in [Calls -> TurnType]
  BY Types
<1>2. CASE r.attached /\ ~r.dropped
  <2> DEFINE shown == [turn[c] EXCEPT !.status = AssistantStatus(r.status)]
  <2>1. turn' = [turn EXCEPT ![c] = shown] /\ call' = [call EXCEPT ![c] = r]
    BY <1>2 DEF Commit, Shown
  <2>2. shown.status = AssistantStatus(r.status)
    BY <1>1 DEF TurnType
  <2> HIDE DEF shown
  <2> QED
    BY <1>1, <2>1, <2>2
<1>3. CASE ~(r.attached /\ ~r.dropped)
  BY <1>1, <1>3 DEF Commit, Shown
<1> QED
  BY <1>2, <1>3

\* A handled event leaves nothing to be flushed, and ends the run if it is terminal.
LEMMA HandleSettles ==
    ASSUME NEW r \in CallType, ~r.dropped,
           NEW event \in {"status", "persisting", "final", "done", "error", "cancelled"}
    PROVE  /\ ~Handle(r, event).pending
           /\ Handle(r, event).status \in Terminal <=> event \in {"done", "error", "cancelled"}
           /\ Handle(r, event).end = r.end
<1> DEFINE f == Flush(r)
<1>1. f \in CallType /\ ~f.pending /\ f.end = r.end
  BY DEF Flush, CallType
<1> HIDE DEF f
<1>2. Handle(r, event) = Reduce(f, event)
  BY DEF Handle, f
<1>3. CASE event = "status"
  BY <1>1, <1>2, <1>3 DEF Reduce, CallType, Terminal
<1>4. CASE event \in {"persisting", "final"}
  BY <1>1, <1>2, <1>4 DEF Reduce, CallType, Terminal
<1>5. CASE event = "done"
  BY <1>1, <1>2, <1>5 DEF Reduce, CallType, Terminal
<1>6. CASE event = "error"
  BY <1>1, <1>2, <1>6 DEF Reduce, CallType, Terminal
<1>7. CASE event = "cancelled"
  BY <1>1, <1>2, <1>7 DEF Reduce, CallType, Terminal
<1> QED
  BY <1>3, <1>4, <1>5, <1>6, <1>7

\* A call that ends settled had a terminal status and nothing buffered.
LEMMA OverSettles ==
    ASSUME TypeOK, AllSettled, NEW c \in Calls, call[c].at # "none", NEW r \in CallType,
           SameCall(r, call[c]),
           NEW end \in {"none", "event", "stopped", "answered", "broken"}, Over(c, r, end),
           end \in Ended /\ ~r.dropped => ~r.pending /\ r.status \in Terminal,
           page' = page, srv' = srv, \A d \in Calls \ {c} : wire'[d] = wire[d]
    PROVE  AllSettled'
<1> DEFINE f == Flush(r)
           o == [f EXCEPT !.at = "over", !.end = end]
<1>1. /\ f \in CallType /\ SameCall(f, r)
      /\ ~r.dropped => ~f.pending
      /\ ~r.pending => f.status = r.status
  BY DEF Flush, CallType, SameCall
<1>2. Commit(c, o)
  BY DEF Over
<1> HIDE DEF f
<1>3. /\ o \in CallType /\ o.at = "over" /\ o.attached = call[c].attached
      /\ o.dropped = r.dropped /\ o.pending = f.pending /\ o.status = f.status /\ o.end = end
  BY <1>1 DEF CallType, SameCall
<1> HIDE DEF o
<1>4. /\ call'[c] = o
      /\ \A d \in Calls \ {c} : call'[d] = call[d] /\ turn'[d] = turn[d]
      /\ o.attached /\ ~o.dropped => turn'[c].status = AssistantStatus(o.status)
  BY <1>2, <1>3, CommitFacts
<1>5. SettledInv(c)'
  <2>1. call'[c].attached => page' = "workspace"
    BY <1>3, <1>4 DEF AllSettled, SettledInv
  <2>2. Showing(c)' => turn'[c].status = AssistantStatus(call'[c].status)
    BY <1>4 DEF Showing
  <2>3. call'[c].end \in Ended /\ ~call'[c].dropped =>
            call'[c].at = "over" /\ ~call'[c].pending /\ call'[c].status \in Terminal
    BY <1>1, <1>3, <1>4
  <2>4. call'[c].at # "none" /\ ~Reading(c)'
    BY <1>3, <1>4 DEF Reading, Live, Awaiting
  <2> QED
    BY <2>1, <2>2, <2>3, <2>4 DEF SettledInv
<1> QED
  BY <1>4, <1>5, OtherCalls DEF AllSettled

\* The next event is read; after a terminal one nothing is left to be read.
LEMMA ReadSettles ==
    ASSUME IInv, AllSettled, NEW c \in Calls, Read(c)
    PROVE  AllSettled'
<1> DEFINE event == Head(wire[c])
<1>1. /\ Live(c) /\ ~call[c].aborted /\ Reading(c) /\ call[c].at # "none"
      /\ call[c] \in CallType /\ call \in [Calls -> CallType] /\ TypeOK
      /\ wire[c] \in Seq(Events) /\ wire[c] # <<>> /\ wire \in [Calls -> Seq(Events)]
      /\ wire' = [wire EXCEPT ![c] = Tail(wire[c])]
      /\ page' = page /\ srv' = srv
  BY Types DEF Read, Reading, Live, Awaiting, IInv, server
<1>2. /\ Len(wire[c]) \in Nat /\ Len(wire[c]) > 0
      /\ event = wire[c][1] /\ event \in Events
      /\ wire'[c] \in Seq(Events) /\ Len(wire'[c]) = Len(wire[c]) - 1
      /\ \A i \in 1 .. Len(wire[c]) - 1 : wire'[c][i] = wire[c][i + 1]
  BY <1>1, TailFacts
<1>3. \A d \in Calls \ {c} : wire'[d] = wire[d]
  BY <1>1
<1>4. SettledInv(c) /\ ReadingInv(c) /\ ~call[c].dropped /\ call[c].status \notin Terminal
  BY <1>1 DEF AllSettled, SettledInv, ReadingInv
<1>5. Sent(c, event)
  BY <1>2 DEF Sent
<1>6. \A e : Sent(c, e)' => Sent(c, e)
  BY <1>2 DEF Sent
<1>7. \A i \in 1 .. Len(wire'[c]) : wire'[c][i] \in {"done", "error"} =>
          i = Len(wire'[c]) /\ srv[c].at \in {"failing", "closed"}
  <2> SUFFICES ASSUME NEW i \in 1 .. Len(wire'[c]), wire'[c][i] \in {"done", "error"}
               PROVE  i = Len(wire'[c]) /\ srv[c].at \in {"failing", "closed"}
    OBVIOUS
  <2>1. i + 1 \in 1 .. Len(wire[c]) /\ wire[c][i + 1] = wire'[c][i]
    BY <1>2
  <2>2. i + 1 = Len(wire[c]) /\ srv[c].at \in {"failing", "closed"}
    BY <1>4, <2>1 DEF ReadingInv
  <2> QED
    BY <1>2, <2>1, <2>2
<1>8. event \in {"done", "error"} =>
          wire'[c] = <<>> /\ srv[c].at \in {"failing", "closed"}
  <2> SUFFICES ASSUME event \in {"done", "error"}
               PROVE  wire'[c] = <<>> /\ srv[c].at \in {"failing", "closed"}
    OBVIOUS
  <2>1. 1 = Len(wire[c]) /\ srv[c].at \in {"failing", "closed"}
    <3>1. 1 \in 1 .. Len(wire[c]) /\ wire[c][1] \in {"done", "error"}
      BY <1>2
    <3> QED
      BY <1>4, <3>1 DEF ReadingInv
  <2>2. Len(wire'[c]) = 0
    BY <1>2, <2>1
  <2> QED
    BY <1>2, <2>1, <2>2
<1> HIDE DEF event
\* What is left of the wire suits a call r that goes on.
<1>9. ASSUME NEW r \in CallType, call'[c] = r,
             r.at = call[c].at \/ (r.at = "fallback" /\ event = "disabled"),
             r.aborted = call[c].aborted, r.dropped = call[c].dropped,
             r.attached = call[c].attached, r.end = call[c].end,
             r.status \in Terminal => event \in {"done", "error"} /\ ~r.pending,
             r.pending => call[c].pending \/ event = "token",
             Showing(c)' => turn'[c].status = AssistantStatus(r.status),
             \A d \in Calls \ {c} : call'[d] = call[d] /\ turn'[d] = turn[d]
      PROVE  AllSettled'
  <2>1. ReadingInv(c)'
    <3>1. event = "disabled" => srv[c].at = "none"
      BY <1>4, <1>5 DEF ReadingInv
    <3>2. srv[c].at = "none" \/ r.at = "fallback" => srv[c].at = "none" \/ call[c].at = "fallback"
      BY <1>9, <3>1
    <3>3. srv[c].at = "none" \/ call[c].at = "fallback" =>
              ~call[c].pending /\ ~Sent(c, "token") /\ event # "token"
      BY <1>4, <1>5 DEF ReadingInv
    <3>4. srv'[c].at = "none" \/ call'[c].at = "fallback" =>
              ~call'[c].pending /\ ~Sent(c, "token")'
      BY <1>1, <1>6, <1>9, <3>2, <3>3
    <3>5. call'[c].at = "fallback" => srv'[c].at \in {"none", "json", "closed"}
      BY <1>1, <1>4, <1>9, <3>1 DEF ReadingInv
    <3>6. srv'[c].at = "json" \/ Sent(c, "answer")' => call'[c].at = "fallback"
      BY <1>1, <1>4, <1>6, <1>9 DEF ReadingInv
    <3>7. Sent(c, "disabled")' => srv'[c].at = "none"
      BY <1>1, <1>4, <1>6 DEF ReadingInv
    <3>8. call'[c].status \in Terminal =>
              wire'[c] = <<>> /\ srv'[c].at \in {"failing", "closed"} /\ ~call'[c].pending
      BY <1>1, <1>8, <1>9
    <3> QED
      BY <1>1, <1>4, <1>7, <1>9, <3>4, <3>5, <3>6, <3>7, <3>8 DEF ReadingInv
  <2>2. call[c].end \notin Ended
    BY <1>1, <1>4 DEF SettledInv, Live, Awaiting
  <2>3. call'[c].at # "none" /\ call'[c].end \notin Ended
    BY <1>1, <1>9, <2>2
  <2>4. call'[c].attached => page' = "workspace"
    BY <1>1, <1>4, <1>9 DEF SettledInv
  <2>5. SettledInv(c)'
    BY <1>9, <2>1, <2>3, <2>4 DEF SettledInv
  <2> QED
    BY <1>1, <1>3, <1>9, <2>5, OtherCalls DEF AllSettled
<1>10. CASE ReadToken(c, event)
  <2> DEFINE r == [call[c] EXCEPT !.pending = TRUE]
  <2>1. /\ r \in CallType /\ r.at = call[c].at /\ r.aborted = call[c].aborted
        /\ r.dropped = call[c].dropped /\ r.attached = call[c].attached
        /\ r.end = call[c].end /\ r.status = call[c].status
    BY <1>1 DEF CallType
  <2>2. event = "token" /\ turn' = turn /\ call' = [call EXCEPT ![c] = r]
    BY <1>10 DEF ReadToken
  <2> HIDE DEF r
  <2>3. call'[c] = r /\ \A d \in Calls \ {c} : call'[d] = call[d] /\ turn'[d] = turn[d]
    BY <1>1, <2>2
  <2>4. Showing(c)' => turn'[c].status = AssistantStatus(r.status)
    BY <1>4, <2>1, <2>2, <2>3 DEF Showing, SettledInv
  <2> QED
    BY <1>4, <1>9, <2>1, <2>2, <2>3, <2>4
<1>11. CASE ReadEvent(c, event)
  <2> DEFINE r == Handle(call[c], event)
  <2>1. event \in {"status", "persisting", "final", "done", "error"} /\ Commit(c, r)
    BY <1>11 DEF ReadEvent
  <2>2. event \in {"status", "persisting", "final", "done", "error", "cancelled"}
    BY <2>1
  <2>3. r \in CallType /\ SameCall(r, call[c]) /\ r.aborted = call[c].aborted
    BY <1>1, <2>2, HandleFacts
  <2>4. /\ ~r.pending /\ r.end = call[c].end
        /\ r.status \in Terminal <=> event \in {"done", "error", "cancelled"}
    BY <1>1, <1>4, <2>2, HandleSettles
  <2> HIDE DEF r
  <2>5. /\ call'[c] = r
        /\ \A d \in Calls \ {c} : call'[d] = call[d] /\ turn'[d] = turn[d]
        /\ Showing(c)' => turn'[c].status = AssistantStatus(r.status)
    BY <1>1, <2>1, <2>3, CommitFacts DEF Showing
  <2> QED
    BY <1>9, <2>1, <2>3, <2>4, <2>5 DEF SameCall
<1>12. CASE Fallback(c, event)
  <2> DEFINE r == [call[c] EXCEPT !.at = "fallback"]
  <2>1. /\ r \in CallType /\ r.at = "fallback" /\ r.aborted = call[c].aborted
        /\ r.dropped = call[c].dropped /\ r.attached = call[c].attached
        /\ r.end = call[c].end /\ r.status = call[c].status /\ r.pending = call[c].pending
    BY <1>1 DEF CallType, Awaiting
  <2>2. event = "disabled" /\ turn' = turn /\ call' = [call EXCEPT ![c] = r]
    BY <1>12 DEF Fallback
  <2> HIDE DEF r
  <2>3. call'[c] = r /\ \A d \in Calls \ {c} : call'[d] = call[d] /\ turn'[d] = turn[d]
    BY <1>1, <2>2
  <2>4. Showing(c)' => turn'[c].status = AssistantStatus(r.status)
    BY <1>4, <2>1, <2>2, <2>3 DEF Showing, SettledInv
  <2> QED
    BY <1>4, <1>9, <2>1, <2>2, <2>3, <2>4
<1>13. CASE ReadRefusal(c, event)
  <2> DEFINE r == Handle(call[c], "error")
  <2>1. Over(c, r, "broken") /\ r \in CallType /\ SameCall(r, call[c])
    BY <1>1, <1>13, HandleFacts DEF ReadRefusal
  <2> HIDE DEF r
  <2> QED
    BY <1>1, <1>3, <2>1, OverSettles DEF Ended
<1>14. CASE ReadAnswer(c, event)
  <2> DEFINE r == [call[c] EXCEPT !.status = "completed"]
  <2>1. event = "answer" /\ Over(c, r, "answered")
    BY <1>4, <1>14 DEF ReadAnswer
  <2>2. r \in CallType /\ SameCall(r, call[c]) /\ r.pending = call[c].pending
        /\ r.status \in Terminal
    BY <1>1 DEF CallType, SameCall, Terminal
  <2>3. ~call[c].pending
    BY <1>4, <1>5, <2>1 DEF ReadingInv
  <2> HIDE DEF r
  <2> QED
    BY <1>1, <1>3, <2>1, <2>2, <2>3, OverSettles
<1> QED
  BY <1>10, <1>11, <1>12, <1>13, <1>14 DEF Read, event

\* The other steps of a promise chain.
LEMMA ChainSettles ==
    ASSUME IInv, AllSettled, NEW c \in Calls, Chain(c)
    PROVE  AllSettled'
<1>1. TypeOK /\ call[c] \in CallType /\ call \in [Calls -> CallType]
  BY Types DEF IInv
<1>2. SettledInv(c)
  BY DEF AllSettled
<1>3. CASE Read(c)
  BY <1>3, ReadSettles
<1>4. CASE FlushTimer(c)
  <2> DEFINE r == Flush(call[c])
  <2>1. /\ c = panel /\ call[c].pending /\ Commit(c, r)
        /\ UNCHANGED <<page, keys, activeKey, conv, panel, wire, server>>
    BY <1>4 DEF FlushTimer
  <2>2. ~call[c].dropped /\ call[c].at # "none"
    BY <2>1, ConstantsAssumption DEF IInv, PanelInv
  <2>3. /\ r \in CallType /\ SameCall(r, call[c]) /\ r.aborted = call[c].aborted
        /\ ~r.pending /\ r.status = "streaming" /\ r.end = call[c].end
    BY <1>1, <2>1, <2>2 DEF Flush, CallType, SameCall
  <2> HIDE DEF r
  <2>4. /\ call'[c] = r
        /\ \A d \in Calls \ {c} : call'[d] = call[d] /\ turn'[d] = turn[d]
        /\ r.attached /\ ~r.dropped => turn'[c].status = AssistantStatus(r.status)
    BY <1>1, <2>1, <2>3, CommitFacts
  <2>5. UNCHANGED <<page, wire, srv>>
    BY <2>1 DEF server
  <2>6. call[c].end \notin Ended
    BY <1>2, <2>1, <2>2 DEF SettledInv
  <2>7. ReadingInv(c) => ReadingInv(c)'
    BY <2>3, <2>4, <2>5 DEF ReadingInv, Sent, SameCall, Terminal
  <2>8. Reading(c)' <=> Reading(c)
    BY <2>3, <2>4 DEF Reading, Live, SameCall
  <2>9. SettledInv(c)'
    BY <1>2, <2>2, <2>3, <2>4, <2>5, <2>6, <2>7, <2>8
    DEF SettledInv, Showing, SameCall
  <2> QED
    BY <2>4, <2>5, <2>9, OtherCalls DEF AllSettled
<1>5. CASE EndOfStream(c)
  <2>1. /\ call[c].at = "stream" /\ ~call[c].aborted /\ Finished(c)
        /\ Over(c, call[c], "event") /\ UNCHANGED <<page, wire, srv>>
    BY <1>5 DEF EndOfStream, server
  <2>2. Reading(c) /\ call[c].status \in Terminal
    BY <2>1 DEF Reading, Live, Awaiting, Finished
  <2>3. ~call[c].pending
    BY <1>2, <2>2 DEF SettledInv, ReadingInv
  <2> QED
    BY <1>1, <2>1, <2>2, <2>3, OverSettles DEF SameCall
<1>6. CASE Interrupted(c)
  <2> DEFINE r == IF call[c].status = "failed" \/ call[c].dropped THEN call[c]
                  ELSE [call[c] EXCEPT !.status = "failed"]
  <2>1. Live(c) /\ Over(c, r, "broken") /\ page' = page /\ srv' = srv
        /\ wire' = [wire EXCEPT ![c] = <<>>]
    BY <1>6 DEF Interrupted, server
  <2>2. r \in CallType /\ SameCall(r, call[c])
    BY <1>1 DEF CallType, SameCall, Terminal
  <2>3. \A d \in Calls \ {c} : wire'[d] = wire[d]
    BY <1>1, <2>1, Types
  <2>4. call[c].at # "none"
    BY <2>1 DEF Live, Awaiting
  <2> HIDE DEF r
  <2> QED
    BY <1>1, <2>1, <2>2, <2>3, <2>4, OverSettles DEF Ended
<1>7. CASE Aborted(c)
  <2>1. Live(c) /\ Over(c, Stopped(c), "stopped") /\ page' = page /\ srv' = srv
        /\ wire' = [wire EXCEPT ![c] = <<>>]
    BY <1>7 DEF Aborted, server
  <2>2. Stopped(c) \in CallType /\ SameCall(Stopped(c), call[c])
    BY <1>1, HandleFacts DEF Stopped
  <2>3. ~call[c].dropped => ~Stopped(c).pending /\ Stopped(c).status \in Terminal
    BY <1>1, HandleSettles DEF Stopped
  <2>4. \A d \in Calls \ {c} : wire'[d] = wire[d]
    BY <1>1, <2>1, Types
  <2>5. call[c].at # "none"
    BY <2>1 DEF Live, Awaiting
  <2>6. ~Stopped(c).dropped => ~Stopped(c).pending /\ Stopped(c).status \in Terminal
    BY <2>2, <2>3 DEF SameCall
  <2> QED
    BY <1>1, <2>1, <2>2, <2>4, <2>5, <2>6, OverSettles
<1> QED
  BY <1>3, <1>4, <1>5, <1>6, <1>7 DEF Chain

\* A call that is taken away from its panel, or stopped, reads no more.
LEMMA LeftCall ==
    ASSUME NEW c \in Calls, SettledInv(c), call[c] \in CallType, call'[c] \in CallType,
           call'[c].at = call[c].at, call'[c].status = call[c].status,
           call'[c].pending = call[c].pending, call'[c].end = call[c].end,
           Showing(c)' => Showing(c), call'[c].attached => call[c].attached,
           call[c].dropped => call'[c].dropped, ~Reading(c)',
           call'[c].attached => page' = page,
           UNCHANGED <<turn, wire, srv>>
    PROVE  SettledInv(c)'
  BY DEF SettledInv

LEMMA AbortSettles ==
    ASSUME NEW r \in CallType
    PROVE  /\ Abort(r).pending = r.pending /\ Abort(r).end = r.end
           /\ r.at \notin Awaiting => Abort(r) = r
  BY DEF Abort, CallType

LEMMA UnmountSettles ==
    ASSUME IInv, AllSettled, NEW drop \in BOOLEAN, Unmount(drop),
           UNCHANGED <<page, turn, wire, server>>
    PROVE  AllSettled'
<1>1. call \in [Calls -> CallType] /\ UNCHANGED <<page, turn, wire, srv>>
  BY Types DEF IInv, server
<1>2. ASSUME NEW c \in Calls PROVE SettledInv(c)'
  <2>1. SettledInv(c) /\ call[c] \in CallType
    BY <1>1 DEF AllSettled
  <2>2. CASE c # panel
    <3>1. call'[c] = call[c]
      BY <2>2 DEF Unmount
    <3> QED
      BY <1>1, <2>1, <3>1, OtherCalls
  <2>3. CASE c = panel
    <3> DEFINE a == Abort(call[c])
    <3>1. /\ a \in CallType /\ SameCall(a, call[c]) /\ a.status = call[c].status
          /\ a.pending = call[c].pending /\ a.end = call[c].end
          /\ call[c].at \in Awaiting => a.aborted
      BY <2>1, AbortFacts, AbortSettles
    <3>2. call'[c] = [a EXCEPT !.dropped = drop]
      BY <2>3 DEF Unmount
    <3> HIDE DEF a
    <3>3. ~call[c].dropped
      BY <2>3, ConstantsAssumption DEF IInv, PanelInv
    <3>4. /\ call'[c] \in CallType /\ call'[c].at = call[c].at
          /\ call'[c].status = call[c].status /\ call'[c].pending = call[c].pending
          /\ call'[c].end = call[c].end /\ call'[c].attached = call[c].attached
          /\ call'[c].aborted = a.aborted
      BY <3>1, <3>2 DEF CallType, SameCall
    <3>5. ~Reading(c)' /\ (Showing(c)' => Showing(c))
      BY <3>1, <3>3, <3>4 DEF Reading, Live, Showing
    <3> QED
      BY <1>1, <2>1, <3>3, <3>4, <3>5, LeftCall
  <2> QED
    BY <2>2, <2>3
<1> QED
  BY <1>2 DEF AllSettled

LEMMA UserSettles ==
    ASSUME IInv, AllSettled, User
    PROVE  AllSettled'
<1>1. /\ call \in [Calls -> CallType] /\ turn \in [Calls -> TurnType]
      /\ panel \in Calls \cup {None}
  BY Types DEF IInv
<1>2. \A c \in Calls : SettledInv(c)
  BY DEF AllSettled
<1>3. ASSUME NEW c \in Calls, Submit(c) PROVE AllSettled'
  <2> DEFINE new == [NoCall EXCEPT !.at = "stream", !.sent = conv[activeKey], !.attached = TRUE]
             asked == [NoTurn EXCEPT !.key = activeKey]
  <2>1. /\ call' = [call EXCEPT ![c] = new] /\ turn' = [turn EXCEPT ![c] = asked]
        /\ page = "workspace" /\ UNCHANGED <<page, wire, srv>> /\ call[c].at = "none"
    BY <1>3 DEF Submit, server
  <2>2. /\ new.at = "stream" /\ new.status = "idle" /\ ~new.pending /\ ~new.dropped
        /\ new.end = "none" /\ asked.status = "pending"
    BY DEF NoCall, NoTurn
  <2> HIDE DEF new, asked
  <2>3. /\ call'[c] = new /\ turn'[c] = asked
        /\ \A d \in Calls \ {c} : call'[d] = call[d] /\ turn'[d] = turn[d]
    BY <1>1, <2>1
  <2>4. wire[c] = <<>> /\ \A e : ~Sent(c, e)'
    BY <1>2, <2>1 DEF SettledInv, Sent
  <2>5. srv[c].at = "none"
    BY <2>1 DEF IInv, RunInv
  <2>6. ReadingInv(c)'
    BY <2>1, <2>2, <2>3, <2>4, <2>5 DEF ReadingInv, Terminal
  <2>7. SettledInv(c)'
    BY <2>1, <2>2, <2>3, <2>6 DEF SettledInv, AssistantStatus, Ended
  <2> QED
    BY <1>2, <2>1, <2>3, <2>7, OtherCalls DEF AllSettled
<1>4. CASE StopGeneration
  <2>0. PICK p \in Calls : p = panel
    BY <1>1, <1>4 DEF StopGeneration, Loading
  <2>1. /\ Live(p) /\ call' = [call EXCEPT ![p] = Abort(call[p])]
        /\ UNCHANGED <<page, turn, wire, srv>>
    BY <1>4, <2>0 DEF StopGeneration, server
  <2>2. \A d \in Calls \ {p} : call'[d] = call[d]
    BY <1>1, <2>1
  <2>3. /\ call'[p] \in CallType /\ SameCall(call'[p], call[p])
        /\ call'[p].status = call[p].status
        /\ call'[p].pending = call[p].pending
        /\ call'[p].end = call[p].end /\ call'[p].aborted
    BY <1>1, <2>1, AbortFacts, AbortSettles DEF Live
  <2>4. SettledInv(p)'
    <3>1. ~Reading(p)' /\ (Showing(p)' => Showing(p))
      BY <2>3 DEF Reading, Showing, SameCall
    <3> QED
      BY <1>1, <1>2, <2>1, <2>3, <3>1 DEF SettledInv, SameCall
  <2> QED
    BY <1>2, <2>1, <2>2, <2>4, OtherCalls DEF AllSettled
<1>5. CASE OpenSettings
  <2>1. UNCHANGED <<turn, wire, srv>>
    BY <1>5 DEF OpenSettings, server
  <2>2. ASSUME NEW c \in Calls PROVE SettledInv(c)'
    <3> DEFINE q == IF c = panel THEN Abort(call[c]) ELSE call[c]
    <3>1. /\ q \in CallType /\ SameCall(q, call[c]) /\ q.status = call[c].status
          /\ q.pending = call[c].pending /\ q.end = call[c].end
          /\ call[c].aborted => q.aborted
      BY <1>1, AbortFacts, AbortSettles DEF SameCall
    <3>2. call'[c] = [q EXCEPT !.attached = FALSE]
      BY <1>5 DEF OpenSettings
    <3> HIDE DEF q
    <3>3. /\ call'[c] \in CallType /\ call'[c].at = call[c].at /\ ~call'[c].attached
          /\ call'[c].status = call[c].status /\ call'[c].pending = call[c].pending
          /\ call'[c].end = call[c].end /\ call'[c].dropped = call[c].dropped
          /\ call[c].aborted => call'[c].aborted
      BY <3>1, <3>2 DEF CallType, SameCall
    <3>4. Reading(c)' => Reading(c)
      BY <3>3 DEF Reading, Live
    <3>5. ReadingInv(c) => ReadingInv(c)'
      BY <2>1, <3>3 DEF ReadingInv, Sent
    <3> QED
      BY <1>2, <2>1, <3>3, <3>4, <3>5 DEF SettledInv, Showing
  <2> QED
    BY <2>2 DEF AllSettled
<1>6. CASE CloseSettings
  <2>1. page = "settings" /\ UNCHANGED <<call, wire, srv>>
    BY <1>6 DEF CloseSettings, server
  <2>2. ASSUME NEW c \in Calls PROVE SettledInv(c)'
    <3>1. ~call[c].attached
      BY <1>2, <2>1 DEF SettledInv
    <3>2. ReadingInv(c) => ReadingInv(c)'
      BY <2>1 DEF ReadingInv, Sent
    <3> QED
      BY <1>2, <2>1, <3>1, <3>2 DEF SettledInv, Showing, Reading, Live
  <2> QED
    BY <2>2 DEF AllSettled
<1>7. CASE Reload
  <2>1. ASSUME NEW c \in Calls PROVE SettledInv(c)'
    <3>1. wire'[c] = <<>>
      BY <1>7 DEF Reload
    <3>2. CASE Live(c)
      <4>1. call'[c] = [call[c] EXCEPT !.at = "over", !.end = "broken", !.attached = FALSE]
        BY <1>7, <3>2 DEF Reload
      <4>2. call'[c].at = "over" /\ call'[c].end = "broken" /\ ~call'[c].attached
        BY <1>1, <4>1 DEF CallType
      <4> QED
        BY <3>1, <4>2 DEF SettledInv, Showing, Reading, Live, Awaiting, Ended
    <3>3. CASE ~Live(c)
      <4>1. call'[c] = [call[c] EXCEPT !.attached = FALSE]
        BY <1>7, <3>3 DEF Reload
      <4>2. /\ call'[c].at = call[c].at /\ ~call'[c].attached /\ call'[c].end = call[c].end
            /\ call'[c].dropped = call[c].dropped /\ call'[c].pending = call[c].pending
            /\ call'[c].status = call[c].status
        BY <1>1, <4>1 DEF CallType
      <4> QED
        BY <1>2, <3>1, <3>3, <4>2 DEF SettledInv, Showing, Reading, Live
    <3> QED
      BY <3>2, <3>3
  <2> QED
    BY <2>1 DEF AllSettled
<1>8. ASSUME NEW drop \in BOOLEAN, NewChat(drop) PROVE AllSettled'
  BY <1>8, UnmountSettles DEF NewChat
<1>9. ASSUME NEW k \in Keys, SelectConversation(k) PROVE AllSettled'
  BY <1>9, UnmountSettles DEF SelectConversation
<1> QED
  BY <1>3, <1>4, <1>5, <1>6, <1>7, <1>8, <1>9 DEF User

\* An event is sent, or none, and the run goes on as the event says.
LEMMA ServerSettles ==
    ASSUME IInv, AllSettled, NEW c \in Calls, client' = client,
           \A d \in Calls \ {c} : wire'[d] = wire[d] /\ srv'[d] = srv[d],
           Reading(c) => ReadingInv(c)', ~Reading(c) => wire'[c] = wire[c]
    PROVE  AllSettled'
<1>1. UNCHANGED <<page, turn, call>>
  BY DEF client
<1>2. SettledInv(c)'
  <2>1. SettledInv(c)
    BY DEF AllSettled
  <2>2. (Reading(c)' <=> Reading(c)) /\ (Showing(c)' <=> Showing(c))
    BY <1>1 DEF Reading, Live, Showing
  <2>3. call[c].at = "none" => ~Reading(c)
    BY DEF Reading, Live, Awaiting
  <2> QED
    BY <1>1, <2>1, <2>2, <2>3 DEF SettledInv
<1> QED
  BY <1>1, <1>2, OtherCalls DEF AllSettled

\* What is appended to the wire.
LEMMA AppendSent ==
    ASSUME NEW c \in Calls, wire[c] \in Seq(Events), NEW event \in Events,
           wire'[c] = Append(wire[c], event)
    PROVE  /\ \A e : Sent(c, e)' <=> (Sent(c, e) \/ e = event)
           /\ Len(wire'[c]) = Len(wire[c]) + 1
           /\ \A i \in 1 .. Len(wire'[c]) :
                 \/ i \in 1 .. Len(wire[c]) /\ wire'[c][i] = wire[c][i]
                 \/ i = Len(wire'[c]) /\ wire'[c][i] = event
<1>1. /\ Len(wire[c]) \in Nat /\ Len(wire'[c]) = Len(wire[c]) + 1
      /\ \A i \in 1 .. Len(wire[c]) : wire'[c][i] = wire[c][i]
      /\ wire'[c][Len(wire[c]) + 1] = event
  BY AppendFacts
<1>2. \A e : Sent(c, e)' <=> (Sent(c, e) \/ e = event)
  BY <1>1 DEF Sent
<1> QED
  BY <1>1, <1>2

LEMMA EmitSettles ==
    ASSUME IInv, AllSettled, NEW c \in Calls,
           NEW event \in {"status", "token", "persisting", "final", "done", "error"},
           NEW from \in {"running", "saving", "saved", "finaled"},
           NEW to \in Serving \cup {"closed"}, Emit(c, event, from, to), to # "json",
           event \in {"done", "error"} => to \in {"failing", "closed"}
    PROVE  AllSettled'
<1>1. /\ srv[c].at = from /\ srv' = [srv EXCEPT ![c].at = to] /\ Send(c, event)
      /\ client' = client /\ event \in Events
  BY DEF Emit, Events
<1>2. /\ \A d \in Calls \ {c} : wire'[d] = wire[d] /\ srv'[d] = srv[d]
      /\ Reading(c) => wire'[c] = Append(wire[c], event)
      /\ ~Reading(c) => wire'[c] = wire[c]
  BY <1>1, SendFacts, Types DEF IInv
<1>3. srv'[c].at = to /\ wire[c] \in Seq(Events)
  BY <1>1, Types DEF IInv, RunType
<1>4. ASSUME Reading(c) PROVE ReadingInv(c)'
  <2>1. /\ ReadingInv(c) /\ call' = call /\ to # "none"
    BY <1>1, <1>4 DEF AllSettled, SettledInv, client, Serving
  <2>2. /\ \A e : Sent(c, e)' <=> (Sent(c, e) \/ e = event)
        /\ Len(wire'[c]) = Len(wire[c]) + 1
        /\ \A i \in 1 .. Len(wire'[c]) :
              \/ i \in 1 .. Len(wire[c]) /\ wire'[c][i] = wire[c][i]
              \/ i = Len(wire'[c]) /\ wire'[c][i] = event
    BY <1>1, <1>2, <1>3, <1>4, AppendSent
  <2>3. /\ call[c].status \notin Terminal /\ call[c].at # "fallback" /\ ~call[c].dropped
        /\ \A i \in 1 .. Len(wire[c]) : wire[c][i] \notin {"done", "error"}
        /\ ~Sent(c, "answer") /\ ~Sent(c, "disabled")
    BY <1>1, <2>1 DEF ReadingInv
  <2>4. ~Sent(c, "answer")' /\ ~Sent(c, "disabled")'
    BY <2>2, <2>3
  <2>5. \A i \in 1 .. Len(wire'[c]) : wire'[c][i] \in {"done", "error"} =>
            i = Len(wire'[c]) /\ srv'[c].at \in {"failing", "closed"}
    BY <1>3, <2>2, <2>3
  <2> QED
    BY <1>3, <2>1, <2>3, <2>4, <2>5 DEF ReadingInv
<1> QED
  BY <1>1, <1>2, <1>4, ServerSettles

\* The first request is turned away, or the JSON endpoint has its say.
LEMMA AnswerSettles ==
    ASSUME IInv, AllSettled, NEW c \in Calls,
           NEW event \in {"disabled", "refused", "answer"}, Send(c, event), client' = client,
           \A d \in Calls \ {c} : srv'[d] = srv[d],
           \/ srv[c].at = "none" /\ srv' = srv /\ event # "answer"
           \/ srv[c].at = "json" /\ srv'[c].at = "closed" /\ event # "disabled"
    PROVE  AllSettled'
<1>1. /\ event \in Events /\ wire[c] \in Seq(Events)
      /\ \A d \in Calls \ {c} : wire'[d] = wire[d] /\ srv'[d] = srv[d]
      /\ Reading(c) => wire'[c] = Append(wire[c], event)
      /\ ~Reading(c) => wire'[c] = wire[c]
  <2>1. event \in Events
    BY DEF Events
  <2> QED
    BY <2>1, SendFacts, Types DEF IInv
<1>2. ASSUME Reading(c) PROVE ReadingInv(c)'
  <2>1. ReadingInv(c) /\ call' = call
    BY <1>2 DEF AllSettled, SettledInv, client
  <2>2. /\ \A e : Sent(c, e)' <=> (Sent(c, e) \/ e = event)
        /\ Len(wire'[c]) = Len(wire[c]) + 1
        /\ \A i \in 1 .. Len(wire'[c]) :
              \/ i \in 1 .. Len(wire[c]) /\ wire'[c][i] = wire[c][i]
              \/ i = Len(wire'[c]) /\ wire'[c][i] = event
    BY <1>1, <1>2, AppendSent
  <2>3. /\ call[c].status \notin Terminal /\ ~call[c].dropped
        /\ \A i \in 1 .. Len(wire[c]) : wire[c][i] \notin {"done", "error"}
    BY <2>1 DEF ReadingInv
  <2>4. \A i \in 1 .. Len(wire'[c]) : wire'[c][i] \notin {"done", "error"}
    BY <2>2, <2>3
  <2>5. CASE srv[c].at = "none" /\ srv' = srv /\ event # "answer"
    BY <2>1, <2>2, <2>3, <2>4, <2>5 DEF ReadingInv
  <2>6. CASE srv[c].at = "json" /\ srv'[c].at = "closed" /\ event # "disabled"
    BY <2>1, <2>2, <2>3, <2>4, <2>6 DEF ReadingInv
  <2> QED
    BY <2>5, <2>6
<1> QED
  BY <1>1, <1>2, ServerSettles

\* A run goes on without an event, or starts where nothing was sent.
LEMMA SilentSettles ==
    ASSUME IInv, AllSettled, NEW c \in Calls, client' = client, wire' = wire,
           \A d \in Calls \ {c} : srv'[d] = srv[d],
           \/ srv[c].at = "saving" /\ srv'[c].at = "saved"
           \/ srv[c].at = "failing" /\ srv'[c].at = "closed"
           \/ ~Reading(c)
           \/ srv[c].at = "none" /\ wire[c] = <<>> /\ call[c].at = "stream" /\ srv'[c].at = "running"
           \/ srv[c].at = "none" /\ wire[c] = <<>> /\ call[c].at = "fallback" /\ srv'[c].at = "json"
    PROVE  AllSettled'
<1>1. call' = call /\ \A e : Sent(c, e)' <=> Sent(c, e)
  BY DEF client, Sent
<1>2. ASSUME Reading(c) PROVE ReadingInv(c)'
  <2>1. ReadingInv(c)
    BY <1>2 DEF AllSettled, SettledInv
  <2>2. CASE srv[c].at = "saving" /\ srv'[c].at = "saved"
    BY <1>1, <2>1, <2>2 DEF ReadingInv
  <2>3. CASE srv[c].at = "failing" /\ srv'[c].at = "closed"
    BY <1>1, <2>1, <2>3 DEF ReadingInv
  <2>4. CASE srv[c].at = "none" /\ wire[c] = <<>> /\ srv'[c].at \in {"running", "json"}
             /\ call[c].at = IF srv'[c].at = "running" THEN "stream" ELSE "fallback"
    <3>1. \A e : ~Sent(c, e)
      BY <2>4 DEF Sent
    <3> QED
      BY <1>1, <2>1, <2>4, <3>1 DEF ReadingInv
  <2> QED
    BY <1>2, <2>2, <2>3, <2>4
<1> QED
  BY <1>2, ServerSettles

LEMMA ServeSettles ==
    ASSUME IInv, AllSettled, NEW c \in Calls, Serve(c)
    PROVE  AllSettled'
<1>1. srv \in [Calls -> RunType]
  BY Types DEF IInv
<1>2. CASE Accept(c)
  <2>1. call[c].at = "stream" /\ srv[c].at = "none" /\ wire[c] = <<>>
    BY <1>2 DEF Accept
  <2>2. ASSUME NEW event \in {"disabled", "refused"}, Refuse(c, event) PROVE AllSettled'
    <3>1. Send(c, event) /\ client' = client /\ srv' = srv
      BY <2>2 DEF Refuse, server
    <3> QED
      BY <2>1, <3>1, AnswerSettles
  <2>3. CASE ~(Refuse(c, "disabled") \/ Refuse(c, "refused"))
    <3> DEFINE run == [NoRun EXCEPT !.at = "running",
                          !.conv = IF call[c].sent = None THEN c ELSE call[c].sent,
                          !.fresh = (call[c].sent = None)]
    <3>1. srv' = [srv EXCEPT ![c] = run] /\ UNCHANGED <<client, wire>>
      BY <1>2, <2>3 DEF Accept
    <3>2. run.at = "running"
      BY DEF NoRun
    <3> HIDE DEF run
    <3>3. srv'[c].at = "running" /\ \A d \in Calls \ {c} : srv'[d] = srv[d]
      BY <1>1, <3>1, <3>2
    <3> QED
      BY <2>1, <3>1, <3>3, SilentSettles
  <2> QED
    BY <2>2, <2>3
<1>3. CASE AcceptJson(c)
  <2>1. call[c].at = "fallback" /\ srv[c].at = "none" /\ wire[c] = <<>>
    BY <1>3 DEF AcceptJson
  <2>2. CASE Refuse(c, "refused")
    <3>1. Send(c, "refused") /\ client' = client /\ srv' = srv
      BY <2>2 DEF Refuse, server
    <3> QED
      BY <2>1, <3>1, AnswerSettles
  <2>3. CASE ~Refuse(c, "refused")
    <3> DEFINE run == [NoRun EXCEPT !.at = "json",
                          !.conv = IF call[c].sent = None THEN c ELSE call[c].sent]
    <3>1. srv' = [srv EXCEPT ![c] = run] /\ UNCHANGED <<client, wire>>
      BY <1>3, <2>3 DEF AcceptJson
    <3>2. run.at = "json"
      BY DEF NoRun
    <3> HIDE DEF run
    <3>3. srv'[c].at = "json" /\ \A d \in Calls \ {c} : srv'[d] = srv[d]
      BY <1>1, <3>1, <3>2
    <3> QED
      BY <2>1, <3>1, <3>3, SilentSettles
  <2> QED
    BY <2>2, <2>3
<1>4. CASE EmitToken(c) \/ EmitStatus(c) \/ EmitPersisting(c) \/ EmitFinal(c) \/ EmitDone(c)
             \/ EmitError(c)
  <2>1. CASE EmitToken(c) \/ EmitStatus(c) \/ EmitPersisting(c)
    BY <2>1, EmitSettles DEF EmitToken, EmitStatus, EmitPersisting, Serving
  <2>2. CASE EmitFinal(c) \/ EmitDone(c)
    BY <2>2, EmitSettles DEF EmitFinal, EmitDone, Serving
  <2>3. CASE EmitError(c)
    BY <2>3, EmitSettles DEF EmitError, Serving
  <2> QED
    BY <1>4, <2>1, <2>2, <2>3
<1>5. ASSUME NEW to \in {"saved", "failing", "closed"}, srv' = [srv EXCEPT ![c].at = to]
      PROVE  srv'[c].at = to /\ \A d \in Calls \ {c} : srv'[d] = srv[d]
  BY <1>1, <1>5 DEF RunType
<1>6. CASE Store(c)
  <2>1. /\ srv[c].at = "saving" /\ srv' = [srv EXCEPT ![c].at = "saved"]
        /\ UNCHANGED <<client, wire>>
    BY <1>6 DEF Store
  <2> QED
    BY <1>5, <2>1, SilentSettles
<1>7. CASE Disconnected(c)
  <2>1. /\ ~Reading(c) /\ srv' = [srv EXCEPT ![c].at = "failing"] /\ UNCHANGED <<client, wire>>
    BY <1>7 DEF Disconnected, Reading
  <2> QED
    BY <1>5, <2>1, SilentSettles
<1>8. CASE Compensate(c)
  <2>1. /\ srv[c].at = "failing" /\ srv' = [srv EXCEPT ![c].at = "closed"]
        /\ UNCHANGED <<client, wire>>
    BY <1>8 DEF Compensate
  <2> QED
    BY <1>5, <2>1, SilentSettles
<1>9. CASE AnswerJson(c)
  <2>1. /\ srv[c].at = "json" /\ srv' = [srv EXCEPT ![c].at = "closed"] /\ client' = client
        /\ Send(c, "answer") \/ Send(c, "refused")
    BY <1>9 DEF AnswerJson
  <2>2. srv'[c].at = "closed" /\ \A d \in Calls \ {c} : srv'[d] = srv[d]
    BY <1>5, <2>1
  <2> QED
    BY <2>1, <2>2, AnswerSettles
<1> QED
  BY <1>2, <1>3, <1>4, <1>6, <1>7, <1>8, <1>9 DEF Serve

-----------------------------------------------------------------------------
(* A turn that is under way is the turn of a call that is.                 *)

\* A turn under way is one that its call can still change; a call that is over has an end.
UnderWay(c) ==
    /\ page = "workspace" /\ turn[c].key # NoKey /\ turn[c].status \in Active =>
           call[c].attached
    /\ call[c].at = "over" => call[c].end # "none"

AllUnderWay == \A c \in Calls : UnderWay(c)

\* Calls that are stopped at most.
LEMMA SameUnderWay ==
    ASSUME AllUnderWay, page' = page, turn' = turn,
           \A d \in Calls : /\ call'[d].attached = call[d].attached
                            /\ call'[d].at = call[d].at /\ call'[d].end = call[d].end
    PROVE  AllUnderWay'
  BY DEF AllUnderWay, UnderWay

\* What a call writes reaches its turn only while it is attached.
LEMMA CommitUnderWay ==
    ASSUME TypeOK, AllUnderWay, NEW c \in Calls, NEW o \in CallType, Commit(c, o), page' = page,
           o.attached = call[c].attached, o.at = "over" => o.end # "none"
    PROVE  AllUnderWay'
<1>1. /\ call'[c] = o
      /\ \A d \in Calls \ {c} : call'[d] = call[d] /\ turn'[d] = turn[d]
  BY CommitFacts
<1>2. UnderWay(c)'
  <2>1. CASE o.attached
    BY <1>1, <2>1 DEF UnderWay
  <2>2. CASE ~o.attached
    <3>1. turn' = turn
      BY <2>2 DEF Commit, Shown
    <3> QED
      BY <1>1, <2>2, <3>1 DEF AllUnderWay, UnderWay
  <2> QED
    BY <2>1, <2>2
<1> QED
  BY <1>1, <1>2 DEF AllUnderWay, UnderWay

LEMMA OverUnderWay ==
    ASSUME TypeOK, AllUnderWay, NEW c \in Calls, NEW r \in CallType, SameCall(r, call[c]),
           NEW end \in Ended \cup {"broken"}, Over(c, r, end), page' = page
    PROVE  AllUnderWay'
<1> DEFINE f == Flush(r)
           o == [f EXCEPT !.at = "over", !.end = end]
<1>1. f \in CallType /\ SameCall(f, r)
  BY FlushFacts
<1>2. Commit(c, o)
  BY DEF Over
<1> HIDE DEF f
<1>3. o \in CallType /\ o.attached = call[c].attached /\ o.end = end
  BY <1>1 DEF CallType, SameCall, Ended
<1>4. o.end # "none"
  BY <1>3 DEF Ended
<1> HIDE DEF o
<1> QED
  BY <1>2, <1>3, <1>4, CommitUnderWay

LEMMA ChainUnderWay ==
    ASSUME IInv, AllUnderWay, NEW c \in Calls, Chain(c)
    PROVE  AllUnderWay'
<1>1. TypeOK /\ call[c] \in CallType /\ call \in [Calls -> CallType] /\ UnderWay(c)
  BY Types DEF IInv, AllUnderWay
<1>2. page' = page
  BY DEF Chain, Read, FlushTimer, EndOfStream, Interrupted, Aborted
<1>3. CASE Read(c)
  <2> DEFINE event == Head(wire[c])
  <2>1. /\ Live(c)
        /\ \/ ReadToken(c, event) \/ ReadEvent(c, event) \/ Fallback(c, event)
           \/ ReadRefusal(c, event) \/ ReadAnswer(c, event)
    BY <1>3 DEF Read
  <2>2. call[c].at # "over"
    BY <2>1 DEF Live, Awaiting
  <2> HIDE DEF event
  <2>3. CASE ReadToken(c, event)
    <3>1. turn' = turn /\ call' = [call EXCEPT ![c].pending = TRUE]
      BY <2>3 DEF ReadToken
    <3>2. \A d \in Calls : /\ call'[d].attached = call[d].attached
                           /\ call'[d].at = call[d].at /\ call'[d].end = call[d].end
      BY <1>1, <3>1 DEF CallType
    <3> QED
      BY <1>2, <3>1, <3>2, SameUnderWay
  <2>4. CASE ReadEvent(c, event)
    <3> DEFINE r == Handle(call[c], event)
    <3>1. event \in {"status", "persisting", "final", "done", "error"} /\ Commit(c, r)
      BY <2>4 DEF ReadEvent
    <3>2. r \in CallType /\ SameCall(r, call[c])
      BY <1>1, <3>1, HandleFacts
    <3> HIDE DEF r
    <3> QED
      BY <1>1, <1>2, <2>2, <3>1, <3>2, CommitUnderWay DEF SameCall
  <2>5. CASE Fallback(c, event)
    <3>1. turn' = turn /\ call' = [call EXCEPT ![c].at = "fallback"]
      BY <2>5 DEF Fallback
    <3>2. /\ \A d \in Calls \ {c} : call'[d] = call[d]
          /\ call'[c].attached = call[c].attached /\ call'[c].at = "fallback"
      BY <1>1, <3>1 DEF CallType
    <3> QED
      BY <1>2, <3>1, <3>2 DEF AllUnderWay, UnderWay
  <2>6. CASE ReadRefusal(c, event)
    <3>1. Over(c, Handle(call[c], "error"), "broken")
      BY <2>6 DEF ReadRefusal
    <3>2. Handle(call[c], "error") \in CallType /\ SameCall(Handle(call[c], "error"), call[c])
      BY <1>1, HandleFacts
    <3> QED
      BY <1>1, <1>2, <3>1, <3>2, OverUnderWay
  <2>7. CASE ReadAnswer(c, event)
    <3> DEFINE r == IF call[c].dropped THEN call[c] ELSE [call[c] EXCEPT !.status = "completed"]
    <3>1. Over(c, r, "answered")
      BY <2>7 DEF ReadAnswer
    <3>2. r \in CallType /\ SameCall(r, call[c])
      BY <1>1 DEF CallType, SameCall, Terminal
    <3> HIDE DEF r
    <3> QED
      BY <1>1, <1>2, <3>1, <3>2, OverUnderWay DEF Ended
  <2> QED
    BY <2>1, <2>3, <2>4, <2>5, <2>6, <2>7
<1>4. CASE FlushTimer(c)
  <2> DEFINE r == Flush(call[c])
  <2>1. Commit(c, r)
    BY <1>4 DEF FlushTimer
  <2>2. r \in CallType /\ SameCall(r, call[c]) /\ r.end = call[c].end
    BY <1>1, FlushFacts DEF Flush, CallType
  <2> HIDE DEF r
  <2> QED
    BY <1>1, <1>2, <2>1, <2>2, CommitUnderWay DEF SameCall, UnderWay
<1>5. CASE EndOfStream(c)
  BY <1>1, <1>2, <1>5, OverUnderWay DEF EndOfStream, SameCall, Ended
<1>6. CASE Interrupted(c)
  <2> DEFINE r == IF call[c].status = "failed" \/ call[c].dropped THEN call[c]
                  ELSE [call[c] EXCEPT !.status = "failed"]
  <2>1. Over(c, r, "broken")
    BY <1>6 DEF Interrupted
  <2>2. r \in CallType /\ SameCall(r, call[c])
    BY <1>1 DEF CallType, SameCall, Terminal
  <2> HIDE DEF r
  <2> QED
    BY <1>1, <1>2, <2>1, <2>2, OverUnderWay
<1>7. CASE Aborted(c)
  <2>1. Over(c, Stopped(c), "stopped")
    BY <1>7 DEF Aborted
  <2>2. Stopped(c) \in CallType /\ SameCall(Stopped(c), call[c])
    BY <1>1, HandleFacts DEF Stopped
  <2> QED
    BY <1>1, <1>2, <2>1, <2>2, OverUnderWay DEF Ended
<1> QED
  BY <1>3, <1>4, <1>5, <1>6, <1>7 DEF Chain

\* After a restart, and behind the settings, no turn is under way.
LEMMA RestoredUnderWay ==
    ASSUME TypeOK, turn' = Restored
    PROVE  \A c \in Calls : turn'[c].key = NoKey \/ turn'[c].status \notin Active
<1> SUFFICES ASSUME NEW c \in Calls
             PROVE  turn'[c].key = NoKey \/ turn'[c].status \notin Active
  OBVIOUS
<1>1. turn[c] \in TurnType
  BY Types
<1>2. CASE turn[c].status \in Active /\ turn[c].key # NoKey
  <2>1. turn'[c] = [turn[c] EXCEPT !.status = "failed"]
    BY <1>2 DEF Restored
  <2> QED
    BY <1>1, <2>1 DEF TurnType, Active
<1>3. CASE ~(turn[c].status \in Active /\ turn[c].key # NoKey)
  BY <1>3 DEF Restored
<1> QED
  BY <1>2, <1>3

LEMMA UserUnderWay ==
    ASSUME IInv, AllUnderWay, User
    PROVE  AllUnderWay'
<1>1. /\ TypeOK /\ call \in [Calls -> CallType] /\ turn \in [Calls -> TurnType]
      /\ panel \in Calls \cup {None}
  BY Types DEF IInv
<1>2. ASSUME NEW c \in Calls, Submit(c) PROVE AllUnderWay'
  <2> DEFINE new == [NoCall EXCEPT !.at = "stream", !.sent = conv[activeKey], !.attached = TRUE]
  <2>1. /\ call' = [call EXCEPT ![c] = new] /\ page' = page
        /\ turn' = [turn EXCEPT ![c] = [NoTurn EXCEPT !.key = activeKey]]
    BY <1>2 DEF Submit
  <2>2. new.attached /\ new.at = "stream"
    BY DEF NoCall
  <2> HIDE DEF new
  <2>3. call'[c] = new /\ \A d \in Calls \ {c} : call'[d] = call[d] /\ turn'[d] = turn[d]
    BY <1>1, <2>1
  <2> QED
    BY <2>1, <2>2, <2>3 DEF AllUnderWay, UnderWay
<1>3. CASE StopGeneration
  <2>1. call' = [call EXCEPT ![panel] = Abort(call[panel])] /\ turn' = turn /\ page' = page
    BY <1>3 DEF StopGeneration
  <2>2. \A d \in Calls : call'[d] = call[d] \/ call'[d] = Abort(call[d])
    BY <1>1, <2>1
  <2> QED
    BY <1>1, <2>1, <2>2, AbortFacts, AbortSettles, SameUnderWay DEF SameCall
<1>4. ASSUME NEW drop \in BOOLEAN, Unmount(drop), page' = page, turn' = turn PROVE AllUnderWay'
  <2> SUFFICES ASSUME NEW d \in Calls
               PROVE  /\ call'[d].attached = call[d].attached
                      /\ call'[d].at = call[d].at /\ call'[d].end = call[d].end
    BY <1>4, SameUnderWay
  <2>1. CASE d # panel
    BY <1>4, <2>1 DEF Unmount
  <2>2. CASE d = panel
    <3> DEFINE a == Abort(call[d])
    <3>1. a \in CallType /\ SameCall(a, call[d]) /\ a.end = call[d].end
      BY <1>1, AbortFacts, AbortSettles
    <3>2. call'[d] = [a EXCEPT !.dropped = drop]
      BY <1>4, <2>2 DEF Unmount
    <3> HIDE DEF a
    <3> QED
      BY <3>1, <3>2 DEF CallType, SameCall
  <2> QED
    BY <2>1, <2>2
<1>5. ASSUME NEW drop \in BOOLEAN, NewChat(drop) PROVE AllUnderWay'
  BY <1>4, <1>5 DEF NewChat
<1>6. ASSUME NEW k \in Keys, SelectConversation(k) PROVE AllUnderWay'
  BY <1>4, <1>6 DEF SelectConversation
<1>7. CASE OpenSettings
  <2>1. page' = "settings"
    BY <1>7 DEF OpenSettings
  <2>2. ASSUME NEW d \in Calls PROVE call'[d].at = call[d].at /\ call'[d].end = call[d].end
    <3> DEFINE q == IF d = panel THEN Abort(call[d]) ELSE call[d]
    <3>1. q \in CallType /\ q.at = call[d].at /\ q.end = call[d].end
      BY <1>1, AbortFacts, AbortSettles DEF SameCall
    <3>2. call'[d] = [q EXCEPT !.attached = FALSE]
      BY <1>7 DEF OpenSettings
    <3> HIDE DEF q
    <3> QED
      BY <3>1, <3>2 DEF CallType
  <2> QED
    BY <2>1, <2>2 DEF AllUnderWay, UnderWay
<1>8. CASE CloseSettings
  BY <1>1, <1>8, RestoredUnderWay DEF CloseSettings, AllUnderWay, UnderWay
<1>9. CASE Reload
  <2>1. \A c \in Calls : turn'[c].key = NoKey \/ turn'[c].status \notin Active
    BY <1>1, <1>9, RestoredUnderWay DEF Reload
  <2>2. ASSUME NEW c \in Calls PROVE call'[c].at = "over" => call'[c].end # "none"
    <3>1. CASE Live(c)
      <4>1. call'[c] = [call[c] EXCEPT !.at = "over", !.end = "broken", !.attached = FALSE]
        BY <1>9, <3>1 DEF Reload
      <4> QED
        BY <1>1, <4>1 DEF CallType
    <3>2. CASE ~Live(c)
      <4>1. call'[c] = [call[c] EXCEPT !.attached = FALSE]
        BY <1>9, <3>2 DEF Reload
      <4> QED
        BY <1>1, <4>1 DEF CallType, AllUnderWay, UnderWay
    <3> QED
      BY <3>1, <3>2
  <2> QED
    BY <2>1, <2>2 DEF AllUnderWay, UnderWay
<1> QED
  BY <1>2, <1>3, <1>5, <1>6, <1>7, <1>8, <1>9 DEF User

\* The server changes nothing of a client.
LEMMA ServeUnderWay ==
    ASSUME AllUnderWay, NEW c \in Calls, Serve(c)
    PROVE  AllUnderWay'
<1>1. client' = client
  BY DEF Serve, Accept, Refuse, EmitToken, EmitStatus, EmitPersisting, EmitFinal, EmitDone,
         EmitError, Emit, Store, Disconnected, Compensate, AcceptJson, AnswerJson
<1> QED
  BY <1>1 DEF client, AllUnderWay, UnderWay

LEMMA UnderWayHolds == Spec => []AllUnderWay
<1>1. Init => AllUnderWay
  <2> SUFFICES ASSUME Init, NEW c \in Calls PROVE UnderWay(c)
    BY DEF AllUnderWay
  <2>1. turn[c].key = NoKey /\ call[c].at = "none"
    BY DEF Init, NoTurn, NoCall
  <2> QED
    BY <2>1 DEF UnderWay
<1>2. IInv /\ AllUnderWay /\ [Next]_vars => AllUnderWay'
  <2> SUFFICES ASSUME IInv, AllUnderWay, [Next]_vars PROVE AllUnderWay'
    OBVIOUS
  <2>1. CASE UNCHANGED vars
    BY <2>1 DEF vars, client, AllUnderWay, UnderWay
  <2> QED
    BY <2>1, UserUnderWay, ChainUnderWay, ServeUnderWay DEF Next
<1> QED
  BY <1>1, <1>2, InvariantHolds, PTL DEF Spec

-----------------------------------------------------------------------------

\* A call that was answered, stopped or read to its end has unlocked its panel, whatever
\* tokens were buffered when it ended and however the events were interleaved with the
\* clicks of the user; and no turn stays under way without a call that is, through any
\* number of restarts, but for the two exceptions.
THEOREM SettledCallsUnlock == Spec => []SettledUnlocks
<1>1. Init => AllSettled
  <2> SUFFICES ASSUME Init, NEW c \in Calls PROVE SettledInv(c)
    BY DEF AllSettled
  <2>1. call[c] = NoCall /\ wire[c] = <<>>
    BY DEF Init
  <2>2. call[c].at = "none" /\ ~call[c].attached /\ call[c].end = "none"
    BY <2>1 DEF NoCall
  <2> QED
    BY <2>1, <2>2 DEF SettledInv, Showing, Reading, Live, Awaiting, Ended
<1>2. IInv /\ AllSettled /\ [Next]_vars => AllSettled'
  <2> SUFFICES ASSUME IInv, AllSettled, [Next]_vars PROVE AllSettled'
    OBVIOUS
  <2>1. CASE UNCHANGED vars
    <3>1. UNCHANGED <<page, call, turn, wire, srv>>
      BY <2>1 DEF vars, client, server
    <3> QED
      BY <3>1, OtherCalls DEF AllSettled
  <2> QED
    BY <2>1, UserSettles, ChainSettles, ServeSettles DEF Next
<1>3. IInv /\ AllSettled /\ AllUnderWay => SettledUnlocks
  <2> SUFFICES ASSUME IInv, AllSettled, AllUnderWay, NEW c \in Calls
               PROVE  /\ call[c].end \in Ended /\ ~call[c].dropped /\ panel = c => ~Loading
                      /\ page = "workspace" /\ turn[c].key # NoKey /\ turn[c].status \in Active =>
                            /\ call[c].attached
                            /\ Live(c) \/ call[c].dropped \/ call[c].end = "broken"
    BY DEF SettledUnlocks, Ended
  <2>1. SettledInv(c) /\ UnderWay(c) /\ call[c] \in CallType
    BY Types DEF AllSettled, AllUnderWay, IInv
  <2>2. call[c].end \in Ended /\ ~call[c].dropped /\ panel = c => ~Loading
    BY <2>1 DEF SettledInv, Loading
  <2>3. ASSUME page = "workspace", turn[c].key # NoKey, turn[c].status \in Active
        PROVE  call[c].attached /\ (Live(c) \/ call[c].dropped \/ call[c].end = "broken")
    <3>1. call[c].attached
      BY <2>1, <2>3 DEF UnderWay
    <3>2. call[c].at # "none"
      BY <3>1 DEF IInv, KeysInv, NoCall
    <3>3. Live(c) \/ call[c].end \in Ended \cup {"broken"}
      BY <2>1, <3>2 DEF CallType, Live, UnderWay, Ended
    <3>4. ASSUME call[c].end \in Ended, ~call[c].dropped PROVE FALSE
      <4>1. call[c].status \in Terminal /\ turn[c].status = AssistantStatus(call[c].status)
        BY <2>1, <3>1, <3>4 DEF SettledInv, Showing
      <4> QED
        BY <2>3, <4>1 DEF AssistantStatus, Terminal, Active
    <3> QED
      BY <3>1, <3>3, <3>4
  <2> QED
    BY <2>2, <2>3
<1> QED
  BY <1>1, <1>2, <1>3, InvariantHolds, UnderWayHolds, PTL DEF Spec
===========================================================================
