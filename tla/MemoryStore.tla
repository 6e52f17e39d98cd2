-------------------------- MODULE MemoryStore --------------------------
(***************************************************************************)
(* The long-term memories of one kind - a namespace, type and subtype -    *)
(* under the consolidation jobs of concurrent requests (memory/service.py, *)
(* consolidation.py), the management API (api/memory_routes.py) and the    *)
(* clock. A job runs after its request has released the conversation, in a *)
(* transaction of its own at READ COMMITTED that commits all or nothing.   *)
(*                                                                         *)
(* A transaction takes the next number when it starts; the memory it       *)
(* creates bears this number, so that numbers are in the order of          *)
(* created_at, the start of the transaction.                               *)
(***************************************************************************)
EXTENDS Naturals, FiniteSets

CONSTANTS
    Subjects,      \* predicates with their scopes
    Objects,       \* what can be said of a subject, case and spaces aside
    Nothing,       \* no object
    Unclear,       \* not an object either
    Implied,       \* the subjects the extractor also derives from what is not explicit
    FixedObject,   \* the one object it gives them
    AutoWrite,     \* memory_auto_write_enabled, with the default thresholds
    RelatedLimit,  \* limit of find_active_related_records
    MaxWrites,     \* bound: transactions that may create a memory
    MaxEdits       \* bound: edits by hand

ASSUME ImpliedAssumption == Implied \subseteq Subjects /\ FixedObject \in Objects
ASSUME NothingAssumption ==
    Nothing \notin Objects /\ Unclear \notin Objects /\ Nothing # Unclear
ASSUME BoundsAssumption == RelatedLimit \in Nat /\ MaxWrites \in Nat /\ MaxEdits \in Nat

Ids == 1 .. MaxWrites
NoId == 0

Status == {"active", "superseded", "deleted", "expired"}
Memory == [subject : Subjects, object : Objects, status : Status,
           valid : {"always", "until", "past"}, supersedes : Ids \cup {NoId}]
NoMemory == [status |-> "none"]

\* What ConservativeMemoryCandidateExtractor makes of a message and the write policy
\* lets pass: an explicit statement, or an implied one.
Statements ==
    {[subject |-> s, object |-> o, explicit |-> TRUE] : s \in Subjects, o \in Objects}
Extractable ==
    {c \in Statements : c.subject \in Implied => c.object = FixedObject}
      \cup {[subject |-> s, object |-> FixedObject, explicit |-> FALSE] : s \in Implied}
PassesWritePolicy(c) == c.explicit \/ AutoWrite
Candidates == {c \in Extractable : PassesWritePolicy(c)}

VARIABLES
    mem,   \* the table long_term_memories, by number
    job,   \* the consolidation of each number
    last,  \* the number given last
    edits, \* edits by hand so far
    said   \* the object last stated of each subject: Nothing if there is none or it
           \* was deleted, Unclear once its statements did not come one at a time

vars == <<mem, job, last, edits, said>>

NoCandidate == [subject |-> Nothing, object |-> Nothing, explicit |-> FALSE]
NoJob == [pc |-> "none", candidate |-> NoCandidate, related |-> {}]
Finished == [NoJob EXCEPT !.pc = "done"]
Jobs == [pc : {"none", "started", "read", "done"}, candidate : Candidates \cup {NoCandidate},
         related : SUBSET [id : Ids, subject : Subjects, object : Objects]]

TypeOK ==
    /\ mem \in [Ids -> Memory \cup {NoMemory}]
    /\ job \in [Ids -> Jobs]
    /\ last \in 0 .. MaxWrites
    /\ edits \in 0 .. MaxEdits
    /\ said \in [Subjects -> Objects \cup {Nothing, Unclear}]

Init ==
    /\ mem = [m \in Ids |-> NoMemory]
    /\ job = [t \in Ids |-> NoJob]
    /\ last = 0 /\ edits = 0
    /\ said = [s \in Subjects |-> Nothing]

Stored == {m \in Ids : mem[m] # NoMemory}
Active == {m \in Stored : mem[m].status = "active"}
\* What retrieve_memories may put before the LLM, at most memory_retrieval_limit of it.
Recallable == {m \in Active : mem[m].valid # "past"}
Pending == {t \in Ids : job[t].pc \in {"started", "read"}}
OthersOn(s, t) == {u \in Pending \ {t} : job[u].candidate.subject = s}

NewMemory(c, supersedes) ==
    [subject |-> c.subject, object |-> c.object, status |-> "active",
     valid |-> "always", supersedes |-> supersedes]

\* What counts as the last statement about a subject.
Say(s, object) == [said EXCEPT ![s] = IF @ = Unclear THEN Unclear ELSE object]
Blur(set) == [s \in Subjects |-> IF s \in set THEN Unclear ELSE said[s]]

-----------------------------------------------------------------------------
(* The job of a request: extract_and_consolidate_turn. A message holds at  *)
(* most one candidate; a message without one changes nothing.              *)

\* The transaction starts with the summary of the conversation; the candidate is
\* embedded after it. When two jobs say something of one subject at the same time,
\* neither is the last one.
StartJob(c) ==
    /\ last < MaxWrites
    /\ last' = last + 1
    /\ job' = [job EXCEPT ![last + 1] = [NoJob EXCEPT !.pc = "started", !.candidate = c]]
    /\ said' = IF OthersOn(c.subject, last + 1) = {} THEN said ELSE Blur({c.subject})
    /\ UNCHANGED <<mem, edits>>

NewestOf(set) == {m \in set : Cardinality({n \in set : n > m}) < RelatedLimit}

RelatedOfAnyStatus == NewestOf(Stored)
\* find_active_related_records
Related == NewestOf(Active)

\* The memories of the candidate's subject that are active but beyond the limit.
CutOff(t) == {m \in Active \ Related : mem[m].subject = job[t].candidate.subject}

ReadRelated(t) ==
    /\ job[t].pc = "started"
    /\ job' = [job EXCEPT ![t].pc = "read",
          ![t].related = {[id |-> m, subject |-> mem[m].subject, object |-> mem[m].object] :
                             m \in Related}]
    /\ said' = Blur({mem[m].subject : m \in CutOff(t)})
    /\ UNCHANGED <<mem, last, edits>>

\* The rules of consolidate_candidate for one record that was read.
SameObject(c, e) == e.subject = c.subject /\ e.object = c.object
Contradicts(c, e) == e.subject = c.subject /\ e.object # c.object /\ c.explicit

\* The first record to which a rule applies, newest first; similar holds the records
\* whose embedding is within 0.96 of the candidate's.
Decisive(t, similar) ==
    LET c == job[t].candidate
        matching == {e \in job[t].related :
                        SameObject(c, e) \/ Contradicts(c, e) \/ e.id \in similar}
    IN  {e \in matching : \A f \in matching : f.id <= e.id}

ConfirmWholeRow(c, e, rewritten) ==
    mem' = [mem EXCEPT ![e.id] = NewMemory([subject |-> e.subject, object |-> c.object], NoId)]
\* UPDATE: structured_data is written back as it was read, with the candidate's, if
\* that is a change.
Confirm(c, e, rewritten) ==
    mem' = IF rewritten
           THEN [mem EXCEPT ![e.id].subject = c.subject, ![e.id].object = c.object] ELSE mem

CreateOnly(t, e) == mem' = [mem EXCEPT ![t] = NewMemory(job[t].candidate, e.id)]
\* SUPERSEDE
Supersede(t, e) ==
    mem' = [mem EXCEPT ![e.id].status = "superseded",
                       ![t] = NewMemory(job[t].candidate, e.id)]

\* The rules are applied to what was read, and the result is written and committed. The
\* statement is lost when the record of another subject is similar enough.
Consolidate(t) ==
    /\ job[t].pc = "read"
    /\ job' = [job EXCEPT ![t] = Finished]
    /\ LET c == job[t].candidate
           stated == Say(c.subject, c.object)
       IN  \E similar \in SUBSET {e.id : e \in job[t].related} :
           \/ /\ Decisive(t, similar) = {}
              /\ mem' = [mem EXCEPT ![t] = NewMemory(c, NoId)] /\ said' = stated
           \/ \E e \in Decisive(t, similar) :
              \/ /\ SameObject(c, e) /\ said' = stated
                 /\ \E rewritten \in BOOLEAN : Confirm(c, e, rewritten)
              \/ Contradicts(c, e) /\ said' = stated /\ Supersede(t, e)
              \/ /\ ~SameObject(c, e) /\ ~Contradicts(c, e)
                 /\ said' = Blur({c.subject}) /\ UNCHANGED mem
    /\ UNCHANGED <<last, edits>>

\* extract_and_consolidate_turn
Process(t) == ReadRelated(t) \/ Consolidate(t)

\* The embedding, a statement or the commit fails; it is logged and nothing is kept.
FailJob(t) ==
    /\ t \in Pending
    /\ job' = [job EXCEPT ![t] = Finished]
    /\ UNCHANGED <<mem, last, edits, said>>

-----------------------------------------------------------------------------
(* The management API. What was edited by hand is not the last statement. *)

\* create_memory
Manual(s, o) == NewMemory([subject |-> s, object |-> o], NoId)

\* POST: create_long_term_memory_endpoint
Create(s, o) ==
    /\ last < MaxWrites /\ edits < MaxEdits
    /\ last' = last + 1 /\ edits' = edits + 1
    /\ mem' = [mem EXCEPT ![last + 1] = Manual(s, o)]
    /\ job' = [job EXCEPT ![last + 1] = Finished]
    /\ said' = Blur({s})

\* PATCH, of a deleted memory too: update_long_term_memory_endpoint
Patch(m) ==
    /\ m \in Stored /\ edits < MaxEdits
    /\ edits' = edits + 1
    /\ \/ \E status \in Status : mem' = [mem EXCEPT ![m].status = status]
       \/ mem' = [mem EXCEPT ![m].valid = "until"]
       \/ \E s \in Subjects, o \in Objects :
             mem' = [mem EXCEPT ![m].subject = s, ![m].object = o]
    /\ said' = Blur({mem[m].subject, mem'[m].subject})
    /\ UNCHANGED <<job, last>>

\* soft_delete_memory, of a memory of any status
SoftDelete(m) == m \in Stored /\ mem' = [mem EXCEPT ![m].status = "deleted"]

\* DELETE: delete_long_term_memory_endpoint
Delete(m) ==
    /\ SoftDelete(m)
    /\ said' = IF OthersOn(mem[m].subject, NoId) # {} THEN Blur({mem[m].subject})
               ELSE IF m \in Active THEN Say(mem[m].subject, Nothing) ELSE said
    /\ UNCHANGED <<job, last, edits>>

\* valid_until passes. The status stays: no code sets "expired" but PATCH.
Lapse(m) ==
    /\ m \in Stored /\ mem[m].valid = "until"
    /\ mem' = [mem EXCEPT ![m].valid = "past"]
    /\ UNCHANGED <<job, last, edits, said>>

Next ==
    \/ \E c \in Candidates : StartJob(c)
    \/ \E t \in Ids : Process(t) \/ FailJob(t)
    \/ \E s \in Subjects, o \in Objects : Create(s, o)
    \/ \E m \in Ids : Patch(m) \/ Delete(m) \/ Lapse(m)

Spec == Init /\ [][Next]_vars

-----------------------------------------------------------------------------
(* The properties.                                                         *)

\* The last statement about a subject, and nothing that contradicts it, is what a chat
\* recalls of it - after any sequence of statements, corrections and deletions, failed
\* ones included, that came one at a time (test_agent_memory_architecture.py: a second
\* language supersedes the first).
LastStatementRecalled ==
    \A s \in Subjects : said[s] # Unclear =>
        {mem[m].object : m \in {n \in Recallable : mem[n].subject = s}} = {said[s]} \ {Nothing}

\* A memory that is not active any more - deleted, replaced or expired - is made active
\* again by a PATCH only, never by a job that had read it before.
OnlyPatchRevives ==
    [][\A m \in Stored : mem[m].status # "active" /\ mem'[m].status = "active" => Patch(m)]_vars
=============================================================================
