------------------------- MODULE RollingSummary -------------------------
(***************************************************************************)
(* The rolling summary of one conversation (memory/summary.py), written by *)
(* the post-response jobs of its requests (memory/service.py). A job runs  *)
(* after its request has released the conversation, in its own session,    *)
(* and asks the LLM between its reads and its write: it overlaps with the  *)
(* next requests, their compensations and the other jobs.                  *)
(*                                                                         *)
(* Turns are named by the order in which they are saved. Their indexes are *)
(* dense (ConversationTurns), so that order is the order of turn_index and *)
(* only the last turn can be withdrawn.                                    *)
(***************************************************************************)
EXTENDS Naturals, FiniteSets

CONSTANTS
    KeepRecent,  \* memory_recent_turn_limit
    Trigger,     \* memory_summary_trigger_turns
    MaxTurns     \* bound: turns ever saved

ASSUME SettingsAssumption == KeepRecent \in Nat /\ Trigger \in Nat
ASSUME MaxTurnsAssumption == MaxTurns \in Nat

Turns == 1 .. MaxTurns

VARIABLES
    log,      \* turns that are stored
    last,     \* the turn saved last
    open,     \* ... by a run that may still be undone
    summary,  \* the conversation's summary row
    job,      \* the post-response job of each turn
    clean     \* no job failed, lost an update, or is missing

summaryVars == <<log, last, open, summary, job, clean>>

\* A summary: the turn it covers up to, the turns in its text, and
\* source_turn_count. No row is NoSummary.
NoSummary == [covered |-> 0, text |-> {}, count |-> 0]
Summaries == [covered : 0 .. MaxTurns, text : SUBSET Turns, count : 0 .. MaxTurns]

NoJob == [pc |-> "none", total |-> 0, base |-> NoSummary, take |-> {}, until |-> 0]
Finished == [NoJob EXCEPT !.pc = "done"]
Jobs == [pc : {"none", "queued", "counted", "writing", "done"}, total : Nat,
         base : Summaries, take : SUBSET Turns, until : 0 .. MaxTurns]

SummaryTypeOK ==
    /\ log \subseteq Turns /\ last \in 0 .. MaxTurns
    /\ open \in BOOLEAN /\ clean \in BOOLEAN
    /\ summary \in Summaries
    /\ job \in [Turns -> Jobs]

SummaryInit ==
    /\ log = {} /\ last = 0 /\ open = FALSE
    /\ summary = NoSummary
    /\ job = [t \in Turns |-> NoJob]
    /\ clean = TRUE

-----------------------------------------------------------------------------
(* The requests, one at a time.                                            *)

SaveTurn ==
    /\ ~open /\ last < MaxTurns
    /\ last' = last + 1 /\ log' = log \cup {last + 1} /\ open' = TRUE
    /\ UNCHANGED <<summary, job, clean>>

\* The run succeeds and its memory task is queued.
Answer ==
    /\ open
    /\ open' = FALSE
    /\ job' = [job EXCEPT ![last].pc = "queued"]
    /\ UNCHANGED <<log, last, summary, clean>>

NeverReferenced(t) == FALSE
\* The foreign key covered_until_turn_id, which does not cascade.
Referenced(t) == summary.covered = t

\* The run is compensated. The delete may fail, and fails for a turn that a
\* summary refers to; the turn then stays without a job.
Withdraw ==
    /\ open
    /\ open' = FALSE
    /\ \/ ~Referenced(last) /\ log' = log \ {last} /\ UNCHANGED clean
       \/ clean' = FALSE /\ UNCHANGED log
    /\ UNCHANGED <<last, summary, job>>

\* get_recent_effective_turns: the last stored turns.
Recent == {t \in log : Cardinality({u \in log : u > t}) < KeepRecent}

\* What build_memory_context puts before the LLM of the conversation's turns.
Context == Recent \cup summary.text

-----------------------------------------------------------------------------
(* The job of a turn: update_rolling_summary_if_needed.                    *)

\* The turns are counted first.
CountTurns(t) ==
    /\ job[t].pc = "queued"
    /\ \/ /\ Cardinality(log) < Trigger
          /\ job' = [job EXCEPT ![t] = Finished]
       \/ /\ Cardinality(log) >= Trigger
          /\ job' = [job EXCEPT ![t].pc = "counted", ![t].total = Cardinality(log)]
    /\ UNCHANGED <<log, last, open, summary, clean>>

CompressTooFew(t) == IF job[t].total > KeepRecent THEN job[t].total - KeepRecent - 1 ELSE 0
\* max(0, total - keep_recent)
Compress(t) == IF job[t].total > KeepRecent THEN job[t].total - KeepRecent ELSE 0

\* turn_index > covered_index
Uncovered == {u \in log : u > summary.covered}

FirstOf(new, all, n) ==
    /\ Cardinality(new) = IF n < Cardinality(all) THEN n ELSE Cardinality(all)
    /\ \A u \in new, v \in all \ new : u < v

Sufficient(t) == summary # NoSummary /\ Compress(t) <= summary.count

\* The current summary, and the turns to add to it: the first ones after those it
\* covers, at most as many as are to be compressed.
ReadTurns(t) ==
    /\ job[t].pc = "counted"
    /\ \/ /\ Sufficient(t)
          /\ job' = [job EXCEPT ![t] = Finished]
       \/ /\ ~Sufficient(t)
          /\ \E new \in SUBSET Uncovered :
                /\ FirstOf(new, Uncovered, Compress(t))
                /\ \/ new = {} /\ job' = [job EXCEPT ![t] = Finished]
                   \/ /\ new # {}
                      /\ \E until \in new :
                            /\ \A u \in new : u <= until
                            /\ job' = [job EXCEPT ![t].pc = "writing", ![t].base = summary,
                                                  ![t].take = new, ![t].until = until]
    /\ UNCHANGED <<log, last, open, summary, clean>>

\* The foreign key of the new row, and the unique key of its conversation when
\* the job found no row.
Accepted(t) ==
    /\ job[t].until \in log
    /\ job[t].base = NoSummary => summary = NoSummary

\* The LLM has answered: the row is written and committed. The new turns are added
\* to the row that was read, whatever was written since.
WriteSummary(t) ==
    /\ job[t].pc = "writing" /\ Accepted(t)
    /\ summary' = [covered |-> job[t].until,
                   text |-> job[t].base.text \cup job[t].take,
                   count |-> job[t].base.count + Cardinality(job[t].take)]
    /\ clean' = (clean /\ summary = job[t].base)
    /\ job' = [job EXCEPT ![t] = Finished]
    /\ UNCHANGED <<log, last, open>>

\* A statement or the LLM fails: logged, nothing is written.
JobFails(t) ==
    /\ job[t].pc \in {"queued", "counted", "writing"}
    /\ job' = [job EXCEPT ![t] = Finished]
    /\ clean' = FALSE
    /\ UNCHANGED <<log, last, open, summary>>

Job(t) == CountTurns(t) \/ ReadTurns(t) \/ WriteSummary(t) \/ JobFails(t)

SummaryNext == SaveTurn \/ Answer \/ Withdraw \/ \E t \in Turns : Job(t)

SummarySpec == SummaryInit /\ [][SummaryNext]_summaryVars
-----------------------------------------------------------------------------
(* Properties.                                                             *)

\* The summary's text holds exactly the stored turns up to the one it covers:
\* no turn is missing or counted twice, and none that was withdrawn while a job
\* was asking the LLM, whichever jobs overlapped and overwrote each other.
SummaryIsPrefix ==
    summary # NoSummary =>
        /\ summary.covered \in log
        /\ summary.text = {t \in log : t <= summary.covered}
        /\ summary.count = Cardinality(summary.text)

Quiet == ~open /\ \A t \in Turns : job[t].pc \in {"none", "done"}

\* The next prompt misses no turn: once the jobs are over, the summary and the window of
\* recent turns meet without a gap, if no job failed or lost an update.
ContextComplete ==
    clean /\ Quiet /\ Cardinality(log) >= Trigger
        => log \subseteq Context

=============================================================================
