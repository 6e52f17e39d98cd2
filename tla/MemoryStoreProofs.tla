-------------------------- MODULE MemoryStoreProofs --------------------------
(***************************************************************************)
(* What a chat recalls of a subject is the last thing that was said of it: *)
(* for every set of subjects and objects, every limit of related records   *)
(* and every number of jobs, edits and deletions in any order.             *)
(***************************************************************************)
EXTENDS MemoryStore, WellFoundedInduction, TLAPS

-----------------------------------------------------------------------------
(* The inductive invariant, in parts. A subject is clear as long as its    *)
(* statements come one at a time; all but two parts speak of clear ones.   *)

Clear(s) == said[s] # Unclear
On(s) == {m \in Active : mem[m].subject = s}
Subject(t) == job[t].candidate.subject

\* A number that was not given out has nothing; a job under way has its candidate and
\* has not yet created its memory.
Numbered ==
    \A t \in Ids :
        /\ t > last => mem[t] = NoMemory /\ job[t] = NoJob
        /\ t \in Pending => mem[t] = NoMemory /\ job[t].candidate \in Candidates

\* What a job has read of a clear subject is as it was read.
StillTrue(e) ==
    /\ e.id \in Stored
    /\ Clear(e.subject) => mem[e.id].subject = e.subject /\ mem[e.id].object = e.object
    /\ Clear(mem[e.id].subject) => mem[e.id].subject = e.subject
ReadIsTrue == \A t \in Ids : \A e \in job[t].related : StillTrue(e)

\* Its own subject was read completely, and what was read is active still.
ReadIsComplete ==
    \A t \in Ids : job[t].pc = "read" /\ Clear(Subject(t)) =>
        /\ \A m \in On(Subject(t)) : \E e \in job[t].related : e.id = m
        /\ \A e \in job[t].related : e.subject = Subject(t) => e.id \in On(Subject(t))

OneJob ==
    \A t, u \in Pending : t # u /\ Subject(t) = Subject(u) => ~Clear(Subject(t))

\* A clear subject has at most one active memory, of what was last said.
OneMemory ==
    \A s \in Subjects : Clear(s) =>
        /\ \A m, n \in On(s) : m = n
        /\ \A m \in On(s) : mem[m].object = said[s]
        /\ On(s) = {} => said[s] = Nothing

NeverLapses ==
    \A m \in Stored : Clear(mem[m].subject) => mem[m].valid = "always"

ImpliedObject == \A s \in Implied : Clear(s) => said[s] \in {Nothing, FixedObject}

IInv ==
    /\ TypeOK /\ Numbered /\ ReadIsTrue /\ ReadIsComplete /\ OneJob
    /\ OneMemory /\ NeverLapses /\ ImpliedObject

-----------------------------------------------------------------------------
(* Lemmas.                                                                 *)

\* Every nonempty set of numbers has a greatest one.
LEMMA GreatestId ==
    ASSUME NEW S, S \subseteq Ids, S # {}
    PROVE  \E m \in S : \A n \in S : n <= m
<1> DEFINE R == OpToRel(<, Nat)
           T == {MaxWrites - m : m \in S}
<1>0. \A m \in S : m \in Nat /\ MaxWrites - m \in Nat
  BY BoundsAssumption DEF Ids
<1>1. T \subseteq Nat /\ T # {}
  <2>1. T \subseteq Nat
    BY <1>0
  <2>2. PICK m \in S : TRUE
    OBVIOUS
  <2>3. MaxWrites - m \in T
    OBVIOUS
  <2> QED
    BY <2>1, <2>3
<1>2. PICK d \in T : \A c \in T : ~(<<c, d>> \in R)
  <2> HIDE DEF R, T
  <2> QED
    BY <1>1, NatLessThanWellFounded, WFMin DEF R
<1>3. \A c \in T : ~(c < d)
  BY <1>1, <1>2 DEF OpToRel
<1>4. PICK m \in S : d = MaxWrites - m
  OBVIOUS
<1>5. ASSUME NEW n \in S PROVE n <= m
  <2>1. ~(MaxWrites - n < MaxWrites - m)
    BY <1>3, <1>4
  <2> QED
    BY <2>1, BoundsAssumption DEF Ids
<1> QED
  BY <1>5

\* What is stored is a memory; what is active is stored.
LEMMA StoredMemory ==
    ASSUME TypeOK, NEW m \in Stored
    PROVE  m \in Ids /\ mem[m] \in Memory
  BY DEF TypeOK, Stored, NoMemory

LEMMA CandidateTypes ==
    \A c \in Candidates : /\ c.subject \in Subjects /\ c.object \in Objects
                          /\ c.explicit \in BOOLEAN
                          /\ c.subject \in Implied => c.object = FixedObject
                          /\ ~c.explicit => c.subject \in Implied
<1> SUFFICES ASSUME NEW c \in Candidates
             PROVE  /\ c.subject \in Subjects /\ c.object \in Objects
                    /\ c.explicit \in BOOLEAN
                    /\ c.subject \in Implied => c.object = FixedObject
                    /\ ~c.explicit => c.subject \in Implied
  OBVIOUS
<1>1. CASE c \in Statements /\ (c.subject \in Implied => c.object = FixedObject)
  <2>1. PICK s \in Subjects, o \in Objects :
            c = [subject |-> s, object |-> o, explicit |-> TRUE]
    BY <1>1 DEF Statements
  <2> QED
    BY <1>1, <2>1
<1>2. CASE \E s \in Implied : c = [subject |-> s, object |-> FixedObject, explicit |-> FALSE]
  BY <1>2, ImpliedAssumption
<1> QED
  BY <1>1, <1>2 DEF Candidates, Extractable

\* What the history says after a statement, and after a disturbance.
LEMMA SayFacts ==
    ASSUME TypeOK, NEW s \in Subjects, NEW o \in Objects \cup {Nothing}, said' = Say(s, o)
    PROVE  /\ said' \in [Subjects -> Objects \cup {Nothing, Unclear}]
           /\ \A r \in Subjects :
                  Clear(r)' => Clear(r) /\ said'[r] = IF r = s THEN o ELSE said[r]
  BY DEF TypeOK, Say, Clear

LEMMA BlurFacts ==
    ASSUME TypeOK, NEW X, said' = Blur(X)
    PROVE  /\ said' \in [Subjects -> Objects \cup {Nothing, Unclear}]
           /\ \A r \in Subjects : Clear(r)' => Clear(r) /\ r \notin X /\ said'[r] = said[r]
  BY DEF TypeOK, Blur, Clear

LEMMA InitIInv == ASSUME Init PROVE IInv
<1>1. TypeOK
  BY BoundsAssumption DEF Init, TypeOK, NoJob, Jobs
<1>2. Stored = {} /\ Active = {} /\ Pending = {}
  BY DEF Init, Stored, Active, Pending, NoJob
<1>3. Numbered /\ ReadIsTrue /\ ReadIsComplete
  BY <1>2 DEF Init, Numbered, ReadIsTrue, ReadIsComplete, NoJob
<1>4. OneJob /\ OneMemory /\ NeverLapses /\ ImpliedObject
  BY <1>2, ImpliedAssumption
     DEF Init, OneJob, OneMemory, NeverLapses, ImpliedObject, On
<1> QED
  BY <1>1, <1>3, <1>4 DEF IInv

-----------------------------------------------------------------------------
(* Steps that touch nothing of a subject that stays clear.                 *)

QuietSaid ==
    \A r \in Subjects : said'[r] # Unclear => said[r] # Unclear /\ said'[r] = said[r]
QuietMem ==
    \A m \in Ids :
        /\ mem[m] # NoMemory => /\ mem'[m] # NoMemory
                                /\ said'[mem[m].subject] # Unclear => mem'[m] = mem[m]
        /\ mem'[m] # NoMemory /\ said'[mem'[m].subject] # Unclear => mem'[m] = mem[m]
QuietJob == \A t \in Ids : job'[t] = job[t] \/ job'[t] = Finished
Quiet == QuietSaid /\ QuietMem /\ QuietJob

LEMMA QuietOn ==
    ASSUME TypeOK, TypeOK', QuietMem, NEW s \in Subjects, said'[s] # Unclear
    PROVE  /\ On(s)' = On(s)
           /\ \A m \in On(s) : m \in Ids /\ mem'[m] = mem[m]
  BY DEF On, Active, Stored, QuietMem

LEMMA RelatedTypes ==
    ASSUME TypeOK
    PROVE  \A t \in Ids : \A e \in job[t].related :
               e.id \in Ids /\ e.subject \in Subjects /\ e.object \in Objects
  BY DEF TypeOK, Jobs

LEMMA PendingTypes ==
    ASSUME TypeOK, Numbered
    PROVE  /\ \A t \in Pending : /\ t \in Ids /\ Subject(t) \in Subjects
                                 /\ job[t].candidate \in Candidates /\ mem[t] = NoMemory
           /\ \A t \in Ids : job[t].pc \in {"started", "read"} <=> t \in Pending
  BY CandidateTypes DEF Numbered, Pending, Subject

LEMMA FinishedFacts ==
    /\ NoJob.pc = "none" /\ NoJob.related = {}
    /\ Finished.pc = "done" /\ Finished.related = {}
    /\ NoJob \in Jobs /\ Finished \in Jobs
  BY DEF NoJob, Finished, Jobs

LEMMA QuietKeeps ==
    ASSUME IInv, TypeOK', Numbered', Quiet
    PROVE  IInv'
<1> USE DEF IInv, Quiet
<1>1. ReadIsTrue'
  <2> SUFFICES ASSUME NEW t \in Ids, NEW e \in job'[t].related
               PROVE  StillTrue(e)'
    BY DEF ReadIsTrue
  <2>1. e \in job[t].related
    BY FinishedFacts DEF QuietJob
  <2>2. StillTrue(e) /\ e.id \in Ids /\ e.subject \in Subjects
    BY <2>1, RelatedTypes DEF ReadIsTrue
  <2>3. mem'[e.id] \in Memory /\ mem'[e.id] # NoMemory /\ mem[e.id] # NoMemory
    BY <2>2, StoredMemory DEF StillTrue, QuietMem, Stored, TypeOK
  <2>4. mem'[e.id].subject \in Subjects
    BY <2>3 DEF Memory
  <2> QED
    BY <2>2, <2>3, <2>4 DEF StillTrue, QuietMem, QuietSaid, Stored, Clear
<1>2. ReadIsComplete'
  <2> SUFFICES ASSUME NEW t \in Ids, job'[t].pc = "read", Clear(Subject(t))'
               PROVE  (/\ \A m \in On(Subject(t)) : \E e \in job[t].related : e.id = m
                       /\ \A e \in job[t].related :
                              e.subject = Subject(t) => e.id \in On(Subject(t)))'
    BY DEF ReadIsComplete
  <2>1. job'[t] = job[t]
    BY FinishedFacts DEF QuietJob
  <2>2. Subject(t)' = Subject(t) /\ Subject(t) \in Subjects
    BY <2>1, PendingTypes DEF Subject
  <2>3. Clear(Subject(t)) /\ said'[Subject(t)] # Unclear
    BY <2>2 DEF QuietSaid, Clear
  <2>4. On(Subject(t))' = On(Subject(t))
    BY <2>2, <2>3, QuietOn
  <2> QED
    BY <2>1, <2>2, <2>3, <2>4 DEF ReadIsComplete
<1>3. OneJob'
  <2>1. \A t \in Pending' : t \in Pending /\ job'[t] = job[t]
    BY FinishedFacts DEF QuietJob, Pending
  <2> QED
    BY <2>1, PendingTypes DEF OneJob, Subject, QuietSaid, Clear
<1>4. OneMemory'
  BY QuietOn DEF OneMemory, QuietSaid, Clear
<1>5. NeverLapses'
  <2> SUFFICES ASSUME NEW m \in Stored', Clear(mem[m].subject)'
               PROVE  mem'[m].valid = "always"
    BY DEF NeverLapses
  <2>1. m \in Ids /\ mem'[m] \in Memory
    BY DEF Stored, TypeOK
  <2>2. mem'[m].subject \in Subjects
    BY <2>1 DEF Memory
  <2>3. mem'[m] = mem[m] /\ m \in Stored
    BY <2>1 DEF Stored, Clear, QuietMem
  <2> QED
    BY <2>2, <2>3 DEF NeverLapses, QuietSaid, Clear
<1>6. ImpliedObject'
  BY ImpliedAssumption DEF ImpliedObject, QuietSaid, Clear
<1> QED
  BY <1>1, <1>2, <1>3, <1>4, <1>5, <1>6

LEMMA NewMemoryFacts ==
    ASSUME NEW s \in Subjects, NEW o \in Objects, NEW u \in Ids \cup {NoId},
           NEW c, c.subject = s, c.object = o
    PROVE  /\ NewMemory(c, u) \in Memory /\ NewMemory(c, u) # NoMemory
           /\ NewMemory(c, u).subject = s /\ NewMemory(c, u).object = o
           /\ NewMemory(c, u).status = "active" /\ NewMemory(c, u).valid = "always"
  BY DEF NewMemory, Memory, Status, NoMemory

\* Another subject and object are written into a memory.
LEMMA Relabelled ==
    ASSUME TypeOK, NEW m \in Stored, NEW s \in Subjects, NEW o \in Objects,
           mem' = [mem EXCEPT ![m].subject = s, ![m].object = o]
    PROVE  /\ mem' \in [Ids -> Memory \cup {NoMemory}]
           /\ mem'[m] \in Memory /\ mem'[m] # NoMemory
           /\ mem'[m].subject = s /\ mem'[m].object = o
           /\ mem'[m].status = mem[m].status /\ mem'[m].valid = mem[m].valid
           /\ mem'[m].supersedes = mem[m].supersedes
           /\ \A n \in Ids \ {m} : mem'[n] = mem[n]
<1> DEFINE g == [mem EXCEPT ![m].subject = s]
           rec == [g[m] EXCEPT !.object = o]
<1>1. m \in Ids /\ mem[m] \in Memory
  BY StoredMemory
<1>2. g[m] = [mem[m] EXCEPT !.subject = s] /\ g \in [Ids -> Memory \cup {NoMemory}]
  BY <1>1 DEF TypeOK, Memory
<1>3. /\ g[m] \in Memory /\ g[m].subject = s
      /\ g[m].status = mem[m].status /\ g[m].valid = mem[m].valid
      /\ g[m].supersedes = mem[m].supersedes
  BY <1>1, <1>2 DEF Memory
<1>4. /\ rec \in Memory /\ rec.subject = s /\ rec.object = o /\ rec # NoMemory
      /\ rec.status = mem[m].status /\ rec.valid = mem[m].valid
      /\ rec.supersedes = mem[m].supersedes
  BY <1>3 DEF Memory, NoMemory
<1>5. mem' = [g EXCEPT ![m] = rec] /\ \A n \in Ids \ {m} : g[n] = mem[n]
  BY DEF TypeOK
<1> QED
  BY <1>1, <1>2, <1>4, <1>5

LEMMA FailJobKeeps == ASSUME IInv, NEW t \in Ids, FailJob(t) PROVE IInv'
<1>1. TypeOK'
  BY FinishedFacts DEF IInv, TypeOK, FailJob
<1>2. Numbered'
  BY FinishedFacts DEF IInv, Numbered, FailJob, Pending, TypeOK
<1>3. Quiet
  BY DEF IInv, TypeOK, FailJob, Quiet, QuietSaid, QuietMem, QuietJob
<1> QED
  BY <1>1, <1>2, <1>3, QuietKeeps

LEMMA LapseKeeps == ASSUME IInv, NEW m \in Ids, Lapse(m) PROVE IInv'
<1>1. m \in Stored /\ mem[m] \in Memory /\ mem[m].subject \in Subjects
  BY StoredMemory DEF IInv, Lapse, Memory
<1>2. said[mem[m].subject] = Unclear
  BY <1>1 DEF IInv, NeverLapses, Lapse, Clear
<1>3. /\ mem'[m] \in Memory /\ mem'[m] # NoMemory /\ mem'[m].subject = mem[m].subject
      /\ \A n \in Ids \ {m} : mem'[n] = mem[n]
  BY <1>1 DEF Lapse, Memory, NoMemory, IInv, TypeOK
<1>4. TypeOK'
  BY <1>3 DEF IInv, TypeOK, Lapse
<1>5. Numbered'
  BY <1>1, <1>3 DEF IInv, Numbered, Lapse, Pending, Stored
<1>6. Quiet
  BY <1>1, <1>2, <1>3 DEF Lapse, Quiet, QuietSaid, QuietMem, QuietJob
<1> QED
  BY <1>4, <1>5, <1>6, QuietKeeps

LEMMA CreateKeeps ==
    ASSUME IInv, NEW s \in Subjects, NEW o \in Objects, Create(s, o)
    PROVE  IInv'
<1> DEFINE n == last + 1
<1>1. n \in Ids /\ n > last /\ mem[n] = NoMemory /\ last' = n /\ n \in 0 .. MaxWrites
  BY BoundsAssumption DEF IInv, TypeOK, Numbered, Create, Ids
<1>2. /\ mem'[n] \in Memory /\ mem'[n] # NoMemory /\ mem'[n].subject = s
      /\ \A m \in Ids \ {n} : mem'[m] = mem[m]
      /\ mem' \in [Ids -> Memory \cup {NoMemory}]
  <2>1. /\ Manual(s, o) \in Memory /\ Manual(s, o) # NoMemory /\ Manual(s, o).subject = s
    BY NewMemoryFacts DEF Manual
  <2>2. mem' = [mem EXCEPT ![n] = Manual(s, o)]
    BY DEF Create
  <2> QED
    BY <1>1, <2>1, <2>2 DEF IInv, TypeOK
<1>3. job' = [job EXCEPT ![n] = Finished] /\ said' = Blur({s})
  BY DEF Create
<1>4. TypeOK'
  <2>1. edits' \in 0 .. MaxEdits
    BY BoundsAssumption DEF Create, IInv, TypeOK
  <2>2. job' \in [Ids -> Jobs]
    BY <1>1, <1>3, FinishedFacts DEF IInv, TypeOK
  <2> QED
    BY <1>1, <1>2, <1>3, <2>1, <2>2, BlurFacts DEF IInv, TypeOK
<1>5. Numbered'
  BY <1>1, <1>2, <1>3, FinishedFacts, BoundsAssumption
     DEF IInv, Numbered, Pending, TypeOK, Ids
<1>6. Quiet
  BY <1>1, <1>2, <1>3, BlurFacts
     DEF Quiet, QuietSaid, QuietMem, QuietJob, IInv, TypeOK, Clear
<1> QED
  BY <1>4, <1>5, <1>6, QuietKeeps

LEMMA PatchKeeps == ASSUME IInv, NEW m \in Ids, Patch(m) PROVE IInv'
<1>1. m \in Stored /\ mem[m] \in Memory /\ mem[m].subject \in Subjects
  BY StoredMemory DEF IInv, Patch, Memory
<1>2. /\ mem'[m] \in Memory /\ mem'[m] # NoMemory
      /\ \A n \in Ids \ {m} : mem'[n] = mem[n]
      /\ mem' \in [Ids -> Memory \cup {NoMemory}]
  <2>1. CASE \E status \in Status : mem' = [mem EXCEPT ![m].status = status]
    BY <1>1, <2>1 DEF Memory, NoMemory, IInv, TypeOK
  <2>2. CASE mem' = [mem EXCEPT ![m].valid = "until"]
    BY <1>1, <2>2 DEF Memory, NoMemory, IInv, TypeOK
  <2>3. ASSUME NEW s \in Subjects, NEW o \in Objects,
               mem' = [mem EXCEPT ![m].subject = s, ![m].object = o]
        PROVE  /\ mem'[m] \in Memory /\ mem'[m] # NoMemory
               /\ \A n \in Ids \ {m} : mem'[n] = mem[n]
               /\ mem' \in [Ids -> Memory \cup {NoMemory}]
    BY <1>1, <2>3, Relabelled DEF IInv
  <2> QED
    BY <2>1, <2>2, <2>3 DEF Patch
<1>3. said' = Blur({mem[m].subject, mem'[m].subject}) /\ job' = job /\ last' = last
  BY DEF Patch
<1>4. TypeOK'
  <2>1. edits' \in 0 .. MaxEdits
    BY BoundsAssumption DEF Patch, IInv, TypeOK
  <2> QED
    BY <1>2, <1>3, <2>1, BlurFacts DEF IInv, TypeOK
<1>5. Numbered'
  BY <1>1, <1>2, <1>3 DEF IInv, Numbered, Pending, Stored
<1>6. Quiet
  <2>1. mem'[m].subject \in Subjects
    BY <1>2 DEF Memory
  <2> QED
    BY <1>1, <1>2, <1>3, <2>1, BlurFacts
       DEF Quiet, QuietSaid, QuietMem, QuietJob, IInv, Clear
<1> QED
  BY <1>4, <1>5, <1>6, QuietKeeps

-----------------------------------------------------------------------------
(* Steps that say something of a subject, or that read it.                 *)

LEMMA DeleteKeeps == ASSUME IInv, NEW m \in Ids, Delete(m) PROVE IInv'
<1> USE DEF IInv
<1>0. m \in Stored /\ mem[m] \in Memory /\ mem[m].subject \in Subjects
  BY StoredMemory DEF Delete, SoftDelete, Memory
<1> PICK s \in Subjects : s = mem[m].subject
  BY <1>0
<1>1. m \in Stored /\ mem[m] \in Memory
  BY <1>0
<1>2. /\ mem'[m] \in Memory /\ mem'[m] # NoMemory /\ mem'[m].status = "deleted"
      /\ mem'[m].subject = s /\ mem'[m].object = mem[m].object
      /\ mem'[m].valid = mem[m].valid
      /\ \A n \in Ids \ {m} : mem'[n] = mem[n]
      /\ mem' \in [Ids -> Memory \cup {NoMemory}]
  BY <1>1 DEF Delete, SoftDelete, Memory, NoMemory, Status, TypeOK
<1>3. job' = job /\ last' = last /\ edits' = edits
  BY DEF Delete
<1>4. CASE OthersOn(s, NoId) # {}
  <2>1. said' = Blur({s})
    BY <1>4 DEF Delete
  <2>2. TypeOK'
    BY <1>2, <1>3, <2>1, BlurFacts DEF TypeOK
  <2>3. Numbered'
    BY <1>1, <1>2, <1>3 DEF Numbered, Pending, Stored
  <2>4. Quiet
    BY <1>1, <1>2, <1>3, <2>1, BlurFacts
       DEF Quiet, QuietSaid, QuietMem, QuietJob, Clear
  <2> QED
    BY <2>2, <2>3, <2>4, QuietKeeps
<1>5. CASE OthersOn(s, NoId) = {}
  <2>1. \A t \in Pending : Subject(t) # s
    BY <1>5 DEF OthersOn, Subject, Pending, NoId, Ids
  <2>2. /\ said' \in [Subjects -> Objects \cup {Nothing, Unclear}]
        /\ \A r \in Subjects : Clear(r)' => Clear(r) /\ (r # s => said'[r] = said[r])
        /\ m \in Active => (Clear(s)' => said'[s] = Nothing)
        /\ m \notin Active => said' = said
    <3>1. CASE m \in Active
      <4>1. said' = Say(s, Nothing)
        BY <1>5, <3>1 DEF Delete
      <4> QED
        BY <1>1, <3>1, <4>1, SayFacts
    <3>2. CASE m \notin Active
      BY <1>5, <3>2 DEF Delete, TypeOK, Clear
    <3> QED
      BY <3>1, <3>2
  <2>3. \A r \in Subjects : On(r)' = On(r) \ {m}
    BY <1>1, <1>2 DEF On, Active, Stored
  <2>4. \A r \in Subjects \ {s} : m \notin On(r)
    BY DEF On
  <2>5. \A n \in Stored' : n \in Stored /\ mem'[n].subject = mem[n].subject
                           /\ mem'[n].object = mem[n].object /\ mem'[n].valid = mem[n].valid
    BY <1>1, <1>2 DEF Stored
  <2>6. Stored' = Stored
    BY <1>1, <1>2 DEF Stored
  <2>7. TypeOK' /\ Numbered'
    BY <1>1, <1>2, <1>3, <2>2 DEF TypeOK, Numbered, Pending, Stored
  <2>8. ReadIsTrue'
    BY <1>3, <2>2, <2>5, <2>6, RelatedTypes, StoredMemory
       DEF ReadIsTrue, StillTrue, Clear, Memory
  <2>9. ReadIsComplete'
    BY <1>3, <2>1, <2>2, <2>3, <2>4, PendingTypes DEF ReadIsComplete, Subject
  <2>10. OneJob'
    BY <1>3, <2>2, PendingTypes DEF OneJob, Subject, Pending
  <2>11. OneMemory'
    <3>1. CASE m \in Active
      <4>1. m \in On(s)
        BY <3>1 DEF On
      <4> QED
        BY <1>1, <2>2, <2>3, <2>4, <2>5, <2>6, <3>1, <4>1 DEF OneMemory, On, Active
    <3>2. CASE m \notin Active
      <4>1. \A r \in Subjects : On(r)' = On(r)
        BY <2>3, <3>2 DEF On
      <4> QED
        BY <2>2, <2>5, <2>6, <3>2, <4>1 DEF OneMemory, On, Active, Clear
    <3> QED
      BY <3>1, <3>2
  <2>12. NeverLapses'
    BY <2>2, <2>5, <2>6, StoredMemory DEF NeverLapses, Memory
  <2>13. ImpliedObject'
    BY <2>2, ImpliedAssumption DEF ImpliedObject, Clear
  <2> QED
    BY <2>7, <2>8, <2>9, <2>10, <2>11, <2>12, <2>13
<1> QED
  BY <1>4, <1>5

\* A job starts, or reads: the memories stay, and so does what is clear of them.
LEMMA SameMemories ==
    ASSUME IInv, mem' = mem, QuietSaid
    PROVE  OneMemory' /\ NeverLapses' /\ ImpliedObject'
<1>1. Stored' = Stored /\ Active' = Active /\ \A s : On(s)' = On(s)
  BY DEF Stored, Active, On
<1>2. OneMemory'
  BY <1>1 DEF IInv, OneMemory, QuietSaid, Clear
<1>3. NeverLapses'
  BY <1>1, StoredMemory DEF IInv, NeverLapses, QuietSaid, Clear, Memory
<1>4. ImpliedObject'
  BY ImpliedAssumption DEF IInv, ImpliedObject, QuietSaid, Clear
<1> QED
  BY <1>2, <1>3, <1>4

LEMMA StartJobKeeps ==
    ASSUME IInv, NEW c \in Candidates, StartJob(c)
    PROVE  IInv'
<1> DEFINE n == last + 1
<1> USE DEF IInv
<1>1. /\ n \in Ids /\ n > last /\ mem[n] = NoMemory /\ job[n] = NoJob
      /\ last' = n /\ n \in 0 .. MaxWrites /\ mem' = mem /\ edits' = edits
  BY BoundsAssumption DEF TypeOK, Numbered, StartJob, Ids
<1>2. /\ job'[n] \in Jobs /\ job'[n].pc = "started" /\ job'[n].candidate = c
      /\ job'[n].related = {}
      /\ \A t \in Ids \ {n} : job'[t] = job[t]
      /\ job' \in [Ids -> Jobs]
  BY <1>1 DEF StartJob, NoJob, Jobs, TypeOK
<1>3. /\ said' \in [Subjects -> Objects \cup {Nothing, Unclear}] /\ QuietSaid
      /\ c.subject \in Subjects
      /\ said'[c.subject] # Unclear => OthersOn(c.subject, n) = {}
  <2>1. c.subject \in Subjects
    BY CandidateTypes
  <2>2. CASE OthersOn(c.subject, n) = {}
    BY <2>1, <2>2 DEF StartJob, TypeOK, QuietSaid
  <2>3. CASE OthersOn(c.subject, n) # {}
    BY <2>1, <2>3, BlurFacts DEF StartJob, QuietSaid, Clear
  <2> QED
    BY <2>1, <2>2, <2>3
<1>4. TypeOK'
  BY <1>1, <1>2, <1>3 DEF TypeOK
<1>5. Pending' = Pending \cup {n}
  BY <1>1, <1>2 DEF Pending
<1>6. Numbered'
  BY <1>1, <1>2, <1>5, BoundsAssumption DEF Numbered, TypeOK, Ids
<1>7. ReadIsTrue'
  BY <1>1, <1>2, <1>3, RelatedTypes, StoredMemory
     DEF ReadIsTrue, StillTrue, QuietSaid, Clear, Memory, Stored
<1>8. ReadIsComplete'
  BY <1>1, <1>2, <1>3, PendingTypes
     DEF ReadIsComplete, Subject, QuietSaid, Clear, On, Active, Stored
<1>9. OneJob'
  <2> SUFFICES ASSUME NEW t \in Pending', NEW u \in Pending', t # u,
                      Subject(t)' = Subject(u)', Clear(Subject(t))'
               PROVE  FALSE
    BY DEF OneJob
  <2>1. CASE t # n /\ u # n
    BY <1>2, <1>3, <1>5, <2>1, PendingTypes DEF OneJob, Subject, QuietSaid, Clear
  <2>2. CASE t = n
    <3>1. u \in Pending \ {n} /\ job[u].candidate.subject = c.subject
      BY <1>2, <1>5, <2>2 DEF Subject, Pending
    <3> QED
      BY <1>2, <1>3, <2>2, <3>1 DEF Subject, OthersOn, Clear
  <2>3. CASE u = n
    <3>1. t \in Pending \ {n} /\ job[t].candidate.subject = c.subject
      BY <1>2, <1>5, <2>3 DEF Subject, Pending
    <3> QED
      BY <1>2, <1>3, <2>3, <3>1 DEF Subject, OthersOn, Clear
  <2> QED
    BY <2>1, <2>2, <2>3
<1> QED
  BY <1>1, <1>3, <1>4, <1>6, <1>7, <1>8, <1>9, SameMemories

LEMMA ReadRelatedKeeps == ASSUME IInv, NEW t \in Ids, ReadRelated(t) PROVE IInv'
<1> DEFINE Entry(m) == [id |-> m, subject |-> mem[m].subject, object |-> mem[m].object]
<1> USE DEF IInv
<1>1. /\ t \in Pending /\ Subject(t) \in Subjects /\ mem' = mem /\ last' = last
      /\ edits' = edits
  BY PendingTypes DEF ReadRelated, Pending
<1>2. \A m \in Related : m \in Active /\ m \in Stored /\ m \in Ids /\ mem[m] \in Memory
  BY StoredMemory DEF Related, NewestOf, Active
<1>3. /\ job'[t].pc = "read" /\ job'[t].candidate = job[t].candidate
      /\ job'[t].related = {Entry(m) : m \in Related}
      /\ \A u \in Ids \ {t} : job'[u] = job[u]
      /\ job' \in [Ids -> Jobs]
  <2>1. {Entry(m) : m \in Related} \subseteq [id : Ids, subject : Subjects, object : Objects]
    BY <1>2 DEF Memory
  <2>2. job' = [job EXCEPT ![t] = [job[t] EXCEPT !.pc = "read",
                                                  !.related = {Entry(m) : m \in Related}]]
    BY DEF ReadRelated, TypeOK, Jobs
  <2> HIDE DEF Entry
  <2> QED
    BY <2>1, <2>2 DEF TypeOK, Jobs
<1>4. /\ said' \in [Subjects -> Objects \cup {Nothing, Unclear}] /\ QuietSaid
      /\ said'[Subject(t)] # Unclear => CutOff(t) = {}
  <2>1. said' = Blur({mem[m].subject : m \in CutOff(t)})
    BY DEF ReadRelated
  <2>2. \A m \in CutOff(t) : mem[m].subject = Subject(t)
    BY DEF CutOff, Subject
  <2> QED
    BY <1>1, <2>1, <2>2, BlurFacts DEF QuietSaid, Clear
<1>5. TypeOK'
  BY <1>1, <1>3, <1>4 DEF TypeOK
<1>6. Pending' = Pending
  BY <1>1, <1>3 DEF Pending
<1>7. Numbered'
  BY <1>1, <1>3, <1>6, FinishedFacts DEF Numbered, TypeOK, Pending
<1>8. Stored' = Stored /\ Active' = Active /\ \A r : On(r)' = On(r)
  BY <1>1 DEF Stored, Active, On
<1>9. ReadIsTrue'
  <2> SUFFICES ASSUME NEW u \in Ids, NEW e \in job'[u].related PROVE StillTrue(e)'
    BY DEF ReadIsTrue
  <2>1. CASE u = t
    BY <1>1, <1>2, <1>3, <1>8, <2>1 DEF StillTrue
  <2>2. CASE u # t
    BY <1>1, <1>3, <1>4, <1>8, <2>2, RelatedTypes, StoredMemory
       DEF ReadIsTrue, StillTrue, QuietSaid, Clear, Memory
  <2> QED
    BY <2>1, <2>2
<1>10. ReadIsComplete'
  <2> SUFFICES ASSUME NEW u \in Ids, job'[u].pc = "read", Clear(Subject(u))'
               PROVE  (/\ \A m \in On(Subject(u)) : \E e \in job[u].related : e.id = m
                       /\ \A e \in job[u].related :
                              e.subject = Subject(u) => e.id \in On(Subject(u)))'
    BY DEF ReadIsComplete
  <2>1. CASE u = t
    <3>1. Subject(t)' = Subject(t) /\ CutOff(t) = {}
      BY <1>3, <1>4, <2>1 DEF Subject, Clear
    <3>2. On(Subject(t)) \subseteq Related
      BY <3>1 DEF On, CutOff, Subject
    <3>3. ASSUME NEW m \in On(Subject(t)) PROVE \E e \in job'[t].related : e.id = m
      <4>1. Entry(m) \in job'[t].related /\ Entry(m).id = m
        BY <1>3, <3>2
      <4> QED
        BY <4>1
    <3>4. \A e \in job'[t].related : e.subject = Subject(t) => e.id \in On(Subject(t))
      BY <1>2, <1>3 DEF On
    <3> QED
      BY <1>8, <2>1, <3>1, <3>3, <3>4
  <2>2. CASE u # t
    BY <1>3, <1>4, <1>8, <2>2, PendingTypes DEF ReadIsComplete, Subject, QuietSaid, Clear
  <2> QED
    BY <2>1, <2>2
<1>11. OneJob'
  BY <1>3, <1>4, <1>6, PendingTypes DEF OneJob, Subject, QuietSaid, Clear
<1> QED
  BY <1>1, <1>4, <1>5, <1>7, <1>9, <1>10, <1>11, SameMemories

\* What a job about a clear subject has read of it, and that there is no more of it.
LEMMA ReadOn ==
    ASSUME IInv, NEW t \in Ids, job[t].pc = "read", NEW s \in Subjects,
           s = Subject(t), Clear(s)
    PROVE  /\ \A e \in job[t].related :
                  e.subject = s => e.id \in On(s) /\ e.object = said[s]
           /\ \A m \in On(s) : \E e \in job[t].related : e.id = m /\ e.subject = s
<1> USE DEF IInv
<1>1. \A e \in job[t].related : e.subject = s => e.id \in On(s) /\ e.object = said[s]
  BY DEF ReadIsComplete, ReadIsTrue, StillTrue, OneMemory
<1>2. ASSUME NEW m \in On(s)
      PROVE  \E e \in job[t].related : e.id = m /\ e.subject = s
  BY <1>2 DEF ReadIsComplete, ReadIsTrue, StillTrue, On
<1> QED
  BY <1>1, <1>2

\* A job creates its memory, and those of its subject stop being active.
LEMMA CreationKeeps ==
    ASSUME IInv, NEW t \in Ids, job[t].pc = "read", NEW s \in Subjects, s = Subject(t),
           NEW o \in Objects, o = job[t].candidate.object,
           NEW K \in SUBSET Stored,
           job' = [job EXCEPT ![t] = Finished], said' = Say(s, o),
           last' = last, edits' = edits,
           mem' \in [Ids -> Memory \cup {NoMemory}],
           mem'[t] \in Memory, mem'[t].subject = s, mem'[t].object = o,
           mem'[t].valid = "always", mem'[t].status = "active",
           \A m \in Ids \ {t} : m \notin K => mem'[m] = mem[m],
           \A m \in K : /\ mem'[m] \in Memory /\ mem'[m].status = "superseded"
                        /\ mem'[m].subject = mem[m].subject
                        /\ mem'[m].object = mem[m].object
                        /\ mem'[m].valid = mem[m].valid
                        /\ Clear(mem[m].subject) => mem[m].subject = s,
           Clear(s) => On(s) \subseteq K
    PROVE  IInv'
<1> USE DEF IInv
<1>1. t \in Pending /\ mem[t] = NoMemory /\ t \notin Stored /\ job[t].candidate \in Candidates
  BY PendingTypes DEF Stored, Pending
<1>2. \A u \in Ids : job'[u] = IF u = t THEN Finished ELSE job[u]
  BY DEF TypeOK
<1>3. /\ said' \in [Subjects -> Objects \cup {Nothing, Unclear}]
      /\ \A r \in Subjects :
             Clear(r)' => Clear(r) /\ said'[r] = IF r = s THEN o ELSE said[r]
  BY SayFacts
<1>4. Stored' = Stored \cup {t}
  BY DEF Stored, NoMemory, Memory
<1>5. \A m \in Stored : /\ mem[m] \in Memory /\ mem'[m] \in Memory /\ m \in Ids
                        /\ mem'[m].subject = mem[m].subject
                        /\ mem'[m].object = mem[m].object /\ mem'[m].valid = mem[m].valid
  BY <1>1, StoredMemory
<1>6. ASSUME NEW r \in Subjects, Clear(r)', r # s
      PROVE  On(r)' = On(r)
  <2>1. Clear(r)
    BY <1>3, <1>6
  <2>2. \A m \in K : mem[m].subject # r
    BY <1>6, <2>1
  <2>3. \A m \in Stored : mem[m].subject = r => mem'[m] = mem[m]
    BY <1>1, <1>5, <2>2
  <2> QED
    BY <1>4, <1>5, <1>6, <2>3 DEF On, Active
<1>7. Clear(s)' => On(s)' = {t}
  <2> SUFFICES ASSUME Clear(s)' PROVE On(s)' = {t}
    OBVIOUS
  <2>1. On(s) \subseteq K
    BY <1>3
  <2>2. ASSUME NEW m \in Stored, m \in On(s)' PROVE FALSE
    <3>1. CASE m \in K
      BY <2>2, <3>1 DEF On, Active
    <3>2. CASE m \notin K
      <4>1. mem'[m] = mem[m]
        BY <1>1, <1>5, <3>2
      <4> QED
        BY <2>1, <2>2, <3>2, <4>1 DEF On, Active
    <3> QED
      BY <3>1, <3>2
  <2> QED
    BY <1>4, <2>2 DEF On, Active
<1>8. TypeOK'
  BY <1>3, FinishedFacts DEF TypeOK
<1>9. Pending' = Pending \ {t}
  BY <1>2, FinishedFacts DEF Pending
<1>10. Numbered'
  BY <1>1, <1>2, <1>4, <1>5, <1>9, FinishedFacts DEF Numbered, TypeOK, Stored
<1>11. ReadIsTrue'
  <2> SUFFICES ASSUME NEW u \in Ids, NEW e \in job'[u].related PROVE StillTrue(e)'
    BY DEF ReadIsTrue
  <2>1. StillTrue(e) /\ e.subject \in Subjects /\ mem[e.id].subject \in Subjects
    BY <1>2, <1>5, FinishedFacts, RelatedTypes DEF ReadIsTrue, StillTrue, Memory
  <2> QED
    BY <1>3, <1>4, <1>5, <2>1 DEF StillTrue, Clear
<1>12. OneJob'
  BY <1>2, <1>3, <1>9, PendingTypes DEF OneJob, Subject
<1>13. ReadIsComplete'
  <2> SUFFICES ASSUME NEW u \in Ids, job'[u].pc = "read", Clear(Subject(u))'
               PROVE  (/\ \A m \in On(Subject(u)) : \E e \in job[u].related : e.id = m
                       /\ \A e \in job[u].related :
                              e.subject = Subject(u) => e.id \in On(Subject(u)))'
    BY DEF ReadIsComplete
  <2>1. u # t /\ job'[u] = job[u] /\ u \in Pending
    BY <1>2, FinishedFacts DEF Pending
  <2>2. Subject(u)' = Subject(u) /\ Subject(u) \in Subjects /\ Clear(Subject(u))
    BY <1>3, <2>1, PendingTypes DEF Subject, Clear
  <2>3. Subject(u) # s
    BY <1>1, <2>1, <2>2 DEF OneJob
  <2>4. On(Subject(u))' = On(Subject(u))
    BY <1>6, <2>2, <2>3
  <2> QED
    BY <2>1, <2>2, <2>4 DEF ReadIsComplete
<1>14. OneMemory'
  <2> SUFFICES ASSUME NEW r \in Subjects, Clear(r)'
               PROVE  /\ \A m, n \in On(r)' : m = n
                      /\ \A m \in On(r)' : mem'[m].object = said'[r]
                      /\ On(r)' = {} => said'[r] = Nothing
    BY DEF OneMemory
  <2>1. CASE r = s
    BY <1>3, <1>7, <2>1
  <2>2. CASE r # s
    BY <1>3, <1>5, <1>6, <2>2 DEF OneMemory, On, Active
  <2> QED
    BY <2>1, <2>2
<1>15. NeverLapses'
  BY <1>3, <1>4, <1>5 DEF NeverLapses, Memory
<1>16. ImpliedObject'
  BY <1>1, <1>3, CandidateTypes, ImpliedAssumption DEF ImpliedObject, Subject
<1> QED
  BY <1>8, <1>10, <1>11, <1>12, <1>13, <1>14, <1>15, <1>16

LEMMA ConfirmKeeps ==
    ASSUME IInv, NEW t \in Ids, job[t].pc = "read", NEW e \in job[t].related,
           SameObject(job[t].candidate, e), NEW rewritten \in BOOLEAN,
           Confirm(job[t].candidate, e, rewritten),
           said' = Say(Subject(t), job[t].candidate.object),
           job' = [job EXCEPT ![t] = Finished], last' = last, edits' = edits
    PROVE  IInv'
<1> USE DEF IInv
<1> PICK s \in Subjects, o \in Objects : s = Subject(t) /\ o = job[t].candidate.object
  BY PendingTypes, CandidateTypes
<1>1. e.id \in Stored /\ e.id \in Ids /\ e.subject = s /\ e.object = o /\ StillTrue(e)
  BY RelatedTypes DEF ReadIsTrue, StillTrue, SameObject, Subject
<1>2. /\ said' \in [Subjects -> Objects \cup {Nothing, Unclear}] /\ QuietSaid
  BY <1>1, SayFacts, ReadOn DEF QuietSaid, Clear
<1>3. QuietJob
  BY DEF QuietJob, TypeOK
<1>4. CASE mem' = mem
  <2>1. TypeOK' /\ Numbered'
    BY <1>2, <1>4, FinishedFacts DEF TypeOK, Numbered, Pending
  <2>2. QuietMem
    BY <1>4 DEF QuietMem
  <2> QED
    BY <1>2, <1>3, <2>1, <2>2, QuietKeeps DEF Quiet
<1>5. CASE mem' = [mem EXCEPT ![e.id].subject = s, ![e.id].object = o]
  <2>1. /\ mem' \in [Ids -> Memory \cup {NoMemory}]
        /\ mem'[e.id] \in Memory /\ mem'[e.id] # NoMemory
        /\ mem'[e.id].subject = s /\ mem'[e.id].object = o
        /\ mem'[e.id].status = mem[e.id].status /\ mem'[e.id].valid = mem[e.id].valid
        /\ mem'[e.id].supersedes = mem[e.id].supersedes
        /\ \A n \in Ids \ {e.id} : mem'[n] = mem[n]
    BY <1>1, <1>5, Relabelled
  <2>2. TypeOK'
    BY <1>2, <2>1, FinishedFacts DEF TypeOK
  <2>3. Numbered'
    BY <1>1, <2>1, FinishedFacts DEF Numbered, Pending, TypeOK, Stored
  <2>4. QuietMem
    <3> SUFFICES ASSUME said'[mem[e.id].subject] # Unclear \/ said'[s] # Unclear
                 PROVE  mem'[e.id] = mem[e.id]
      BY <1>1, <2>1 DEF QuietMem, Stored
    <3>1. mem[e.id] \in Memory /\ mem[e.id].subject \in Subjects
      BY <1>1, StoredMemory DEF Memory
    <3>2. mem[e.id].subject = s /\ mem[e.id].object = o
      BY <1>1, <1>2, <3>1 DEF StillTrue, QuietSaid, Clear
    <3> QED
      BY <2>1, <3>1, <3>2 DEF Memory
  <2> QED
    BY <1>2, <1>3, <2>2, <2>3, <2>4, QuietKeeps DEF Quiet
<1> QED
  BY <1>1, <1>4, <1>5 DEF Confirm, Subject

\* If no rule applies to what a job has read, nothing of its subject is active.
LEMMA NoneDecisive ==
    ASSUME IInv, NEW t \in Ids, job[t].pc = "read", NEW similar, Decisive(t, similar) = {},
           Clear(Subject(t))
    PROVE  On(Subject(t)) = {}
<1> DEFINE c == job[t].candidate
           matching == {e \in job[t].related :
                          SameObject(c, e) \/ Contradicts(c, e) \/ e.id \in similar}
<1> USE DEF IInv
<1>1. PICK s \in Subjects : s = Subject(t) /\ c \in Candidates
  BY PendingTypes
<1>2. matching = {}
  <2>1. SUFFICES ASSUME matching # {} PROVE FALSE
    OBVIOUS
  <2>2. {e.id : e \in matching} \subseteq Ids /\ {e.id : e \in matching} # {}
    BY <2>1, RelatedTypes
  <2>3. PICK m \in {e.id : e \in matching} : \A n \in {e.id : e \in matching} : n <= m
    BY <2>2, GreatestId
  <2>4. PICK e \in matching : e.id = m
    OBVIOUS
  <2>5. \A f \in matching : f.id <= e.id
    BY <2>3, <2>4
  <2> QED
    BY <2>5 DEF Decisive
<1>3. SUFFICES ASSUME NEW m \in On(s) PROVE FALSE
  BY <1>1
<1>4. PICK e \in job[t].related : e.id = m /\ e.subject = s /\ e.object = said[s]
  BY <1>1, ReadOn
<1>5. e.object # c.object /\ ~c.explicit
  BY <1>1, <1>2, <1>4 DEF SameObject, Contradicts, Subject
<1>6. s \in Implied /\ c.object = FixedObject
  BY <1>1, <1>5, CandidateTypes DEF Subject
<1>7. e.object \in Objects /\ e.object \in {Nothing, FixedObject}
  BY <1>1, <1>4, <1>6, RelatedTypes DEF ImpliedObject
<1> QED
  BY <1>5, <1>6, <1>7, NothingAssumption

LEMMA ConsolidateKeeps == ASSUME IInv, NEW t \in Ids, Consolidate(t) PROVE IInv'
<1> DEFINE c == job[t].candidate
<1> USE DEF IInv
<1>1. /\ job[t].pc = "read" /\ job' = [job EXCEPT ![t] = Finished]
      /\ last' = last /\ edits' = edits
  BY DEF Consolidate
<1>2. PICK s \in Subjects, o \in Objects : s = Subject(t) /\ s = c.subject /\ o = c.object
  BY <1>1, PendingTypes, CandidateTypes DEF Subject
<1>3. t \in Pending /\ mem[t] = NoMemory /\ t \notin Stored
  BY <1>1, PendingTypes DEF Stored, Pending
<1>4. PICK similar \in SUBSET {e.id : e \in job[t].related} :
        \/ /\ Decisive(t, similar) = {}
           /\ mem' = [mem EXCEPT ![t] = NewMemory(c, NoId)] /\ said' = Say(s, o)
        \/ \E e \in Decisive(t, similar) :
             \/ /\ SameObject(c, e) /\ said' = Say(s, o)
                /\ \E rewritten \in BOOLEAN : Confirm(c, e, rewritten)
             \/ Contradicts(c, e) /\ said' = Say(s, o) /\ Supersede(t, e)
             \/ said' = Blur({s}) /\ mem' = mem
  BY <1>2 DEF Consolidate
<1>5. CASE /\ Decisive(t, similar) = {}
           /\ mem' = [mem EXCEPT ![t] = NewMemory(c, NoId)] /\ said' = Say(s, o)
  <2>1. /\ mem' \in [Ids -> Memory \cup {NoMemory}]
        /\ mem'[t] \in Memory /\ mem'[t].subject = s /\ mem'[t].object = o
        /\ mem'[t].valid = "always" /\ mem'[t].status = "active"
        /\ \A m \in Ids \ {t} : mem'[m] = mem[m]
    BY <1>2, <1>5, NewMemoryFacts DEF TypeOK
  <2>2. Clear(s) => On(s) = {}
    BY <1>1, <1>2, <1>5, NoneDecisive
  <2> HIDE DEF c
  <2> QED
    BY <1>1, <1>2, <1>5, <2>1, <2>2, CreationKeeps DEF c
<1>6. ASSUME NEW e \in Decisive(t, similar), SameObject(c, e), said' = Say(s, o),
             NEW rewritten \in BOOLEAN, Confirm(c, e, rewritten)
      PROVE  IInv'
  BY <1>1, <1>2, <1>6, ConfirmKeeps DEF Decisive
<1>7. ASSUME NEW e \in Decisive(t, similar), Contradicts(c, e), said' = Say(s, o),
             Supersede(t, e)
      PROVE  IInv'
  <2>1. e \in job[t].related /\ e.subject = s
    BY <1>2, <1>7 DEF Decisive, Contradicts
  <2>2. e.id \in Stored /\ e.id \in Ids /\ e.id # t /\ mem[e.id] \in Memory /\ StillTrue(e)
    BY <1>3, <2>1, StoredMemory DEF ReadIsTrue, StillTrue
  <2>3. /\ mem' \in [Ids -> Memory \cup {NoMemory}]
        /\ mem'[t] \in Memory /\ mem'[t].subject = s /\ mem'[t].object = o
        /\ mem'[t].valid = "always" /\ mem'[t].status = "active"
        /\ mem'[e.id] \in Memory /\ mem'[e.id].status = "superseded"
        /\ mem'[e.id].subject = mem[e.id].subject
        /\ mem'[e.id].object = mem[e.id].object /\ mem'[e.id].valid = mem[e.id].valid
        /\ \A m \in Ids \ {t} : m # e.id => mem'[m] = mem[m]
    <3> DEFINE new == NewMemory(c, e.id)
               old == [mem[e.id] EXCEPT !.status = "superseded"]
    <3>1. /\ new \in Memory /\ new.subject = s /\ new.object = o
          /\ new.valid = "always" /\ new.status = "active"
      BY <1>2, <2>2, NewMemoryFacts
    <3>2. /\ old \in Memory /\ old.status = "superseded"
          /\ old.subject = mem[e.id].subject /\ old.object = mem[e.id].object
          /\ old.valid = mem[e.id].valid
      BY <2>2 DEF Memory, Status
    <3>3. mem' = [mem EXCEPT ![e.id] = old, ![t] = new]
      BY <1>7 DEF Supersede
    <3> HIDE DEF new, old
    <3> QED
      BY <2>2, <3>1, <3>2, <3>3 DEF TypeOK
  <2>4. Clear(s) => On(s) \subseteq {e.id}
    BY <1>1, <1>2, <2>1, ReadOn, ZenonT(40) DEF OneMemory
  <2>5. Clear(mem[e.id].subject) => mem[e.id].subject = s
    BY <2>1, <2>2 DEF StillTrue
  <2>6. /\ {e.id} \in SUBSET Stored
        /\ \A m \in Ids \ {t} : m \notin {e.id} => mem'[m] = mem[m]
        /\ \A m \in {e.id} : /\ mem'[m] \in Memory /\ mem'[m].status = "superseded"
                             /\ mem'[m].subject = mem[m].subject
                             /\ mem'[m].object = mem[m].object
                             /\ mem'[m].valid = mem[m].valid
                             /\ Clear(mem[m].subject) => mem[m].subject = s
    BY <2>2, <2>3, <2>5
  <2> HIDE DEF c
  <2> QED
    BY <1>1, <1>2, <1>7, <2>3, <2>4, <2>6, CreationKeeps DEF c
<1>8. CASE said' = Blur({s}) /\ mem' = mem
  <2>1. TypeOK' /\ Numbered'
    BY <1>1, <1>8, BlurFacts, FinishedFacts DEF TypeOK, Numbered, Pending
  <2>2. Quiet
    BY <1>1, <1>8, BlurFacts DEF Quiet, QuietSaid, QuietMem, QuietJob, Clear, TypeOK
  <2> QED
    BY <2>1, <2>2, QuietKeeps
<1> QED
  BY <1>4, <1>5, <1>6, <1>7, <1>8

-----------------------------------------------------------------------------
(* The theorems.                                                           *)

LEMMA NextKeeps == ASSUME IInv, [Next]_vars PROVE IInv'
<1>1. CASE \E c \in Candidates : StartJob(c)
  BY <1>1, StartJobKeeps
<1>2. CASE \E t \in Ids : Process(t) \/ FailJob(t)
  BY <1>2, ReadRelatedKeeps, ConsolidateKeeps, FailJobKeeps DEF Process
<1>3. CASE \E s \in Subjects, o \in Objects : Create(s, o)
  BY <1>3, CreateKeeps
<1>4. CASE \E m \in Ids : Patch(m) \/ Delete(m) \/ Lapse(m)
  BY <1>4, PatchKeeps, DeleteKeeps, LapseKeeps
<1>5. CASE UNCHANGED vars
  <2>1. TypeOK' /\ Numbered'
    BY <1>5 DEF vars, IInv, TypeOK, Numbered, Pending
  <2>2. Quiet
    BY <1>5 DEF vars, Quiet, QuietSaid, QuietMem, QuietJob
  <2> QED
    BY <2>1, <2>2, QuietKeeps
<1> QED
  BY <1>1, <1>2, <1>3, <1>4, <1>5 DEF Next

LEMMA InvariantHolds == Spec => []IInv
<1> QED
  BY InitIInv, NextKeeps, PTL DEF Spec

\* After any history of statements, corrections, deletions and failures that came one at a
\* time, a chat recalls of a subject what was last said of it and nothing that contradicts
\* it (consolidate_candidate, supersede_memory, soft_delete_memory).
THEOREM LastStatementIsRecalled == Spec => []LastStatementRecalled
<1>1. IInv => LastStatementRecalled
  <2> SUFFICES ASSUME IInv, NEW s \in Subjects, said[s] # Unclear
               PROVE  {mem[m].object : m \in {n \in Recallable : mem[n].subject = s}}
                        = {said[s]} \ {Nothing}
    BY DEF LastStatementRecalled
  <2>1. {n \in Recallable : mem[n].subject = s} = On(s)
    BY DEF IInv, Recallable, On, Active, NeverLapses, Clear
  <2>2. \A m \in On(s) : mem[m].object = said[s] /\ mem[m].object \in Objects
    BY StoredMemory DEF IInv, OneMemory, Clear, On, Active, Memory
  <2>3. On(s) = {} => said[s] = Nothing
    BY DEF IInv, OneMemory, Clear
  <2> QED
    BY <2>1, <2>2, <2>3, NothingAssumption
<1> QED
  BY <1>1, InvariantHolds, PTL

\* What was deleted, replaced or expired becomes active again by a PATCH only: no job that
\* had read a memory before brings it back (find_active_related_records, update_memory).
THEOREM RevivedByPatchOnly == Spec => OnlyPatchRevives
<1>1. ASSUME IInv, [Next]_vars, NEW m \in Stored, mem[m].status # "active",
             mem'[m].status = "active"
      PROVE  Patch(m)
  <2>1. m \in Ids /\ mem[m] \in Memory /\ mem \in [Ids -> Memory \cup {NoMemory}]
    BY <1>1, StoredMemory DEF IInv, TypeOK
  <2>2. SUFFICES mem'[m].status = mem[m].status \/ mem'[m].status # "active" \/ Patch(m)
    BY <1>1
  <2>3. CASE \E c \in Candidates : StartJob(c)
    BY <2>3 DEF StartJob
  <2>4. ASSUME NEW t \in Ids, ReadRelated(t) \/ FailJob(t)
        PROVE  mem' = mem
    BY <2>4 DEF ReadRelated, FailJob
  <2>5. ASSUME NEW t \in Ids, Consolidate(t)
        PROVE  mem'[m].status = mem[m].status \/ mem'[m].status # "active"
    <3>1. m # t
      BY <1>1, <2>5, PendingTypes DEF IInv, Consolidate, Stored
    <3>2. CASE mem' = mem
      BY <3>2
    <3>3. CASE mem' = [mem EXCEPT ![t] = NewMemory(job[t].candidate, NoId)]
      BY <2>1, <3>1, <3>3
    <3>4. ASSUME NEW e \in job[t].related, Supersede(t, e)
          PROVE  mem'[m].status = mem[m].status \/ mem'[m].status # "active"
      <4>1. e.id \in Ids
        BY <1>1, RelatedTypes DEF IInv
      <4>2. mem'[m] = IF m = e.id THEN [mem[m] EXCEPT !.status = "superseded"] ELSE mem[m]
        BY <2>1, <3>1, <3>4, <4>1 DEF Supersede
      <4> QED
        BY <2>1, <4>2 DEF Memory
    <3>5. ASSUME NEW e \in job[t].related, NEW s \in Subjects, NEW o \in Objects,
                 mem' = [mem EXCEPT ![e.id].subject = s, ![e.id].object = o]
          PROVE  mem'[m].status = mem[m].status
      BY <1>1, <2>1, <3>5, Relabelled DEF IInv, ReadIsTrue, StillTrue
    <3>6. /\ job[t].candidate.subject \in Subjects /\ job[t].candidate.object \in Objects
          /\ \A similar : Decisive(t, similar) \subseteq job[t].related
      BY <1>1, <2>5, PendingTypes, CandidateTypes DEF IInv, Consolidate, Decisive
    <3> QED
      BY <2>5, <3>2, <3>3, <3>4, <3>5, <3>6 DEF Consolidate, Confirm
  <2>6. CASE \E s \in Subjects, o \in Objects : Create(s, o)
    <3>1. last + 1 \in Ids /\ last + 1 > last
      BY <1>1, <2>6, BoundsAssumption DEF IInv, TypeOK, Create, Ids
    <3>2. m # last + 1
      BY <1>1, <3>1 DEF IInv, Numbered, Stored
    <3> QED
      BY <2>1, <2>6, <3>2 DEF Create
  <2>7. ASSUME NEW n \in Ids, Delete(n) \/ Lapse(n) \/ (Patch(n) /\ n # m)
        PROVE  mem'[m].status = mem[m].status \/ mem'[m].status # "active"
    <3>1. CASE Delete(n)
      BY <2>1, <3>1 DEF Delete, SoftDelete, Memory
    <3>2. CASE Lapse(n)
      BY <2>1, <3>2 DEF Lapse, Memory
    <3>3. CASE Patch(n) /\ n # m
      BY <2>1, <3>3 DEF Patch
    <3> QED
      BY <2>7, <3>1, <3>2, <3>3
  <2> QED
    BY <1>1, <2>3, <2>4, <2>5, <2>6, <2>7 DEF Next, Process, vars
<1>2. IInv /\ [Next]_vars =>
        [\A m \in Stored : mem[m].status # "active" /\ mem'[m].status = "active" => Patch(m)]_vars
  BY <1>1
<1> QED
  BY <1>2, InvariantHolds, PTL DEF Spec, OnlyPatchRevives
====
