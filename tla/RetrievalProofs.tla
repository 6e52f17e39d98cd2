-------------------------- MODULE RetrievalProofs --------------------------
(***************************************************************************)
(* The library and the questions to it, for any number of items, profiles, *)
(* jobs, editions and index versions: what is searched of an item is what  *)
(* its status says and survives a failed attempt, a version that is used   *)
(* was built to the end by its own profile, and a query finds only what    *)
(* was visible, in its own vector space, and is refused only for a reason. *)
(***************************************************************************)
EXTENDS Retrieval, FiniteSetTheorems, WellFoundedInduction, TLAPS

-----------------------------------------------------------------------------
(* The inductive invariant of the library, in parts.                       *)

\* The editions that have been committed.
Past == {c \in Items \X Nat : c[2] \in 1 .. tries[c[1]]}

StoreInv ==
    /\ item \in [Items -> {"absent", "registered", "indexed", "index_failed"}]
    /\ tries \in [Items -> Nat] /\ active \in [Items -> Nat]
    /\ \A i \in Items : tries[i] > 0 => item[i] # "absent"
    /\ chunks \subseteq Past

SessionInv ==
    sessions \in [Items -> [phase : {"idle", "extract", "embed", "staged"},
                            ver : {Legacy} \cup Versions, by : Profiles \cup {Env},
                            import : BOOLEAN, text : BOOLEAN]]

\* The active edition of an indexed PDF is its last; a text has the chunks of one edition,
\* which is its last when it is indexed.
EditionInv ==
    /\ \A i \in Pdfs : item[i] = "indexed" => active[i] = tries[i]
    /\ \A i \in Texts :
        /\ active[i] = 0
        /\ \A m, n \in Nat : <<i, m>> \in chunks /\ <<i, n>> \in chunks => m = n
        /\ \A n \in Nat : item[i] = "indexed" /\ <<i, n>> \in chunks => n = tries[i]

JobInv ==
    /\ job \in [Jobs -> [op : {"none", "reindex", "activate", "delete"},
                         phase : {"none", "begun", "building", "flushed"},
                         on : Profiles \cup {Env}, ver : {Legacy} \cup Versions,
                         read : SUBSET (Items \X Nat), seen : SUBSET Versions,
                         was : SUBSET Profiles]]
    /\ \A j \in Jobs : /\ job[j].read \subseteq Past
                       /\ job[j].phase = "flushed" => job[j].op = "activate"

SpaceInv ==
    /\ made \in 0 .. MaxVersions
    /\ version \in [Versions -> [owner : Profiles \cup {Env},
                                 status : {"none", "pending", "ready", "active"}]]
    /\ built \in [Versions -> SUBSET Past]
    /\ \A v \in Versions : built[v] # {} => v <= made
    /\ runtime \in [profile : Profiles \cup {Env}, ver : {Legacy} \cup Versions]

\* Who a version is said to belong to: by its row, by the registry and by a job.
Claim(v, p) ==
    \/ v \in Versions /\ Exists(v) /\ version[v].owner = p
    \/ runtime # NoClient /\ runtime.ver = v /\ runtime.profile = p
    \/ \E j \in Jobs : job[j].op \in {"reindex", "activate"} /\ job[j].ver = v /\ job[j].on = p

\* They agree, although a version may be gone.
OwnerInv ==
    /\ \A v, p : Claim(v, p) => v \in 1 .. made /\ p \in Profiles \cup {Env}
    /\ \A v, p, q : Claim(v, p) /\ Claim(v, q) => p = q

\* What an activation has written still has its row.
RowsInv == \A j \in Jobs : job[j].phase = "flushed" => \A v \in Written(j) : Exists(v)

\* The registry's version is not pending, and every stored chunk that a version was built
\* from has its vector, whatever the version's status.
BuiltInv ==
    /\ runtime.ver # Legacy => version[runtime.ver].status # "pending"
    /\ \A v \in Versions : \A c \in built[v] \cap chunks :
         [chunk |-> c, ver |-> v, by |-> version[v].owner] \in vectors

LibraryInv ==
    /\ StoreInv /\ SessionInv /\ EditionInv
    /\ JobInv /\ SpaceInv /\ OwnerInv /\ RowsInv /\ BuiltInv

-----------------------------------------------------------------------------
(* The inductive invariant of a query.                                     *)

QueryType ==
    query \in [pc : {"idle", "asked", "resolved", "questioned", "read", "embedded", "dense",
                     "text", "pages", "found", "answered", "refused", "empty", "failed"},
               agent : BOOLEAN, scope : SUBSET Items,
               snap : [profile : EmbeddingProviders, ver : {Legacy} \cup Versions],
               processed : BOOLEAN, by : EmbeddingProviders, ver : {Legacy} \cup Versions,
               found : SUBSET (Items \X Nat), pages : SUBSET Items,
               seen : SUBSET (Items \X Nat), dry : SUBSET (Items \X ({Legacy} \cup Versions)),
               moved : BOOLEAN, mixed : BOOLEAN]

QueryInv ==
    /\ QueryType
    /\ Running =>
        /\ Selected(query.scope, VisibleChunks) \subseteq query.seen
        /\ \A iv \in Dry : iv[1] \in query.scope => iv \in query.dry
    /\ query.pages \subseteq InScope(query.scope)
    /\ FoundWasVisible

\* The client of a query, and that of the vector of its question.
ClientInv ==
    /\ query.snap # NoClient =>
        /\ query.snap.ver \in 1 .. made
        /\ \A p : Claim(query.snap.ver, p) => p = query.snap.profile
    /\ query.pc \in {"questioned", "embedded"} =>
        \/ query.by = Client.profile
        \/ query.moved /\ query.snap = NoClient
    /\ OwnSpace

\* An exact search found nothing because one of the items had nothing to be found.
EmptyInv ==
    /\ query.pc \in {"dense", "text", "pages", "found"} /\ Exact /\ query.found = {} =>
            \E i \in query.scope : <<i, query.ver>> \in query.dry
    /\ RefusalIsTrue

RetrievalInv == LibraryInv /\ QueryInv /\ ClientInv /\ EmptyInv
-----------------------------------------------------------------------------
(* Lemmas.                                                                 *)

\* Every nonempty set of versions has a latest one.
LEMMA LatestVersion ==
    ASSUME NEW V, V \subseteq Versions, V # {}
    PROVE  Latest(V) \in V
<1> DEFINE R == OpToRel(<, Nat)
           T == {MaxVersions - m : m \in V}
<1>0. \A m \in V : m \in Nat /\ MaxVersions - m \in Nat
  BY ConstantsAssumption DEF Versions
<1>1. T \subseteq Nat /\ T # {}
  <2>1. T \subseteq Nat
    BY <1>0
  <2>2. PICK m \in V : TRUE
    OBVIOUS
  <2>3. MaxVersions - m \in T
    OBVIOUS
  <2> QED
    BY <2>1, <2>3
<1>2. PICK d \in T : \A c \in T : ~(<<c, d>> \in R)
  <2> HIDE DEF R, T
  <2> QED
    BY <1>1, NatLessThanWellFounded, WFMin DEF R
<1>3. \A c \in T : ~(c < d)
  BY <1>1, <1>2 DEF OpToRel
<1>4. PICK m \in V : d = MaxVersions - m
  OBVIOUS
<1>5. ASSUME NEW n \in V PROVE m >= n
  <2>1. ~(MaxVersions - n < MaxVersions - m)
    BY <1>3, <1>4
  <2> QED
    BY <2>1, <1>0, ConstantsAssumption
<1> QED
  BY <1>5 DEF Latest, Max

\* What was committed stays so.
LEMMA PastGrows ==
    ASSUME tries \in [Items -> Nat], tries' \in [Items -> Nat],
           \A i \in Items : tries[i] <= tries'[i]
    PROVE  Past \subseteq Past'
<1> SUFFICES ASSUME NEW c \in Items \X Nat, c[2] \in 1 .. tries[c[1]]
             PROVE  c[2] \in 1 .. tries'[c[1]]
  BY DEF Past
<1>1. c[1] \in Items /\ c[2] \in Nat
  OBVIOUS
<1>2. tries[c[1]] \in Nat /\ tries'[c[1]] \in Nat /\ tries[c[1]] <= tries'[c[1]]
  BY <1>1
<1> QED
  BY <1>1, <1>2

\* The next edition of an item is a new one.
LEMMA NextEdition ==
    ASSUME tries \in [Items -> Nat], NEW i \in Items
    PROVE  /\ Edition(i) = <<i, tries[i] + 1>> /\ tries[i] + 1 \in Nat
           /\ Edition(i) \in Items \X Nat /\ Edition(i) \notin Past
<1>1. tries[i] \in Nat
  OBVIOUS
<1>2. Edition(i) = <<i, tries[i] + 1>> /\ tries[i] + 1 \in Nat
  BY <1>1 DEF Edition
<1>3. ~(tries[i] + 1 \in 1 .. tries[i])
  BY <1>1
<1> QED
  BY <1>2, <1>3 DEF Past

\* Nobody claims a number given out before but who did.
ClaimsStay ==
    /\ made \in Nat /\ made' \in Nat /\ made <= made'
    /\ \A v, p : Claim(v, p)' => Claim(v, p) \/ v = made + 1

-----------------------------------------------------------------------------
(* The library's steps preserve its invariant: first the steps of a        *)
(* request to index an item.                                               *)

\* A step that only reads, or only says what became of an item.
LEMMA ItemStep ==
    ASSUME LibraryInv, SessionInv',
           UNCHANGED <<tries, active, chunks, vectors, spaces, runtime, job>>,
           item' \in [Items -> {"absent", "registered", "indexed", "index_failed"}],
           \A i \in Items : item'[i] # item[i] => item'[i] \in {"registered", "index_failed"}
    PROVE  LibraryInv' /\ ClaimsStay
<1>1. StoreInv'
  <2>1. Past' = Past
    BY DEF Past
  <2>2. \A i \in Items : tries[i] > 0 => item'[i] # "absent"
    BY DEF LibraryInv, StoreInv
  <2> QED
    BY <2>1, <2>2 DEF LibraryInv, StoreInv
<1>2. EditionInv'
  <2>1. \A i \in Items : item'[i] = "indexed" => item[i] = "indexed"
    OBVIOUS
  <2> QED
    BY <2>1 DEF LibraryInv, EditionInv, Items
<1>3. JobInv'
  BY DEF LibraryInv, JobInv, Past
<1>4. SpaceInv'
  BY DEF LibraryInv, SpaceInv, Past, spaces
<1>5. OwnerInv' /\ ClaimsStay
  BY DEF LibraryInv, SpaceInv, OwnerInv, ClaimsStay, Claim, Exists, spaces
<1>6. RowsInv'
  BY DEF LibraryInv, RowsInv, Written, Exists, spaces
<1>7. BuiltInv'
  BY DEF LibraryInv, BuiltInv, spaces
<1> QED
  BY <1>1, <1>2, <1>3, <1>4, <1>5, <1>6, <1>7 DEF LibraryInv

\* The request goes on to another phase, or there is none any more.
LEMMA SessionStep ==
    ASSUME LibraryInv, SessionInv', UNCHANGED <<library, vectors, spaces, runtime, job>>
    PROVE  LibraryInv' /\ ClaimsStay
<1>1. UNCHANGED <<item, tries, active, chunks, vectors, spaces, runtime, job>>
  BY DEF library
<1> QED
  BY <1>1, ItemStep DEF LibraryInv, StoreInv

LEMMA IdleTypes ==
    Idle \in [phase : {"idle", "extract", "embed", "staged"},
              ver : {Legacy} \cup Versions, by : Profiles \cup {Env},
              import : BOOLEAN, text : BOOLEAN]
  BY DEF Idle

\* Nothing is resolved but the stored vectors' column and the versions.
LEMMA ResolvedVersions ==
    ASSUME NEW c \in [profile : Profiles \cup {Env}, ver : {Legacy} \cup Versions]
    PROVE  ResolvedBy(c) \subseteq {Legacy} \cup Versions
  BY DEF ResolvedBy, EnvVersions

LEMMA BeginKeeps ==
    ASSUME LibraryInv, NEW i \in Items, NEW import \in BOOLEAN, Begin(i, import)
    PROVE  LibraryInv' /\ ClaimsStay
<1>1. PICK v \in Resolve :
        sessions' = [sessions EXCEPT ![i] = [phase |-> "extract", ver |-> v, by |-> Env,
                                             import |-> import, text |-> TRUE]]
  BY DEF Begin
<1>2. v \in {Legacy} \cup Versions
  BY ResolvedVersions DEF Resolve, LibraryInv, SpaceInv
<1>3. SessionInv'
  BY <1>1, <1>2 DEF LibraryInv, SessionInv
<1> QED
  BY <1>3, SessionStep DEF Begin

LEMMA ExtractKeeps ==
    ASSUME LibraryInv, NEW i \in Items, Extract(i)
    PROVE  LibraryInv' /\ ClaimsStay
<1>1. \E text \in BOOLEAN :
        sessions' = [sessions EXCEPT ![i].phase = "embed", ![i].by = runtime.profile,
                                     ![i].text = text]
  <2>1. PICK outcome \in Outcomes \ {"failed"} :
          sessions' = [sessions EXCEPT ![i].phase = "embed", ![i].by = runtime.profile,
                                       ![i].text = (outcome = "text")]
    BY DEF Extract
  <2> QED
    BY <2>1, Zenon
<1>2. runtime.profile \in Profiles \cup {Env}
  BY DEF LibraryInv, SpaceInv
<1>3. PICK text \in BOOLEAN :
        sessions' = [sessions EXCEPT ![i].phase = "embed", ![i].by = runtime.profile,
                                     ![i].text = text]
  BY <1>1
<1>4. SessionInv'
  <2>1. ASSUME NEW s \in [phase : {"idle", "extract", "embed", "staged"},
                          ver : {Legacy} \cup Versions, by : Profiles \cup {Env},
                          import : BOOLEAN, text : BOOLEAN],
               NEW p \in Profiles \cup {Env}
        PROVE  [s EXCEPT !.phase = "embed", !.by = p, !.text = text]
                 \in [phase : {"idle", "extract", "embed", "staged"},
                      ver : {Legacy} \cup Versions, by : Profiles \cup {Env},
                      import : BOOLEAN, text : BOOLEAN]
    OBVIOUS
  <2>2. sessions' = [sessions EXCEPT ![i] = [sessions[i] EXCEPT
                       !.phase = "embed", !.by = runtime.profile, !.text = text]]
    BY <1>3
  <2> QED
    BY <1>2, <2>1, <2>2, Zenon DEF LibraryInv, SessionInv
<1> QED
  BY <1>4, SessionStep DEF Extract

LEMMA StageKeeps ==
    ASSUME LibraryInv, NEW i \in Items, Stage(i)
    PROVE  LibraryInv' /\ ClaimsStay
<1>1. SessionInv'
  BY DEF Stage, LibraryInv, SessionInv
<1> QED
  BY <1>1, SessionStep DEF Stage

LEMMA AbortKeeps ==
    ASSUME LibraryInv, NEW i \in Items, Abort(i)
    PROVE  LibraryInv' /\ ClaimsStay
<1>1. SessionInv'
  BY IdleTypes DEF Abort, LibraryInv, SessionInv
<1> QED
  BY <1>1, SessionStep DEF Abort

LEMMA ItemStatusKeeps ==
    ASSUME LibraryInv, NEW i \in Items, CreateItem(i) \/ Refuse(i)
    PROVE  LibraryInv' /\ ClaimsStay
<1>1. PICK s \in {"registered", "index_failed"} : item' = [item EXCEPT ![i] = s]
  BY DEF CreateItem, Refuse
<1>2. UNCHANGED <<tries, active, chunks, vectors, spaces, runtime, sessions, job>>
  BY DEF CreateItem, Refuse
<1>3. item' \in [Items -> {"absent", "registered", "indexed", "index_failed"}]
  BY <1>1 DEF LibraryInv, StoreInv
<1>4. \A k \in Items : item'[k] # item[k] => item'[k] \in {"registered", "index_failed"}
  BY <1>1 DEF LibraryInv, StoreInv
<1>5. SessionInv'
  BY <1>2 DEF LibraryInv, SessionInv
<1> QED
  BY <1>2, <1>3, <1>4, <1>5, ItemStep

\* What a version was built from keeps its vectors, if only chunks go whose vectors may,
\* and only new editions come.
LEMMA BuiltStays ==
    ASSUME LibraryInv, UNCHANGED <<spaces, runtime>>,
           NEW gone, NEW new,
           chunks' = (chunks \ gone) \cup new, new \cap Past = {},
           \A x \in vectors : x \in vectors' \/ x.chunk \in gone
    PROVE  BuiltInv'
<1>1. \A v \in Versions : built[v] \subseteq Past
  BY DEF LibraryInv, SpaceInv
<1>2. ASSUME NEW v \in Versions, NEW c \in built[v] \cap chunks'
      PROVE  [chunk |-> c, ver |-> v, by |-> version[v].owner] \in vectors'
  <2>1. c \in chunks /\ c \notin gone
    BY <1>1
  <2>2. [chunk |-> c, ver |-> v, by |-> version[v].owner] \in vectors
    BY <2>1 DEF LibraryInv, BuiltInv
  <2> QED
    BY <2>1, <2>2
<1> QED
  BY <1>2 DEF LibraryInv, BuiltInv, spaces

\* After an attempt the next editions are others, and all else is as it was.
LEMMA AttemptStep ==
    ASSUME LibraryInv, UNCHANGED <<spaces, runtime, job>>,
           tries' \in [Items -> Nat], \A i \in Items : tries[i] <= tries'[i]
    PROVE  JobInv' /\ SpaceInv' /\ OwnerInv' /\ RowsInv' /\ ClaimsStay
<1>1. Past \subseteq Past'
  BY PastGrows DEF LibraryInv, StoreInv
<1>2. JobInv'
  <2>1. \A j \in Jobs : job[j].read \subseteq Past'
    BY <1>1 DEF LibraryInv, JobInv
  <2> QED
    BY <2>1 DEF LibraryInv, JobInv
<1>3. SpaceInv'
  <2>1. built \in [Versions -> SUBSET Past']
    BY <1>1 DEF LibraryInv, SpaceInv
  <2> QED
    BY <2>1 DEF LibraryInv, SpaceInv, spaces
<1>4. OwnerInv' /\ ClaimsStay
  BY DEF LibraryInv, SpaceInv, OwnerInv, ClaimsStay, Claim, Exists, spaces
<1>5. RowsInv'
  BY DEF LibraryInv, RowsInv, Written, Exists, spaces
<1> QED
  BY <1>2, <1>3, <1>4, <1>5

\* What a successful attempt stores is new.
LEMMA NewEditions ==
    ASSUME LibraryInv, NEW S, S \subseteq Items
    PROVE  /\ Chunked(S) \cap Past = {}
           /\ \A c \in Chunked(S) : c[1] \in S /\ c[2] = tries[c[1]] + 1
                                    /\ c = Edition(c[1]) /\ sessions[c[1]].text
<1> SUFFICES ASSUME NEW c \in Chunked(S)
             PROVE  c \notin Past /\ c[1] \in S /\ c[2] = tries[c[1]] + 1
                    /\ c = Edition(c[1]) /\ sessions[c[1]].text
  OBVIOUS
<1>1. PICK i \in S : sessions[i].text /\ c = Edition(i)
  BY DEF Chunked
<1> QED
  BY <1>1, NextEdition DEF LibraryInv, StoreInv, Edition

LEMMA SucceedKeeps ==
    ASSUME LibraryInv, NEW S, S \subseteq Items, Succeed(S)
    PROVE  LibraryInv' /\ ClaimsStay
<1>1. tries' \in [Items -> Nat] /\ \A i \in Items : tries[i] <= tries'[i]
  BY DEF Succeed, LibraryInv, StoreInv
<1>2. JobInv' /\ SpaceInv' /\ OwnerInv' /\ RowsInv' /\ ClaimsStay
  BY <1>1, AttemptStep DEF Succeed
<1>3. chunks' = (chunks \ Old(S)) \cup Chunked(S)
  BY DEF Succeed
<1>4. Past \subseteq Past'
  BY <1>1, PastGrows DEF LibraryInv, StoreInv
<1>5. StoreInv'
  <2>1. item' \in [Items -> {"absent", "registered", "indexed", "index_failed"}]
    BY DEF Succeed, LibraryInv, StoreInv
  <2>2. active' \in [Items -> Nat]
    BY DEF Succeed, LibraryInv, StoreInv
  <2>3. \A i \in Items : tries'[i] > 0 => item'[i] # "absent"
    BY DEF Succeed, LibraryInv, StoreInv
  <2>4. ASSUME NEW c \in Chunked(S) PROVE c \in Past'
    <3>1. c[1] \in S /\ c = <<c[1], tries[c[1]] + 1>>
      BY NewEditions DEF Edition
    <3>2. tries'[c[1]] = tries[c[1]] + 1 /\ tries[c[1]] \in Nat
      BY <3>1 DEF Succeed, LibraryInv, StoreInv
    <3> QED
      BY <3>1, <3>2 DEF Past
  <2>5. chunks' \subseteq Past'
    BY <1>3, <1>4, <2>4 DEF LibraryInv, StoreInv
  <2> QED
    BY <1>1, <2>1, <2>2, <2>3, <2>5 DEF StoreInv
<1>6. SessionInv'
  BY IdleTypes DEF Succeed, LibraryInv, SessionInv
<1>7. EditionInv'
  <2>1. ASSUME NEW i \in Pdfs, item'[i] = "indexed" PROVE active'[i] = tries'[i]
    BY <2>1 DEF Succeed, LibraryInv, EditionInv, Items
  <2>2. ASSUME NEW i \in Texts PROVE active'[i] = 0
    BY ConstantsAssumption DEF Succeed, LibraryInv, EditionInv, Items
  <2>3. ASSUME NEW i \in Texts, i \in S, NEW n \in Nat, <<i, n>> \in chunks'
        PROVE  n = tries'[i]
    <3>1. <<i, n>> \notin chunks \ Old(S)
      BY <2>3 DEF Old
    <3>2. <<i, n>> \in Chunked(S)
      BY <1>3, <2>3, <3>1
    <3>3. n = tries[i] + 1
      BY <3>2, NewEditions
    <3> QED
      BY <2>3, <3>3 DEF Succeed, Items
  <2>4. ASSUME NEW i \in Texts, i \notin S, NEW n \in Nat, <<i, n>> \in chunks'
        PROVE  <<i, n>> \in chunks /\ item'[i] = item[i] /\ tries'[i] = tries[i]
    <3>1. <<i, n>> \notin Chunked(S)
      BY <2>4, NewEditions
    <3> QED
      BY <1>3, <2>4, <3>1 DEF Succeed, Items
  <2>5. ASSUME NEW i \in Texts, NEW m \in Nat, NEW n \in Nat,
               <<i, m>> \in chunks', <<i, n>> \in chunks'
        PROVE  m = n
    BY <2>3, <2>4, <2>5 DEF LibraryInv, EditionInv
  <2>6. ASSUME NEW i \in Texts, NEW n \in Nat, item'[i] = "indexed", <<i, n>> \in chunks'
        PROVE  n = tries'[i]
    BY <2>3, <2>4, <2>6 DEF LibraryInv, EditionInv
  <2> QED
    BY <2>1, <2>2, <2>5, <2>6 DEF EditionInv
<1>8. BuiltInv'
  <2>1. Chunked(S) \cap Past = {}
    BY NewEditions
  <2>2. \A x \in vectors : x \in vectors' \/ x.chunk \in Old(S)
    BY DEF Succeed, Of
  <2> QED
    BY <1>3, <2>1, <2>2, BuiltStays DEF Succeed
<1> QED
  BY <1>2, <1>5, <1>6, <1>7, <1>8 DEF LibraryInv

\* A failed attempt that is committed: of a text nothing stays, or its new edition only.
LEMMA CommitFailureKeeps ==
    ASSUME LibraryInv, NEW i \in Items, NEW kept, NEW stored, CommitFailure(i, kept, stored),
           stored \subseteq {Edition(i)},
           i \in Texts => kept = {}
    PROVE  LibraryInv' /\ ClaimsStay
<1>1. tries' \in [Items -> Nat] /\ \A k \in Items : tries[k] <= tries'[k]
  BY DEF CommitFailure, LibraryInv, StoreInv
<1>2. JobInv' /\ SpaceInv' /\ OwnerInv' /\ RowsInv' /\ ClaimsStay
  BY <1>1, AttemptStep DEF CommitFailure
<1> DEFINE gone == {c \in chunks \cup {x.chunk : x \in vectors} : c[1] = i /\ c \notin kept}
<1>3. chunks' = (chunks \ gone) \cup stored
  BY DEF CommitFailure
<1>4. Past \subseteq Past'
  BY <1>1, PastGrows DEF LibraryInv, StoreInv
<1>5. StoreInv'
  <2>1. item' \in [Items -> {"absent", "registered", "indexed", "index_failed"}]
    BY DEF CommitFailure, LibraryInv, StoreInv
  <2>2. \A k \in Items : tries'[k] > 0 => item'[k] # "absent"
    BY DEF CommitFailure, LibraryInv, StoreInv
  <2>3. Edition(i) \in Past'
    <3>1. tries'[i] = tries[i] + 1 /\ tries[i] \in Nat
      BY DEF CommitFailure, LibraryInv, StoreInv
    <3> QED
      BY <3>1 DEF Past, Edition
  <2>4. chunks' \subseteq Past'
    BY <1>3, <1>4, <2>3 DEF LibraryInv, StoreInv
  <2> QED
    BY <1>1, <2>1, <2>2, <2>4 DEF StoreInv, CommitFailure, LibraryInv
<1>6. SessionInv'
  BY IdleTypes DEF CommitFailure, LibraryInv, SessionInv
<1>7. EditionInv'
  <2>1. \A k \in Items : item'[k] = "indexed" => item[k] = "indexed" /\ tries'[k] = tries[k]
    BY DEF CommitFailure, LibraryInv, StoreInv
  <2>2. active' = active
    BY DEF CommitFailure
  <2>3. ASSUME NEW k \in Texts, k # i, NEW n \in Nat, <<k, n>> \in chunks'
        PROVE  <<k, n>> \in chunks
    BY <1>3, <2>3 DEF Edition
  <2>4. ASSUME i \in Texts, NEW n \in Nat, <<i, n>> \in chunks'
        PROVE  n = tries[i] + 1 /\ item'[i] # "indexed"
    <3>1. <<i, n>> \in stored
      BY <1>3, <2>4
    <3> QED
      BY <3>1 DEF Edition, CommitFailure, LibraryInv, StoreInv
  <2>5. ASSUME NEW k \in Texts, NEW m \in Nat, NEW n \in Nat,
               <<k, m>> \in chunks', <<k, n>> \in chunks'
        PROVE  m = n
    BY <2>3, <2>4, <2>5 DEF LibraryInv, EditionInv
  <2>6. ASSUME NEW k \in Texts, NEW n \in Nat, item'[k] = "indexed", <<k, n>> \in chunks'
        PROVE  n = tries'[k]
    BY <2>1, <2>3, <2>4, <2>6 DEF LibraryInv, EditionInv, Items
  <2> QED
    BY <2>1, <2>2, <2>5, <2>6 DEF LibraryInv, EditionInv, Items
<1>8. BuiltInv'
  <2>1. stored \cap Past = {}
    BY NextEdition DEF LibraryInv, StoreInv
  <2>2. \A x \in vectors : x \in vectors' \/ x.chunk \in gone
    <3>1. vectors' = {x \in vectors : x.chunk[1] = i => x.chunk \in kept}
      BY DEF CommitFailure
    <3> QED
      BY <3>1
  <2> QED
    BY <1>3, <2>1, <2>2, BuiltStays DEF CommitFailure
<1> QED
  BY <1>2, <1>5, <1>6, <1>7, <1>8 DEF LibraryInv

LEMMA FailuresKeep ==
    ASSUME LibraryInv, NEW i \in Items,
           ExtractionFails(i) \/ EmbeddingFails(i) \/ VersionGone(i)
    PROVE  LibraryInv' /\ ClaimsStay
<1>1. CASE ExtractionFails(i)
  <2>1. i \notin Texts /\ CommitFailure(i, Mine(i), {})
    BY <1>1, ConstantsAssumption DEF ExtractionFails
  <2> QED
    BY <2>1, CommitFailureKeeps
<1>2. CASE EmbeddingFails(i)
  <2>1. CommitFailure(i, IF i \in Texts THEN {} ELSE Mine(i), {})
    BY <1>2 DEF EmbeddingFails
  <2> QED
    BY <2>1, CommitFailureKeeps
<1>3. CASE VersionGone(i)
  <2>1. CommitFailure(i, {}, Chunked({i}))
    BY <1>3 DEF VersionGone
  <2>2. Chunked({i}) \subseteq {Edition(i)}
    BY DEF Chunked
  <2> QED
    BY <2>1, <2>2, CommitFailureKeeps
<1> QED
  BY <1>1, <1>2, <1>3

LEMMA IndexKeeps ==
    ASSUME LibraryInv, NEW i \in Items, Index(i)
    PROVE  LibraryInv' /\ ClaimsStay
<1>1. CASE CreateItem(i) \/ Refuse(i)
  BY <1>1, ItemStatusKeeps
<1>2. CASE IndexItem(i) \/ ImportPdf(i)
  BY <1>2, BeginKeeps DEF IndexItem, ImportPdf
<1>3. CASE Extract(i)
  BY <1>3, ExtractKeeps
<1>4. CASE ExtractionFails(i) \/ EmbeddingFails(i) \/ VersionGone(i)
  BY <1>4, FailuresKeep
<1>5. CASE Store(i)
  BY <1>5, SucceedKeeps DEF Store
<1>6. CASE Stage(i)
  BY <1>6, StageKeeps
<1>7. CASE Abort(i)
  BY <1>7, AbortKeeps
<1> QED
  BY <1>1, <1>2, <1>3, <1>4, <1>5, <1>6, <1>7 DEF Index

LEMMA ImportKeeps ==
    ASSUME LibraryInv, CommitImport
    PROVE  LibraryInv' /\ ClaimsStay
<1>1. Imported \subseteq Items
  BY DEF Imported, Items
<1> QED
  BY <1>1, SucceedKeeps DEF CommitImport

-----------------------------------------------------------------------------
(* The steps of the embedding profiles.                                    *)

\* They leave the items and their editions alone.
LEMMA SpaceStep ==
    ASSUME LibraryInv, UNCHANGED <<item, tries, active, chunks, sessions>>
    PROVE  StoreInv' /\ SessionInv' /\ EditionInv' /\ Past' = Past
  BY DEF LibraryInv, StoreInv, SessionInv, EditionInv, Past

\* A job's record, given back or with another phase, is a record of a job.
LEMMA NoJobTypes ==
    ASSUME LibraryInv
    PROVE  /\ NoJob \in [op : {"none", "reindex", "activate", "delete"},
                         phase : {"none", "begun", "building", "flushed"},
                         on : Profiles \cup {Env}, ver : {Legacy} \cup Versions,
                         read : SUBSET (Items \X Nat), seen : SUBSET Versions,
                         was : SUBSET Profiles]
           /\ NoJob.op = "none" /\ NoJob.phase = "none" /\ NoJob.read = {}
  BY DEF NoJob

LEMMA GiveJobs ==
    ASSUME LibraryInv, NEW j \in Jobs, Give(j), tries' = tries
    PROVE  /\ JobInv'
           /\ \A k \in Jobs : job'[k] = job[k] \/ (job'[k].op = "none" /\ job'[k].phase = "none")
<1>1. job' = [job EXCEPT ![j] = NoJob]
  BY DEF Give
<1>2. \A k \in Jobs : job'[k] = job[k] \/ job'[k] = NoJob
  BY <1>1 DEF LibraryInv, JobInv
<1>3. Past' = Past
  BY DEF Past
<1>4. JobInv'
  <2>1. job' \in [Jobs -> [op : {"none", "reindex", "activate", "delete"},
                           phase : {"none", "begun", "building", "flushed"},
                           on : Profiles \cup {Env}, ver : {Legacy} \cup Versions,
                           read : SUBSET (Items \X Nat), seen : SUBSET Versions,
                           was : SUBSET Profiles]]
    BY <1>1, NoJobTypes DEF LibraryInv, JobInv
  <2>2. ASSUME NEW k \in Jobs
        PROVE  job'[k].read \subseteq Past /\ (job'[k].phase = "flushed" => job'[k].op = "activate")
    BY <1>2, NoJobTypes DEF LibraryInv, JobInv
  <2> QED
    BY <1>3, <2>1, <2>2 DEF JobInv
<1>5. \A k \in Jobs : job'[k] = job[k] \/ (job'[k].op = "none" /\ job'[k].phase = "none")
  <2> SUFFICES ASSUME NEW k \in Jobs
               PROVE  job'[k] = job[k] \/ (job'[k].op = "none" /\ job'[k].phase = "none")
    OBVIOUS
  <2>1. CASE job'[k] = NoJob
    BY <2>1, NoJobTypes, Zenon
  <2> QED
    BY <1>2, <2>1, Zenon
<1> QED
  BY <1>4, <1>5

LEMMA TakeJobs ==
    ASSUME LibraryInv, tries' = tries, NEW j \in Jobs,
           NEW op \in {"reindex", "activate", "delete"},
           NEW p \in Profiles, NEW v \in {Legacy} \cup Versions,
           NEW read, read \subseteq Past, NEW seen, seen \subseteq Versions,
           NEW was, was \subseteq Profiles,
           Take(j, op, p, v, read, seen, was)
    PROVE  /\ JobInv'
           /\ \A k \in Jobs \ {j} : job'[k] = job[k]
           /\ job'[j].op = op /\ job'[j].phase = "begun" /\ job'[j].on = p /\ job'[j].ver = v
<1> DEFINE r == [op |-> op, phase |-> "begun", on |-> p, ver |-> v,
                 read |-> read, seen |-> seen, was |-> was]
<1>1. job' = [job EXCEPT ![j] = r]
  BY DEF Take
<1>2. r \in [op : {"none", "reindex", "activate", "delete"},
             phase : {"none", "begun", "building", "flushed"},
             on : Profiles \cup {Env}, ver : {Legacy} \cup Versions,
             read : SUBSET (Items \X Nat), seen : SUBSET Versions,
             was : SUBSET Profiles]
  BY DEF Past
<1>3. r.op = op /\ r.phase = "begun" /\ r.on = p /\ r.ver = v /\ r.read = read
  OBVIOUS
<1>4. Past' = Past
  BY DEF Past
<1> HIDE DEF r
<1>5. job'[j] = r /\ \A k \in Jobs \ {j} : job'[k] = job[k]
  BY <1>1 DEF LibraryInv, JobInv
<1>6. JobInv'
  <2>1. job' \in [Jobs -> [op : {"none", "reindex", "activate", "delete"},
                           phase : {"none", "begun", "building", "flushed"},
                           on : Profiles \cup {Env}, ver : {Legacy} \cup Versions,
                           read : SUBSET (Items \X Nat), seen : SUBSET Versions,
                           was : SUBSET Profiles]]
    BY <1>1, <1>2 DEF LibraryInv, JobInv
  <2>2. ASSUME NEW k \in Jobs
        PROVE  job'[k].read \subseteq Past /\ (job'[k].phase = "flushed" => job'[k].op = "activate")
    BY <1>3, <1>5 DEF LibraryInv, JobInv
  <2> QED
    BY <1>4, <2>1, <2>2 DEF JobInv
<1> QED
  BY <1>3, <1>5, <1>6

\* A number of a version that is given out.
LEMMA GivenVersion ==
    ASSUME LibraryInv, made < MaxVersions
    PROVE  made + 1 \in Versions /\ made + 1 \in 1 .. MaxVersions /\ made \in Nat
           /\ made + 1 \notin 1 .. made
  BY ConstantsAssumption DEF LibraryInv, SpaceInv, Versions

\* No claim is made but to a number not yet given out, so the claims agree as before.
LEMMA ClaimsAgree ==
    ASSUME LibraryInv, made' \in Nat, made <= made', NEW u, NEW q \in Profiles \cup {Env},
           u = made + 1 \/ Claim(u, q), u = made + 1 => made' = made + 1,
           \A v, p : Claim(v, p)' => Claim(v, p) \/ (v = u /\ p = q)
    PROVE  OwnerInv' /\ ClaimsStay
<1>0. made \in Nat
  BY DEF LibraryInv, SpaceInv
<1>1. u \in 1 .. made'
  BY <1>0 DEF LibraryInv, OwnerInv
<1>2. ASSUME NEW v, NEW p, Claim(v, p)' PROVE v \in 1 .. made' /\ p \in Profiles \cup {Env}
  BY <1>0, <1>1, <1>2 DEF LibraryInv, OwnerInv
<1>3. ASSUME NEW v, NEW p, NEW r, Claim(v, p)', Claim(v, r)' PROVE p = r
  <2>1. CASE v = u /\ u = made + 1
    <3>1. ~Claim(v, p) /\ ~Claim(v, r)
      BY <1>0, <2>1 DEF LibraryInv, OwnerInv
    <3> QED
      BY <1>3, <3>1
  <2>2. CASE v = u /\ Claim(u, q)
    BY <1>3, <2>2 DEF LibraryInv, OwnerInv
  <2>3. CASE v # u
    BY <1>3, <2>3 DEF LibraryInv, OwnerInv
  <2> QED
    BY <2>1, <2>2, <2>3
<1>4. ClaimsStay
  BY <1>0 DEF ClaimsStay
<1> QED
  BY <1>2, <1>3, <1>4 DEF OwnerInv

LEMMA FewerClaims ==
    ASSUME LibraryInv, made' = made, \A v, p : Claim(v, p)' => Claim(v, p)
    PROVE  OwnerInv' /\ ClaimsStay
  BY DEF LibraryInv, SpaceInv, OwnerInv, ClaimsStay

\* The rows that a job under way has written are there, unless a step takes rows away.
LEMMA RowsStay ==
    ASSUME LibraryInv, \A v \in Versions : Exists(v) => Exists(v)',
           \A k \in Jobs : job'[k] = job[k] \/ job'[k].phase # "flushed"
    PROVE  RowsInv'
<1> SUFFICES ASSUME NEW j \in Jobs, job'[j].phase = "flushed", NEW v \in Written(j)'
             PROVE  Exists(v)'
  BY DEF RowsInv
<1>1. job'[j] = job[j]
  OBVIOUS
<1>2. v \in Written(j) /\ Exists(v)
  BY <1>1 DEF LibraryInv, RowsInv, Written
<1>3. v \in Versions
  <2>1. job[j].phase = "flushed" /\ job[j].seen \subseteq Versions
        /\ job[j].ver \in {Legacy} \cup Versions /\ job[j].op = "activate"
    BY <1>1 DEF LibraryInv, JobInv
  <2>2. job[j].ver \in Versions
    <3>1. job[j].ver \in Versions \cup {Legacy}
      BY <2>1
    <3>2. Claim(job[j].ver, job[j].on)
      BY <2>1 DEF Claim
    <3>3. job[j].ver \in 1 .. made
      BY <3>2 DEF LibraryInv, OwnerInv
    <3> QED
      BY <3>1, <3>3 DEF Legacy, LibraryInv, SpaceInv
  <2> QED
    BY <1>2, <2>1, <2>2 DEF Written
<1> QED
  BY <1>2, <1>3

LEMMA CreateProfileKeeps ==
    ASSUME LibraryInv, NEW p \in Profiles, CreateProfile(p)
    PROVE  LibraryInv' /\ ClaimsStay
<1> DEFINE new == made + 1
<1>0. /\ UNCHANGED <<item, tries, active, chunks, sessions, built, runtime, job, vectors>>
      /\ made' = new /\ made < MaxVersions
      /\ version' = [version EXCEPT ![new] = [owner |-> p, status |-> "pending"]]
  BY DEF CreateProfile, library
<1>1. new \in Versions /\ new \in 1 .. MaxVersions /\ made \in Nat /\ new \notin 1 .. made
  BY <1>0, GivenVersion
<1>2. StoreInv' /\ SessionInv' /\ EditionInv' /\ Past' = Past
  BY <1>0, SpaceStep
<1>3. JobInv'
  BY <1>0, <1>2 DEF LibraryInv, JobInv
<1>4. /\ version' \in [Versions -> [owner : Profiles \cup {Env},
                                    status : {"none", "pending", "ready", "active"}]]
      /\ version'[new].owner = p /\ version'[new].status = "pending"
      /\ \A v \in Versions \ {new} : version'[v] = version[v]
  BY <1>0, <1>1 DEF LibraryInv, SpaceInv
<1>5. SpaceInv'
  <2>1. \A v \in Versions : built[v] # {} => v <= new
    BY <1>1 DEF LibraryInv, SpaceInv, Versions
  <2> QED
    BY <1>0, <1>1, <1>2, <1>4, <2>1 DEF LibraryInv, SpaceInv
<1>6. OwnerInv' /\ ClaimsStay
  <2>1. \A v, q : Claim(v, q)' => Claim(v, q) \/ (v = new /\ q = p)
    BY <1>0, <1>4 DEF Claim, Exists
  <2> QED
    BY <1>0, <1>1, <2>1, ClaimsAgree
<1>7. RowsInv'
  <2>1. \A v \in Versions : Exists(v) => Exists(v)'
    BY <1>4 DEF Exists
  <2> QED
    BY <1>0, <2>1, RowsStay
<1>8. BuiltInv'
  <2>1. built[new] = {}
    BY <1>1 DEF LibraryInv, SpaceInv
  <2>2. runtime.ver # new
    <3>1. CASE runtime = NoClient
      BY <3>1, <1>1 DEF NoClient, Legacy
    <3>2. CASE runtime # NoClient
      BY <3>2, <1>1 DEF LibraryInv, OwnerInv, Claim
    <3> QED
      BY <3>1, <3>2
  <2>3. runtime.ver # Legacy => runtime.ver \in Versions
    BY DEF LibraryInv, SpaceInv
  <2> QED
    BY <1>0, <1>4, <2>1, <2>2, <2>3 DEF LibraryInv, BuiltInv
<1> QED
  BY <1>2, <1>3, <1>5, <1>6, <1>7, <1>8 DEF LibraryInv

\* The registry forgets its client, or keeps it, and a job may be given back.
LEMMA ForgetStep ==
    ASSUME LibraryInv, UNCHANGED <<item, tries, active, chunks, vectors, version, made, built>>,
           runtime' = runtime \/ runtime' = NoClient, SessionInv', JobInv',
           \A k \in Jobs : job'[k] = job[k] \/ (job'[k].op = "none" /\ job'[k].phase = "none")
    PROVE  LibraryInv' /\ ClaimsStay
<1>1. StoreInv' /\ EditionInv' /\ Past' = Past
  BY DEF LibraryInv, StoreInv, EditionInv, Past
<1>2. SpaceInv'
  <2>1. NoClient \in [profile : Profiles \cup {Env}, ver : {Legacy} \cup Versions]
    BY DEF NoClient
  <2> QED
    BY <1>1, <2>1 DEF LibraryInv, SpaceInv
<1>3. OwnerInv' /\ ClaimsStay
  <2>1. \A v, q : Claim(v, q)' => Claim(v, q)
    BY DEF Claim, Exists
  <2> QED
    BY <2>1, FewerClaims
<1>4. RowsInv'
  BY RowsStay DEF Exists
<1>5. BuiltInv'
  BY DEF LibraryInv, BuiltInv, NoClient
<1> QED
  BY <1>1, <1>2, <1>3, <1>4, <1>5 DEF LibraryInv

LEMMA ClearSecretKeeps ==
    ASSUME LibraryInv, NEW p \in Profiles, ClearSecret(p)
    PROVE  LibraryInv' /\ ClaimsStay
<1>1. UNCHANGED <<item, tries, active, chunks, vectors, version, made, built, sessions, job>>
  BY DEF ClearSecret, library
<1>2. runtime' = runtime \/ runtime' = NoClient
  BY DEF ClearSecret, Removed
<1>3. SessionInv' /\ JobInv'
  BY <1>1 DEF LibraryInv, SessionInv, JobInv, Past
<1> QED
  BY <1>1, <1>2, <1>3, ForgetStep

LEMMA JobFailsKeeps ==
    ASSUME LibraryInv, NEW j \in Jobs, JobFails(j)
    PROVE  LibraryInv' /\ ClaimsStay
<1>1. UNCHANGED <<item, tries, active, chunks, vectors, version, made, built, sessions>>
  BY DEF JobFails, library, spaces
<1>2. runtime' = runtime \/ runtime' = NoClient
  BY DEF JobFails, Removed
<1>3. SessionInv'
  BY <1>1 DEF LibraryInv, SessionInv
<1>4. Give(j)
  BY DEF JobFails
<1> QED
  BY <1>1, <1>2, <1>3, <1>4, GiveJobs, ForgetStep

LEMMA RestartKeeps ==
    ASSUME LibraryInv, Restart
    PROVE  LibraryInv' /\ ClaimsStay
<1>1. UNCHANGED <<item, tries, active, chunks, vectors, version, made, built>>
  BY DEF Restart, library, spaces
<1>2. SessionInv'
  BY IdleTypes DEF Restart, SessionInv
<1>3. JobInv' /\ \A k \in Jobs : job'[k].op = "none" /\ job'[k].phase = "none"
  <2>1. \A k \in Jobs : job'[k] = NoJob
    BY DEF Restart
  <2>2. job' \in [Jobs -> [op : {"none", "reindex", "activate", "delete"},
                           phase : {"none", "begun", "building", "flushed"},
                           on : Profiles \cup {Env}, ver : {Legacy} \cup Versions,
                           read : SUBSET (Items \X Nat), seen : SUBSET Versions,
                           was : SUBSET Profiles]]
    BY NoJobTypes DEF Restart
  <2> QED
    BY <2>1, <2>2, NoJobTypes DEF JobInv
<1>4. runtime' = runtime \/ runtime' = NoClient
  BY DEF Restart
<1>5. \A k \in Jobs : job'[k] = job[k] \/ (job'[k].op = "none" /\ job'[k].phase = "none")
  BY <1>3
<1> QED
  BY <1>1, <1>2, <1>3, <1>4, <1>5, ForgetStep

\* A version is claimed by whose row it is.
LEMMA OwnedClaim ==
    ASSUME LibraryInv, NEW p \in Profiles, NEW v \in Versions,
           version[v].status # "none", version[v].owner = p
    PROVE  Claim(v, p)
  BY DEF Claim, Exists

\* A job begins: it takes a version that its profile owns, or a new number.
LEMMA BeginJobStep ==
    ASSUME LibraryInv, NEW j \in Jobs, JobInv', NEW u \in {Legacy} \cup Versions,
           NEW p \in Profiles,
           UNCHANGED <<item, tries, active, chunks, vectors, version, built, sessions>>,
           made' \in 0 .. MaxVersions, made <= made',
           u = made + 1 \/ Claim(u, p), u = made + 1 => made' = made + 1,
           runtime' = runtime \/ (runtime' = [profile |-> p, ver |-> u] /\ u \in Versions
                                  /\ version[u].status # "pending"),
           job[j] = NoJob,
           \A k \in Jobs \ {j} : job'[k] = job[k],
           job'[j].phase = "begun", job'[j].on = p, job'[j].ver = u
    PROVE  LibraryInv' /\ ClaimsStay
<1>1. StoreInv' /\ SessionInv' /\ EditionInv' /\ Past' = Past
  BY SpaceStep
<1>2. made \in Nat /\ made' \in Nat
  BY ConstantsAssumption DEF LibraryInv, SpaceInv
<1>3. SpaceInv'
  <2>1. runtime' \in [profile : Profiles \cup {Env}, ver : {Legacy} \cup Versions]
    BY DEF LibraryInv, SpaceInv
  <2>2. \A v \in Versions : built[v] # {} => v <= made'
    BY <1>2, ConstantsAssumption DEF LibraryInv, SpaceInv, Versions
  <2> QED
    BY <1>1, <2>1, <2>2 DEF LibraryInv, SpaceInv
<1>4. OwnerInv' /\ ClaimsStay
  <2>1. \A v, q : Claim(v, q)' => Claim(v, q) \/ (v = u /\ q = p)
    BY DEF Claim, Exists
  <2> QED
    BY <1>2, <2>1, ClaimsAgree
<1>5. RowsInv'
  <2>1. \A k \in Jobs : job'[k] = job[k] \/ job'[k].phase # "flushed"
    OBVIOUS
  <2> QED
    BY <2>1, RowsStay DEF Exists
<1>6. BuiltInv'
  BY DEF LibraryInv, BuiltInv
<1> QED
  BY <1>1, <1>3, <1>4, <1>5, <1>6 DEF LibraryInv

LEMMA BeginReindexKeeps ==
    ASSUME LibraryInv, NEW j \in Jobs, NEW p \in Profiles, BeginReindex(j, p)
    PROVE  LibraryInv' /\ ClaimsStay
<1>1. UNCHANGED <<item, tries, active, chunks, vectors, version, built, runtime, sessions>>
      /\ job[j] = NoJob
  BY DEF BeginReindex, library
<1>2. VisibleChunks \subseteq Past
  BY DEF VisibleChunks, LibraryInv, StoreInv
<1>3. made \in Nat /\ made \in 0 .. MaxVersions
  BY ConstantsAssumption DEF LibraryInv, SpaceInv
<1>4. CASE Rebuildable(p) # {} /\ UNCHANGED made
           /\ Take(j, "reindex", p, Latest(Rebuildable(p)), VisibleChunks,
                   {Latest(Rebuildable(p))}, {})
  <2> DEFINE u == Latest(Rebuildable(p))
  <2>1. u \in Rebuildable(p)
    BY <1>4, LatestVersion DEF Rebuildable, Owned
  <2>2. u \in Versions /\ Claim(u, p)
    BY <2>1, OwnedClaim DEF Rebuildable, Owned
  <2>3. u # made + 1
    BY <1>3, <2>2 DEF LibraryInv, OwnerInv
  <2> HIDE DEF u
  <2>4. Take(j, "reindex", p, u, VisibleChunks, {u}, {})
    BY <1>4 DEF u
  <2>5. /\ JobInv' /\ \A k \in Jobs \ {j} : job'[k] = job[k]
        /\ job'[j].phase = "begun" /\ job'[j].on = p /\ job'[j].ver = u
    BY <1>1, <1>2, <2>2, <2>4, TakeJobs
  <2> QED
    BY <1>1, <1>3, <1>4, <2>2, <2>3, <2>5, BeginJobStep
<1>5. CASE made < MaxVersions /\ made' = made + 1
           /\ Take(j, "reindex", p, made + 1, VisibleChunks, {}, {})
  <2> DEFINE u == made + 1
  <2>1. u \in Versions
    BY <1>5, GivenVersion
  <2>2. made' \in 0 .. MaxVersions /\ made <= made'
    BY <1>3, <1>5, ConstantsAssumption
  <2>3. u = made + 1 /\ made' = u /\ Take(j, "reindex", p, u, VisibleChunks, {}, {})
    BY <1>5
  <2> HIDE DEF u
  <2>4. /\ JobInv' /\ \A k \in Jobs \ {j} : job'[k] = job[k]
        /\ job'[j].phase = "begun" /\ job'[j].on = p /\ job'[j].ver = u
    BY <1>1, <1>2, <2>1, <2>3, TakeJobs
  <2> QED
    BY <1>1, <2>1, <2>2, <2>3, <2>4, BeginJobStep
<1> QED
  BY <1>4, <1>5 DEF BeginReindex

LEMMA BeginActivateKeeps ==
    ASSUME LibraryInv, NEW j \in Jobs, NEW p \in Profiles, BeginActivate(j, p)
    PROVE  LibraryInv' /\ ClaimsStay
<1> DEFINE u == Latest(Activatable(p))
           seen == {v \in Versions : version[v].status = "active"}
           was == {q \in {p} : profile[q].active}
<1>1. /\ UNCHANGED <<item, tries, active, chunks, vectors, version, built, made, sessions>>
      /\ job[j] = NoJob /\ runtime' = [profile |-> p, ver |-> u]
      /\ Take(j, "activate", p, u, {}, seen, was)
  BY DEF BeginActivate, library, spaces
<1>2. u \in Activatable(p)
  BY LatestVersion DEF BeginActivate, Activatable, Owned
<1>3. u \in Versions /\ Claim(u, p) /\ version[u].status # "pending"
  BY <1>2, OwnedClaim DEF Activatable, Owned
<1>4. made \in Nat /\ made \in 0 .. MaxVersions /\ u # made + 1
  BY <1>3, ConstantsAssumption DEF LibraryInv, SpaceInv, OwnerInv
<1>5. seen \subseteq Versions /\ was \subseteq Profiles
  OBVIOUS
<1> HIDE DEF u, seen, was
<1>6. /\ JobInv' /\ \A k \in Jobs \ {j} : job'[k] = job[k]
      /\ job'[j].phase = "begun" /\ job'[j].on = p /\ job'[j].ver = u
  BY <1>1, <1>3, <1>5, TakeJobs
<1> QED
  BY <1>1, <1>3, <1>4, <1>6, BeginJobStep

LEMMA BeginDeleteKeeps ==
    ASSUME LibraryInv, NEW j \in Jobs, NEW p \in Profiles, BeginDelete(j, p)
    PROVE  LibraryInv' /\ ClaimsStay
<1> DEFINE seen == {v \in Owned(p) : Exists(v)}
<1>1. /\ UNCHANGED <<item, tries, active, chunks, vectors, version, built, made, runtime, sessions>>
      /\ Take(j, "delete", p, Legacy, {}, seen, {})
  BY DEF BeginDelete, library, spaces
<1>2. seen \subseteq Versions
  BY DEF Owned
<1> HIDE DEF seen
<1>3. /\ JobInv' /\ \A k \in Jobs \ {j} : job'[k] = job[k]
      /\ job'[j].op = "delete" /\ job'[j].phase = "begun"
  BY <1>1, <1>2, TakeJobs, SMTT(30)
<1>4. StoreInv' /\ SessionInv' /\ EditionInv' /\ Past' = Past
  BY <1>1, SpaceStep
<1>5. SpaceInv'
  BY <1>1, <1>4 DEF LibraryInv, SpaceInv
<1>6. OwnerInv' /\ ClaimsStay
  <2>1. \A v, q : Claim(v, q)' => Claim(v, q)
    BY <1>1, <1>3 DEF Claim, Exists
  <2> QED
    BY <1>1, <2>1, FewerClaims
<1>7. RowsInv'
  <2>1. \A k \in Jobs : job'[k] = job[k] \/ job'[k].phase # "flushed"
    BY <1>3
  <2> QED
    BY <1>1, <2>1, RowsStay DEF Exists
<1>8. BuiltInv'
  BY <1>1 DEF LibraryInv, BuiltInv
<1> QED
  BY <1>3, <1>4, <1>5, <1>6, <1>7, <1>8 DEF LibraryInv

\* A job goes on to another phase.
LEMMA PhaseStep ==
    ASSUME LibraryInv, UNCHANGED <<library, vectors, spaces, runtime, sessions>>,
           JobInv', NEW j \in Jobs, \A k \in Jobs \ {j} : job'[k] = job[k],
           job'[j].op = job[j].op, job'[j].on = job[j].on, job'[j].ver = job[j].ver,
           job'[j].phase = "flushed" => \A v \in Written(j)' : Exists(v)
    PROVE  LibraryInv' /\ ClaimsStay
<1>0. UNCHANGED <<item, tries, active, chunks, vectors, version, built, made, runtime, sessions>>
  BY DEF library, spaces
<1>1. StoreInv' /\ SessionInv' /\ EditionInv' /\ Past' = Past
  BY <1>0, SpaceStep
<1>2. SpaceInv'
  BY <1>0, <1>1 DEF LibraryInv, SpaceInv
<1>3. OwnerInv' /\ ClaimsStay
  <2>1. \A v, q : Claim(v, q)' => Claim(v, q)
    <3> SUFFICES ASSUME NEW v, NEW q, Claim(v, q)' PROVE Claim(v, q)
      OBVIOUS
    <3>1. ASSUME NEW k \in Jobs, job'[k].op \in {"reindex", "activate"},
                 job'[k].ver = v, job'[k].on = q
          PROVE  Claim(v, q)
      <4>1. job[k].op \in {"reindex", "activate"} /\ job[k].ver = v /\ job[k].on = q
        BY <3>1
      <4> QED
        BY <4>1 DEF Claim
    <3> QED
      BY <1>0, <3>1 DEF Claim, Exists
  <2> QED
    BY <1>0, <2>1, FewerClaims
<1>4. RowsInv'
  <2>1. ASSUME NEW k \in Jobs \ {j}, job'[k].phase = "flushed", NEW v \in Written(k)'
        PROVE  Exists(v)
    <3>1. v \in Written(k) /\ job[k].phase = "flushed"
      BY <2>1 DEF Written
    <3> QED
      BY <3>1 DEF LibraryInv, RowsInv
  <2>2. \A v : Exists(v)' = Exists(v)
    BY <1>0 DEF Exists
  <2> QED
    BY <2>1, <2>2 DEF RowsInv
<1>5. BuiltInv'
  BY <1>0 DEF LibraryInv, BuiltInv
<1> QED
  BY <1>1, <1>2, <1>3, <1>4, <1>5 DEF LibraryInv

LEMMA BuildKeeps ==
    ASSUME LibraryInv, NEW j \in Jobs, Build(j)
    PROVE  LibraryInv' /\ ClaimsStay
<1>1. job' = [job EXCEPT ![j].phase = "building"] /\ job[j].op = "reindex"
      /\ UNCHANGED <<library, vectors, spaces, runtime, sessions>>
  BY DEF Build, At
<1>2. /\ \A k \in Jobs \ {j} : job'[k] = job[k]
      /\ job'[j].op = job[j].op /\ job'[j].on = job[j].on /\ job'[j].ver = job[j].ver
      /\ job'[j].phase = "building" /\ job'[j].read = job[j].read
  BY <1>1 DEF LibraryInv, JobInv
<1>3. JobInv'
  <2>1. job' \in [Jobs -> [op : {"none", "reindex", "activate", "delete"},
                           phase : {"none", "begun", "building", "flushed"},
                           on : Profiles \cup {Env}, ver : {Legacy} \cup Versions,
                           read : SUBSET (Items \X Nat), seen : SUBSET Versions,
                           was : SUBSET Profiles]]
    BY <1>1, SMTT(30) DEF LibraryInv, JobInv
  <2>2. Past' = Past
    BY <1>1 DEF Past, library
  <2>3. ASSUME NEW k \in Jobs
        PROVE  job'[k].read \subseteq Past /\ (job'[k].phase = "flushed" => job'[k].op = "activate")
    BY <1>2 DEF LibraryInv, JobInv
  <2> QED
    BY <2>1, <2>2, <2>3 DEF JobInv
<1> QED
  BY <1>1, <1>2, <1>3, PhaseStep

LEMMA FlushActivateKeeps ==
    ASSUME LibraryInv, NEW j \in Jobs, FlushActivate(j)
    PROVE  LibraryInv' /\ ClaimsStay
<1> DEFINE more == {q \in Profiles \ {job[j].on} : profile[q].active}
<1>1. /\ job' = [job EXCEPT ![j].phase = "flushed", ![j].was = @ \cup more]
      /\ job[j].op = "activate"
      /\ \A v \in Written(j)' : Exists(v)
      /\ UNCHANGED <<library, vectors, spaces, runtime, sessions>>
  BY DEF FlushActivate, At
<1>2. more \subseteq Profiles
  OBVIOUS
<1> HIDE DEF more
<1>3. job' = [job EXCEPT ![j] = [job[j] EXCEPT !.phase = "flushed", !.was = @ \cup more]]
  BY <1>1
<1>4. ASSUME NEW r \in [op : {"none", "reindex", "activate", "delete"},
                        phase : {"none", "begun", "building", "flushed"},
                        on : Profiles \cup {Env}, ver : {Legacy} \cup Versions,
                        read : SUBSET (Items \X Nat), seen : SUBSET Versions,
                        was : SUBSET Profiles]
      PROVE  /\ [r EXCEPT !.phase = "flushed", !.was = @ \cup more]
                   \in [op : {"none", "reindex", "activate", "delete"},
                       phase : {"none", "begun", "building", "flushed"},
                       on : Profiles \cup {Env}, ver : {Legacy} \cup Versions,
                       read : SUBSET (Items \X Nat), seen : SUBSET Versions,
                       was : SUBSET Profiles]
             /\ [r EXCEPT !.phase = "flushed", !.was = @ \cup more].op = r.op
             /\ [r EXCEPT !.phase = "flushed", !.was = @ \cup more].on = r.on
             /\ [r EXCEPT !.phase = "flushed", !.was = @ \cup more].ver = r.ver
             /\ [r EXCEPT !.phase = "flushed", !.was = @ \cup more].read = r.read
  BY <1>2
<1> DEFINE s == [job[j] EXCEPT !.phase = "flushed", !.was = @ \cup more]
<1>5. /\ s \in [op : {"none", "reindex", "activate", "delete"},
               phase : {"none", "begun", "building", "flushed"},
               on : Profiles \cup {Env}, ver : {Legacy} \cup Versions,
               read : SUBSET (Items \X Nat), seen : SUBSET Versions,
               was : SUBSET Profiles]
      /\ s.op = job[j].op /\ s.on = job[j].on /\ s.ver = job[j].ver /\ s.read = job[j].read
  <2>1. job[j] \in [op : {"none", "reindex", "activate", "delete"},
                    phase : {"none", "begun", "building", "flushed"},
                    on : Profiles \cup {Env}, ver : {Legacy} \cup Versions,
                    read : SUBSET (Items \X Nat), seen : SUBSET Versions,
                    was : SUBSET Profiles]
    BY DEF LibraryInv, JobInv
  <2> QED
    BY <1>4, <2>1, Zenon
<1>6. job' = [job EXCEPT ![j] = s]
  BY <1>3
<1> HIDE DEF s
<1>7. /\ \A k \in Jobs \ {j} : job'[k] = job[k]
      /\ job'[j].op = job[j].op /\ job'[j].on = job[j].on /\ job'[j].ver = job[j].ver
      /\ job'[j].read = job[j].read
  BY <1>5, <1>6 DEF LibraryInv, JobInv
<1>8. JobInv'
  <2>1. job' \in [Jobs -> [op : {"none", "reindex", "activate", "delete"},
                           phase : {"none", "begun", "building", "flushed"},
                           on : Profiles \cup {Env}, ver : {Legacy} \cup Versions,
                           read : SUBSET (Items \X Nat), seen : SUBSET Versions,
                           was : SUBSET Profiles]]
    BY <1>5, <1>6 DEF LibraryInv, JobInv
  <2>2. Past' = Past
    BY <1>1 DEF Past, library
  <2>3. ASSUME NEW k \in Jobs
        PROVE  job'[k].read \subseteq Past /\ (job'[k].phase = "flushed" => job'[k].op = "activate")
    BY <1>1, <1>7 DEF LibraryInv, JobInv
  <2> QED
    BY <2>1, <2>2, <2>3 DEF JobInv
<1> QED
  BY <1>1, <1>7, <1>8, PhaseStep

LEMMA FinishReindexKeeps ==
    ASSUME LibraryInv, NEW j \in Jobs, FinishReindex(j)
    PROVE  LibraryInv' /\ ClaimsStay
<1> DEFINE u == job[j].ver
           p == job[j].on
<1>1. /\ UNCHANGED <<item, tries, active, chunks, made, runtime, sessions>>
      /\ vectors' = {x \in vectors : x.ver # u} \cup Rebuilt(u, p, job[j].read)
      /\ version' = [version EXCEPT ![u] = [owner |-> p, status |-> "ready"]]
      /\ built' = [built EXCEPT ![u] = job[j].read]
      /\ Give(j)
  BY DEF FinishReindex
<1>2. StoreInv' /\ SessionInv' /\ EditionInv' /\ Past' = Past
  BY <1>1, SpaceStep
<1>3. JobInv' /\ \A k \in Jobs : job'[k] = job[k] \/ (job'[k].op = "none" /\ job'[k].phase = "none")
  BY <1>1, GiveJobs
<1>4. Claim(u, p) /\ job[j].read \subseteq Past /\ p \in Profiles \cup {Env}
  BY DEF FinishReindex, At, Claim, LibraryInv, JobInv
<1>5. u \in Versions /\ u \in 1 .. made /\ made \in 0 .. MaxVersions
  <2>1. u \in {Legacy} \cup Versions
    BY DEF LibraryInv, JobInv
  <2> QED
    BY <1>4, <2>1 DEF LibraryInv, OwnerInv, SpaceInv, Legacy
<1> HIDE DEF u, p
<1>6. /\ version' \in [Versions -> [owner : Profiles \cup {Env},
                                    status : {"none", "pending", "ready", "active"}]]
      /\ version'[u].owner = p /\ version'[u].status = "ready"
      /\ \A v \in Versions \ {u} : version'[v] = version[v]
  BY <1>1, <1>4, <1>5 DEF LibraryInv, SpaceInv
<1>7. SpaceInv'
  <2>1. built' \in [Versions -> SUBSET Past']
    BY <1>1, <1>2, <1>4 DEF LibraryInv, SpaceInv
  <2>2. \A v \in Versions : built'[v] # {} => v <= made
    BY <1>1, <1>5 DEF LibraryInv, SpaceInv
  <2> QED
    BY <1>1, <1>6, <2>1, <2>2 DEF LibraryInv, SpaceInv
<1>8. OwnerInv' /\ ClaimsStay
  <2>1. \A v, q : Claim(v, q)' => Claim(v, q)
    BY <1>1, <1>3, <1>4, <1>6 DEF Claim, Exists
  <2> QED
    BY <1>1, <2>1, FewerClaims
<1>9. RowsInv'
  <2>1. \A v \in Versions : Exists(v) => Exists(v)'
    BY <1>6 DEF Exists
  <2> QED
    BY <1>3, <2>1, RowsStay
<1>10. BuiltInv'
  <2>1. runtime.ver # Legacy => version'[runtime.ver].status # "pending"
    BY <1>6 DEF LibraryInv, BuiltInv, SpaceInv
  <2>2. ASSUME NEW v \in Versions, NEW c \in built'[v] \cap chunks
        PROVE  [chunk |-> c, ver |-> v, by |-> version'[v].owner] \in vectors'
    <3>1. CASE v = u
      <4>1. c \in job[j].read
        BY <1>1, <1>5, <2>2, <3>1 DEF LibraryInv, SpaceInv
      <4> QED
        BY <1>1, <1>6, <3>1, <4>1 DEF Rebuilt
    <3>2. CASE v # u
      <4>1. c \in built[v] \cap chunks /\ version'[v] = version[v]
        BY <1>1, <1>6, <2>2, <3>2 DEF LibraryInv, SpaceInv
      <4>2. [chunk |-> c, ver |-> v, by |-> version[v].owner] \in vectors
        BY <4>1 DEF LibraryInv, BuiltInv
      <4> QED
        BY <1>1, <3>2, <4>1, <4>2
    <3> QED
      BY <3>1, <3>2
  <2> QED
    BY <1>1, <2>1, <2>2 DEF BuiltInv
<1> QED
  BY <1>2, <1>3, <1>7, <1>8, <1>9, <1>10 DEF LibraryInv

LEMMA FinishActivateKeeps ==
    ASSUME LibraryInv, NEW j \in Jobs, FinishActivate(j)
    PROVE  LibraryInv' /\ ClaimsStay
<1> DEFINE u == job[j].ver
           to(v) == CASE v = u /\ u \notin job[j].seen -> "active"
                      [] v # u /\ v \in job[j].seen -> "ready"
                      [] OTHER -> version[v].status
<1>1. /\ UNCHANGED <<item, tries, active, chunks, vectors, made, built, runtime, sessions>>
      /\ Give(j)
      /\ job[j].phase = "flushed"
      /\ version' = [v \in Versions |->
                       CASE v = u /\ u \notin job[j].seen -> [version[v] EXCEPT !.status = "active"]
                         [] v # u /\ v \in job[j].seen -> [version[v] EXCEPT !.status = "ready"]
                         [] OTHER -> version[v]]
  BY DEF FinishActivate, library, At
<1>2. StoreInv' /\ SessionInv' /\ EditionInv' /\ Past' = Past
  BY <1>1, SpaceStep
<1>3. JobInv' /\ \A k \in Jobs : job'[k] = job[k] \/ (job'[k].op = "none" /\ job'[k].phase = "none")
  BY <1>1, GiveJobs
<1>4. ASSUME NEW v \in Versions
      PROVE  /\ version'[v] \in [owner : Profiles \cup {Env},
                                 status : {"none", "pending", "ready", "active"}]
             /\ version'[v].owner = version[v].owner
             /\ \/ version'[v] = version[v]
                \/ v \in Written(j) /\ version'[v].status \in {"ready", "active"}
  <2>1. version[v] \in [owner : Profiles \cup {Env},
                        status : {"none", "pending", "ready", "active"}]
    BY DEF LibraryInv, SpaceInv
  <2>2. CASE v = u /\ u \notin job[j].seen
    <3>1. version'[v] = [version[v] EXCEPT !.status = "active"]
      BY <1>1, <2>2
    <3>2. v \in Written(j)
      BY <1>1, <2>2 DEF Written
    <3> QED
      BY <2>1, <3>1, <3>2
  <2>3. CASE v # u /\ v \in job[j].seen
    <3>1. version'[v] = [version[v] EXCEPT !.status = "ready"]
      BY <1>1, <2>3
    <3>2. v \in Written(j)
      BY <1>1, <2>3 DEF Written
    <3> QED
      BY <2>1, <3>1, <3>2
  <2>4. CASE ~(v = u /\ u \notin job[j].seen) /\ ~(v # u /\ v \in job[j].seen)
    <3>1. version'[v] = version[v]
      BY <1>1, <2>4
    <3> QED
      BY <2>1, <3>1
  <2> QED
    BY <2>2, <2>3, <2>4
<1>5. \A v \in Versions : v \in Written(j) => Exists(v)
  BY <1>1 DEF LibraryInv, RowsInv
<1>6. \A v \in Versions : Exists(v)' <=> Exists(v)
  BY <1>4, <1>5 DEF Exists
<1>7. SpaceInv'
  <2>1. version' \in [Versions -> [owner : Profiles \cup {Env},
                                   status : {"none", "pending", "ready", "active"}]]
    BY <1>1, <1>4
  <2> QED
    BY <1>1, <1>2, <2>1 DEF LibraryInv, SpaceInv
<1>8. OwnerInv' /\ ClaimsStay
  <2>1. \A v, q : Claim(v, q)' => Claim(v, q)
    BY <1>1, <1>3, <1>4, <1>6 DEF Claim
  <2> QED
    BY <1>1, <2>1, FewerClaims
<1>9. RowsInv'
  BY <1>3, <1>6, RowsStay
<1>10. BuiltInv'
  <2>1. runtime.ver # Legacy => version'[runtime.ver].status # "pending"
    <3> SUFFICES ASSUME runtime.ver # Legacy PROVE version'[runtime.ver].status # "pending"
      OBVIOUS
    <3>1. runtime.ver \in Versions /\ version[runtime.ver].status # "pending"
      BY DEF LibraryInv, SpaceInv, BuiltInv
    <3> QED
      BY <1>4, <3>1
  <2> QED
    BY <1>1, <1>4, <2>1 DEF LibraryInv, BuiltInv
<1> QED
  BY <1>2, <1>3, <1>7, <1>8, <1>9, <1>10 DEF LibraryInv

LEMMA FinishDeleteKeeps ==
    ASSUME LibraryInv, NEW j \in Jobs, FinishDelete(j)
    PROVE  LibraryInv' /\ ClaimsStay
<1> DEFINE V == job[j].seen
           gone == [owner |-> Env, status |-> "none"]
<1>1. /\ UNCHANGED <<item, tries, active, chunks, made, sessions>>
      /\ Give(j)
      /\ V \cap Locked(j) = {}
      /\ vectors' = {x \in vectors : x.ver \notin V}
      /\ version' = [v \in Versions |-> IF v \in V THEN gone ELSE version[v]]
      /\ built' = [v \in Versions |-> IF v \in V THEN {} ELSE built[v]]
      /\ job[j].op = "delete"
  BY DEF FinishDelete, library, At
<1>2. StoreInv' /\ SessionInv' /\ EditionInv' /\ Past' = Past
  BY <1>1, SpaceStep
<1>3. JobInv' /\ \A k \in Jobs : job'[k] = job[k] \/ (job'[k].op = "none" /\ job'[k].phase = "none")
  BY <1>1, GiveJobs
<1>4. runtime' = runtime \/ runtime' = NoClient
  BY DEF FinishDelete, Removed
<1>5. gone \in [owner : Profiles \cup {Env}, status : {"none", "pending", "ready", "active"}]
      /\ gone.status = "none"
  OBVIOUS
<1> HIDE DEF gone
<1>6. SpaceInv'
  <2>1. version' \in [Versions -> [owner : Profiles \cup {Env},
                                   status : {"none", "pending", "ready", "active"}]]
    BY <1>1, <1>5 DEF LibraryInv, SpaceInv
  <2>2. built' \in [Versions -> SUBSET Past']
    BY <1>1, <1>2 DEF LibraryInv, SpaceInv
  <2>3. \A v \in Versions : built'[v] # {} => v <= made
    BY <1>1 DEF LibraryInv, SpaceInv
  <2>4. runtime' \in [profile : Profiles \cup {Env}, ver : {Legacy} \cup Versions]
    BY <1>4 DEF LibraryInv, SpaceInv, NoClient
  <2> QED
    BY <1>1, <2>1, <2>2, <2>3, <2>4 DEF LibraryInv, SpaceInv
<1>7. OwnerInv' /\ ClaimsStay
  <2>1. \A v, q : Claim(v, q)' => Claim(v, q)
    BY <1>1, <1>3, <1>4, <1>5 DEF Claim, Exists
  <2> QED
    BY <1>1, <2>1, FewerClaims
<1>8. RowsInv'
  <2> SUFFICES ASSUME NEW k \in Jobs, job'[k].phase = "flushed", NEW v \in Written(k)'
               PROVE  Exists(v)'
    BY DEF RowsInv
  <2>1. job'[k] = job[k] /\ k # j
    BY <1>1, <1>3 DEF LibraryInv, JobInv
  <2>2. v \in Written(k) /\ Exists(v) /\ v \in Locked(j)
    BY <2>1 DEF Written, LibraryInv, RowsInv, Locked
  <2>3. v \in Versions
    <3>1. job[k].seen \subseteq Versions /\ Claim(job[k].ver, job[k].on)
          /\ job[k].ver \in {Legacy} \cup Versions /\ job[k].phase = "flushed"
      BY <2>1 DEF LibraryInv, JobInv, Claim
    <3>2. job[k].ver \in Versions
      BY <3>1 DEF LibraryInv, OwnerInv, Legacy, SpaceInv
    <3> QED
      BY <2>2, <3>1, <3>2 DEF Written
  <2>4. version'[v] = version[v]
    BY <1>1, <2>2, <2>3
  <2> QED
    BY <2>2, <2>4 DEF Exists
<1>9. BuiltInv'
  <2>1. runtime'.ver # Legacy => version'[runtime'.ver].status # "pending"
    <3> SUFFICES ASSUME runtime'.ver # Legacy PROVE version'[runtime'.ver].status # "pending"
      OBVIOUS
    <3>1. runtime' = runtime
      BY <1>4 DEF NoClient
    <3>2. runtime.ver \in Versions /\ version[runtime.ver].status # "pending"
      BY <3>1 DEF LibraryInv, SpaceInv, BuiltInv
    <3> QED
      BY <1>1, <1>5, <3>1, <3>2
  <2>2. ASSUME NEW v \in Versions, NEW c \in built'[v] \cap chunks'
        PROVE  [chunk |-> c, ver |-> v, by |-> version'[v].owner] \in vectors'
    <3>1. v \notin V /\ built'[v] = built[v] /\ version'[v] = version[v]
      BY <1>1, <2>2
    <3>2. [chunk |-> c, ver |-> v, by |-> version[v].owner] \in vectors
      BY <1>1, <2>2, <3>1 DEF LibraryInv, BuiltInv
    <3> QED
      BY <1>1, <3>1, <3>2
  <2> QED
    BY <2>1, <2>2 DEF BuiltInv
<1> QED
  BY <1>2, <1>3, <1>6, <1>7, <1>8, <1>9 DEF LibraryInv

LEMMA LibraryInvInit ==
    ASSUME Init
    PROVE  LibraryInv
<1>1. StoreInv /\ SessionInv
  BY IdleTypes DEF Init, StoreInv, SessionInv
<1>2. EditionInv
  BY DEF Init, EditionInv, Items
<1>3. /\ \A v, p : ~Claim(v, p)
      /\ \A j \in Jobs : job[j] = NoJob
  BY DEF Init, Claim, Exists, NoJob
<1>4. JobInv
  BY <1>3 DEF Init, JobInv, NoJob
<1>5. SpaceInv
  BY ConstantsAssumption DEF Init, SpaceInv, NoClient
<1>6. OwnerInv
  BY <1>3 DEF OwnerInv
<1>7. RowsInv
  BY <1>3 DEF RowsInv, NoJob
<1>8. BuiltInv
  BY DEF Init, BuiltInv, NoClient
<1> QED
  BY <1>1, <1>2, <1>4, <1>5, <1>6, <1>7, <1>8 DEF LibraryInv

LEMMA SettleKeeps ==
    ASSUME LibraryInv, NEW j \in Jobs, Settle(j)
    PROVE  LibraryInv' /\ ClaimsStay
<1>1. ASSUME NEW p \in Profiles, BeginReindex(j, p) \/ BeginActivate(j, p) \/ BeginDelete(j, p)
      PROVE  LibraryInv' /\ ClaimsStay
  BY <1>1, BeginReindexKeeps, BeginActivateKeeps, BeginDeleteKeeps
<1>2. CASE Build(j) \/ FinishReindex(j) \/ FlushActivate(j)
  BY <1>2, BuildKeeps, FinishReindexKeeps, FlushActivateKeeps
<1>3. CASE FinishActivate(j) \/ FinishDelete(j) \/ JobFails(j)
  BY <1>3, FinishActivateKeeps, FinishDeleteKeeps, JobFailsKeeps
<1> QED
  BY <1>1, <1>2, <1>3 DEF Settle

LEMMA LibraryInvNext ==
    ASSUME LibraryInv, [Next]_vars
    PROVE  LibraryInv' /\ ClaimsStay
<1>1. ASSUME NEW i \in Items, Index(i) PROVE LibraryInv' /\ ClaimsStay
  BY <1>1, IndexKeeps
<1>2. ASSUME CommitImport PROVE LibraryInv' /\ ClaimsStay
  BY <1>2, ImportKeeps
<1>3. ASSUME NEW p \in Profiles, CreateProfile(p) \/ ClearSecret(p) PROVE LibraryInv' /\ ClaimsStay
  BY <1>3, CreateProfileKeeps, ClearSecretKeeps
<1>4. ASSUME NEW j \in Jobs, Settle(j) PROVE LibraryInv' /\ ClaimsStay
  BY <1>4, SettleKeeps
<1>5. ASSUME Restart PROVE LibraryInv' /\ ClaimsStay
  BY <1>5, RestartKeeps
<1>6. ASSUME UNCHANGED vars PROVE LibraryInv' /\ ClaimsStay
  <2>1. UNCHANGED <<item, tries, active, chunks, vectors, version, made, built>>
        /\ UNCHANGED <<sessions, job, runtime>>
    BY <1>6 DEF vars, library, spaces
  <2>2. SessionInv' /\ JobInv'
    BY <2>1 DEF LibraryInv, SessionInv, JobInv, Past
  <2> QED
    BY <2>1, <2>2, ForgetStep
<1> QED
  BY <1>1, <1>2, <1>3, <1>4, <1>5, <1>6 DEF Next, Serve

-----------------------------------------------------------------------------
(* What the library promises.                                              *)

LEMMA AtMostOne ==
    ASSUME NEW S, \A m, n \in S : m = n
    PROVE  Cardinality(S) <= 1
<1>1. CASE S = {}
  BY <1>1, FS_EmptySet
<1>2. CASE S # {}
  <2>1. PICK m \in S : TRUE
    BY <1>2
  <2>2. S = {m}
    BY <2>1
  <2>3. Cardinality({m}) = 1
    BY FS_Singleton
  <2> QED
    BY <2>2, <2>3
<1> QED
  BY <1>1, <1>2

LEMMA OneEdition ==
    ASSUME LibraryInv
    PROVE  EditionOfStatus
<1> SUFFICES ASSUME NEW i \in Items
             PROVE  /\ Cardinality(Visible(i)) <= 1
                    /\ item[i] = "indexed" => Visible(i) \subseteq {tries[i]}
  BY DEF EditionOfStatus
<1>1. \A n \in Visible(i) : n \in Nat /\ <<i, n>> \in chunks /\ (i \in Pdfs => n = active[i])
  BY ConstantsAssumption DEF Visible, Editions
<1>2. CASE i \in Pdfs
  <2>1. \A m, n \in Visible(i) : m = n
    BY <1>1, <1>2
  <2>2. item[i] = "indexed" => Visible(i) \subseteq {tries[i]}
    BY <1>1, <1>2 DEF LibraryInv, EditionInv
  <2> QED
    BY <2>1, <2>2, AtMostOne
<1>3. CASE i \in Texts
  <2>1. \A m, n \in Visible(i) : m = n
    BY <1>1, <1>3 DEF LibraryInv, EditionInv
  <2>2. item[i] = "indexed" => Visible(i) \subseteq {tries[i]}
    BY <1>1, <1>3 DEF LibraryInv, EditionInv
  <2> QED
    BY <2>1, <2>2, AtMostOne
<1> QED
  BY <1>2, <1>3 DEF Items

LEMMA BuiltToTheEnd ==
    ASSUME LibraryInv
    PROVE  ReadyBeforeActive
<1>1. runtime.ver # Legacy => version[runtime.ver].status # "pending"
  BY DEF LibraryInv, BuiltInv
<1>2. ASSUME NEW v \in Versions
      PROVE  Rebuilt(v, Owner(v), built[v] \cap chunks) \subseteq vectors
  <2>1. Owner(v) = version[v].owner
    BY ConstantsAssumption DEF Owner, Legacy, Versions
  <2> QED
    BY <2>1 DEF Rebuilt, LibraryInv, BuiltInv
<1> QED
  BY <1>1, <1>2 DEF ReadyBeforeActive

\* In a search without a filter of documents, and from step to step, only what is visible
\* counts; it follows from the chunks and the active editions.
LEMMA VisibleStays ==
    ASSUME NEW i \in Items, UNCHANGED <<active>>,
           \A n \in Nat : <<i, n>> \in chunks' <=> <<i, n>> \in chunks
    PROVE  Visible(i)' = Visible(i)
<1>1. Editions \subseteq Nat
  BY ConstantsAssumption DEF Editions
<1> QED
  BY <1>1 DEF Visible

TakesOver(i) ==
    Visible(i)' # Visible(i) =>
      /\ item'[i] = "indexed" /\ active'[i] = tries'[i]
      /\ <<i, active'[i]>> \in processed'
      /\ \A n \in Visible(i) : <<i, n>> \in chunks'
      /\ \A n \in Visible(i)' : \E v \in Versions \cup {Legacy} : <<i, n>> \in Searched(v)'

\* Only a success changes what is visible of a PDF: its new edition takes over.
LEMMA SuccessTakesOver ==
    ASSUME LibraryInv, NEW S, S \subseteq Items, Succeed(S), NEW i \in Pdfs
    PROVE  TakesOver(i)
<1>0. i \in Items /\ i \notin Texts
  BY ConstantsAssumption DEF Items
<1>1. chunks' = (chunks \ Old(S)) \cup Chunked(S)
  BY DEF Succeed
<1>2. \A n : <<i, n>> \notin Old(S)
  BY <1>0 DEF Old
<1>3. CASE i \notin S
  <2>1. \A n : <<i, n>> \notin Chunked(S)
    BY <1>3, NewEditions
  <2>2. active'[i] = active[i]
    BY <1>0, <1>3 DEF Succeed
  <2>3. Visible(i)' = Visible(i)
    BY <1>1, <1>2, <2>1, <2>2 DEF Visible
  <2> QED
    BY <2>3 DEF TakesOver
<1>4. CASE i \in S
  <2>1. item'[i] = "indexed" /\ tries'[i] = tries[i] + 1 /\ active'[i] = tries[i] + 1
    BY <1>0, <1>4 DEF Succeed
  <2>2. <<i, active'[i]>> \in processed'
    <3>1. Edition(i) \in Editioned(S \cap Pdfs)
      BY <1>4 DEF Editioned
    <3> QED
      BY <2>1, <3>1 DEF Succeed, Edition
  <2>3. \A n \in Visible(i) : <<i, n>> \in chunks'
    BY <1>1, <1>2 DEF Visible
  <2>4. ASSUME NEW n \in Visible(i)'
        PROVE  \E v \in Versions \cup {Legacy} : <<i, n>> \in Searched(v)'
    <3>1. n = tries[i] + 1 /\ <<i, n>> \in chunks'
      BY <2>1 DEF Visible
    <3>2. <<i, n>> = Edition(i)
      BY <3>1 DEF Edition
    <3>3. <<i, n>> \in Chunked(S)
      BY <1>0, <1>1, <3>1, <3>2, NextEdition DEF LibraryInv, StoreInv
    <3>4. sessions[i].text
      BY <3>3, NewEditions
    <3>5. PICK v \in Versions \cup {Legacy} : v = sessions[i].ver
      BY <1>0 DEF LibraryInv, SessionInv
    <3>6. [chunk |-> Edition(i), ver |-> v, by |-> sessions[i].by] \in vectors'
      BY <1>4, <3>4, <3>5 DEF Succeed, NewVectors
    <3>7. <<i, n>> \in VisibleChunks'
      BY <3>1 DEF VisibleChunks
    <3>8. <<i, n>> \in Searched(v)'
      BY <3>2, <3>6, <3>7 DEF Searched
    <3> QED
      BY <3>8
  <2> QED
    BY <2>1, <2>2, <2>3, <2>4 DEF TakesOver
<1> QED
  BY <1>3, <1>4

LEMMA FailureTakesNothing ==
    ASSUME LibraryInv, NEW k \in Items,
           ExtractionFails(k) \/ EmbeddingFails(k) \/ VersionGone(k), NEW i \in Pdfs
    PROVE  Visible(i)' = Visible(i)
<1>0. i \in Items /\ i \notin Texts
  BY ConstantsAssumption DEF Items
<1>1. PICK kept, stored : /\ CommitFailure(k, kept, stored)
                          /\ i = k => kept = Mine(k) /\ stored = {}
                          /\ stored \subseteq {Edition(k)}
  <2>1. CASE ExtractionFails(k)
    BY <2>1 DEF ExtractionFails
  <2>2. CASE EmbeddingFails(k)
    <3>1. CommitFailure(k, IF k \in Texts THEN {} ELSE Mine(k), {})
      BY <2>2 DEF EmbeddingFails
    <3>2. i = k => (IF k \in Texts THEN {} ELSE Mine(k)) = Mine(k)
      BY <1>0
    <3> QED
      BY <3>1, <3>2
  <2>3. CASE VersionGone(k)
    <3>1. CommitFailure(k, {}, Chunked({k})) /\ k \in Texts
      BY <2>3 DEF VersionGone
    <3>2. Chunked({k}) \subseteq {Edition(k)}
      BY DEF Chunked
    <3> QED
      BY <1>0, <3>1, <3>2
  <2> QED
    BY <2>1, <2>2, <2>3
<1>2. UNCHANGED active /\ chunks' = {c \in chunks : c[1] = k => c \in kept} \cup stored
  BY <1>1 DEF CommitFailure
<1>3. ASSUME NEW n \in Nat PROVE <<i, n>> \in chunks' <=> <<i, n>> \in chunks
  <2>1. CASE i = k
    BY <1>1, <1>2, <2>1 DEF Mine
  <2>2. CASE i # k
    BY <1>1, <1>2, <2>2 DEF Edition
  <2> QED
    BY <2>1, <2>2
<1> QED
  BY <1>0, <1>2, <1>3, VisibleStays

LEMMA OnlySuccess ==
    ASSUME LibraryInv, [Next]_vars, NEW i \in Pdfs
    PROVE  TakesOver(i)
<1>0. i \in Items
  BY DEF Items
<1>1. ASSUME UNCHANGED <<active, chunks>> PROVE TakesOver(i)
  BY <1>1 DEF TakesOver, Visible
<1>2. ASSUME NEW k \in Items, Index(k) PROVE TakesOver(i)
  <2>1. CASE CreateItem(k) \/ Refuse(k) \/ IndexItem(k) \/ ImportPdf(k) \/ Extract(k)
             \/ Stage(k) \/ Abort(k)
    BY <1>1, <2>1 DEF CreateItem, Refuse, IndexItem, ImportPdf, Begin, Extract, Stage, Abort, library
  <2>2. CASE ExtractionFails(k) \/ EmbeddingFails(k) \/ VersionGone(k)
    BY <2>2, FailureTakesNothing DEF TakesOver
  <2>3. CASE Store(k)
    BY <2>3, SuccessTakesOver DEF Store
  <2> QED
    BY <1>2, <2>1, <2>2, <2>3 DEF Index
<1>3. ASSUME CommitImport PROVE TakesOver(i)
  <2>1. Imported \subseteq Items
    BY DEF Imported, Items
  <2> QED
    BY <1>3, <2>1, SuccessTakesOver DEF CommitImport
<1>4. ASSUME NEW p \in Profiles, CreateProfile(p) \/ ClearSecret(p) PROVE TakesOver(i)
  BY <1>1, <1>4 DEF CreateProfile, ClearSecret, library
<1>5. ASSUME NEW j \in Jobs, Settle(j) PROVE UNCHANGED <<active, chunks>>
  <2>1. ASSUME NEW p \in Profiles, BeginReindex(j, p) \/ BeginActivate(j, p) \/ BeginDelete(j, p)
        PROVE  UNCHANGED <<active, chunks>>
    BY <2>1 DEF BeginReindex, BeginActivate, BeginDelete, library
  <2>2. CASE Build(j) \/ FinishReindex(j) \/ FlushActivate(j) \/ FinishActivate(j)
    BY <2>2 DEF Build, FinishReindex, FlushActivate, FinishActivate, library
  <2>3. CASE FinishDelete(j) \/ JobFails(j)
    BY <2>3 DEF FinishDelete, JobFails, library
  <2> QED
    BY <1>5, <2>1, <2>2, <2>3 DEF Settle
<1>6. ASSUME Restart \/ UNCHANGED vars PROVE TakesOver(i)
  BY <1>1, <1>6 DEF Restart, vars, library
<1> QED
  BY <1>1, <1>2, <1>3, <1>4, <1>5, <1>6 DEF Next, Serve

\* What a search finds of an item is one edition, that of its status: the code deletes a
\* text's chunks with the attempt, and keeps a PDF's until the next version is complete.
THEOREM SearchesOneEdition == Spec => []EditionOfStatus
<1>1. Spec => []LibraryInv
  BY LibraryInvInit, LibraryInvNext, PTL DEF Spec
<1> QED
  BY <1>1, OneEdition, PTL

\* An index version that the registry or the database calls usable was built to the end,
\* by its own profile's client, however re-indexings, activations and deletions overlap.
THEOREM UsedVersionsAreBuilt == Spec => []ReadyBeforeActive
<1>1. Spec => []LibraryInv
  BY LibraryInvInit, LibraryInvNext, PTL DEF Spec
<1> QED
  BY <1>1, BuiltToTheEnd, PTL

\* A failed attempt to index a PDF changes nothing of what is searched of it.
THEOREM FailuresKeepPdfs == Spec => PdfKeptByFailures
<1>1. Spec => []LibraryInv
  BY LibraryInvInit, LibraryInvNext, PTL DEF Spec
<1>2. LibraryInv /\ [Next]_vars => \A i \in Pdfs : TakesOver(i)
  BY OnlySuccess
<1> QED
  BY <1>1, <1>2, PTL DEF Spec, PdfKeptByFailures, TakesOver

-----------------------------------------------------------------------------
(* The steps of a query. They leave the library as it is.                  *)

LEMMA FixedLibrary ==
    ASSUME Fixed
    PROVE  /\ UNCHANGED <<item, tries, active, chunks, processed, vectors, version, made,
                          runtime, job>>
           /\ Past' = Past /\ VisibleChunks' = VisibleChunks /\ Dry' = Dry
           /\ \A v, p : Claim(v, p)' <=> Claim(v, p)
<1>1. UNCHANGED <<item, tries, active, chunks, processed, linked, vectors, profile, version,
                  made, built, runtime, sessions, job>>
  BY DEF Fixed, vars, library, spaces
<1>2. Past' = Past
  BY <1>1 DEF Past
<1>3. VisibleChunks' = VisibleChunks
  BY <1>1 DEF VisibleChunks, Visible
<1>4. Dry' = Dry
  BY <1>1, <1>3 DEF Dry, Searched
<1>5. \A v, p : Claim(v, p)' <=> Claim(v, p)
  BY <1>1 DEF Claim, Exists
<1> QED
  BY <1>1, <1>2, <1>3, <1>4, <1>5

LEMMA VisibleTypes ==
    ASSUME LibraryInv
    PROVE  /\ VisibleChunks \subseteq Past /\ Past \subseteq Items \X Nat
           /\ Dry \subseteq Items \X ({Legacy} \cup Versions)
           /\ \A v : Searched(v) \subseteq VisibleChunks
  BY DEF VisibleChunks, LibraryInv, StoreInv, Past, Dry, Searched

\* Where no question is asked, there is nothing to be true of.
LEMMA OverKeeps ==
    ASSUME NEW pc \in {"idle", "answered", "failed"}, End(pc)
    PROVE  QueryInv' /\ ClientInv' /\ EmptyInv'
<1> DEFINE q == [NoQuery EXCEPT !.pc = pc]
<1>1. /\ q.pc = pc /\ q.scope = {} /\ q.snap = NoClient /\ q.found = {} /\ q.pages = {}
      /\ q.mixed = FALSE
      /\ q \in [pc : {"idle", "asked", "resolved", "questioned", "read", "embedded", "dense",
                      "text", "pages", "found", "answered", "refused", "empty", "failed"},
                agent : BOOLEAN, scope : SUBSET Items,
                snap : [profile : EmbeddingProviders, ver : {Legacy} \cup Versions],
                processed : BOOLEAN, by : EmbeddingProviders, ver : {Legacy} \cup Versions,
                found : SUBSET (Items \X Nat), pages : SUBSET Items,
                seen : SUBSET (Items \X Nat), dry : SUBSET (Items \X ({Legacy} \cup Versions)),
                moved : BOOLEAN, mixed : BOOLEAN]
  BY DEF NoQuery, NoClient, EmbeddingProviders
<1>2. query' = q
  BY DEF End
<1> HIDE DEF q
<1>3. QueryInv'
  BY <1>1, <1>2 DEF QueryInv, QueryType, Running, Over, FoundWasVisible
<1>4. ClientInv'
  BY <1>1, <1>2 DEF ClientInv, OwnSpace
<1>5. EmptyInv'
  BY <1>1, <1>2 DEF EmptyInv, RefusalIsTrue, Exact, Everything
<1> QED
  BY <1>3, <1>4, <1>5

LEMMA PoseKeeps ==
    ASSUME LibraryInv, NEW agent \in BOOLEAN, NEW scope \in Scopes,
           NEW snap \in {runtime, NoClient}, Pose(agent, scope, snap)
    PROVE  QueryInv' /\ ClientInv' /\ EmptyInv'
<1> DEFINE seen == Selected(scope, VisibleChunks)
           dry == {iv \in Dry : iv[1] \in scope}
           q == [NoQuery EXCEPT !.pc = "asked", !.agent = agent, !.scope = scope, !.snap = snap,
                    !.seen = seen, !.dry = dry]
<1>0. scope \subseteq Items
  BY ScopesAssumption
<1>1. seen \subseteq Items \X Nat /\ dry \subseteq Items \X ({Legacy} \cup Versions)
  BY VisibleTypes DEF Selected
<1>2. query' = q /\ Fixed
  BY DEF Pose
<1>3. snap \in [profile : EmbeddingProviders, ver : {Legacy} \cup Versions]
  BY DEF LibraryInv, SpaceInv, NoClient, EmbeddingProviders
<1>4. seen = Selected(scope, VisibleChunks) /\ \A iv \in Dry : iv[1] \in scope => iv \in dry
  OBVIOUS
<1> HIDE DEF seen, dry
<1>5. /\ q.pc = "asked" /\ q.scope = scope /\ q.snap = snap /\ q.found = {} /\ q.pages = {}
      /\ q.mixed = FALSE /\ q.seen = seen /\ q.dry = dry
      /\ q \in [pc : {"idle", "asked", "resolved", "questioned", "read", "embedded", "dense",
                      "text", "pages", "found", "answered", "refused", "empty", "failed"},
                agent : BOOLEAN, scope : SUBSET Items,
                snap : [profile : EmbeddingProviders, ver : {Legacy} \cup Versions],
                processed : BOOLEAN, by : EmbeddingProviders, ver : {Legacy} \cup Versions,
                found : SUBSET (Items \X Nat), pages : SUBSET Items,
                seen : SUBSET (Items \X Nat), dry : SUBSET (Items \X ({Legacy} \cup Versions)),
                moved : BOOLEAN, mixed : BOOLEAN]
  BY <1>0, <1>1, <1>3 DEF NoQuery, EmbeddingProviders
<1> HIDE DEF q
<1>6. QueryInv'
  BY <1>2, <1>4, <1>5, FixedLibrary
     DEF QueryInv, QueryType, Running, Over, FoundWasVisible, Selected, InScope
<1>7. ClientInv'
  <2>1. snap # NoClient => snap.ver \in 1 .. made /\ \A p : Claim(snap.ver, p) => p = snap.profile
    <3> SUFFICES ASSUME snap # NoClient
                 PROVE  snap.ver \in 1 .. made /\ \A p : Claim(snap.ver, p) => p = snap.profile
      OBVIOUS
    <3>1. Claim(snap.ver, snap.profile)
      BY DEF Claim
    <3> QED
      BY <3>1 DEF LibraryInv, OwnerInv
  <2> QED
    BY <1>2, <1>5, <2>1, FixedLibrary DEF ClientInv, OwnSpace
<1>8. EmptyInv'
  BY <1>2, <1>5 DEF EmptyInv, RefusalIsTrue, Exact
<1> QED
  BY <1>6, <1>7, <1>8

\* A step of a query under way keeps its scope, its snapshot and what it lived through.
LEMMA QueryStepKeeps ==
    ASSUME LibraryInv, QueryInv, ClientInv, Fixed, Running, QueryType',
           query'.scope = query.scope, query'.snap = query.snap, query'.seen = query.seen,
           query'.dry = query.dry, query'.moved = query.moved,
           query'.pages \subseteq InScope(query.scope), query'.found \subseteq query.seen,
           query'.pc \in {"questioned", "embedded"} =>
              query'.by = Client.profile \/ (query.moved /\ query.snap = NoClient),
           query'.mixed => query.moved /\ query.snap = NoClient
    PROVE  QueryInv' /\ ClientInv'
<1>1. QueryInv'
  BY FixedLibrary DEF QueryInv, FoundWasVisible, Selected, InScope
<1>2. ClientInv'
  BY FixedLibrary DEF ClientInv, OwnSpace, Client
<1> QED
  BY <1>1, <1>2

\* The version that is resolved, if its row is there, is of the client's profile.
LEMMA ResolvedOwner ==
    ASSUME LibraryInv, QueryInv, ClientInv, NEW v \in ResolvedBy(Client), v \in Known
    PROVE  Owner(v) = Client.profile
<1>1. CASE Client = NoClient
  BY <1>1 DEF ResolvedBy, EnvVersions, NoClient, Owner, Versions, Legacy
<1>2. CASE Client # NoClient
  <2>1. v = Client.ver
    BY <1>2 DEF ResolvedBy
  <2>2. v \in 1 .. made /\ \A p : Claim(v, p) => p = Client.profile
    <3>1. CASE query.snap # NoClient
      BY <2>1, <3>1 DEF Client, ClientInv
    <3>2. CASE query.snap = NoClient
      <4>1. Client = runtime /\ runtime # NoClient
        BY <1>2, <3>2 DEF Client
      <4>2. Claim(v, runtime.profile)
        BY <2>1, <4>1 DEF Claim
      <4> QED
        BY <4>1, <4>2 DEF LibraryInv, OwnerInv
    <3> QED
      BY <3>1, <3>2
  <2>3. v # Legacy /\ v \in Versions /\ Exists(v)
    BY <2>2 DEF LibraryInv, SpaceInv, Legacy, Known
  <2>4. Claim(v, version[v].owner)
    BY <2>3 DEF Claim
  <2> QED
    BY <2>2, <2>3, <2>4 DEF Owner
<1> QED
  BY <1>1, <1>2

\* An item without a searchable chunk is dry, and so is one that was never indexed.
LEMMA DryItems ==
    ASSUME LibraryInv, NEW i \in Items, NEW v \in {Legacy} \cup Versions,
           ~Searchable(i, v) \/ ~Registered(i)
    PROVE  <<i, v>> \in Dry
<1>1. \A c \in Searched(v) : c[1] # i
  <2>1. CASE ~Searchable(i, v)
    BY <2>1 DEF Searchable
  <2>2. CASE ~Registered(i)
    <3>1. ~(tries[i] > 0)
      BY <2>2 DEF Registered, LibraryInv, StoreInv
    <3>2. tries[i] \in Nat
      BY DEF LibraryInv, StoreInv
    <3>3. \A c \in Past : c[1] # i
      BY <3>1, <3>2 DEF Past
    <3> QED
      BY <3>3, VisibleTypes
  <2> QED
    BY <2>1, <2>2
<1> QED
  BY <1>1 DEF Dry

LEMMA ClientVersions ==
    ASSUME LibraryInv, QueryInv
    PROVE  ResolvedBy(Client) \subseteq {Legacy} \cup Versions
<1>1. Client \in [profile : Profiles \cup {Env}, ver : {Legacy} \cup Versions]
  BY DEF Client, LibraryInv, SpaceInv, QueryInv, QueryType, EmbeddingProviders
<1> QED
  BY <1>1, ResolvedVersions

\* A check that is not passed has its reason; what is read is passed on.
LEMMA CheckKeeps ==
    ASSUME LibraryInv, QueryInv, ClientInv, EmptyInv, Running, Fixed,
           NEW embeddings \in BOOLEAN, NEW passed,
           CheckItems(embeddings, passed)
    PROVE  \/ query' = passed
           \/ QueryInv' /\ ClientInv' /\ EmptyInv'
<1>1. PICK v \in ResolvedBy(Client) :
        \/ /\ \E i \in query.scope : ~Registered(i)
           /\ query' = [query EXCEPT !.pc = "refused", !.ver = v]
        \/ /\ \E i \in query.scope : embeddings /\ ~Searchable(i, v)
           /\ query' = [query EXCEPT !.pc = "refused", !.ver = v]
        \/ query' = passed
  BY Zenon DEF CheckItems
<1>2. CASE query' = [query EXCEPT !.pc = "refused", !.ver = v]
           /\ \E i \in query.scope : ~Registered(i) \/ ~Searchable(i, v)
  <2>1. PICK i \in query.scope : ~Registered(i) \/ ~Searchable(i, v)
    BY <1>2
  <2>2. i \in Items /\ v \in {Legacy} \cup Versions
    BY ClientVersions DEF QueryInv, QueryType
  <2>3. <<i, v>> \in query.dry
    <3>1. <<i, v>> \in Dry
      BY <2>1, <2>2, DryItems
    <3> QED
      BY <3>1 DEF QueryInv
  <2>4. /\ QueryType' /\ query'.scope = query.scope /\ query'.snap = query.snap
        /\ query'.seen = query.seen /\ query'.dry = query.dry /\ query'.moved = query.moved
        /\ query'.pages = query.pages /\ query'.found = query.found
        /\ query'.pc = "refused" /\ query'.ver = v /\ query'.mixed = query.mixed
    BY <1>2, <2>2 DEF QueryInv, QueryType
  <2>5. QueryInv' /\ ClientInv'
    BY <2>4, QueryStepKeeps DEF QueryInv, ClientInv, OwnSpace, FoundWasVisible
  <2>6. EmptyInv'
    BY <2>3, <2>4 DEF EmptyInv, RefusalIsTrue, Exact
  <2> QED
    BY <2>5, <2>6
<1> QED
  BY <1>1, <1>2

\* The steps before the search.
LEMMA AskingKeeps ==
    ASSUME LibraryInv, QueryInv, ClientInv, EmptyInv,
           ResolveScope \/ ReadSelected \/ EmbedQuestion \/ ReadLibrary
    PROVE  QueryInv' /\ ClientInv' /\ EmptyInv'
<1>1. Running /\ Fixed
  BY DEF ResolveScope, ReadLibrary, ReadSelected, EmbedQuestion, Ready, Running, Over
<1>2. ASSUME NEW pc \in {"resolved", "read", "embedded"}, NEW agent \in BOOLEAN,
             NEW p \in BOOLEAN, pc = "embedded" => query.pc = "questioned",
             query' = [query EXCEPT !.pc = pc, !.agent = agent, !.processed = p]
      PROVE  QueryInv' /\ ClientInv' /\ EmptyInv'
  <2>1. /\ QueryType' /\ query'.scope = query.scope /\ query'.snap = query.snap
        /\ query'.seen = query.seen /\ query'.dry = query.dry /\ query'.moved = query.moved
        /\ query'.pages = query.pages /\ query'.found = query.found
        /\ query'.pc = pc /\ query'.by = query.by /\ query'.mixed = query.mixed
    BY <1>2, ZenonT(40) DEF QueryInv, QueryType
  <2>2. QueryInv' /\ ClientInv'
    BY <1>1, <1>2, <2>1, QueryStepKeeps DEF QueryInv, ClientInv, OwnSpace, FoundWasVisible
  <2>3. EmptyInv'
    BY <1>2, <2>1 DEF EmptyInv, RefusalIsTrue, Exact
  <2> QED
    BY <2>2, <2>3
<1>3. ASSUME NEW pc \in {"read", "embedded"}, pc = "embedded" => query.pc = "questioned",
             query' = Read(pc)
      PROVE  QueryInv' /\ ClientInv' /\ EmptyInv'
  BY <1>2, <1>3 DEF Read
<1>4. ASSUME query' = [query EXCEPT !.pc = "resolved"]
      PROVE  QueryInv' /\ ClientInv' /\ EmptyInv'
  <2>1. query' = [query EXCEPT !.pc = "resolved", !.agent = query.agent,
                               !.processed = query.processed]
        /\ query.agent \in BOOLEAN /\ query.processed \in BOOLEAN
    BY <1>4 DEF QueryInv, QueryType
  <2> QED
    BY <1>2, <2>1
<1>5. CASE ResolveScope
  <2>1. CheckItems(TRUE, [query EXCEPT !.pc = "resolved"])
    BY <1>5 DEF ResolveScope
  <2> QED
    BY <1>1, <1>4, <2>1, CheckKeeps
<1>6. CASE ReadLibrary
  BY <1>3, <1>6 DEF ReadLibrary
<1>7. CASE ReadSelected
  <2>1. PICK embeddings \in BOOLEAN : CheckItems(embeddings, Read("read"))
    <3> DEFINE b == Cardinality(query.scope) > 1
    <3>1. b \in BOOLEAN
      OBVIOUS
    <3>2. CheckItems(b, Read("read"))
      BY <1>7 DEF ReadSelected
    <3> HIDE DEF b
    <3> QED
      BY <3>1, <3>2
  <2> QED
    BY <1>1, <1>3, <2>1, CheckKeeps
<1>8. CASE EmbedQuestion
  <2>1. Client.profile \in EmbeddingProviders
    BY DEF Client, LibraryInv, SpaceInv, QueryInv, QueryType, EmbeddingProviders
  <2>2. PICK pc \in {"questioned", "embedded"} :
          query' = [query EXCEPT !.pc = pc, !.by = Client.profile]
    BY <1>8 DEF EmbedQuestion
  <2>3. /\ QueryType' /\ query'.scope = query.scope /\ query'.snap = query.snap
        /\ query'.seen = query.seen /\ query'.dry = query.dry /\ query'.moved = query.moved
        /\ query'.pages = query.pages /\ query'.found = query.found
        /\ query'.pc = pc /\ query'.by = Client.profile /\ query'.mixed = query.mixed
    BY <2>1, <2>2 DEF QueryInv, QueryType
  <2>4. QueryInv' /\ ClientInv'
    BY <1>1, <2>3, QueryStepKeeps DEF QueryInv, ClientInv, OwnSpace, FoundWasVisible
  <2>5. EmptyInv'
    BY <2>3 DEF EmptyInv, RefusalIsTrue, Exact
  <2> QED
    BY <2>4, <2>5
<1> QED
  BY <1>5, <1>6, <1>7, <1>8

LEMMA DenseSearchKeeps ==
    ASSUME LibraryInv, QueryInv, ClientInv, EmptyInv, DenseSearch
    PROVE  QueryInv' /\ ClientInv' /\ EmptyInv'
<1>1. Running /\ Fixed /\ query.pc = "embedded"
  BY DEF DenseSearch, Running, Over
<1>2. PICK v \in ResolvedBy(Client) :
        /\ v \in Known
        /\ \E hits \in Nearest(Selected(query.scope, Searched(v))) :
              query' = [query EXCEPT !.pc = IF Hybrid /\ query.processed THEN "dense" ELSE "found",
                           !.ver = v, !.by = Env, !.processed = FALSE, !.found = hits,
                           !.mixed = query.by # Owner(v)]
  BY DEF DenseSearch
<1>3. PICK hits \in Nearest(Selected(query.scope, Searched(v))),
           pc \in {"dense", "found"}, mixed \in BOOLEAN :
        /\ mixed = (query.by # Owner(v))
        /\ query' = [query EXCEPT !.pc = pc, !.ver = v, !.by = Env, !.processed = FALSE,
                                  !.found = hits, !.mixed = mixed]
  <2>1. PICK hits \in Nearest(Selected(query.scope, Searched(v))) :
          query' = [query EXCEPT !.pc = IF Hybrid /\ query.processed THEN "dense" ELSE "found",
                       !.ver = v, !.by = Env, !.processed = FALSE, !.found = hits,
                       !.mixed = query.by # Owner(v)]
    BY <1>2
  <2>2. PICK mixed \in BOOLEAN : mixed = (query.by # Owner(v))
    BY Zenon
  <2>3. PICK pc \in {"dense", "found"} :
          pc = IF Hybrid /\ query.processed THEN "dense" ELSE "found"
    OBVIOUS
  <2> QED
    BY <2>1, <2>2, <2>3, Zenon
<1>4. v \in {Legacy} \cup Versions
  BY ClientVersions
<1>5. hits \subseteq Selected(query.scope, Searched(v))
  BY DEF Nearest, NearestAnywhere, NearestInDocuments
<1>6. hits \subseteq query.seen /\ hits \subseteq Items \X Nat
  <2>1. Selected(query.scope, Searched(v)) \subseteq Selected(query.scope, VisibleChunks)
    BY VisibleTypes DEF Selected
  <2> QED
    BY <1>1, <1>5, <2>1 DEF QueryInv, QueryType
<1>7. /\ QueryType' /\ query'.scope = query.scope /\ query'.snap = query.snap
      /\ query'.seen = query.seen /\ query'.dry = query.dry /\ query'.moved = query.moved
      /\ query'.pages = query.pages /\ query'.found = hits
      /\ query'.pc = pc /\ query'.ver = v /\ query'.mixed = mixed
  BY <1>3, <1>4, <1>6, ZenonT(40) DEF QueryInv, QueryType, EmbeddingProviders
<1>8. mixed => query.moved /\ query.snap = NoClient
  <2> SUFFICES ASSUME mixed PROVE query.moved /\ query.snap = NoClient
    OBVIOUS
  <2>1. query.by # Client.profile
    BY <1>2, <1>3, ResolvedOwner
  <2> QED
    BY <1>1, <2>1 DEF ClientInv
<1>9. QueryInv' /\ ClientInv'
  BY <1>1, <1>6, <1>7, <1>8, QueryStepKeeps DEF QueryInv
<1>10. EmptyInv'
  <2> SUFFICES ASSUME Exact, hits = {}
               PROVE  \E i \in query.scope : <<i, v>> \in query.dry
    BY <1>7 DEF EmptyInv, RefusalIsTrue, Exact
  <2>1. Selected(query.scope, Searched(v)) = {}
    BY <1>3 DEF Nearest, NearestInDocuments
  <2>2. PICK i \in query.scope : i \in Items
    BY DEF Exact, QueryInv, QueryType, Everything
  <2>3. ~Searchable(i, v)
    BY <2>1, <2>2 DEF Exact, Selected, InScope, Everything, Searchable
  <2>4. <<i, v>> \in Dry
    BY <1>4, <2>2, <2>3, DryItems
  <2> QED
    BY <1>1, <2>2, <2>4 DEF QueryInv
<1> QED
  BY <1>9, <1>10

\* The steps after it: what more is found is in scope and visible, and what was found does
\* not vanish.
LEMMA FusingKeeps ==
    ASSUME LibraryInv, QueryInv, ClientInv, EmptyInv, Running, Fixed,
           query.pc \in {"dense", "text", "pages"},
           NEW pc \in {"text", "pages", "found"}, NEW found, NEW pages,
           found \subseteq query.seen, query.found # {} => found # {},
           pages \subseteq Items, pages \subseteq InScope(query.scope),
           query' = [query EXCEPT !.pc = pc, !.found = found, !.pages = pages]
    PROVE  QueryInv' /\ ClientInv' /\ EmptyInv'
<1>1. found \subseteq Items \X Nat
  BY DEF QueryInv, QueryType
<1>2. /\ QueryType' /\ query'.scope = query.scope /\ query'.snap = query.snap
      /\ query'.seen = query.seen /\ query'.dry = query.dry /\ query'.moved = query.moved
      /\ query'.pages = pages /\ query'.found = found
      /\ query'.pc = pc /\ query'.ver = query.ver /\ query'.mixed = query.mixed
  BY <1>1 DEF QueryInv, QueryType
<1>3. QueryInv' /\ ClientInv'
  BY <1>2, QueryStepKeeps DEF ClientInv, OwnSpace
<1>4. EmptyInv'
  BY <1>2 DEF EmptyInv, RefusalIsTrue, Exact
<1> QED
  BY <1>3, <1>4

LEMMA KeywordSearchKeeps ==
    ASSUME LibraryInv, QueryInv, ClientInv, EmptyInv, KeywordSearch
    PROVE  QueryInv' /\ ClientInv' /\ EmptyInv'
<1>1. Running /\ Fixed /\ query.pc = "dense"
  BY DEF KeywordSearch, Running, Over
<1>2. PICK hits \in KeywordHits, pc \in {"text", "found"} : \E text \in Fused(query.found, hits) :
        query' = [query EXCEPT !.pc = pc, !.found = text]
  BY DEF KeywordSearch
<1>3. PICK text \in Fused(query.found, hits) : query' = [query EXCEPT !.pc = pc, !.found = text]
  BY <1>2
<1>4. hits \subseteq query.seen
  BY <1>1 DEF KeywordHits, QueryInv
<1>5. text \subseteq query.seen /\ (query.found # {} => text # {})
  BY <1>4 DEF Fused, QueryInv, FoundWasVisible
<1>6. query' = [query EXCEPT !.pc = pc, !.found = text, !.pages = query.pages]
  BY <1>3 DEF QueryInv, QueryType
<1>7. query.pages \subseteq Items /\ query.pages \subseteq InScope(query.scope)
  BY DEF QueryInv, QueryType
<1> QED
  BY <1>1, <1>5, <1>6, <1>7, FusingKeeps

LEMMA VisualSearchKeeps ==
    ASSUME LibraryInv, QueryInv, ClientInv, EmptyInv, VisualSearch
    PROVE  QueryInv' /\ ClientInv' /\ EmptyInv'
<1>1. Running /\ Fixed /\ query.pc = "text"
  BY DEF VisualSearch, Running, Over
<1> DEFINE current == {d \in processed : active[d[1]] = d[2]}
<1>2. PICK pages \in SUBSET {c[1] : c \in Selected(query.scope, current)} :
        query' = [query EXCEPT !.pc = "pages", !.pages = pages]
  BY DEF VisualSearch
<1> HIDE DEF current
<1>3. pages \subseteq InScope(query.scope)
  BY DEF Selected
<1>4. pages \subseteq Items
  BY <1>3 DEF InScope, QueryInv, QueryType
<1>5. query' = [query EXCEPT !.pc = "pages", !.found = query.found, !.pages = pages]
  BY <1>2 DEF QueryInv, QueryType
<1> QED
  BY <1>1, <1>3, <1>4, <1>5, FusingKeeps DEF QueryInv, FoundWasVisible

LEMMA ChunksOfPagesKeeps ==
    ASSUME LibraryInv, QueryInv, ClientInv, EmptyInv, ChunksOfPages
    PROVE  QueryInv' /\ ClientInv' /\ EmptyInv'
<1>1. Running /\ Fixed /\ query.pc = "pages"
  BY DEF ChunksOfPages, Running, Over
<1>2. PICK visual \in SUBSET UNION {PagesOf(i) : i \in query.pages} :
        \E both \in Fused(query.found, visual) :
          query' = [query EXCEPT !.pc = "found", !.pages = {}, !.found = both]
  BY DEF ChunksOfPages
<1>3. PICK both \in Fused(query.found, visual) :
        query' = [query EXCEPT !.pc = "found", !.pages = {}, !.found = both]
  BY <1>2
<1>4. visual \subseteq query.seen
  <2> SUFFICES ASSUME NEW c \in visual PROVE c \in query.seen
    OBVIOUS
  <2>1. PICK i \in query.pages : c \in PagesOf(i)
    OBVIOUS
  <2>2. c \in Selected(query.scope, VisibleChunks)
    BY <2>1 DEF PagesOf, Selected, QueryInv
  <2> QED
    BY <1>1, <2>2 DEF QueryInv
<1>5. both \subseteq query.seen /\ (query.found # {} => both # {})
  BY <1>4 DEF Fused, QueryInv, FoundWasVisible
<1>6. PICK pages : pages = {}
  OBVIOUS
<1>7. query' = [query EXCEPT !.pc = "found", !.found = both, !.pages = pages]
  BY <1>3, <1>6 DEF QueryInv, QueryType
<1>8. pages \subseteq Items /\ pages \subseteq InScope(query.scope)
  BY <1>6
<1> QED
  BY <1>1, <1>5, <1>7, <1>8, FusingKeeps

LEMMA RefuseEmptyKeeps ==
    ASSUME LibraryInv, QueryInv, ClientInv, EmptyInv, RefuseEmpty
    PROVE  QueryInv' /\ ClientInv' /\ EmptyInv'
<1>1. Running /\ Fixed /\ query.pc = "found" /\ query.scope # Everything /\ query.found = {}
      /\ query' = [query EXCEPT !.pc = "empty"]
  BY DEF RefuseEmpty, Running, Over
<1>2. /\ QueryType' /\ query'.scope = query.scope /\ query'.snap = query.snap
      /\ query'.seen = query.seen /\ query'.dry = query.dry /\ query'.moved = query.moved
      /\ query'.pages = query.pages /\ query'.found = query.found
      /\ query'.pc = "empty" /\ query'.ver = query.ver /\ query'.mixed = query.mixed
  BY <1>1 DEF QueryInv, QueryType
<1>3. QueryInv' /\ ClientInv'
  BY <1>1, <1>2, QueryStepKeeps DEF QueryInv, ClientInv, OwnSpace, FoundWasVisible
<1>4. EmptyInv'
  BY <1>1, <1>2 DEF EmptyInv, RefusalIsTrue, Exact
<1> QED
  BY <1>3, <1>4

LEMMA QueryInvStep ==
    ASSUME LibraryInv, QueryInv, ClientInv, EmptyInv, QueryStep
    PROVE  UNCHANGED vars /\ QueryInv' /\ ClientInv' /\ EmptyInv'
<1>1. ASSUME NEW scope \in Scopes, AcceptRun(scope) \/ CallEndpoint(scope)
      PROVE  UNCHANGED vars /\ QueryInv' /\ ClientInv' /\ EmptyInv'
  <2>1. CASE AcceptRun(scope)
    BY <2>1, PoseKeeps DEF AcceptRun, Pose, Fixed
  <2>2. CASE CallEndpoint(scope)
    BY <2>2, PoseKeeps DEF CallEndpoint, Pose, Fixed
  <2> QED
    BY <1>1, <2>1, <2>2
<1>2. CASE ResolveScope \/ ReadSelected \/ EmbedQuestion \/ ReadLibrary
  BY <1>2, AskingKeeps DEF ResolveScope, ReadLibrary, ReadSelected, EmbedQuestion, Fixed
<1>3. CASE DenseSearch
  BY <1>3, DenseSearchKeeps DEF DenseSearch, Fixed
<1>4. CASE KeywordSearch
  BY <1>4, KeywordSearchKeeps DEF KeywordSearch, Fixed
<1>5. CASE VisualSearch
  BY <1>5, VisualSearchKeeps DEF VisualSearch, Fixed
<1>6. CASE ChunksOfPages
  BY <1>6, ChunksOfPagesKeeps DEF ChunksOfPages, Fixed
<1>7. CASE AnswerLibrary \/ AnswerSelected \/ Fail
  BY <1>7, OverKeeps DEF AnswerLibrary, AnswerSelected, Fail, Fixed
<1>8. CASE RefuseEmpty
  BY <1>8, RefuseEmptyKeeps DEF RefuseEmpty, Fixed
<1> QED
  BY <1>1, <1>2, <1>3, <1>4, <1>5, <1>6, <1>7, <1>8 DEF QueryStep

-----------------------------------------------------------------------------
(* The library changes under a query.                                      *)

LEMMA ObserveKeeps ==
    ASSUME LibraryInv, LibraryInv', ClaimsStay, QueryInv, ClientInv, EmptyInv, ~Over, Observe
    PROVE  QueryInv' /\ ClientInv' /\ EmptyInv'
<1>1. PICK s : s = query.snap
  OBVIOUS
<1>2. s # NoClient => s.ver \in 1 .. made' /\ \A p : Claim(s.ver, p)' => p = s.profile
  <2> SUFFICES ASSUME s # NoClient
               PROVE  s.ver \in 1 .. made' /\ \A p : Claim(s.ver, p)' => p = s.profile
    OBVIOUS
  <2>1. s.ver \in 1 .. made /\ s.ver # made + 1 /\ s.ver \in 1 .. made'
    BY <1>1 DEF ClientInv, ClaimsStay
  <2>2. \A p : Claim(s.ver, p)' => Claim(s.ver, p)
    BY <2>1 DEF ClaimsStay
  <2>3. \A p : Claim(s.ver, p) => p = s.profile
    BY <1>1 DEF ClientInv
  <2> QED
    BY <2>1, <2>2, <2>3
<1>3. CASE Running
  <2> DEFINE seen == query.seen \cup Selected(query.scope, VisibleChunks')
             dry == query.dry \cup {iv \in Dry' : iv[1] \in query.scope}
  <2>1. PICK moved \in BOOLEAN :
          /\ moved = (query.moved \/ runtime' # runtime)
          /\ query' = [query EXCEPT !.seen = seen, !.dry = dry, !.moved = moved]
    <3>1. query' = [query EXCEPT !.seen = seen, !.dry = dry,
                                 !.moved = query.moved \/ runtime' # runtime]
      BY <1>3 DEF Observe
    <3>2. PICK moved \in BOOLEAN : moved = (query.moved \/ runtime' # runtime)
      BY Zenon
    <3> HIDE DEF seen, dry
    <3> QED
      BY <3>1, <3>2, Zenon
  <2>2. VisibleChunks' \subseteq Items \X Nat /\ Dry' \subseteq Items \X ({Legacy} \cup Versions)
    <3>1. VisibleChunks' \subseteq Past'
      BY DEF VisibleChunks, LibraryInv, StoreInv
    <3> QED
      BY <3>1 DEF Past, Dry
  <2>3. seen \subseteq Items \X Nat /\ dry \subseteq Items \X ({Legacy} \cup Versions)
    BY <2>2 DEF QueryInv, QueryType, Selected
  <2>4. /\ Selected(query.scope, VisibleChunks') \subseteq seen /\ query.seen \subseteq seen
        /\ query.dry \subseteq dry /\ \A iv \in Dry' : iv[1] \in query.scope => iv \in dry
    OBVIOUS
  <2> HIDE DEF seen, dry
  <2>5. /\ QueryType' /\ query'.scope = query.scope /\ query'.snap = query.snap
        /\ query'.seen = seen /\ query'.dry = dry /\ query'.moved = moved
        /\ query'.pages = query.pages /\ query'.found = query.found /\ query'.by = query.by
        /\ query'.pc = query.pc /\ query'.ver = query.ver /\ query'.mixed = query.mixed
    BY <2>1, <2>3 DEF QueryInv, QueryType
  <2>6. QueryInv'
    BY <2>4, <2>5 DEF QueryInv, FoundWasVisible, Selected, InScope
  <2>7. ClientInv'
    <3>1. query.pc \in {"questioned", "embedded"} =>
            \/ query.by = Client'.profile
            \/ moved /\ query.snap = NoClient
      BY <2>1, <2>5 DEF ClientInv, Client
    <3>2. query.mixed => moved /\ query.snap = NoClient
      BY <2>1 DEF ClientInv, OwnSpace
    <3> QED
      BY <1>1, <1>2, <2>5, <3>1, <3>2 DEF ClientInv, OwnSpace
  <2>8. EmptyInv'
    BY <2>4, <2>5 DEF EmptyInv, RefusalIsTrue, Exact
  <2> QED
    BY <2>6, <2>7, <2>8
<1>4. CASE ~Running
  <2>1. query' = query /\ query.pc = "idle"
    BY <1>4 DEF Observe, Running, Over
  <2>2. QueryInv'
    BY <2>1 DEF QueryInv, QueryType, Running, FoundWasVisible, InScope
  <2>3. ClientInv'
    BY <1>1, <1>2, <2>1 DEF ClientInv, OwnSpace
  <2>4. EmptyInv'
    BY <2>1 DEF EmptyInv, RefusalIsTrue, Exact
  <2> QED
    BY <2>2, <2>3, <2>4
<1> QED
  BY <1>3, <1>4

LEMMA RetrievalInvInit ==
    ASSUME RetrievalInit
    PROVE  RetrievalInv
<1>1. LibraryInv
  BY LibraryInvInit DEF RetrievalInit
<1>2. query = NoQuery
  BY DEF RetrievalInit
<1>3. QueryInv
  BY <1>2 DEF NoQuery, NoClient, EmbeddingProviders, QueryInv, QueryType, Running,
              FoundWasVisible
<1>4. ClientInv
  BY <1>2 DEF NoQuery, ClientInv, OwnSpace
<1>5. EmptyInv
  BY <1>2 DEF NoQuery, EmptyInv, RefusalIsTrue, Exact
<1> QED
  BY <1>1, <1>3, <1>4, <1>5 DEF RetrievalInv

LEMMA RetrievalInvNext ==
    ASSUME RetrievalInv, [RetrievalNext]_<<vars, query>>
    PROVE  RetrievalInv'
<1> USE DEF RetrievalInv
<1>1. CASE QueryStep
  <2>1. UNCHANGED vars /\ QueryInv' /\ ClientInv' /\ EmptyInv'
    BY <1>1, QueryInvStep
  <2> QED
    BY <2>1, LibraryInvNext
<1>2. CASE LibraryStep
  <2>1. [Next]_vars
    BY <1>2 DEF LibraryStep, Next
  <2>2. LibraryInv' /\ ClaimsStay
    BY <2>1, LibraryInvNext
  <2>3. CASE Observe
    BY <1>2, <2>2, <2>3, ObserveKeeps DEF LibraryStep
  <2>4. CASE query' = NoQuery
    <3>1. NoQuery = [NoQuery EXCEPT !.pc = "idle"]
      <4>1. NoQuery.pc = "idle"
        BY DEF NoQuery
      <4> QED
        BY <4>1, Zenon DEF NoQuery
    <3>2. End("idle")
      BY <2>4, <3>1, Zenon DEF End
    <3> QED
      BY <2>2, <3>2, OverKeeps
  <2> QED
    BY <1>2, <2>3, <2>4 DEF LibraryStep
<1>3. CASE UNCHANGED <<vars, query>>
  <2>1. LibraryInv' /\ Fixed /\ query' = query
    BY <1>3, LibraryInvNext DEF Fixed
  <2>2. QueryInv'
    BY <2>1, FixedLibrary
       DEF QueryInv, QueryType, Running, Over, FoundWasVisible, Selected, InScope
  <2>3. ClientInv'
    BY <2>1, FixedLibrary DEF ClientInv, OwnSpace, Client
  <2>4. EmptyInv'
    BY <2>1 DEF EmptyInv, RefusalIsTrue, Exact
  <2> QED
    BY <2>1, <2>2, <2>3, <2>4
<1> QED
  BY <1>1, <1>2, <1>3 DEF RetrievalNext

LEMMA RetrievalInvariant == RetrievalSpec => []RetrievalInv
  BY RetrievalInvInit, RetrievalInvNext, PTL DEF RetrievalSpec

\* Nothing that was replaced before the question was asked is found by it, for any
\* interleaving with the indexing of its items: the filter of each search reads the
\* active versions itself.
THEOREM NothingReplacedIsFound == RetrievalSpec => []FoundWasVisible
<1>1. RetrievalInv => FoundWasVisible
  BY DEF RetrievalInv, QueryInv
<1> QED
  BY <1>1, RetrievalInvariant, PTL

\* A run's question is compared with vectors of its own profile, for any number of
\* profiles, re-indexings, activations and deletions meanwhile: its snapshot names a
\* version that belongs to its profile as long as its row is there.
THEOREM SnapshotKeepsTheSpace == RetrievalSpec => []OwnSpace
<1>1. RetrievalInv => OwnSpace
  BY DEF RetrievalInv, ClientInv
<1> QED
  BY <1>1, RetrievalInvariant, PTL

\* Selected items are refused by a check, or after an exact search that found nothing, only
\* if one of them had nothing to search at some moment, for any limit of exact search.
THEOREM RefusedWithReason == RetrievalSpec => []RefusalIsTrue
<1>1. RetrievalInv => RefusalIsTrue
  BY DEF RetrievalInv, EmptyInv
<1> QED
  BY <1>1, RetrievalInvariant, PTL

=============================================================================
