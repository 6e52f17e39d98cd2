------------------------ MODULE ResearchGraphProofs ------------------------
(***************************************************************************)
(* The corrective loop keeps to its limit and gives up only when it is     *)
(* reached, and no answer cites a source that is not returned with it: for *)
(* all sets of sources, results of any size, any limit of corrections and  *)
(* any number of turns. At the end, the calls of the chat provider that a  *)
(* turn makes: one captured client, and complete streamed answers.         *)
(***************************************************************************)
EXTENDS ResearchGraph, ChatCalls, FiniteSetTheorems, WellFoundedInduction, TLAPS

-----------------------------------------------------------------------------
(* Lists without duplicates.                                               *)

LEMMA LeastNat ==
    ASSUME NEW T \in SUBSET Nat, T # {}
    PROVE  \E x \in T : \A y \in T : x <= y
<1>1. IsWellFoundedOn(OpToRel(<, Nat), Nat)
  BY NatLessThanWellFounded
<1>2. PICK x \in T : \A y \in T : ~(<<y, x>> \in OpToRel(<, Nat))
  BY <1>1, WFMin, Zenon
<1>3. \A y \in T : ~(y < x)
  BY <1>2 DEF OpToRel
<1> QED
  BY <1>3

\* Different counts: it starts with none and grows by one at each new key.
LEMMA DifferentSteps ==
    ASSUME NEW S, NEW keys \in Seq(S)
    PROVE  /\ Different(keys, 0) = 0
           /\ \A i \in 0 .. Len(keys) : Different(keys, i) \in Nat
           /\ \A i \in 1 .. Len(keys) :
                Different(keys, i) = Different(keys, i - 1) + (IF IsNew(keys, i) THEN 1 ELSE 0)
<1> DEFINE upTo(i) == {keys[j] : j \in 1 .. i}
<1>1. Different(keys, 0) = 0
  <2>1. upTo(0) = {}
    OBVIOUS
  <2> QED
    BY <2>1, FS_EmptySet DEF Different
<1>2. ASSUME NEW i \in 0 .. Len(keys)
      PROVE  IsFiniteSet(upTo(i)) /\ Different(keys, i) \in Nat
  <2>1. IsFiniteSet(1 .. i)
    BY FS_Interval
  <2>2. [j \in 1 .. i |-> keys[j]] \in Surjection(1 .. i, upTo(i))
    BY DEF Surjection
  <2>3. IsFiniteSet(upTo(i))
    BY <2>1, <2>2, FS_Surjection
  <2> QED
    BY <2>3, FS_CardinalityType DEF Different
<1>3. ASSUME NEW i \in 1 .. Len(keys)
      PROVE  Different(keys, i) = Different(keys, i - 1) + (IF IsNew(keys, i) THEN 1 ELSE 0)
  <2>1. upTo(i) = upTo(i - 1) \cup {keys[i]}
    <3>1. 1 .. i = (1 .. i - 1) \cup {i}
      OBVIOUS
    <3> QED
      BY <3>1
  <2>2. IsFiniteSet(upTo(i - 1)) /\ Different(keys, i - 1) \in Nat
    <3>1. i - 1 \in 0 .. Len(keys)
      OBVIOUS
    <3> QED
      BY <1>2, <3>1
  <2>3. Cardinality(upTo(i)) = IF keys[i] \in upTo(i - 1) THEN Cardinality(upTo(i - 1))
                               ELSE Cardinality(upTo(i - 1)) + 1
    BY <2>1, <2>2, FS_AddElement
  <2>4. keys[i] \in upTo(i - 1) <=> ~IsNew(keys, i)
    BY DEF IsNew
  <2> HIDE DEF upTo
  <2>5. Different(keys, i) = Cardinality(upTo(i)) /\ Different(keys, i - 1) = Cardinality(upTo(i - 1))
    BY DEF Different, upTo
  <2> QED
    BY <2>2, <2>3, <2>4, <2>5
<1> QED
  BY <1>1, <1>2, <1>3

\* It never falls.
LEMMA DifferentGrows ==
    ASSUME NEW S, NEW keys \in Seq(S), NEW i \in 0 .. Len(keys), NEW j \in i .. Len(keys)
    PROVE  Different(keys, i) <= Different(keys, j)
<1> DEFINE less == {k \in i .. Len(keys) : ~(Different(keys, i) <= Different(keys, k))}
<1>1. SUFFICES ASSUME less # {} PROVE FALSE
  OBVIOUS
<1>2. less \in SUBSET Nat
  OBVIOUS
<1> HIDE DEF less
<1>2a. PICK k \in less : \A m \in less : k <= m
  BY <1>1, <1>2, LeastNat
<1>2b. k \in i .. Len(keys) /\ ~(Different(keys, i) <= Different(keys, k))
       /\ \A m \in i .. Len(keys) : ~(Different(keys, i) <= Different(keys, m)) => k <= m
  BY <1>2a DEF less
<1>3. Different(keys, i) \in Nat /\ Different(keys, k) \in Nat
  BY <1>2b, DifferentSteps
<1>4. k # i
  BY <1>2b, <1>3
<1>5. k - 1 \in i .. Len(keys) /\ k \in 1 .. Len(keys)
  BY <1>2b, <1>4
<1>6. Different(keys, i) <= Different(keys, k - 1)
  BY <1>2b, <1>5
<1>7. Different(keys, k - 1) \in Nat
      /\ Different(keys, k) = Different(keys, k - 1) + (IF IsNew(keys, k) THEN 1 ELSE 0)
  BY <1>5, DifferentSteps
<1> QED
  BY <1>2b, <1>3, <1>6, <1>7

\* There is a place for each number, and only one; and every key has a first place.
LEMMA PlaceExists ==
    ASSUME NEW S, NEW keys \in Seq(S), NEW n \in 1 .. Different(keys, Len(keys))
    PROVE  \E i \in DOMAIN keys : IsNew(keys, i) /\ Different(keys, i) = n
<1> DEFINE enough == {i \in 1 .. Len(keys) : Different(keys, i) >= n}
<1>1. Different(keys, 0) = 0 /\ Len(keys) \in Nat
      /\ \A i \in 0 .. Len(keys) : Different(keys, i) \in Nat
  BY DifferentSteps
<1>2. Len(keys) # 0
  BY <1>1
<1>3. Len(keys) \in enough
  BY <1>1, <1>2
<1>3a. enough \in SUBSET Nat
  OBVIOUS
<1> HIDE DEF enough
<1>3b. PICK i \in enough : \A m \in enough : i <= m
  BY <1>3, <1>3a, LeastNat
<1>4. i \in 1 .. Len(keys) /\ Different(keys, i) >= n
      /\ \A m \in 1 .. Len(keys) : Different(keys, m) >= n => i <= m
  BY <1>3b DEF enough
<1>5. Different(keys, i - 1) < n
  <2>1. CASE i = 1
    BY <1>1, <2>1
  <2>2. CASE i # 1
    <3>1. i - 1 \in 1 .. Len(keys) /\ ~(Different(keys, i - 1) >= n)
      BY <1>4, <2>2
    <3> QED
      BY <1>1, <3>1
  <2> QED
    BY <2>1, <2>2
<1>6. Different(keys, i) = Different(keys, i - 1) + (IF IsNew(keys, i) THEN 1 ELSE 0)
  BY <1>4, DifferentSteps
<1>7. Different(keys, i - 1) \in Nat /\ i \in DOMAIN keys
  BY <1>1, <1>4
<1>8. IsNew(keys, i)
  BY <1>4, <1>5, <1>6, <1>7
<1> QED
  BY <1>4, <1>5, <1>6, <1>7, <1>8

LEMMA PlaceIsUnique ==
    ASSUME NEW S, NEW keys \in Seq(S), NEW i \in DOMAIN keys, NEW j \in DOMAIN keys,
           IsNew(keys, i), IsNew(keys, j), Different(keys, i) = Different(keys, j)
    PROVE  i = j
<1>1. ASSUME NEW a \in DOMAIN keys, NEW b \in DOMAIN keys, a < b, IsNew(keys, b)
      PROVE  Different(keys, a) < Different(keys, b)
  <2>1. b - 1 \in a .. Len(keys) /\ a \in 0 .. Len(keys) /\ b \in 1 .. Len(keys)
    BY <1>1
  <2>2. Different(keys, a) <= Different(keys, b - 1)
    BY <2>1, DifferentGrows
  <2>3. Different(keys, b) = Different(keys, b - 1) + 1
    BY <1>1, <2>1, DifferentSteps
  <2>4. Different(keys, a) \in Nat /\ Different(keys, b - 1) \in Nat
    BY <2>1, DifferentSteps
  <2> QED
    BY <2>2, <2>3, <2>4
<1>2. Different(keys, i) \in Nat
  BY DifferentSteps
<1>3. i < j \/ j < i \/ i = j
  OBVIOUS
<1> QED
  BY <1>1, <1>2, <1>3

LEMMA KeyHasFirst ==
    ASSUME NEW S, NEW keys \in Seq(S), NEW k \in DOMAIN keys
    PROVE  \E i \in DOMAIN keys : i <= k /\ IsNew(keys, i) /\ keys[i] = keys[k]
<1> DEFINE same == {i \in 1 .. Len(keys) : keys[i] = keys[k]}
<1>1. same \in SUBSET Nat /\ k \in same
  OBVIOUS
<1> HIDE DEF same
<1>2. PICK i \in same : \A m \in same : i <= m
  BY <1>1, LeastNat
<1>2a. i \in DOMAIN keys /\ keys[i] = keys[k] /\ i <= k
       /\ \A m \in DOMAIN keys : keys[m] = keys[k] => i <= m
  BY <1>1, <1>2 DEF same
<1>3. IsNew(keys, i)
  BY <1>2a DEF IsNew
<1> QED
  BY <1>2a, <1>3

\* The place FirstAt chooses, and the number of a first place.
LEMMA FirstAtNumber ==
    ASSUME NEW S, NEW keys \in Seq(S), NEW n \in 1 .. Different(keys, Len(keys))
    PROVE  /\ FirstAt(keys, n) \in DOMAIN keys
           /\ IsNew(keys, FirstAt(keys, n))
           /\ Different(keys, FirstAt(keys, n)) = n
  BY PlaceExists DEF FirstAt

LEMMA NumberOfFirst ==
    ASSUME NEW S, NEW keys \in Seq(S), NEW i \in DOMAIN keys, IsNew(keys, i)
    PROVE  /\ Different(keys, i) \in 1 .. Different(keys, Len(keys))
           /\ FirstAt(keys, Different(keys, i)) = i
<1>1. Different(keys, i) = Different(keys, i - 1) + 1 /\ Different(keys, i - 1) \in Nat
  BY DifferentSteps
<1>2. Different(keys, i) <= Different(keys, Len(keys)) /\ Different(keys, Len(keys)) \in Nat
  BY DifferentGrows, DifferentSteps
<1>3. Different(keys, i) \in 1 .. Different(keys, Len(keys))
  BY <1>1, <1>2
<1> QED
  BY <1>3, FirstAtNumber, PlaceIsUnique

\* What Firsts returns: a list of what was there, with no key twice and no key lost.
LEMMA FirstsFacts ==
    ASSUME NEW S, NEW keys \in Seq(S), NEW A, NEW list \in Seq(A), Len(list) = Len(keys)
    PROVE  LET short == Firsts(list, keys)
           IN  /\ short \in Seq(A) /\ Len(short) = Different(keys, Len(keys))
               /\ \A n \in DOMAIN short :
                    FirstAt(keys, n) \in DOMAIN keys /\ short[n] = list[FirstAt(keys, n)]
               /\ \A m, n \in DOMAIN short :
                    keys[FirstAt(keys, m)] = keys[FirstAt(keys, n)] => m = n
               /\ \A k \in DOMAIN keys : \E n \in DOMAIN short :
                    keys[FirstAt(keys, n)] = keys[k]
<1> DEFINE short == Firsts(list, keys)
           N == Different(keys, Len(keys))
<1>1. N \in Nat
  BY DifferentSteps
<1>2. \A n \in 1 .. N : FirstAt(keys, n) \in DOMAIN keys /\ IsNew(keys, FirstAt(keys, n))
                        /\ Different(keys, FirstAt(keys, n)) = n
  BY FirstAtNumber
<1>3. short = [n \in 1 .. N |-> list[FirstAt(keys, n)]]
  BY DEF Firsts
<1>4. \A n \in 1 .. N : list[FirstAt(keys, n)] \in A
  BY <1>2
<1> HIDE DEF short, N
<1>5. short \in Seq(A) /\ Len(short) = N /\ DOMAIN short = 1 .. N
  BY <1>1, <1>3, <1>4
<1>6. \A m, n \in DOMAIN short : keys[FirstAt(keys, m)] = keys[FirstAt(keys, n)] => m = n
  <2> SUFFICES ASSUME NEW m \in 1 .. N, NEW n \in 1 .. N,
                      keys[FirstAt(keys, m)] = keys[FirstAt(keys, n)]
               PROVE  m = n
    BY <1>5
  <2> DEFINE a == FirstAt(keys, m)
             b == FirstAt(keys, n)
  <2>1. a \in 1 .. Len(keys) /\ b \in 1 .. Len(keys) /\ IsNew(keys, a) /\ IsNew(keys, b)
        /\ Different(keys, a) = m /\ Different(keys, b) = n /\ keys[a] = keys[b]
    BY <1>2
  <2> HIDE DEF a, b
  <2>2. ~(a < b) /\ ~(b < a)
    BY <2>1 DEF IsNew
  <2>3. a = b
    BY <2>1, <2>2
  <2> QED
    BY <2>1, <2>3
<1>7. \A k \in DOMAIN keys : \E n \in DOMAIN short : keys[FirstAt(keys, n)] = keys[k]
  <2> SUFFICES ASSUME NEW k \in DOMAIN keys
               PROVE  \E n \in 1 .. N : keys[FirstAt(keys, n)] = keys[k]
    BY <1>5
  <2>1. PICK i \in DOMAIN keys : IsNew(keys, i) /\ keys[i] = keys[k]
    BY KeyHasFirst
  <2>2. Different(keys, i) \in 1 .. N /\ FirstAt(keys, Different(keys, i)) = i
    BY <2>1, NumberOfFirst DEF N
  <2> QED
    BY <2>1, <2>2
<1>8. \A n \in DOMAIN short : FirstAt(keys, n) \in DOMAIN keys /\ short[n] = list[FirstAt(keys, n)]
  BY <1>2, <1>3, <1>5
<1> QED
  BY <1>5, <1>6, <1>7, <1>8 DEF short, N

\* A beginning without duplicates stays where it is.
LEMMA FirstsKeepBeginning ==
    ASSUME NEW S, NEW keys \in Seq(S), NEW A, NEW list \in Seq(A), Len(list) = Len(keys),
           NEW m \in 0 .. Len(keys), \A i, j \in 1 .. m : keys[i] = keys[j] => i = j
    PROVE  /\ m <= Len(Firsts(list, keys))
           /\ \A i \in 1 .. m : Firsts(list, keys)[i] = list[i]
<1>1. \A i \in 1 .. m : i \in DOMAIN keys /\ IsNew(keys, i)
  BY DEF IsNew
<1>2. \A i \in 0 .. m : Different(keys, i) = i
  <2> DEFINE wrong == {i \in 0 .. m : Different(keys, i) # i}
  <2>1. SUFFICES ASSUME wrong # {} PROVE FALSE
    OBVIOUS
  <2>2. wrong \in SUBSET Nat
    OBVIOUS
  <2> HIDE DEF wrong
  <2>2a. PICK i \in wrong : \A k \in wrong : i <= k
    BY <2>1, <2>2, LeastNat
  <2>2b. i \in 0 .. m /\ Different(keys, i) # i
         /\ \A k \in 0 .. m : Different(keys, k) # k => i <= k
    BY <2>2a DEF wrong
  <2>3. i # 0
    BY <2>2b, DifferentSteps
  <2>4. i - 1 \in 0 .. m /\ Different(keys, i - 1) = i - 1 /\ i \in 1 .. m
    BY <2>2b, <2>3
  <2>5. Different(keys, i) = Different(keys, i - 1) + 1
    BY <1>1, <2>4, DifferentSteps
  <2> QED
    BY <2>2b, <2>4, <2>5
<1>3. \A i \in 1 .. m : i \in 1 .. Different(keys, Len(keys)) /\ FirstAt(keys, i) = i
  BY <1>1, <1>2, NumberOfFirst
<1>4. Len(Firsts(list, keys)) = Different(keys, Len(keys)) /\ Len(Firsts(list, keys)) \in Nat
  BY FirstsFacts
<1>4a. Firsts(list, keys) = [n \in 1 .. Different(keys, Len(keys)) |-> list[FirstAt(keys, n)]]
  BY DEF Firsts
<1>5. m <= Len(Firsts(list, keys))
  BY <1>3, <1>4
<1> QED
  BY <1>3, <1>4a, <1>5

-----------------------------------------------------------------------------
(* The inductive invariant, in parts.                                      *)

\* The counter in the checkpointed state counts this turn's corrections, and the node
\* that corrects is entered below the limit only.
CountInv ==
    /\ retries \in Nat /\ retries = corrections /\ retries <= MaxCorrections
    /\ node = "corrective_retrieval" => retries < MaxCorrections

EmptyInv == EmptyOnlyAfterCorrections

\* Only a question without sources is answered directly.
DirectInv == node = "direct_response" => required = {}

Resolves(markers, cs, ws) ==
    markers \subseteq Ids(cs, ws) /\ (Ids(cs, ws) # {} => markers # {})

\* What is about to be saved was verified, and so was what is saved.
AnswerInv ==
    /\ node = "persist_final" /\ required # {} => Resolves(answer, chunks, web)
    /\ response.required # {} => Resolves(response.answer, response.chunks, response.web)

\* The lists are lists; a branch that has returned in this superstep has a result.
TypeInv ==
    /\ required \subseteq Branches
    /\ chunks \in Seq(Chunks) /\ summary \in Seq(Chunks) /\ merged.chunks \in Seq(Chunks)
    /\ web \in Seq(External) /\ academic \in Seq(External) /\ merged.web \in Seq(External)
    /\ \A b \in DOMAIN found :
        found[b].page \in Seq(IF b = "local" THEN Chunks ELSE Sources)
    /\ node = "research" => Branches \ running \subseteq DOMAIN found
    /\ node = "corrective_retrieval" => required \ running \subseteq DOMAIN found

\* No list has a source that was not found in this turn, after a failure neither.
FoundInv ==
    /\ Range(chunks) \subseteq retrieved
    /\ SourceKeys(web) \subseteq retrieved /\ SourceKeys(academic) \subseteq retrieved
    /\ \A b \in DOMAIN found : Range(found[b].page) \subseteq retrieved
    /\ OnlyThisTurn

Distinct(list) == \A i, j \in DOMAIN list : list[i] = list[j] => i = j
Extends(list, prior) == Len(prior) <= Len(list) /\ \A i \in DOMAIN prior : list[i] = prior[i]

\* The summary has no chunk twice and none that is not there, and before a correction it
\* is the list of the chunks.
SummaryInv ==
    /\ "local" \in DOMAIN found => Distinct(found["local"].page)
    /\ node \in {"validate_input", "research"} => corrections = 0
    /\ node \in {"merge_evidence", "grade_evidence", "corrective_retrieval", "build_answer_plan",
                 "stream_synthesis"} =>
        /\ Distinct(summary) /\ Range(summary) \subseteq Range(chunks)
        /\ corrections = 0 => summary = chunks

\* The lists of the last merge are still there, or the beginning of longer ones.
MergedInv ==
    /\ Distinct(merged.chunks) /\ Distinct(KeysOf(merged.web))
    /\ node \in {"grade_evidence", "corrective_retrieval"} =>
        chunks = merged.chunks /\ web = merged.web
    /\ node = "merge_evidence" /\ corrections > 0 =>
        Extends(chunks, merged.chunks) /\ Extends(web, merged.web)

ListInv == TypeInv /\ FoundInv /\ SummaryInv /\ MergedInv

IInv == CountInv /\ EmptyInv /\ DirectInv /\ AnswerInv

-----------------------------------------------------------------------------
(* The lists of the graph.                                                 *)

LEMMA PagesAreLists ==
    ASSUME NEW S, NEW p \in Pages(S)
    PROVE  p \in Seq(S) /\ Distinct(p)
<1>1. PICK n \in 0 .. PageSize : p \in [1 .. n -> S]
  BY DEF Pages
<1>2. n \in Nat
  BY BoundsAssumption
<1>3. p \in Seq(S)
  BY <1>1, <1>2
<1>4. IsInjective(p)
  BY DEF Pages
<1> QED
  BY <1>3, <1>4 DEF IsInjective, Distinct

\* Every result of a branch is a list, and the chunks of one are distinct.
LEMMA ResultsAreLists ==
    ASSUME NEW b \in Branches, NEW result \in Outcomes(b)
    PROVE  /\ result.page \in Seq(IF b = "local" THEN Chunks ELSE Sources)
           /\ b = "local" => Distinct(result.page)
<1>1. CASE result = Skipped
  BY <1>1 DEF Skipped, Page, Distinct
<1>2. CASE b = "local" /\ result \in LocalResults
  <2>1. PICK p \in Pages(Chunks) : result = Page(p, "available")
    BY <1>2 DEF LocalResults
  <2>2. result.page = p
    BY <2>1 DEF Page
  <2> QED
    BY <1>2, <2>2, PagesAreLists
<1>3. CASE b # "local" /\ result \in MCPResults(b) \cup ProviderResults
  <2>1. \A p \in Pages(Sources) : Researched(p).page \in Seq(Sources)
    <3> SUFFICES ASSUME NEW p \in Pages(Sources) PROVE Researched(p).page \in Seq(Sources)
      OBVIOUS
    <3>1. Researched(p).page = p
      BY DEF Researched, Unavailable, Page
    <3> QED
      BY <3>1, PagesAreLists
  <2>2. \A a, c \in ToolReplies : Ranked(a, c) \subseteq Pages(Sources)
    <3> SUFFICES ASSUME NEW a \in ToolReplies, NEW c \in ToolReplies, NEW p \in Ranked(a, c)
                 PROVE  p \in Pages(Sources)
      OBVIOUS
    <3>1. a \in Seq(Sources) /\ c \in Seq(Sources)
      BY PagesAreLists DEF ToolReplies
    <3>2. Range(a) \cup Range(c) \subseteq Sources
      BY <3>1 DEF Range
    <3>3. PICK n \in 0 .. PageSize : p \in [1 .. n -> Range(a) \cup Range(c)]
      BY DEF Ranked, Pages
    <3>4. p \in [1 .. n -> Sources] /\ IsInjective(p)
      BY <3>2, <3>3 DEF Ranked, Pages
    <3> QED
      BY <3>3, <3>4 DEF Pages
  <2>3. CASE result \in MCPResults(b)
    <3>1. PICK p \in Pages(Sources) : result = Researched(p)
      <4>1. \A plan, a, c : a \in ToolReplies /\ c \in ToolReplies =>
              WebSearch(plan, a, c) \subseteq Pages(Sources)
              /\ AcademicSearch(plan, a, c) \subseteq Pages(Sources)
        BY <2>2 DEF WebSearch, AcademicSearch, ToolReplies
      <4> QED
        BY <2>3, <4>1 DEF MCPResults, MCPWebResults, MCPAcademicResults
    <3> QED
      BY <1>3, <2>1, <3>1
  <2>4. CASE result \in ProviderResults
    <3>1. <<>> \in Seq(Sources) /\ Unavailable.page = <<>> /\ Page(<<>>, "available").page = <<>>
      BY DEF Unavailable, Page
    <3>2. result \in MockResults => result.page \in Seq(Sources)
      <4> SUFFICES ASSUME result \in MockResults PROVE result.page \in Seq(Sources)
        OBVIOUS
      <4>1. PICK p \in Pages(Sources) : result = Page(p, "available")
        BY DEF MockResults
      <4>2. result.page = p
        BY <4>1 DEF Page
      <4> QED
        BY <4>2, PagesAreLists
    <3>3. result \in TavilyResults =>
            result.page \in Seq(Sources) \/ result = Page(<<>>, "available")
      BY <2>1 DEF TavilyResults
    <3> QED
      BY <1>3, <2>4, <3>1, <3>2, <3>3 DEF ProviderResults
  <2> QED
    BY <1>3, <2>3, <2>4
<1> QED
  BY <1>1, <1>2, <1>3 DEF Outcomes

LEMMA DedupedFacts ==
    ASSUME NEW list \in Seq(Chunks)
    PROVE  /\ Deduped(list) \in Seq(Chunks) /\ Distinct(Deduped(list))
           /\ Range(Deduped(list)) = Range(list)
<1> DEFINE short == Firsts(list, list)
<1>1. /\ short \in Seq(Chunks)
      /\ \A n \in DOMAIN short : FirstAt(list, n) \in DOMAIN list /\ short[n] = list[FirstAt(list, n)]
      /\ \A m, n \in DOMAIN short : list[FirstAt(list, m)] = list[FirstAt(list, n)] => m = n
      /\ \A k \in DOMAIN list : \E n \in DOMAIN short : list[FirstAt(list, n)] = list[k]
  BY FirstsFacts
<1> HIDE DEF short
<1>2. Distinct(short)
  BY <1>1 DEF Distinct
<1>3. Range(short) = Range(list)
  BY <1>1 DEF Range
<1> QED
  BY <1>1, <1>2, <1>3 DEF short, Deduped

LEMMA KeysAreList ==
    ASSUME NEW list \in Seq(External)
    PROVE  KeysOf(list) \in Seq(Sources) /\ Len(KeysOf(list)) = Len(list)
<1>1. \A i \in 1 .. Len(list) : list[i] \in External
  OBVIOUS
<1>2. \A i \in 1 .. Len(list) : list[i].key \in Sources
  BY <1>1 DEF External
<1>3. KeysOf(list) = [i \in 1 .. Len(list) |-> list[i].key]
  BY DEF KeysOf
<1> QED
  BY <1>2, <1>3

LEMMA RenumberedFacts ==
    ASSUME NEW list \in Seq(External)
    PROVE  /\ Renumbered(list) \in Seq(External) /\ Distinct(KeysOf(Renumbered(list)))
           /\ SourceKeys(Renumbered(list)) \subseteq SourceKeys(list)
<1> DEFINE keys == KeysOf(list)
           short == Firsts(list, keys)
<1>1. keys \in Seq(Sources) /\ Len(list) = Len(keys)
  BY KeysAreList
<1>2. \A i \in DOMAIN keys : keys[i] = list[i].key
  BY DEF KeysOf
<1> HIDE DEF keys
<1>3. /\ short \in Seq(External)
      /\ \A n \in DOMAIN short : FirstAt(keys, n) \in DOMAIN keys /\ short[n] = list[FirstAt(keys, n)]
      /\ \A m, n \in DOMAIN short : keys[FirstAt(keys, m)] = keys[FirstAt(keys, n)] => m = n
  BY <1>1, FirstsFacts
<1> HIDE DEF short
<1>4. \A n \in DOMAIN short : short[n].key = keys[FirstAt(keys, n)]
  BY <1>2, <1>3
<1>5. DOMAIN KeysOf(short) = DOMAIN short /\ \A n \in DOMAIN short : KeysOf(short)[n] = short[n].key
  BY DEF KeysOf
<1>6. Distinct(KeysOf(short))
  BY <1>3, <1>4, <1>5 DEF Distinct
<1>7. Range(KeysOf(short)) \subseteq Range(keys)
  BY <1>3, <1>4, <1>5 DEF Range
<1> QED
  BY <1>3, <1>6, <1>7 DEF short, keys, Renumbered, SourceKeys

\* What is appended to a list without duplicates does not move what was there.
LEMMA DedupedKeeps ==
    ASSUME NEW prior \in Seq(Chunks), Distinct(prior), NEW list \in Seq(Chunks),
           Extends(list, prior)
    PROVE  Extends(Deduped(list), prior)
<1>1. Len(prior) \in 0 .. Len(list)
      /\ \A i, j \in 1 .. Len(prior) : list[i] = list[j] => i = j
  BY DEF Distinct, Extends
<1>2. Len(prior) <= Len(Deduped(list)) /\ \A i \in 1 .. Len(prior) : Deduped(list)[i] = list[i]
  BY <1>1, FirstsKeepBeginning DEF Deduped
<1> QED
  BY <1>2 DEF Extends

LEMMA RenumberedKeeps ==
    ASSUME NEW prior \in Seq(External), Distinct(KeysOf(prior)), NEW list \in Seq(External),
           Extends(list, prior)
    PROVE  Extends(Renumbered(list), prior)
<1>1. KeysOf(list) \in Seq(Sources) /\ Len(KeysOf(list)) = Len(list)
  BY KeysAreList
<1>2. Len(prior) \in 0 .. Len(list)
  BY DEF Extends
<1>3. \A i, j \in 1 .. Len(prior) : KeysOf(list)[i] = KeysOf(list)[j] => i = j
  BY DEF Distinct, Extends, KeysOf
<1>4. Len(prior) <= Len(Renumbered(list))
      /\ \A i \in 1 .. Len(prior) : Renumbered(list)[i] = list[i]
  BY <1>1, <1>2, <1>3, FirstsKeepBeginning DEF Renumbered
<1> QED
  BY <1>4 DEF Extends

LEMMA DistinctIsDeduped ==
    ASSUME NEW list \in Seq(Chunks), Distinct(list)
    PROVE  Deduped(list) = list
<1>1. Extends(Deduped(list), list)
  BY DedupedKeeps DEF Extends
<1>2. Deduped(list) \in Seq(Chunks) /\ Distinct(Deduped(list)) /\ Range(Deduped(list)) = Range(list)
  BY DedupedFacts
<1>3. Len(Deduped(list)) <= Len(list)
  <2> SUFFICES ASSUME Len(list) < Len(Deduped(list)) PROVE FALSE
    BY <1>2
  <2> DEFINE n == Len(list) + 1
  <2>1. n \in DOMAIN Deduped(list)
    BY <1>2
  <2>2. PICK i \in DOMAIN list : list[i] = Deduped(list)[n]
    BY <1>2, <2>1 DEF Range
  <2>3. Deduped(list)[i] = Deduped(list)[n] /\ i \in DOMAIN Deduped(list) /\ i # n
    BY <1>1, <1>2, <2>2 DEF Extends
  <2> QED
    BY <1>2, <2>1, <2>3 DEF Distinct
<1> QED
  BY <1>1, <1>2, <1>3 DEF Extends

\* A list without duplicates is not longer than one that has all it has.
LEMMA DistinctIsShort ==
    ASSUME NEW s \in Seq(Chunks), Distinct(s), NEW t \in Seq(Chunks), Range(s) \subseteq Range(t)
    PROVE  Len(s) <= Len(t)
<1> DEFINE at == [i \in 1 .. Len(s) |-> CHOOSE j \in 1 .. Len(t) : t[j] = s[i]]
<1>1. \A i \in 1 .. Len(s) : at[i] \in 1 .. Len(t) /\ t[at[i]] = s[i]
  <2> SUFFICES ASSUME NEW i \in 1 .. Len(s)
               PROVE  \E j \in 1 .. Len(t) : t[j] = s[i]
    OBVIOUS
  <2>1. s[i] \in Range(t)
    <3>1. i \in DOMAIN s
      OBVIOUS
    <3>2. s[i] \in Range(s)
      BY <3>1 DEF Range
    <3> QED
      BY <3>2
  <2> QED
    BY <2>1 DEF Range
<1>2. at \in Injection(1 .. Len(s), 1 .. Len(t))
  BY <1>1, SMTT(30) DEF Injection, IsInjective, Distinct
<1>3. IsFiniteSet(1 .. Len(t)) /\ Cardinality(1 .. Len(t)) = Len(t)
      /\ Cardinality(1 .. Len(s)) = Len(s)
  <2>1. \A n \in Nat : IsFiniteSet(1 .. n) /\ Cardinality(1 .. n) = n
    BY FS_Interval
  <2> QED
    BY <2>1
<1> HIDE DEF at
<1> QED
  BY <1>2, <1>3, FS_Injection

-----------------------------------------------------------------------------
LEMMA InitIInv == ASSUME Init PROVE IInv
  BY BoundsAssumption
     DEF Init, NoResponse, IInv, CountInv, EmptyInv, EmptyOnlyAfterCorrections, DirectInv,
         AnswerInv

\* A grade over no evidence is "empty", whatever the question requires.
LEMMA NothingIsLacking ==
    ASSUME chunks = <<>>, web = <<>>, NEW related
    PROVE  Lacking(Grade(related))
<1>1. LocalEvidence = <<>> /\ WebEvidence = <<>>
  BY DEF LocalEvidence, WebEvidence
<1>2. Evidence = <<>>
  BY <1>1 DEF Evidence
<1>3. Len(Evidence) = 0
  BY <1>2
<1>4. Grade(related).status = "empty"
  BY <1>3 DEF Grade
<1> QED
  BY <1>4 DEF Lacking

\* A step that leaves the counters, the lists and the response alone, and goes to a node
\* of which the invariant says nothing.
LEMMA OtherStepsKeep ==
    ASSUME IInv, UNCHANGED <<retries, corrections, response>>,
           node' \notin {"corrective_retrieval", "build_answer_plan", "direct_response",
                         "persist_final"}
    PROVE  IInv'
  BY DEF IInv, CountInv, EmptyInv, EmptyOnlyAfterCorrections, DirectInv, AnswerInv, Resolves

\* A turn begins over channels that are read, are not read, or are new.
LEMMA StartTurnKeeps == ASSUME IInv, StartTurn \/ LoadFails \/ Restart PROVE IInv'
  BY BoundsAssumption
     DEF StartTurn, LoadFails, Restart, InitialState, NoResponse, history, IInv, CountInv,
         EmptyInv, EmptyOnlyAfterCorrections, DirectInv, AnswerInv

LEMMA GradeKeeps == ASSUME IInv, GradeEvidence PROVE IInv'
<1>1. UNCHANGED <<required, chunks, web, webStatus, mcp, retries, corrections, response>>
  BY DEF GradeEvidence, settings, lists, history
<1>2. CASE node' = "corrective_retrieval"
  <2>1. Correctable(grade')
    BY <1>2 DEF GradeEvidence
  <2> QED
    BY <1>1, <1>2, <2>1
       DEF IInv, CountInv, EmptyInv, EmptyOnlyAfterCorrections, DirectInv, AnswerInv,
           Correctable, Resolves
<1>3. CASE node' = "build_answer_plan" /\ ~Correctable(grade')
  <2>1. chunks = <<>> /\ web = <<>> => Lacking(grade')
    BY NothingIsLacking DEF GradeEvidence
  <2>2. chunks = <<>> /\ web = <<>> => retries = MaxCorrections \/ Unsearchable
    BY <1>3, <2>1, BoundsAssumption DEF Correctable, IInv, CountInv
  <2>3. EmptyInv'
    BY <1>1, <2>2 DEF IInv, CountInv, EmptyInv, EmptyOnlyAfterCorrections, Unsearchable
  <2> QED
    BY <1>1, <1>3, <2>3 DEF IInv, CountInv, DirectInv, AnswerInv, Resolves
<1> QED
  BY <1>2, <1>3 DEF GradeEvidence

LEMMA CorrectionKeeps == ASSUME IInv, CorrectiveRetrieval PROVE IInv'
  BY BoundsAssumption
     DEF CorrectiveRetrieval, IInv, CountInv, EmptyInv, EmptyOnlyAfterCorrections,
         DirectInv, AnswerInv, Resolves

LEMMA PlanKeeps == ASSUME IInv, Plan PROVE IInv'
  BY DEF Plan, Planned, Direct, history, IInv, CountInv, EmptyInv, EmptyOnlyAfterCorrections,
         DirectInv, AnswerInv, Resolves

\* A repaired answer cites what there is, and something if there is anything.
LEMMA VerifyKeeps == ASSUME IInv, VerifyAnswer PROVE IInv'
<1>1. Resolves(answer', chunks, web)
  BY DEF VerifyAnswer, Valid, Repaired, Resolves
<1>2. UNCHANGED <<chunks, web, response, retries, corrections, required>>
      /\ node' = "persist_final"
  BY DEF VerifyAnswer, lists, history
<1> QED
  BY <1>1, <1>2
     DEF IInv, CountInv, EmptyInv, EmptyOnlyAfterCorrections, DirectInv, AnswerInv, Resolves

LEMMA DirectKeeps == ASSUME IInv, DirectResponse PROVE IInv'
  BY DEF DirectResponse, history, IInv, CountInv, EmptyInv, EmptyOnlyAfterCorrections,
         DirectInv, AnswerInv, Resolves

LEMMA PersistKeeps == ASSUME IInv, PersistFinal PROVE IInv'
  BY DEF PersistFinal, FormattedResponse, history, IInv, CountInv, EmptyInv,
         EmptyOnlyAfterCorrections, DirectInv, AnswerInv, Resolves

\* The branches work inside a node.
LEMMA BranchesKeep ==
    ASSUME IInv, NEW b \in Branches, Return(b) \/ RaiseGathered(b)
    PROVE  IInv'
<1>1. UNCHANGED <<node, required, chunks, web, webStatus, mcp, answer, response, retries,
                  corrections>>
  BY DEF Return, RaiseGathered, settings, lists, history
<1>2. node \in {"research", "corrective_retrieval"}
  BY DEF Return, RaiseGathered
<1> QED
  BY <1>1, <1>2
     DEF IInv, CountInv, EmptyInv, EmptyOnlyAfterCorrections, DirectInv, AnswerInv, Resolves

LEMMA NextKeeps == ASSUME IInv, [Next]_vars PROVE IInv'
<1>1. CASE EndResearch \/ MergeEvidence \/ BuildAnswerPlan \/ Synthesize \/ Fail
  BY <1>1, OtherStepsKeep
     DEF EndResearch, MergeEvidence, BuildAnswerPlan, Synthesize, Fail, history
<1>2. CASE UNCHANGED vars
  BY <1>2
     DEF vars, settings, lists, history, IInv, CountInv, EmptyInv, EmptyOnlyAfterCorrections,
         Unsearchable, DirectInv, AnswerInv, Resolves
<1> QED
  BY <1>1, <1>2, StartTurnKeeps, PlanKeeps, BranchesKeep, GradeKeeps, CorrectionKeeps,
     DirectKeeps, VerifyKeeps, PersistKeeps DEF Next, Work

-----------------------------------------------------------------------------
(* Every step keeps the lists in order.                                    *)

LEMMA EmptyLists ==
    /\ \A S : <<>> \in Seq(S)
    /\ Range(<<>>) = {} /\ SourceKeys(<<>>) = {} /\ Distinct(<<>>) /\ Distinct(KeysOf(<<>>))
<1>1. KeysOf(<<>>) = <<>>
  BY DEF KeysOf
<1> QED
  BY <1>1 DEF Range, SourceKeys, Distinct

LEMMA InitListInv == ASSUME Init PROVE ListInv
<1>1. DOMAIN found = {}
  BY DEF Init
<1> QED
  BY <1>1, EmptyLists
     DEF Init, NoLists, ListInv, TypeInv, FoundInv, OnlyThisTurn, SummaryInv, MergedInv

\* The channels are emptied for the turn, or the saver that had them is gone.
LEMMA EmptyingKeepsLists ==
    ASSUME chunks' = <<>>, web' = <<>>, academic' = <<>>, summary' = <<>>, merged' = NoLists,
           corrections' = 0, required' = {}, DOMAIN found' = {}, node' \in {"new", "validate_input"}
    PROVE  ListInv'
  BY EmptyLists
     DEF NoLists, ListInv, TypeInv, FoundInv, OnlyThisTurn, SummaryInv, MergedInv

\* A step that leaves the lists alone and does not enter a node of which the invariant
\* demands more than of the one it leaves.
LEMMA OtherStepsKeepLists ==
    ASSUME ListInv, UNCHANGED <<lists, history>>, required' \subseteq Branches,
           UNCHANGED found \/ DOMAIN found' = {},
           node' = "research" => Branches \ running' = {},
           node' = "corrective_retrieval" => required' \ running' = {},
           node' \in {"grade_evidence", "corrective_retrieval", "build_answer_plan",
                      "stream_synthesis"} =>
                node \in {"grade_evidence", "build_answer_plan"},
           node' \in {"grade_evidence", "corrective_retrieval"} => node = "grade_evidence",
           node' \in {"validate_input", "research"} => node = "validate_input",
           node' \notin {"merge_evidence", "answered"}
    PROVE  ListInv'
<1>1. UNCHANGED <<chunks, web, academic, summary, merged, corrections, retrieved>>
  BY DEF lists, history
<1>2. TypeInv'
  BY <1>1 DEF ListInv, TypeInv
<1>3. FoundInv'
  BY <1>1 DEF ListInv, FoundInv, OnlyThisTurn
<1>4. SummaryInv'
  BY <1>1 DEF ListInv, SummaryInv
<1>5. MergedInv'
  BY <1>1 DEF ListInv, MergedInv
<1> QED
  BY <1>2, <1>3, <1>4, <1>5 DEF ListInv

\* A branch that returns, or raises.
LEMMA BranchesKeepLists ==
    ASSUME ListInv, NEW b \in Branches, Return(b) \/ RaiseGathered(b)
    PROVE  ListInv'
<1>1. UNCHANGED <<node, required, chunks, web, academic, summary, merged, corrections, response>>
      /\ running' = running \ {b}
  BY DEF Return, RaiseGathered, lists, history
<1>2. PICK page : /\ \E status : found' = FoundWith(b, Page(page, status))
                  /\ page \in Seq(IF b = "local" THEN Chunks ELSE Sources)
                  /\ b = "local" => Distinct(page)
                  /\ retrieved' = retrieved \cup Range(page)
  <2>1. CASE RaiseGathered(b)
    BY <2>1, EmptyLists DEF RaiseGathered, history
  <2>2. CASE Return(b)
    <3>1. PICK result \in Outcomes(b) : /\ found' = FoundWith(b, result)
                                        /\ retrieved' = retrieved \cup Range(result.page)
      BY <2>2 DEF Return
    <3>2. result = Page(result.page, result.status)
      BY DEF Outcomes, Skipped, Unavailable, LocalResults, MCPResults, MCPWebResults,
             MCPAcademicResults, ProviderResults, TavilyResults, MockResults, Researched, Page
    <3> QED
      BY <3>1, <3>2, ResultsAreLists
  <2> QED
    BY <2>1, <2>2
<1>3. /\ DOMAIN found' = DOMAIN found \cup {b}
      /\ found'[b].page = page
      /\ \A c \in DOMAIN found : c # b => found'[c] = found[c]
  <2>1. PICK status : found' = FoundWith(b, Page(page, status))
    BY <1>2
  <2> QED
    BY <2>1 DEF FoundWith, Page
<1>4. TypeInv'
  BY <1>1, <1>2, <1>3 DEF ListInv, TypeInv
<1>5. FoundInv'
  <2>1. \A c \in DOMAIN found' : Range(found'[c].page) \subseteq retrieved'
    BY <1>2, <1>3 DEF ListInv, FoundInv
  <2> QED
    BY <1>1, <1>2, <2>1 DEF ListInv, FoundInv, OnlyThisTurn
<1>6. SummaryInv'
  BY <1>1, <1>2, <1>3 DEF ListInv, SummaryInv
<1>7. MergedInv'
  BY <1>1 DEF ListInv, MergedInv
<1> QED
  BY <1>4, <1>5, <1>6, <1>7 DEF ListInv

LEMMA TypedIsList ==
    ASSUME NEW page \in Seq(Sources), NEW type \in {"web", "academic"}
    PROVE  /\ Typed(page, type) \in Seq(External)
           /\ SourceKeys(Typed(page, type)) = Range(page)
<1>1. Typed(page, type) = [i \in 1 .. Len(page) |-> [key |-> page[i], type |-> type]]
  BY DEF Typed
<1>2. \A i \in 1 .. Len(page) : [key |-> page[i], type |-> type] \in External
  BY DEF External
<1>3. KeysOf(Typed(page, type)) = [i \in 1 .. Len(page) |-> page[i]]
  BY <1>1 DEF KeysOf
<1>4. KeysOf(Typed(page, type)) = page
  BY <1>3
<1> QED
  BY <1>1, <1>2, <1>4 DEF SourceKeys

\* The branches write their channels.
LEMMA EndResearchKeepsLists == ASSUME ListInv, EndResearch PROVE ListInv'
<1>1. Branches \subseteq DOMAIN found
  BY DEF EndResearch, ListInv, TypeInv
<1>2. UNCHANGED <<required, running, response, merged, corrections, retrieved>>
      /\ node' = "merge_evidence" /\ DOMAIN found' = {}
      /\ chunks' = found["local"].page /\ summary' = found["local"].page
      /\ web' = Typed(found["web"].page, "web")
      /\ academic' = Typed(found["academic"].page, "academic")
  BY DEF EndResearch, history
<1>3. found["local"].page \in Seq(Chunks) /\ found["web"].page \in Seq(Sources)
      /\ found["academic"].page \in Seq(Sources)
  BY <1>1 DEF ListInv, TypeInv, Branches
<1>4. TypeInv'
  BY <1>2, <1>3, TypedIsList DEF ListInv, TypeInv
<1>5. FoundInv'
  <2>1. \A b \in Branches : Range(found[b].page) \subseteq retrieved
    BY <1>1 DEF ListInv, FoundInv
  <2>2. SourceKeys(web') = Range(found["web"].page)
        /\ SourceKeys(academic') = Range(found["academic"].page)
    BY <1>2, <1>3, TypedIsList
  <2>3. Range(chunks') \subseteq retrieved /\ SourceKeys(web') \subseteq retrieved
        /\ SourceKeys(academic') \subseteq retrieved
    BY <1>2, <2>1, <2>2 DEF Branches
  <2> QED
    BY <1>2, <2>3 DEF FoundInv, OnlyThisTurn
<1>6. SummaryInv'
  BY <1>1, <1>2 DEF ListInv, SummaryInv, Branches
<1>7. MergedInv'
  <2>1. corrections = 0
    BY DEF EndResearch, ListInv, SummaryInv
  <2> QED
    BY <1>2, <2>1 DEF ListInv, MergedInv
<1> QED
  BY <1>4, <1>5, <1>6, <1>7 DEF ListInv

LEMMA MergeKeepsLists == ASSUME ListInv, MergeEvidence PROVE ListInv'
<1>1. UNCHANGED <<required, running, found, academic, summary, response, corrections, retrieved>>
      /\ node = "merge_evidence" /\ node' = "grade_evidence"
      /\ chunks' = Deduped(chunks) /\ web' = Renumbered(web \o academic)
      /\ merged' = [chunks |-> chunks', web |-> web']
  BY DEF MergeEvidence, superstep
<1>2. chunks \in Seq(Chunks) /\ web \in Seq(External) /\ academic \in Seq(External)
  BY DEF ListInv, TypeInv
<1>3. chunks' \in Seq(Chunks) /\ Distinct(chunks') /\ Range(chunks') = Range(chunks)
  BY <1>1, <1>2, DedupedFacts
<1>4. web' \in Seq(External) /\ Distinct(KeysOf(web'))
      /\ SourceKeys(web') \subseteq SourceKeys(web) \cup SourceKeys(academic)
  <2>1. web \o academic \in Seq(External)
    BY <1>2
  <2>2. SourceKeys(web \o academic) \subseteq SourceKeys(web) \cup SourceKeys(academic)
    BY <1>2 DEF SourceKeys, KeysOf, Range
  <2> QED
    BY <1>1, <2>1, <2>2, RenumberedFacts
<1>5. TypeInv'
  BY <1>1, <1>3, <1>4 DEF ListInv, TypeInv
<1>6. FoundInv'
  BY <1>1, <1>3, <1>4 DEF ListInv, FoundInv, OnlyThisTurn
<1>7. SummaryInv'
  <2>1. corrections = 0 => chunks' = chunks
    BY <1>1, <1>2, DistinctIsDeduped DEF ListInv, SummaryInv
  <2> QED
    BY <1>1, <1>3, <2>1 DEF ListInv, SummaryInv
<1>8. MergedInv'
  BY <1>1, <1>3, <1>4 DEF MergedInv
<1> QED
  BY <1>5, <1>6, <1>7, <1>8 DEF ListInv

LEMMA AppendingExtends ==
    ASSUME NEW S, NEW prior \in Seq(S), NEW new \in Seq(S)
    PROVE  /\ Preserved(prior, new) \in Seq(S) /\ Extends(Preserved(prior, new), prior)
           /\ Range(Preserved(prior, new)) = Range(prior) \cup Range(new)
<1>1. Preserved(prior, new) = prior \o new
  BY DEF Preserved
<1>2. /\ prior \o new \in Seq(S) /\ Len(prior \o new) = Len(prior) + Len(new)
      /\ \A i \in 1 .. Len(prior) : (prior \o new)[i] = prior[i]
      /\ \A i \in 1 .. Len(new) : (prior \o new)[Len(prior) + i] = new[i]
  OBVIOUS
<1>3. Extends(prior \o new, prior)
  BY <1>2 DEF Extends
<1>4. Range(prior \o new) = Range(prior) \cup Range(new)
  <2>1. ASSUME NEW i \in 1 .. Len(prior \o new)
        PROVE  (prior \o new)[i] \in Range(prior) \cup Range(new)
    <3>1. CASE i \in 1 .. Len(prior)
      BY <1>2, <3>1 DEF Range
    <3>2. CASE i - Len(prior) \in 1 .. Len(new)
      <4>1. (prior \o new)[i] = new[i - Len(prior)]
        BY <1>2, <3>2
      <4> QED
        BY <3>2, <4>1 DEF Range
    <3> QED
      BY <1>2, <3>1, <3>2
  <2>2. \A i \in 1 .. Len(prior) : prior[i] \in Range(prior \o new)
    BY <1>2 DEF Range
  <2>3. \A i \in 1 .. Len(new) : new[i] \in Range(prior \o new)
    <3> SUFFICES ASSUME NEW i \in 1 .. Len(new) PROVE new[i] \in Range(prior \o new)
      OBVIOUS
    <3>1. Len(prior) + i \in DOMAIN (prior \o new) /\ (prior \o new)[Len(prior) + i] = new[i]
      BY <1>2
    <3> QED
      BY <3>1 DEF Range
  <2>4. DOMAIN (prior \o new) = 1 .. Len(prior \o new) /\ DOMAIN prior = 1 .. Len(prior)
        /\ DOMAIN new = 1 .. Len(new)
    BY <1>2
  <2> QED
    BY <2>1, <2>2, <2>3, <2>4 DEF Range
<1> QED
  BY <1>1, <1>2, <1>3, <1>4

LEMMA AppendingSources ==
    ASSUME NEW prior \in Seq(External), NEW new \in Seq(External)
    PROVE  SourceKeys(Preserved(prior, new)) = SourceKeys(prior) \cup SourceKeys(new)
<1>1. ASSUME NEW list \in Seq(External)
      PROVE  SourceKeys(list) = {s.key : s \in Range(list)}
  BY DEF SourceKeys, KeysOf, Range
<1> QED
  BY <1>1, AppendingExtends

LEMMA CorrectionKeepsLists ==
    ASSUME ListInv, corrections \in Nat, CorrectiveRetrieval
    PROVE  ListInv'
<1>1. UNCHANGED <<required, running, response, merged, retrieved>>
      /\ node = "corrective_retrieval" /\ node' = "merge_evidence" /\ DOMAIN found' = {}
      /\ corrections' = corrections + 1 /\ corrections' # 0
  BY DEF CorrectiveRetrieval
<1>2. \A b \in Branches : Ran(b) => b \in DOMAIN found
  BY DEF CorrectiveRetrieval, Ran, ListInv, TypeInv
<1>3. Extends(chunks, chunks) /\ Extends(web, web)
  BY DEF ListInv, TypeInv, Extends
<1>4. /\ chunks' \in Seq(Chunks) /\ summary' \in Seq(Chunks) /\ Extends(chunks', chunks)
      /\ Range(chunks') \subseteq retrieved
      /\ Distinct(summary') /\ Range(summary') \subseteq Range(chunks')
  <2>1. CASE Ran("local")
    <3>1. chunks' = Preserved(chunks, found["local"].page) /\ summary' = found["local"].page
      BY <2>1 DEF CorrectiveRetrieval
    <3>2. found["local"].page \in Seq(Chunks) /\ Distinct(found["local"].page)
          /\ Range(found["local"].page) \subseteq retrieved
      BY <1>2, <2>1 DEF ListInv, TypeInv, FoundInv, SummaryInv, Branches
    <3>3. chunks \in Seq(Chunks) /\ Range(chunks) \subseteq retrieved
      BY DEF ListInv, TypeInv, FoundInv
    <3> QED
      BY <3>1, <3>2, <3>3, AppendingExtends
  <2>2. CASE ~Ran("local")
    <3>1. chunks' = chunks /\ summary' = summary
      BY <2>2 DEF CorrectiveRetrieval
    <3> QED
      BY <1>1, <1>3, <3>1 DEF ListInv, TypeInv, FoundInv, SummaryInv
  <2> QED
    BY <2>1, <2>2
<1>5. web' \in Seq(External) /\ Extends(web', web) /\ SourceKeys(web') \subseteq retrieved
  <2>1. CASE Ran("web")
    <3>1. web' = Preserved(web, Typed(found["web"].page, "web"))
      BY <2>1 DEF CorrectiveRetrieval
    <3>2. found["web"].page \in Seq(Sources) /\ Range(found["web"].page) \subseteq retrieved
      BY <1>2, <2>1 DEF ListInv, TypeInv, FoundInv, Branches
    <3>3. web \in Seq(External) /\ SourceKeys(web) \subseteq retrieved
      BY DEF ListInv, TypeInv, FoundInv
    <3>4. Typed(found["web"].page, "web") \in Seq(External)
          /\ SourceKeys(Typed(found["web"].page, "web")) \subseteq retrieved
      BY <3>2, TypedIsList
    <3> QED
      BY <3>1, <3>3, <3>4, AppendingExtends, AppendingSources
  <2>2. CASE ~Ran("web")
    <3>1. web' = web
      BY <2>2 DEF CorrectiveRetrieval
    <3> QED
      BY <1>3, <3>1 DEF ListInv, TypeInv, FoundInv
  <2> QED
    BY <2>1, <2>2
<1>6. academic' \in Seq(External) /\ SourceKeys(academic') \subseteq retrieved
  <2>1. CASE Ran("academic")
    <3>1. academic' = Preserved(academic, Typed(found["academic"].page, "academic"))
      BY <2>1 DEF CorrectiveRetrieval
    <3>2. found["academic"].page \in Seq(Sources)
          /\ Range(found["academic"].page) \subseteq retrieved
      BY <1>2, <2>1 DEF ListInv, TypeInv, FoundInv, Branches
    <3>3. academic \in Seq(External) /\ SourceKeys(academic) \subseteq retrieved
      BY DEF ListInv, TypeInv, FoundInv
    <3>4. Typed(found["academic"].page, "academic") \in Seq(External)
          /\ SourceKeys(Typed(found["academic"].page, "academic")) \subseteq retrieved
      BY <3>2, TypedIsList
    <3> QED
      BY <3>1, <3>3, <3>4, AppendingExtends, AppendingSources
  <2>2. CASE ~Ran("academic")
    <3>1. academic' = academic
      BY <2>2 DEF CorrectiveRetrieval
    <3> QED
      BY <3>1 DEF ListInv, TypeInv, FoundInv
  <2> QED
    BY <2>1, <2>2
<1>7. TypeInv'
  BY <1>1, <1>4, <1>5, <1>6 DEF ListInv, TypeInv
<1>8. FoundInv'
  BY <1>1, <1>4, <1>5, <1>6 DEF ListInv, FoundInv, OnlyThisTurn
<1>9. SummaryInv'
  BY <1>1, <1>4 DEF SummaryInv
<1>10. MergedInv'
  BY <1>1, <1>4, <1>5 DEF ListInv, MergedInv
<1> QED
  BY <1>7, <1>8, <1>9, <1>10 DEF ListInv

LEMMA PersistKeepsLists == ASSUME ListInv, PersistFinal PROVE ListInv'
<1>1. UNCHANGED <<required, running, found, chunks, web, academic, summary, merged, corrections,
                  retrieved>>
      /\ node' = "answered" /\ response'.chunks = chunks /\ response'.web = web
  BY DEF PersistFinal, FormattedResponse, superstep, lists, history
<1>2. TypeInv' /\ SummaryInv' /\ MergedInv'
  BY <1>1 DEF ListInv, TypeInv, SummaryInv, MergedInv
<1>3. FoundInv'
  BY <1>1 DEF ListInv, FoundInv, OnlyThisTurn
<1> QED
  BY <1>2, <1>3 DEF ListInv

LEMMA NextKeepsLists ==
    ASSUME ListInv, corrections \in Nat, [Next]_vars
    PROVE  ListInv'
<1>1. CASE StartTurn
  <2>1. DOMAIN found' = {} /\ merged' = NoLists /\ corrections' = 0 /\ retrieved' = {}
        /\ node' = "validate_input"
    BY <1>1 DEF StartTurn
  <2> QED
    BY <1>1, <2>1, EmptyingKeepsLists DEF StartTurn, InitialState
<1>2. CASE Restart
  <2>1. CASE saver = "memory"
    BY <1>2, <2>1, EmptyingKeepsLists DEF Restart
  <2>2. CASE saver # "memory"
    BY <1>2, <2>2, OtherStepsKeepLists DEF Restart, ListInv, TypeInv
  <2> QED
    BY <2>1, <2>2
<1>3. CASE Fail \/ LoadFails
  <2>1. UNCHANGED found \/ DOMAIN found' = {}
    BY <1>3 DEF Fail, LoadFails, superstep
  <2> QED
    BY <1>3, <2>1, OtherStepsKeepLists DEF Fail, LoadFails, superstep, ListInv, TypeInv
<1>4. CASE Plan
  <2>1. required' \subseteq Branches
    <3>1. PICK words, selected, context :
            \E analysis \in Analyses(words, selected, context) : required' = Planned(analysis)
      BY <1>4 DEF Plan
    <3>2. PICK analysis \in Analyses(words, selected, context) : required' = Planned(analysis)
      BY <3>1
    <3>3. RuleSources(words, selected) \subseteq Branches
      BY DEF RuleSources, Branches
    <3>4. analysis.sources \subseteq Branches
      BY <3>2, <3>3 DEF Analyses, RuleAnalysis, ModelAnalyses, Analysis
    <3> QED
      BY <3>2, <3>4 DEF Planned
  <2> QED
    BY <1>4, <2>1, OtherStepsKeepLists DEF Plan
<1>5. CASE GradeEvidence
  BY <1>5, OtherStepsKeepLists DEF GradeEvidence, ListInv, TypeInv
<1>6. CASE BuildAnswerPlan \/ Synthesize \/ DirectResponse \/ VerifyAnswer
  BY <1>6, OtherStepsKeepLists
     DEF BuildAnswerPlan, Synthesize, DirectResponse, VerifyAnswer, superstep, ListInv, TypeInv
<1>7. CASE UNCHANGED vars
  BY <1>7
     DEF vars, settings, superstep, lists, history, ListInv, TypeInv, FoundInv, OnlyThisTurn,
         SummaryInv, MergedInv
<1> QED
  BY <1>1, <1>2, <1>3, <1>4, <1>5, <1>6, <1>7, BranchesKeepLists, EndResearchKeepsLists,
     MergeKeepsLists, CorrectionKeepsLists, PersistKeepsLists
  DEF Next, Work

LEMMA InvariantHolds == Spec => [](IInv /\ ListInv)
<1>1. Init => IInv /\ ListInv
  BY InitIInv, InitListInv
<1>2. IInv /\ ListInv /\ [Next]_vars => (IInv /\ ListInv)'
  <2>1. IInv => corrections \in Nat
    BY DEF IInv, CountInv
  <2> QED
    BY <2>1, NextKeeps, NextKeepsLists
<1> QED
  BY <1>1, <1>2, PTL DEF Spec

-----------------------------------------------------------------------------
(* The theorems.                                                           *)

\* An answer is planned over no evidence only when this turn's corrections are used up or
\* the search is known to be unavailable: a counter left by an earlier turn or a failed
\* one never takes its place (corrective_route, build_initial_agent_state).
THEOREM EmptyAfterCorrections == Spec => []EmptyOnlyAfterCorrections
<1>1. IInv => EmptyOnlyAfterCorrections
  BY DEF IInv, EmptyInv
<1> QED
  BY <1>1, InvariantHolds, PTL

\* Every marker of a researched answer names a source that is returned with it, and an
\* answer with sources cites one (verify_answer_node, repair_answer_citations).
THEOREM CitationsAreResolved == Spec => []CitationsResolve
<1>1. IInv => CitationsResolve
  BY DEF IInv, AnswerInv, Resolves, CitationsResolve
<1> QED
  BY <1>1, InvariantHolds, PTL

\* A turn corrects at most as often as its plan says, although the graph loops.
THEOREM CorrectionsAreBounded == Spec => [](corrections \in 0 .. MaxCorrections)
<1>1. IInv => corrections \in 0 .. MaxCorrections
  BY BoundsAssumption DEF IInv, CountInv
<1> QED
  BY <1>1, InvariantHolds, PTL

\* The sources of a response were found by its own turn, over channels that outlive turns
\* and failures (build_initial_agent_state, merge_evidence_node, format_response).
THEOREM ResponsesAreOfTheirTurn == Spec => []OnlyThisTurn
<1>1. ListInv => OnlyThisTurn
  BY DEF ListInv, FoundInv
<1> QED
  BY <1>1, InvariantHolds, PTL

\* The local summary and the answer that it is put into name what there is
\* (local_library_agent_node, prepare_agent_synthesis).
THEOREM SummariesAreCited == Spec => []SummaryIsCited
<1>1. ASSUME ListInv, node = "stream_synthesis" PROVE ReferenceAnswer \subseteq Ids(chunks, web)
  <2>1. Len(summary) <= Len(chunks) /\ summary \in Seq(Chunks) /\ chunks \in Seq(Chunks)
    BY <1>1, DistinctIsShort DEF ListInv, TypeInv, SummaryInv
  <2>2. DOMAIN summary \subseteq DOMAIN chunks
    BY <2>1
  <2>3. LocalAnswer \subseteq Ids(chunks, web)
    BY <2>2 DEF LocalAnswer, Ids
  <2> QED
    BY <2>3 DEF ReferenceAnswer, BothAnswer, WebAnswer, Ids
<1>2. ListInv => SummaryIsCited
  BY <1>1 DEF SummaryIsCited, ListInv, SummaryInv
<1> QED
  BY <1>2, InvariantHolds, PTL

\* What was merged before a correction keeps its number, whatever the correction finds
\* (_preserve_prior_evidence, merge_evidence_node).
THEOREM EvidenceKeepsItsNumber == Spec => PriorEvidenceKept
<1>1. ASSUME ListInv, [Next]_vars
      PROVE  [node = "merge_evidence" /\ corrections > 0 =>
                /\ IsPrefix(merged.chunks, chunks')
                /\ IsPrefix(merged.web, web')]_vars
  <2> SUFFICES ASSUME Next, node = "merge_evidence", corrections > 0
               PROVE  IsPrefix(merged.chunks, chunks') /\ IsPrefix(merged.web, web')
    BY <1>1
  <2>1. /\ Extends(chunks, merged.chunks) /\ Extends(web, merged.web)
        /\ chunks \in Seq(Chunks) /\ merged.chunks \in Seq(Chunks) /\ Distinct(merged.chunks)
        /\ web \in Seq(External) /\ merged.web \in Seq(External) /\ academic \in Seq(External)
        /\ Distinct(KeysOf(merged.web))
    BY <1>1 DEF ListInv, TypeInv, MergedInv
  <2>2. MergeEvidence \/ UNCHANGED <<chunks, web>>
    BY DEF Next, Work, StartTurn, LoadFails, Restart, Fail, Plan, Return, RaiseGathered,
           EndResearch, GradeEvidence, CorrectiveRetrieval, BuildAnswerPlan, Synthesize,
           DirectResponse, VerifyAnswer, PersistFinal, lists
  <2>3. /\ chunks' \in Seq(Chunks) /\ Extends(chunks', merged.chunks)
        /\ web' \in Seq(External) /\ Extends(web', merged.web)
    <3>1. CASE UNCHANGED <<chunks, web>>
      BY <2>1, <3>1
    <3>2. CASE MergeEvidence
      <4>1. web \o academic \in Seq(External) /\ Extends(web \o academic, merged.web)
        BY <2>1 DEF Extends
      <4>2. chunks' = Deduped(chunks) /\ web' = Renumbered(web \o academic)
        BY <3>2 DEF MergeEvidence
      <4> QED
        BY <2>1, <4>1, <4>2, DedupedKeeps, DedupedFacts, RenumberedKeeps, RenumberedFacts
    <3> QED
      BY <2>2, <3>1, <3>2
  <2>4. ASSUME NEW S, NEW s \in Seq(S), NEW t \in Seq(S), Extends(t, s)
        PROVE  IsPrefix(s, t)
    <3>1. SubSeq(s, 1, Len(s)) = SubSeq(t, 1, Len(s))
      BY <2>4 DEF Extends
    <3> QED
      BY <2>4, <3>1 DEF Extends, IsPrefix
  <2> QED
    BY <2>1, <2>3, <2>4
<1> QED
  BY <1>1, InvariantHolds, PTL DEF Spec, PriorEvidenceKept

-----------------------------------------------------------------------------
(* The calls of the chat provider that a turn of the graph makes           *)
(* (ChatCalls, whose constants and variables are its own).                 *)

\* Before a run starts it has captured nothing and called nobody.
FreshRun == pc = "new" => used = {} /\ snapshot = None

CallInv == FreshRun /\ OneProvider

\* A call is made with the captured client, and by a run that has started.
LEMMA CallKeepsProvider ==
    ASSUME CallInv, NEW method, Open(method), pc # "new", pc' # "new"
    PROVE  CallInv'
  BY DEF CallInv, FreshRun, OneProvider, Open, Current

\* What leaves the calls made and the captured profile alone keeps the invariant.
LEMMA OtherStepsKeepProvider ==
    ASSUME CallInv, used' = used, snapshot' = snapshot, pc' = "new" => pc = "new"
    PROVE  CallInv'
  BY DEF CallInv, FreshRun, OneProvider

LEMMA RunKeepsProvider ==
    ASSUME CallInv, Run
    PROVE  CallInv'
<1>1. CASE StartRun
  BY <1>1 DEF CallInv, FreshRun, OneProvider, StartRun
<1>2. CASE AnalyzeByRules
  BY <1>2, OtherStepsKeepProvider DEF AnalyzeByRules
<1>3. CASE AskAnalysis
  BY <1>3, CallKeepsProvider DEF AskAnalysis
<1>4. CASE Clarify
  BY <1>4, OtherStepsKeepProvider DEF Clarify
<1>5. CASE AskAnswer
  BY <1>5, CallKeepsProvider DEF AskAnswer
<1> QED
  BY <1>1, <1>2, <1>3, <1>4, <1>5 DEF Run

LEMMA UpstreamKeepsProvider ==
    ASSUME CallInv, Upstream
    PROVE  CallInv'
<1>1. used' = used /\ snapshot' = snapshot /\ pc' = pc
  BY DEF Upstream, Speak, StopSpeaking, ReportError, Close,
         Break, Service
<1> QED
  BY <1>1, OtherStepsKeepProvider

LEMMA ConsumeKeepsProvider ==
    ASSUME CallInv, Consume
    PROVE  CallInv'
<1>1. used' = used /\ snapshot' = snapshot
  BY DEF Consume, Read, ReadRefused, ReadBroken, Fails,
         EndOfStream, EndOfMetrics, ReadWhole, ReadStructured,
         Reader
<1>2. pc' = "new" => pc = "new"
  BY DEF Consume, Read, ReadRefused, ReadBroken, Fails,
         GiveUp, EndOfStream, EndOfMetrics, ReadWhole,
         ReadStructured
<1> QED
  BY <1>1, <1>2, OtherStepsKeepProvider

\* No run calls the client of a profile other than the one it captured: switching
\* the active profile takes effect with the next run (provider_request_snapshot).
THEOREM ProviderCaptured == CallsSpec => []OneProvider
<1>1. CallsInit => CallInv
  BY DEF CallsInit, CallInv, FreshRun, OneProvider
<1>2. CallInv /\ [CallsNext]_callVars => CallInv'
  <2> SUFFICES ASSUME CallInv, [CallsNext]_callVars PROVE CallInv'
    OBVIOUS
  <2>1. CASE Switch
    BY <2>1, OtherStepsKeepProvider DEF Switch
  <2>2. CASE UNCHANGED callVars
    BY <2>2, OtherStepsKeepProvider DEF callVars
  <2> QED
    BY <2>1, <2>2, RunKeepsProvider, UpstreamKeepsProvider, ConsumeKeepsProvider
       DEF CallsNext
<1>3. CallInv => OneProvider
  BY DEF CallInv
<1> QED
  BY <1>1, <1>2, <1>3, PTL DEF CallsSpec

-----------------------------------------------------------------------------
(* A streamed answer is all that the model said.                           *)

Streaming == Calling /\ way = "stream" /\ Adapter(client) # "gemini"

WireEvent == [kind : {"text", "finish", "usage", "done", "error"}, text : Texts,
              reason : {"none", "stop", "length"}]

\* at[i] words were said before the end of the i-th event that is still to be read.
IsCut(at) ==
    /\ at \in [0 .. Len(wire) -> Nat]
    /\ \A i \in 0 .. Len(wire) : at[i] <= Len(said)
    /\ at[0] = Len(text) /\ at[Len(wire)] = Len(said)
    /\ \A i \in 1 .. Len(wire) :
        /\ at[i] = at[i - 1] + Len(wire[i].text)
        /\ \A k \in 1 .. Len(wire[i].text) : said[at[i - 1] + k] = wire[i].text[k]

\* What was delivered and what is still to be read make up what was said.
NothingIsLost ==
    /\ \A k \in 1 .. Len(text) : text[k] = said[k]
    /\ \E at \in [0 .. Len(wire) -> Nat] : IsCut(at)

StreamTypes ==
    /\ said \in Texts /\ text \in Texts /\ wire \in Seq(WireEvent)
    /\ finish \in {"none", "stop", "length"}

\* The end is on the wire, or delivered, only when the model has come to one.
EndIsTrue ==
    /\ \A i \in 1 .. Len(wire) :
        /\ wire[i].kind = "finish" => wire[i].reason = ended
        /\ wire[i].kind \in {"finish", "done"} => ended \in {"stop", "length"}
    /\ finish # "none" => ended \in {"stop", "length"}
    /\ finish # "none" /\ Adapter(client) # "anthropic" => finish = ended

StreamInv ==
    /\ Streaming => StreamTypes /\ EndIsTrue /\ NothingIsLost
    /\ StreamedIsComplete

\* Texts are sequences, whatever they are made of.
LEMMA TextsJoin ==
    ASSUME NEW s \in Texts, NEW d \in Texts
    PROVE  /\ Len(s) \in Nat /\ s \o d \in Texts /\ Len(s \o d) = Len(s) + Len(d)
           /\ \A k \in 1 .. Len(s) : (s \o d)[k] = s[k]
           /\ \A k \in 1 .. Len(d) : (s \o d)[Len(s) + k] = d[k]
<1> DEFINE W == {"w", "_"}
<1>1. s \in Seq(W) /\ d \in Seq(W) /\ Texts = Seq(W)
  BY DEF Texts
<1> HIDE DEF W
<1>2. s \o d \in Seq(W) /\ Len(s) \in Nat
  BY <1>1
<1>3. /\ Len(s \o d) = Len(s) + Len(d)
      /\ \A k \in 1 .. Len(s) : (s \o d)[k] = s[k]
      /\ \A k \in 1 .. Len(d) : (s \o d)[Len(s) + k] = d[k]
  BY <1>1
<1> QED
  BY <1>1, <1>2, <1>3

LEMMA EqualTexts ==
    ASSUME NEW s \in Texts, NEW t \in Texts, Len(s) = Len(t),
           \A k \in 1 .. Len(s) : s[k] = t[k]
    PROVE  s = t
<1> DEFINE W == {"w", "_"}
<1>1. s \in Seq(W) /\ t \in Seq(W)
  BY DEF Texts
<1> HIDE DEF W
<1> QED
  BY <1>1

LEMMA NoText == <<>> \in Texts /\ <<"w">> \in Texts
  BY DEF Texts

LEMMA WireEvents ==
    ASSUME NEW kind \in {"text", "finish", "usage", "done", "error"},
           NEW reason \in {"none", "stop", "length"}, NEW t \in Texts
    PROVE  /\ Event(kind) \in WireEvent /\ Event(kind).text = <<>>
           /\ Event(kind).kind = kind
           /\ FinishEvent(reason) \in WireEvent /\ FinishEvent(reason).text = <<>>
           /\ FinishEvent(reason).reason = reason
           /\ FinishEvent(reason).kind = "finish"
           /\ TextEvent(t) \in WireEvent /\ TextEvent(t).text = t
           /\ TextEvent(t).kind = "text"
<1>1. Event(kind) = [kind |-> kind, text |-> <<>>, reason |-> "none"]
  BY DEF Event
<1>2. FinishEvent(reason) = [kind |-> "finish", text |-> <<>>, reason |-> reason]
  BY DEF Event, FinishEvent
<1>3. TextEvent(t) = [kind |-> "text", text |-> t, reason |-> "none"]
  BY DEF Event, TextEvent
<1> QED
  BY <1>1, <1>2, <1>3, NoText DEF WireEvent

LEMMA DeltaTexts == Deltas \subseteq Texts
<1>1. <<"w">> \in Texts /\ <<"_">> \in Texts /\ <<"_", "w">> \in Texts
  BY DEF Texts
<1> QED
  BY <1>1 DEF Deltas

\* An answer is opened with nothing said, or with all of it.
LEMMA OpenStreams ==
    ASSUME NEW method, Open(method)
    PROVE  StreamTypes' /\ EndIsTrue' /\ NothingIsLost'
<1> DEFINE begun == Begin(Adapter(Current) = "deterministic")
<1>1. /\ said' = begun.said /\ ended' = begun.ended /\ wire' = begun.wire
      /\ text' = <<>> /\ finish' = "none"
  BY DEF Open
<1>2. CASE /\ said' = <<>> /\ wire' = <<>>
  <2>1. StreamTypes'
    <3>1. <<>> \in Seq(WireEvent)
      OBVIOUS
    <3> QED
      BY <1>1, <1>2, <3>1, NoText DEF StreamTypes
  <2>2. EndIsTrue'
    BY <1>1, <1>2 DEF EndIsTrue
  <2>3. NothingIsLost'
    <3>1. PICK at \in [0 .. 0 -> Nat] : at[0] = 0
      <4> DEFINE f == [i \in 0 .. 0 |-> 0]
      <4>1. f \in [0 .. 0 -> Nat] /\ f[0] = 0
        OBVIOUS
      <4> HIDE DEF f
      <4> QED
        BY <4>1
    <3>2. Len(wire') = 0 /\ Len(text') = 0 /\ Len(said') = 0
      BY <1>1, <1>2
    <3> QED
      BY <3>1, <3>2 DEF NothingIsLost, IsCut
  <2> QED
    BY <2>1, <2>2, <2>3
<1>3. CASE /\ said' = <<"w">> /\ ended' = "stop"
           /\ wire' = <<TextEvent(<<"w">>), FinishEvent("stop")>>
  <2> DEFINE e1 == TextEvent(<<"w">>)
             e2 == FinishEvent("stop")
  <2>0. <<"w">> \in Texts /\ <<>> \in Texts
    BY NoText
  <2>1. /\ e1 \in WireEvent /\ e1.text = <<"w">> /\ e1.kind = "text"
        /\ e2 \in WireEvent /\ e2.text = <<>> /\ e2.kind = "finish" /\ e2.reason = "stop"
    BY <2>0, WireEvents
  <2>2. wire' = <<e1, e2>>
    BY <1>3
  <2> HIDE DEF e1, e2
  <2>3. Len(wire') = 2 /\ wire'[1] = e1 /\ wire'[2] = e2 /\ wire' \in Seq(WireEvent)
    BY <2>1, <2>2
  <2>4. StreamTypes'
    BY <1>1, <1>3, <2>0, <2>3 DEF StreamTypes
  <2>5. EndIsTrue'
    BY <1>1, <1>3, <2>1, <2>3 DEF EndIsTrue
  <2>6. NothingIsLost'
    <3>1. PICK at \in [0 .. 2 -> Nat] : at[0] = 0 /\ at[1] = 1 /\ at[2] = 1
      <4> DEFINE f == [i \in 0 .. 2 |-> IF i = 0 THEN 0 ELSE 1]
      <4>1. f \in [0 .. 2 -> Nat] /\ f[0] = 0 /\ f[1] = 1 /\ f[2] = 1
        OBVIOUS
      <4> HIDE DEF f
      <4> QED
        BY <4>1
    <3>2. Len(text') = 0 /\ Len(said') = 1 /\ said'[1] = "w"
      BY <1>1, <1>3
    <3>3. Len(e1.text) = 1 /\ e1.text[1] = "w" /\ Len(e2.text) = 0
      BY <2>1
    <3>4. ASSUME NEW i \in 1 .. Len(wire')
          PROVE  /\ at[i] = at[i - 1] + Len(wire'[i].text)
                 /\ \A k \in 1 .. Len(wire'[i].text) : said'[at[i - 1] + k] = wire'[i].text[k]
      <4>1. CASE i = 1
        <5>1. i - 1 = 0 /\ wire'[i] = e1 /\ at[i] = 1 /\ at[i - 1] = 0
          BY <2>3, <3>1, <4>1
        <5>2. \A k \in 1 .. Len(e1.text) : k = 1
          BY <3>3
        <5> QED
          BY <3>2, <3>3, <5>1, <5>2
      <4>2. CASE i = 2
        BY <2>3, <3>1, <3>2, <3>3, <4>2
      <4> QED
        BY <2>3, <4>1, <4>2
    <3>5. \A i \in 0 .. 2 : at[i] <= Len(said')
      BY <3>1, <3>2
    <3>6. IsCut(at)'
      BY <2>3, <3>1, <3>2, <3>4, <3>5 DEF IsCut
    <3> QED
      BY <2>3, <3>1, <3>2, <3>6 DEF NothingIsLost
  <2> QED
    BY <2>4, <2>5, <2>6
<1> QED
  BY <1>1, <1>2, <1>3 DEF Begin

\* A delta is said and put on the wire.
LEMMA SpeakStreams ==
    ASSUME StreamTypes, EndIsTrue, NothingIsLost, Speak
    PROVE  StreamTypes' /\ EndIsTrue' /\ NothingIsLost'
<1>1. PICK d \in Deltas : said' = said \o d /\ wire' = Append(wire, TextEvent(d))
  BY DEF Speak
<1>2. UNCHANGED <<text, finish, ended, client, environment>> /\ ended = "no"
  BY DEF Speak, Service
<1> DEFINE e == TextEvent(d)
<1>3. d \in Texts /\ e \in WireEvent /\ e.text = d /\ e.kind = "text"
  BY DeltaTexts, WireEvents
<1>4. wire' = Append(wire, e)
  BY <1>1
<1> HIDE DEF e
<1>5. /\ wire' \in Seq(WireEvent) /\ Len(wire') = Len(wire) + 1 /\ wire'[Len(wire) + 1] = e
      /\ \A i \in 1 .. Len(wire) : wire'[i] = wire[i]
  BY <1>3, <1>4 DEF StreamTypes
<1>6. /\ said' \in Texts /\ Len(said') = Len(said) + Len(d)
      /\ \A k \in 1 .. Len(said) : said'[k] = said[k]
      /\ \A k \in 1 .. Len(d) : said'[Len(said) + k] = d[k]
  BY <1>1, <1>3, TextsJoin DEF StreamTypes
<1>7. StreamTypes'
  BY <1>2, <1>5, <1>6 DEF StreamTypes
<1>8. EndIsTrue'
  BY <1>2, <1>3, <1>5 DEF EndIsTrue, StreamTypes, Adapter
<1>9. PICK at \in [0 .. Len(wire) -> Nat] : IsCut(at)
  BY DEF NothingIsLost
<1>10. NothingIsLost'
  <2> DEFINE n == Len(wire)
  <2>1. n \in Nat /\ Len(said) \in Nat /\ Len(d) \in Nat /\ Len(text) \in Nat
    BY <1>3, TextsJoin DEF StreamTypes
  <2>2. PICK next \in [0 .. n + 1 -> Nat] :
          next[n + 1] = Len(said) + Len(d) /\ \A i \in 0 .. n : next[i] = at[i]
    <3> DEFINE more == [i \in 0 .. n + 1 |-> IF i <= n THEN at[i] ELSE Len(said) + Len(d)]
    <3>1. more \in [0 .. n + 1 -> Nat]
      BY <2>1
    <3>2. more[n + 1] = Len(said) + Len(d) /\ \A i \in 0 .. n : more[i] = at[i]
      BY <2>1
    <3> QED
      BY <3>1, <3>2
  <2>3. \A i \in 0 .. n : at[i] \in Nat
    BY <2>1
  <2>4. Len(text) <= Len(said) /\ \A i \in 0 .. n : at[i] <= Len(said)
    BY <1>9, <2>1 DEF IsCut
  <2>5. ASSUME NEW i \in 1 .. Len(wire')
        PROVE  /\ next[i] = next[i - 1] + Len(wire'[i].text)
               /\ \A k \in 1 .. Len(wire'[i].text) : said'[next[i - 1] + k] = wire'[i].text[k]
    <3>1. CASE i = n + 1
      <4>1. wire'[i] = e /\ i - 1 = n /\ next[i - 1] = Len(said)
        BY <1>5, <1>9, <2>1, <2>2, <3>1 DEF IsCut
      <4> QED
        BY <1>3, <1>6, <2>2, <3>1, <4>1
    <3>2. CASE i # n + 1
      <4>1. i \in 1 .. n /\ i - 1 \in 0 .. n /\ wire'[i] = wire[i]
        BY <1>5, <2>1, <3>2
      <4>2. next[i] = at[i] /\ next[i - 1] = at[i - 1] /\ at[i] = at[i - 1] + Len(wire[i].text)
        <5>1. i \in 0 .. n
          BY <2>1, <4>1
        <5>2. next[i] = at[i] /\ next[i - 1] = at[i - 1]
          BY <2>2, <4>1, <5>1
        <5> QED
          BY <1>9, <4>1, <5>2 DEF IsCut
      <4>3. ASSUME NEW k \in 1 .. Len(wire[i].text)
            PROVE  said'[at[i - 1] + k] = wire[i].text[k]
        <5>1. Len(wire[i].text) \in Nat
          <6>1. wire[i] \in WireEvent
            BY <2>1, <4>1 DEF StreamTypes
          <6>2. wire[i].text \in Texts
            BY <6>1 DEF WireEvent
          <6> QED
            BY <6>2, TextsJoin
        <5>2. at[i - 1] + k \in 1 .. Len(said)
          <6>1. at[i] \in Nat /\ at[i - 1] \in Nat /\ at[i] <= Len(said)
            BY <2>1, <2>3, <2>4, <4>1
          <6> QED
            BY <2>1, <4>2, <5>1, <6>1, SMTT(30)
        <5> QED
          BY <1>6, <1>9, <4>1, <5>2 DEF IsCut
      <4> QED
        BY <4>1, <4>2, <4>3
    <3> QED
      BY <3>1, <3>2
  <2>6. IsCut(next)'
    <3>1. ASSUME NEW i \in 0 .. n + 1 PROVE next[i] <= Len(said')
      <4>1. CASE i = n + 1
        BY <1>6, <2>1, <2>2, <4>1
      <4>2. CASE i # n + 1
        <5>1. i \in 0 .. n
          BY <2>1, <4>2
        <5>2. next[i] = at[i] /\ at[i] \in Nat /\ at[i] <= Len(said)
          BY <2>2, <2>3, <2>4, <5>1
        <5> QED
          BY <1>6, <2>1, <5>2
      <4> QED
        BY <4>1, <4>2
    <3>2. next[0] = Len(text') /\ next[Len(wire')] = Len(said')
      BY <1>2, <1>5, <1>6, <1>9, <2>1, <2>2 DEF IsCut
    <3>3. Len(wire') = n + 1
      BY <1>5
    <3> QED
      BY <2>2, <2>5, <3>1, <3>2, <3>3 DEF IsCut
  <2>7. \A k \in 1 .. Len(text) : text[k] = said'[k]
    BY <1>6, <2>1, <2>4 DEF NothingIsLost
  <2> QED
    BY <1>2, <1>5, <2>2, <2>6, <2>7 DEF NothingIsLost
<1> QED
  BY <1>7, <1>8, <1>10


\* Events without words change nothing of what is delivered or to be delivered.
LEMMA WordlessTail ==
    ASSUME StreamTypes, NothingIsLost, UNCHANGED <<said, text>>,
           NEW tail \in Seq(WireEvent), wire' = wire \o tail,
           \A j \in 1 .. Len(tail) : tail[j].text = <<>>
    PROVE  NothingIsLost'
<1>1. PICK at \in [0 .. Len(wire) -> Nat] : IsCut(at)
  BY DEF NothingIsLost
<1> DEFINE n == Len(wire)
           m == Len(wire) + Len(tail)
<1>2. n \in Nat /\ m \in Nat /\ n <= m /\ Len(said) \in Nat
  <2>1. wire \in Seq(WireEvent) /\ said \in Texts
    BY DEF StreamTypes
  <2>2. Len(wire) \in Nat /\ Len(tail) \in Nat
    BY <2>1
  <2>3. Len(said) \in Nat
    BY <2>1, TextsJoin
  <2> QED
    BY <2>2, <2>3
<1>3. /\ Len(wire') = m
      /\ \A i \in 1 .. n : wire'[i] = wire[i]
      /\ \A i \in n + 1 .. m : wire'[i].text = <<>>
  <2>1. wire \in Seq(WireEvent)
    BY DEF StreamTypes
  <2>2. Len(wire') = m /\ \A i \in 1 .. n : wire'[i] = wire[i]
    BY <2>1
  <2>3. ASSUME NEW i \in n + 1 .. m PROVE wire'[i] = tail[i - n] /\ i - n \in 1 .. Len(tail)
    BY <2>1
  <2> QED
    BY <2>2, <2>3
<1>4. /\ at[0] = Len(text) /\ at[n] = Len(said)
      /\ \A i \in 0 .. n : at[i] \in Nat /\ at[i] <= Len(said)
      /\ \A i \in 1 .. n :
            /\ at[i] = at[i - 1] + Len(wire[i].text)
            /\ \A k \in 1 .. Len(wire[i].text) : said[at[i - 1] + k] = wire[i].text[k]
  BY <1>1, <1>2 DEF IsCut
<1>5. PICK next \in [0 .. m -> Nat] :
        \A i \in 0 .. m : next[i] = IF i <= n THEN at[i] ELSE Len(said)
  <2>1. [i \in 0 .. m |-> IF i <= n THEN at[i] ELSE Len(said)] \in [0 .. m -> Nat]
    BY <1>2, <1>4
  <2> QED
    BY <2>1
<1> HIDE DEF n, m
<1>6. ASSUME NEW i \in 1 .. m
      PROVE  /\ next[i] = next[i - 1] + Len(wire'[i].text)
             /\ \A k \in 1 .. Len(wire'[i].text) : said[next[i - 1] + k] = wire'[i].text[k]
  <2>1. CASE i <= n
    <3>1. i \in 1 .. n /\ i \in 0 .. m /\ i - 1 \in 0 .. m /\ i - 1 <= n
      BY <1>2, <2>1
    <3>2. next[i] = at[i] /\ next[i - 1] = at[i - 1] /\ wire'[i] = wire[i]
      BY <1>3, <1>5, <2>1, <3>1
    <3> QED
      BY <1>4, <3>1, <3>2
  <2>2. CASE ~(i <= n)
    <3>1. i \in n + 1 .. m /\ i \in 0 .. m /\ i - 1 \in 0 .. m /\ n <= i - 1
      BY <1>2, <2>2
    <3>2. next[i] = Len(said)
      BY <1>5, <2>2, <3>1
    <3>3. next[i - 1] = Len(said)
      <4>1. CASE i - 1 = n
        BY <1>4, <1>5, <3>1, <4>1
      <4>2. CASE i - 1 # n
        <5>1. ~(i - 1 <= n)
          BY <1>2, <3>1, <4>2
        <5> QED
          BY <1>5, <3>1, <5>1
      <4> QED
        BY <4>1, <4>2
    <3>4. wire'[i].text = <<>> /\ Len(wire'[i].text) = 0
      BY <1>3, <3>1
    <3> QED
      BY <1>2, <3>2, <3>3, <3>4
  <2> QED
    BY <2>1, <2>2
<1>7. ASSUME NEW i \in 0 .. m PROVE next[i] <= Len(said)
  <2>1. CASE i <= n
    BY <1>2, <1>4, <1>5, <2>1
  <2>2. CASE ~(i <= n)
    BY <1>2, <1>5, <2>2
  <2> QED
    BY <2>1, <2>2
<1>8. next[0] = Len(text) /\ next[m] = Len(said)
  <2>1. 0 \in 0 .. m /\ m \in 0 .. m /\ 0 <= n /\ (m <= n => m = n)
    BY <1>2
  <2> QED
    BY <1>4, <1>5, <2>1
<1>9. IsCut(next)'
  BY <1>3, <1>5, <1>6, <1>7, <1>8 DEF IsCut
<1> QED
  BY <1>3, <1>9 DEF NothingIsLost

\* The first event is read: its words are delivered.
LEMMA HeadIsRead ==
    ASSUME StreamTypes, NothingIsLost, wire # <<>>, UNCHANGED said,
           text' = text \o Head(wire).text, wire' = Tail(wire)
    PROVE  NothingIsLost' /\ text' \in Texts /\ Head(wire) \in WireEvent
<1>1. PICK at \in [0 .. Len(wire) -> Nat] : IsCut(at)
  BY DEF NothingIsLost
<1> DEFINE e == Head(wire)
           m == Len(wire) - 1
<1>2. /\ Len(wire) = m + 1 /\ m \in Nat /\ e = wire[1] /\ e \in WireEvent
      /\ Len(wire') = m /\ \A i \in 1 .. m : wire'[i] = wire[i + 1]
  <2>1. wire \in Seq(WireEvent)
    BY DEF StreamTypes
  <2> QED
    BY <2>1
<1> HIDE DEF e, m
<1>3. /\ text \in Texts /\ said \in Texts /\ e.text \in Texts
  BY <1>2 DEF StreamTypes, WireEvent
<1>4. text' = text \o e.text
  BY DEF e
<1>5. /\ text' \in Texts /\ Len(text') = Len(text) + Len(e.text)
      /\ Len(text) \in Nat /\ Len(e.text) \in Nat /\ Len(said) \in Nat
      /\ \A k \in 1 .. Len(text) : text'[k] = text[k]
      /\ \A k \in 1 .. Len(e.text) : text'[Len(text) + k] = e.text[k]
  <2>1. Len(e.text) \in Nat /\ Len(said) \in Nat
    BY <1>3, TextsJoin
  <2>2. /\ Len(text) \in Nat /\ text \o e.text \in Texts
        /\ Len(text \o e.text) = Len(text) + Len(e.text)
        /\ \A k \in 1 .. Len(text) : (text \o e.text)[k] = text[k]
        /\ \A k \in 1 .. Len(e.text) : (text \o e.text)[Len(text) + k] = e.text[k]
    BY <1>3, TextsJoin
  <2> QED
    BY <1>4, <2>1, <2>2
<1>6. /\ at[0] = Len(text) /\ at[m + 1] = Len(said)
      /\ \A i \in 0 .. m + 1 : at[i] \in Nat /\ at[i] <= Len(said)
      /\ \A i \in 1 .. m + 1 :
            /\ at[i] = at[i - 1] + Len(wire[i].text)
            /\ \A k \in 1 .. Len(wire[i].text) : said[at[i - 1] + k] = wire[i].text[k]
  BY <1>1, <1>2 DEF IsCut
<1>7. at[1] = Len(text') /\ \A k \in 1 .. Len(e.text) : said[Len(text) + k] = e.text[k]
  <2>1. 1 \in 1 .. m + 1 /\ 1 - 1 = 0
    BY <1>2
  <2>2. at[1] = at[0] + Len(wire[1].text)
    BY <1>6, <2>1
  <2>3. \A k \in 1 .. Len(wire[1].text) : said[at[0] + k] = wire[1].text[k]
    BY <1>6, <2>1
  <2> QED
    BY <1>2, <1>5, <1>6, <2>2, <2>3
<1>8. \A k \in 1 .. Len(text') : text'[k] = said[k]
  <2> SUFFICES ASSUME NEW k \in 1 .. Len(text') PROVE text'[k] = said[k]
    OBVIOUS
  <2>1. CASE k <= Len(text)
    <3>1. k \in 1 .. Len(text)
      BY <1>5, <2>1
    <3> QED
      BY <1>5, <3>1 DEF NothingIsLost
  <2>2. CASE ~(k <= Len(text))
    <3>1. k - Len(text) \in 1 .. Len(e.text) /\ Len(text) + (k - Len(text)) = k
      BY <1>5, <2>2
    <3> QED
      BY <1>5, <1>7, <3>1
  <2> QED
    BY <2>1, <2>2
<1>9. PICK next \in [0 .. m -> Nat] : \A i \in 0 .. m : next[i] = at[i + 1]
  <2>1. [i \in 0 .. m |-> at[i + 1]] \in [0 .. m -> Nat]
    <3>1. \A i \in 0 .. m : i + 1 \in 0 .. m + 1
      BY <1>2
    <3> QED
      BY <1>6, <3>1
  <2> QED
    BY <2>1
<1>10. ASSUME NEW i \in 1 .. m
       PROVE  /\ next[i] = next[i - 1] + Len(wire'[i].text)
              /\ \A k \in 1 .. Len(wire'[i].text) : said[next[i - 1] + k] = wire'[i].text[k]
  <2>1. i \in 0 .. m /\ i - 1 \in 0 .. m /\ i + 1 \in 1 .. m + 1 /\ (i - 1) + 1 = i /\ (i + 1) - 1 = i
    BY <1>2
  <2>2. next[i] = at[i + 1] /\ next[i - 1] = at[i] /\ wire'[i] = wire[i + 1]
    BY <1>2, <1>9, <2>1
  <2>3. /\ at[i + 1] = at[i] + Len(wire[i + 1].text)
        /\ \A k \in 1 .. Len(wire[i + 1].text) : said[at[i] + k] = wire[i + 1].text[k]
    <3>1. /\ at[i + 1] = at[(i + 1) - 1] + Len(wire[i + 1].text)
          /\ \A k \in 1 .. Len(wire[i + 1].text) :
                said[at[(i + 1) - 1] + k] = wire[i + 1].text[k]
      BY <1>6, <2>1
    <3> QED
      BY <2>1, <3>1
  <2> QED
    BY <2>2, <2>3
<1>11. \A i \in 0 .. m : next[i] <= Len(said)
  <2>1. \A i \in 0 .. m : i + 1 \in 0 .. m + 1
    BY <1>2
  <2> QED
    BY <1>6, <1>9, <2>1
<1>12. next[0] = Len(text') /\ next[m] = Len(said)
  <2>1. 0 \in 0 .. m /\ m \in 0 .. m
    BY <1>2
  <2>2. next[0] = at[0 + 1] /\ next[m] = at[m + 1]
    BY <1>9, <2>1
  <2> QED
    BY <1>6, <1>7, <2>2
<1>13. IsCut(next)'
  BY <1>2, <1>9, <1>10, <1>11, <1>12 DEF IsCut
<1> QED
  BY <1>2, <1>5, <1>8, <1>9, <1>13 DEF NothingIsLost, e

\* Once everything is read the text is all that was said.
LEMMA AllIsRead ==
    ASSUME StreamTypes, NothingIsLost, wire = <<>>
    PROVE  text = said
<1>1. PICK at \in [0 .. Len(wire) -> Nat] : IsCut(at)
  BY DEF NothingIsLost
<1>2. Len(wire) = 0
  OBVIOUS
<1>3. Len(text) = Len(said)
  BY <1>1, <1>2 DEF IsCut
<1>4. \A k \in 1 .. Len(text) : text[k] = said[k]
  BY DEF NothingIsLost
<1> QED
  BY <1>3, <1>4, EqualTexts DEF StreamTypes

\* The model comes to its end, and the events that say so are sent.
LEMMA EndStreams ==
    ASSUME StreamTypes, EndIsTrue, NothingIsLost, Streaming,
           StopSpeaking \/ ReportError
    PROVE  StreamTypes' /\ EndIsTrue' /\ NothingIsLost'
<1>1. /\ UNCHANGED <<said, text, finish, client, environment>> /\ ended = "no"
      /\ ended' \in {"stop", "length", "error"}
  BY DEF StopSpeaking, ReportError, Service
<1>2. Adapter(client)' = Adapter(client)
  BY <1>1 DEF Adapter
<1>3. wire \in Seq(WireEvent) /\ finish = "none"
  BY <1>1 DEF StreamTypes, EndIsTrue
<1>4. PICK tail \in Seq(WireEvent) :
        /\ wire' = wire \o tail
        /\ \A j \in 1 .. Len(tail) :
            /\ tail[j].text = <<>>
            /\ tail[j].kind = "finish" => tail[j].reason = ended'
            /\ tail[j].kind \in {"finish", "done"} => ended' \in {"stop", "length"}
  <2>1. CASE ReportError
    <3> DEFINE e == Event("error")
    <3>1. e \in WireEvent /\ e.text = <<>> /\ e.kind = "error" /\ wire' = Append(wire, e)
      BY <2>1, WireEvents, NoText DEF ReportError
    <3> HIDE DEF e
    <3>2. wire' = wire \o <<e>> /\ <<e>> \in Seq(WireEvent)
      BY <1>3, <3>1
    <3>3. \A j \in 1 .. Len(<<e>>) : <<e>>[j] = e
      OBVIOUS
    <3> QED
      BY <3>1, <3>2, <3>3
  <2>2. CASE StopSpeaking
    <3> DEFINE r == ended'
               f == FinishEvent(r)
               u == Event("usage")
               d == Event("done")
    <3>1. r \in {"stop", "length"}
      BY <2>2 DEF StopSpeaking
    <3>2. PICK t \in Tails(Adapter(client), r) : wire' = wire \o t
      BY <2>2 DEF StopSpeaking
    <3>3. t \in {<<f, u, d>>, <<f, d>>, <<>>, <<f>>}
      BY <3>2 DEF Tails
    <3>4. /\ f \in WireEvent /\ f.text = <<>> /\ f.kind = "finish" /\ f.reason = r
          /\ u \in WireEvent /\ u.text = <<>> /\ u.kind = "usage"
          /\ d \in WireEvent /\ d.text = <<>> /\ d.kind = "done"
      BY <3>1, WireEvents, NoText
    <3> HIDE DEF f, u, d
    <3>5. /\ t \in Seq(WireEvent)
          /\ \A j \in 1 .. Len(t) : t[j] \in {f, u, d}
      <4>1. CASE t = <<f, u, d>>
        BY <3>4, <4>1
      <4>2. CASE t = <<f, d>>
        BY <3>4, <4>2
      <4>3. CASE t = <<>>
        BY <3>4, <4>3
      <4>4. CASE t = <<f>>
        BY <3>4, <4>4
      <4> QED
        BY <3>3, <4>1, <4>2, <4>3, <4>4
    <3> QED
      BY <3>1, <3>2, <3>4, <3>5
  <2> QED
    BY <2>1, <2>2
<1>5. NothingIsLost'
  BY <1>1, <1>4, WordlessTail
<1>6. /\ wire' \in Seq(WireEvent)
      /\ \A i \in 1 .. Len(wire') :
            \/ i \in 1 .. Len(wire) /\ wire'[i] = wire[i]
            \/ i - Len(wire) \in 1 .. Len(tail) /\ wire'[i] = tail[i - Len(wire)]
  BY <1>3, <1>4
<1>7. StreamTypes'
  BY <1>1, <1>6 DEF StreamTypes
<1>8. EndIsTrue'
  <2>1. \A i \in 1 .. Len(wire) : wire[i].kind \notin {"finish", "done"}
    BY <1>1 DEF EndIsTrue
  <2>2. ASSUME NEW i \in 1 .. Len(wire')
        PROVE  /\ wire'[i].kind = "finish" => wire'[i].reason = ended'
               /\ wire'[i].kind \in {"finish", "done"} => ended' \in {"stop", "length"}
    BY <1>4, <1>6, <2>1
  <2> QED
    BY <1>1, <1>3, <2>2 DEF EndIsTrue
<1> QED
  BY <1>5, <1>7, <1>8

\* What is read and not refused is delivered with the reason it carries.
LEMMA ReadStreams ==
    ASSUME StreamTypes, EndIsTrue, NothingIsLost, Streaming, Read
    PROVE  StreamTypes' /\ EndIsTrue' /\ NothingIsLost'
<1> DEFINE e == Head(wire)
<1>1. /\ UNCHANGED <<said, ended, client, environment>> /\ wire # <<>> /\ wire' = Tail(wire)
  BY DEF Read, Reader
<1>2. Adapter(client)' = Adapter(client) /\ Adapter(client) # "gemini"
  BY <1>1 DEF Adapter, Streaming
<1>3. /\ text' = text \o e.text
      /\ \/ Adapter(client) = "anthropic" /\ finish' = IF e.kind = "done" THEN "stop" ELSE finish
         \/ /\ Adapter(client) # "anthropic"
            /\ finish' = IF e.kind = "finish" THEN e.reason ELSE finish
  BY <1>2 DEF Read, DeliverAnthropic, DeliverOpenAI
<1>4. NothingIsLost' /\ text' \in Texts /\ e \in WireEvent
  BY <1>1, <1>3, HeadIsRead
<1>5. /\ wire' \in Seq(WireEvent) /\ e = wire[1] /\ 1 \in 1 .. Len(wire)
      /\ \A i \in 1 .. Len(wire') : i + 1 \in 1 .. Len(wire) /\ wire'[i] = wire[i + 1]
  <2>1. wire \in Seq(WireEvent)
    BY DEF StreamTypes
  <2> QED
    BY <1>1, <2>1
<1> HIDE DEF e
<1>6. StreamTypes'
  BY <1>1, <1>3, <1>4, <1>5 DEF StreamTypes, WireEvent
<1>7. EndIsTrue'
  <2>1. /\ e.kind = "finish" => e.reason = ended
        /\ e.kind \in {"finish", "done"} => ended \in {"stop", "length"}
    BY <1>5 DEF EndIsTrue
  <2>2. ASSUME NEW i \in 1 .. Len(wire')
        PROVE  /\ wire'[i].kind = "finish" => wire'[i].reason = ended'
               /\ wire'[i].kind \in {"finish", "done"} => ended' \in {"stop", "length"}
    BY <1>1, <1>5 DEF EndIsTrue
  <2>3. finish' # "none" => ended' \in {"stop", "length"}
    BY <1>1, <1>3, <2>1 DEF EndIsTrue
  <2>4. finish' # "none" /\ Adapter(client)' # "anthropic" => finish' = ended'
    BY <1>1, <1>2, <1>3, <2>1 DEF EndIsTrue
  <2> QED
    BY <2>2, <2>3, <2>4 DEF EndIsTrue
<1> QED
  BY <1>4, <1>6, <1>7

\* No step of a call or of the run breaks the account of a streamed answer.
LEMMA StreamSteps ==
    ASSUME StreamInv, [CallsNext]_callVars
    PROVE  StreamInv'
<1>1. ASSUME UNCHANGED <<pc, client, way, said, ended, wire, text, finish, environment>>
      PROVE  StreamInv'
  <2>1. Adapter(client)' = Adapter(client)
    BY <1>1 DEF Adapter
  <2>2. /\ (Streaming' <=> Streaming) /\ (StreamTypes' <=> StreamTypes)
        /\ (EndIsTrue' <=> EndIsTrue)
        /\ (StreamedIsComplete' <=> StreamedIsComplete)
    BY <1>1, <2>1
    DEF Streaming, Calling, StreamTypes, EndIsTrue, StreamedIsComplete
  <2>3. NothingIsLost => NothingIsLost'
    BY <1>1 DEF NothingIsLost, IsCut
  <2> QED
    BY <2>2, <2>3 DEF StreamInv
<1>2. ASSUME pc' \notin {"analyzing", "answering", "answered"} PROVE StreamInv'
  BY <1>2 DEF StreamInv, Streaming, Calling, StreamedIsComplete
<1>3. ASSUME way' # "stream" PROVE StreamInv'
  BY <1>3 DEF StreamInv, Streaming, StreamedIsComplete
<1>4. ASSUME UNCHANGED <<pc, client, way, environment>>, Calling,
             Streaming => StreamTypes' /\ EndIsTrue' /\ NothingIsLost'
      PROVE  StreamInv'
  <2>1. Streaming' <=> Streaming
    BY <1>4 DEF Streaming, Calling, Adapter
  <2>2. pc' # "answered"
    BY <1>4 DEF Calling
  <2> QED
    BY <1>4, <2>1, <2>2 DEF StreamInv, StreamedIsComplete
<1>5. CASE Switch
  BY <1>1, <1>5 DEF Switch, call
<1>6. CASE StartRun \/ AnalyzeByRules \/ Clarify
  BY <1>2, <1>6 DEF StartRun, AnalyzeByRules, Clarify
<1>7. CASE AskAnalysis
  BY <1>3, <1>7 DEF AskAnalysis, Open, StructuredWay
<1>8. CASE AskAnswer
  <2>1. PICK method \in AnswerWays : Open(method)
    BY <1>8 DEF AskAnswer
  <2>2. StreamTypes' /\ EndIsTrue' /\ NothingIsLost'
    BY <2>1, OpenStreams
  <2>3. pc' # "answered"
    BY <1>8 DEF AskAnswer
  <2> QED
    BY <2>2, <2>3 DEF StreamInv, StreamedIsComplete
<1>9. CASE Speak
  <2>1. UNCHANGED <<pc, client, way, environment>> /\ Calling
    BY <1>9 DEF Speak, Service
  <2> QED
    BY <1>4, <1>9, <2>1, SpeakStreams DEF StreamInv
<1>10. CASE StopSpeaking \/ ReportError
  <2>1. UNCHANGED <<pc, client, way, environment>> /\ Calling
    BY <1>10 DEF StopSpeaking, ReportError, Service
  <2> QED
    BY <1>4, <1>10, <2>1, EndStreams DEF StreamInv
<1>11. CASE Close \/ Break
  BY <1>1, <1>11 DEF Close, Break, Service
<1>12. CASE Read
  <2>1. UNCHANGED <<pc, client, way, environment>> /\ Calling
    BY <1>12 DEF Read, Reader
  <2> QED
    BY <1>4, <1>12, <2>1, ReadStreams DEF StreamInv
<1>13. CASE ReadRefused \/ ReadBroken
  BY <1>2, <1>13 DEF ReadRefused, ReadBroken, Fails, GiveUp
<1>14. CASE EndOfStream
  <2>1. /\ UNCHANGED <<said, ended, client, environment, way>> /\ text' = text
        /\ wire = <<>> /\ way = "stream" /\ Calling
        /\ finish' = LastFinish
        /\ pc' \in {"answered", "answer", "failed"}
        /\ pc' = "answered" => finish' = "stop"
    BY <1>14
    DEF EndOfStream, Reader, Exhausted, GiveUp, Finished
  <2>2. Adapter(client)' = Adapter(client)
    BY <2>1 DEF Adapter
  <2>3. CASE Adapter(client) = "gemini"
    BY <2>1, <2>2, <2>3 DEF StreamInv, Streaming, Calling, StreamedIsComplete
  <2>4. CASE Adapter(client) # "gemini" /\ pc' = "answered"
    <3>1. StreamTypes /\ EndIsTrue /\ NothingIsLost /\ finish = "stop"
      BY <2>1, <2>4 DEF StreamInv, Streaming, LastFinish
    <3>2. text = said
      BY <2>1, <3>1, AllIsRead
    <3>3. /\ ended \in {"stop", "length"}
          /\ Adapter(client) # "anthropic" => ended = "stop"
      BY <3>1 DEF EndIsTrue
    <3> QED
      BY <2>1, <2>2, <2>4, <3>2, <3>3
      DEF StreamInv, Streaming, Calling, StreamedIsComplete
  <2>5. CASE pc' # "answered"
    BY <1>2, <2>1, <2>5
  <2> QED
    BY <2>3, <2>4, <2>5
<1>15. CASE EndOfMetrics \/ ReadWhole \/ ReadStructured
  BY <1>3, <1>15
  DEF EndOfMetrics, ReadWhole, ReadStructured, Reader
<1>16. CASE UNCHANGED callVars
  BY <1>1, <1>16 DEF callVars, call
<1> QED
  BY <1>5, <1>6, <1>7, <1>8, <1>9, <1>10, <1>11, <1>12, <1>13, <1>14, <1>15, <1>16
  DEF CallsNext, Run, Upstream, Consume

\* A streamed answer that is accepted is all that the model said, whatever breaks, for
\* every number of deltas: what was delivered and what is on the wire make up what was
\* said, and an end is on the wire only if the model came to it.
THEOREM AnswersAreComplete == CallsSpec => []StreamedIsComplete
<1>1. CallsInit => StreamInv
  BY DEF CallsInit, StreamInv, Streaming, Calling, StreamedIsComplete
<1>2. StreamInv /\ [CallsNext]_callVars => StreamInv'
  BY StreamSteps
<1>3. StreamInv => StreamedIsComplete
  BY DEF StreamInv
<1> QED
  BY <1>1, <1>2, <1>3, PTL DEF CallsSpec
=============================================================================
