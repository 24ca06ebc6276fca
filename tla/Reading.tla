------------------------------ MODULE Reading ------------------------------
(***************************************************************************)
(* A search of one file (retrieval/): path A and path B in parallel, their *)
(* fusion, an optional rerank, and the verification against PostgreSQL.    *)
(*                                                                         *)
(* The environment is Publication: what the indexing subsystem promises.   *)
(* Between any two statements of the search a version may be published and *)
(* the index may come to show or hide any document.  So what the index     *)
(* found, what the tables offered when a window of text was read, and what *)
(* they say when the hits are verified may be of different versions.       *)
(*                                                                         *)
(* A chunk's text is its id: two versions never share a chunk.  A hit is   *)
(* the id it will be verified and cited by, and the chunks in its text.    *)
(***************************************************************************)
EXTENDS Integers, FiniteSets, FiniteSetsExt, Sequences, Functions

CONSTANTS
    Versions,    \* versions of the file, in the order they are made
    Chunks,      \* values of chunk_order
    Sections,    \* section summaries
    Sources,     \* the chunks each section's summary was written from
    Coverage,    \* coverage_ratio of each version, in parts of Full
    Full,
    Alike,       \* summaries and chunks within path_a_relocate_hamming
    Reach,       \* neighbours of a window, before and after (code: 2 and 4)
    K,           \* the constant of the fusion (code: 60)
    TopK,        \* hits asked for
    TopA,        \* summaries path A asks the index for (code: 5)
    TopB         \* chunks path B asks the index for (code: 24)

ChunkDocs == Versions \X Chunks \X {0}
SummaryDocs == Versions \X Sections \X {1}
Docs == ChunkDocs \cup SummaryDocs
DefaultVersion == 1

ASSUME ReadingAssumption ==
    /\ Versions \subseteq Nat /\ Chunks \subseteq Nat
    /\ Sources \in [Sections -> SUBSET Chunks]
    /\ Full \in Nat \ {0} /\ Coverage \in [Versions -> 0 .. Full]
    /\ Alike \subseteq SummaryDocs \X ChunkDocs
    /\ Reach \in Nat /\ K \in Nat \ {0}
    /\ TopK \in Nat \ {0} /\ TopA \in Nat /\ TopB \in Nat

VARIABLES
    published, offered, searchable,    \* of Publication
    pc,          \* the request: "idle", "searching", "fused", "rows", "active", "answered"
    a,           \* path A
    b,           \* path B
    merged,      \* the hits on their way to the answer, best first
    found,       \* the ids whose rows the verification found
    answers,     \* what is returned
    target       \* kb_anchor.target_chunk_id where a search has rewritten it

indexVars == <<published, offered, searchable>>
askVars == <<pc, a, b, merged, found, answers, target>>
readingVars == <<indexVars, askVars>>

Index == INSTANCE Publication

VersionOf(d) == d[1]
OrderOf(d) == d[2]
None == <<>>
Skipped == [at |-> "done", todo |-> <<>>, center |-> None, wide |-> FALSE, hits |-> <<>>]
Started == [Skipped EXCEPT !.at = "search"]

Init ==
    /\ Index!Init
    /\ pc = "idle" /\ a = Skipped /\ b = Skipped
    /\ merged = <<>> /\ found = {} /\ answers = <<>>
    /\ target = [s \in SummaryDocs |-> None]

---------------------------------------------------------------------------
(* _retrieve_core: mode hybrid, summary or embedding                       *)

Ask(pathA, pathB) ==
    /\ pc = "idle"
    /\ pc' = "searching"
    /\ a' = IF pathA THEN Started ELSE Skipped
    /\ b' = IF pathB THEN Started ELSE Skipped
    /\ UNCHANGED <<indexVars, merged, found, answers, target>>

(* What a search of the index may return: the scores are its own affair.   *)
Rankings(S, top) == UNION {Injection(1 .. n, S) : n \in 0 .. top}

SearchB ==
    /\ b.at = "search"
    /\ \E docs \in Rankings(searchable \cap ChunkDocs, TopB) :
          b' = [b EXCEPT !.at = "done",
                  !.hits = [i \in DOMAIN docs |-> [id |-> docs[i], text |-> {docs[i]}, weight |-> Full]]]
    /\ UNCHANGED <<indexVars, pc, a, merged, found, answers, target>>

SearchA ==
    /\ a.at = "search"
    /\ \E docs \in Rankings(searchable \cap SummaryDocs, TopA) : a' = [a EXCEPT !.at = "next", !.todo = docs]
    /\ UNCHANGED <<indexVars, pc, b, merged, found, answers, target>>

StepA(next) == a' = next /\ UNCHANGED <<indexVars, pc, b, merged, found, answers>>

(* The summary in hand is given up, or its hit is in.                      *)
Drop(x) == [x EXCEPT !.at = "next", !.todo = Tail(x.todo), !.center = None, !.wide = FALSE]

(* All summaries are done, or path_a_timeout_ms is over.                   *)
EndA == /\ a.at = "next"
        /\ StepA([a EXCEPT !.at = "done", !.todo = <<>>])
        /\ UNCHANGED target

SourceDocs(s) == {<<VersionOf(s), c, 0>> : c \in Sources[OrderOf(s)]}

(* anchor.resolve: a source that is still offered, whichever overlaps the  *)
(* query most; otherwise the fingerprint.                                  *)
SelectCenter ==
    /\ a.at = "next" /\ a.todo # <<>>
    /\ LET here == SourceDocs(Head(a.todo)) \cap offered
       IN  IF here = {}
           THEN StepA([a EXCEPT !.at = "relocate"])
           ELSE \E c \in here : StepA([a EXCEPT !.at = "order", !.center = c])
    /\ UNCHANGED target

(* Mutant: chunks that are not offered are candidates.                     *)
CandidatesOfAll(s) == {c \in ChunkDocs : <<s, c>> \in Alike}
Candidates(s) == {c \in offered : <<s, c>> \in Alike}

Relocate ==
    /\ a.at = "relocate"
    /\ \E c \in Candidates(Head(a.todo)) : StepA([a EXCEPT !.at = "persist", !.center = c])
    /\ UNCHANGED target

(* No row in kb_anchor, or no chunk near enough.                           *)
AnchorStale ==
    /\ a.at = "relocate"
    /\ StepA(Drop(a))
    /\ UNCHANGED target

(* Best effort, in a transaction of its own.                               *)
PersistRelocate ==
    /\ a.at = "persist"
    /\ StepA([a EXCEPT !.at = "order"])
    /\ target' \in {target, [target EXCEPT ![Head(a.todo)] = a.center]}

---------------------------------------------------------------------------
(* read_window: two SELECTs, each with a snapshot of its own               *)

(* A window that is empty or misses the query is read again, twice as wide.*)
Miss == StepA(IF a.wide THEN Drop(a) ELSE [a EXCEPT !.at = "order", !.wide = TRUE])

WindowOrder ==
    /\ a.at = "order"
    /\ IF a.center \in offered THEN StepA([a EXCEPT !.at = "rows"]) ELSE Miss
    /\ UNCHANGED target

Around(c, k) == {d \in offered : OrderOf(d) \in OrderOf(c) - k .. OrderOf(c) + k}
Window == Around(a.center, IF a.wide THEN 2 * Reach ELSE Reach)

(* coverage_ratio, where 0 counts as no ratio.                             *)
WeightOf(s) == IF Coverage[VersionOf(s)] = 0 THEN Full ELSE Coverage[VersionOf(s)]

WindowRows ==
    /\ a.at = "rows"
    /\ \/ Miss
       \/ /\ Window # {}
          /\ StepA([Drop(a) EXCEPT !.hits =
                Append(a.hits, [id |-> a.center, text |-> Window, weight |-> WeightOf(Head(a.todo))])])
    /\ UNCHANGED target

---------------------------------------------------------------------------
(* rrf_merge: weight / (K + rank) in each path, ranks from 0, a chunk once *)

Positions(hits, id) == {i \in DOMAIN hits : hits[i].id = id}
Ids(hits) == {hits[i].id : i \in DOMAIN hits}

(* Every score is a whole number of parts of this.                         *)
Unit == ProductSet({K + rank : rank \in 0 .. Max({TopA, TopB}) - 1})

(* Mutant: a chunk gets a vote for every summary that led to it.           *)
VotesOfAll(hits, id) == MapThenSumSet(LAMBDA i : hits[i].weight * (Unit \div (K + i - 1)), Positions(hits, id))
Votes(hits, id) ==
    IF id \notin Ids(hits) THEN 0
    ELSE LET i == Min(Positions(hits, id)) IN hits[i].weight * (Unit \div (K + i - 1))

Score(id) == Votes(a.hits, id) + Votes(b.hits, id)

(* The hit that came first stays, path A before path B.                    *)
Firsts(hits) == {i \in DOMAIN hits : \A j \in DOMAIN hits : j < i => hits[j].id # hits[i].id}
Plain(hit) == [id |-> hit.id, text |-> hit.text]
Fused == {Plain(a.hits[i]) : i \in Firsts(a.hits)}
            \cup {Plain(b.hits[i]) : i \in {j \in Firsts(b.hits) : b.hits[j].id \notin Ids(a.hits)}}
Arrival(id) == IF id \in Ids(a.hits) THEN Min(Positions(a.hits, id))
                                     ELSE Len(a.hits) + Min(Positions(b.hits, id))

(* Best score first; the sort is stable.                                   *)
Ranked(m) ==
    \A i, j \in DOMAIN m : i < j =>
        \/ Score(m[i].id) > Score(m[j].id)
        \/ Score(m[i].id) = Score(m[j].id) /\ Arrival(m[i].id) < Arrival(m[j].id)

Fuse ==
    /\ pc = "searching" /\ a.at = "done" /\ b.at = "done"
    /\ pc' = "fused"
    /\ \E m \in [1 .. Cardinality(Fused) -> Fused] : Ranked(m) /\ merged' = m
    /\ UNCHANGED <<indexVars, a, b, found, answers, target>>

---------------------------------------------------------------------------
(* No reranker: the order of the fusion, cut before it is verified; a      *)
(* similarity threshold cuts off more of the end.                          *)
Keep ==
    /\ pc = "fused"
    /\ pc' = "rows"
    /\ \E n \in 0 .. TopK : n <= Len(merged) /\ merged' = SubSeq(merged, 1, n)
    /\ UNCHANGED <<indexVars, a, b, found, answers, target>>

(* Any order; the reranker and the threshold may leave hits out.           *)
Rerank ==
    /\ pc = "fused"
    /\ pc' = "rows"
    /\ \E n \in 1 .. Len(merged) : \E order \in Injection(1 .. n, DOMAIN merged) :
          merged' = [i \in 1 .. n |-> merged[order[i]]]
    /\ UNCHANGED <<indexVars, a, b, found, answers, target>>

---------------------------------------------------------------------------
(* guard.postverify: two SELECTs of one READ COMMITTED transaction         *)

(* Rows of versions that are not offered are there or not: staged, kept    *)
(* or collected.  The tables a reader is promised say nothing of them.     *)
VerifyRows ==
    /\ pc = "rows"
    /\ pc' = "active"
    /\ \E others \in SUBSET (Ids(merged) \ offered) : found' = (Ids(merged) \cap offered) \cup others
    /\ UNCHANGED <<indexVars, a, b, merged, answers, target>>

(* kb_file.active_chunk_version.                                           *)
Active == IF published = {} THEN DefaultVersion ELSE Max(published)

(* Mutant: the row is enough, whichever version it is of.                  *)
KeptUnfenced(h) == h.id \in found
Kept(h) == h.id \in found /\ VersionOf(h.id) = Active

(* The positions of a set in ascending order.                             *)
Ascending(S) == {e \in [1 .. Cardinality(S) -> S] : \A i, j \in DOMAIN e : i < j => e[i] < e[j]}

(* What was reranked is cut only now; the rest is short enough already.    *)
VerifyActive ==
    /\ pc = "active"
    /\ pc' = "answered"
    /\ \E e \in Ascending({i \in DOMAIN merged : Kept(merged[i])}) :
          answers' = [i \in 1 .. (IF Len(e) < TopK THEN Len(e) ELSE TopK) |-> merged[e[i]]]
    /\ UNCHANGED <<indexVars, a, b, merged, found, target>>

(* The answer has been read; another request may come.                     *)
Done ==
    /\ pc = "answered"
    /\ pc' = "idle"
    /\ a' = Skipped /\ b' = Skipped /\ merged' = <<>>
    /\ found' = {} /\ answers' = <<>>
    /\ UNCHANGED <<indexVars, target>>

(* The index, PostgreSQL or the embedder does not answer.                  *)
Abort ==
    /\ pc \notin {"idle", "answered"}
    /\ pc' = "idle"
    /\ a' = Skipped /\ b' = Skipped /\ merged' = <<>>
    /\ found' = {} /\ answers' = <<>>
    /\ UNCHANGED <<indexVars, target>>

---------------------------------------------------------------------------
PathA == SearchA \/ EndA \/ SelectCenter \/ Relocate \/ AnchorStale \/ PersistRelocate
            \/ WindowOrder \/ WindowRows

Next ==
    \/ Index!Next /\ UNCHANGED askVars
    \/ Ask(TRUE, TRUE) \/ Ask(TRUE, FALSE) \/ Ask(FALSE, TRUE)
    \/ PathA \/ SearchB
    \/ Fuse \/ Keep \/ Rerank \/ VerifyRows \/ VerifyActive \/ Done \/ Abort

Spec == Init /\ [][Next]_readingVars

---------------------------------------------------------------------------
Hit == [id : ChunkDocs, text : SUBSET ChunkDocs, weight : 1 .. Full]
Path == [at : {"search", "next", "relocate", "persist", "order", "rows", "done"},
         todo : Seq(SummaryDocs), center : ChunkDocs \cup {None}, wide : BOOLEAN, hits : Seq(Hit)]
Answer == [id : ChunkDocs, text : SUBSET ChunkDocs]

(* Types: paths walk summaries and hold hits, answers are chunks.          *)
TypeOK ==
    /\ published \subseteq Versions /\ offered \subseteq ChunkDocs /\ searchable \subseteq Docs
    /\ pc \in {"idle", "searching", "fused", "rows", "active", "answered"}
    /\ a \in Path /\ b \in Path
    /\ a.at \in {"relocate", "persist", "order", "rows"} => a.todo # <<>>
    /\ a.at \in {"persist", "order", "rows"} => a.center \in ChunkDocs
    /\ merged \in Seq(Answer) /\ answers \in Seq(Answer)
    /\ found \subseteq ChunkDocs
    /\ target \in [SummaryDocs -> ChunkDocs \cup {None}]

(* The evidence matches the citation: the text of an answer is of the      *)
(* version of the chunk it is cited by, though the window was read in two  *)
(* statements and verified in a third (path_a.py:44-62, guard.py:37).      *)
EvidenceMatches ==
    \A i \in DOMAIN answers : \A d \in answers[i].text : VersionOf(d) = VersionOf(answers[i].id)

(* What is returned is what the tables offer at the moment it is verified, *)
(* however stale the index was; before anything is published the pointers  *)
(* name version 1, and its documents are let through.                      *)
AnswersAreOffered ==
    [][pc' = "answered" /\ pc = "active" =>
          \A i \in DOMAIN answers' :
             \/ answers'[i].id \in offered
             \/ published = {} /\ VersionOf(answers'[i].id) = DefaultVersion]_readingVars

(* An anchor is only ever moved to a chunk of a version readers have been  *)
(* offered, whatever was staged while it was looked for.                   *)
AnchorsLeadToPublished == \A s \in SummaryDocs : target[s] # None => VersionOf(target[s]) \in published

(* Fusion is fair: a chunk that every path ranks before another, with no   *)
(* less weight, comes before it, however often a path found the other.     *)
Outranks(hits, x, y) ==
    \/ y \notin Ids(hits)
    \/ /\ x \in Ids(hits)
       /\ Min(Positions(hits, x)) < Min(Positions(hits, y))
       /\ hits[Min(Positions(hits, x))].weight >= hits[Min(Positions(hits, y))].weight
FusionIsFair ==
    pc = "fused" =>
        \A i, j \in DOMAIN merged :
            Outranks(a.hits, merged[i].id, merged[j].id) /\ Outranks(b.hits, merged[i].id, merged[j].id)
                => i <= j
---------------------------------------------------------------------------
(* What the proofs need besides.                                           *)

(* What is offered is the newest published version, all of it.             *)
NewestOffered ==
    \/ published = {} /\ offered = {}
    \/ \E v \in published : /\ \A u \in published : u <= v
                            /\ offered = Index!ChunksOf(v)

CenterPublished == a.at \in {"persist", "order", "rows"} => VersionOf(a.center) \in published

(* A hit whose text is of another version than its id will be dropped.     *)
Superseded(v) == \E u \in published : v < u
Whole(h) == \/ \A d \in h.text : VersionOf(d) = VersionOf(h.id)
            \/ Superseded(VersionOf(h.id))
HitsWhole ==
    /\ \A i \in DOMAIN a.hits : Whole(a.hits[i])
    /\ \A i \in DOMAIN b.hits : Whole(b.hits[i])
    /\ \A i \in DOMAIN merged : Whole(merged[i])

ReadingInv == /\ TypeOK /\ NewestOffered /\ CenterPublished /\ HitsWhole
              /\ EvidenceMatches /\ AnchorsLeadToPublished
=============================================================================
