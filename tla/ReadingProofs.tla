--------------------------- MODULE ReadingProofs ---------------------------
(***************************************************************************)
(* What a search answers, for any number of versions, chunks and summaries *)
(* and any size of window and of answer: its texts are of the version they *)
(* are cited by, and that version is the one readers are offered.          *)
(***************************************************************************)
EXTENDS Reading, SequenceTheorems, FiniteSetTheorems, WellFoundedInduction, TLAPS

LEMMA FunctionIsSeq ==
    ASSUME NEW S, NEW n \in Nat, NEW f \in [1 .. n -> S]
    PROVE  f \in Seq(S) /\ Len(f) = n /\ DOMAIN f = 1 .. n
OBVIOUS

LEMMA RankingTyped ==
    ASSUME NEW S, NEW top \in Nat, NEW docs \in Rankings(S, top)
    PROVE  docs \in Seq(S)
<1>1. PICK n \in 0 .. top : docs \in Injection(1 .. n, S)
      BY DEF Rankings
<1>2. docs \in [1 .. n -> S]
      BY <1>1 DEF Injection
<1> QED BY <1>1, <1>2, FunctionIsSeq

LEMMA WeightTyped ==
    ASSUME NEW s \in SummaryDocs
    PROVE  WeightOf(s) \in 1 .. Full
<1>1. VersionOf(s) \in Versions
      BY DEF VersionOf, SummaryDocs
<1>2. Coverage[VersionOf(s)] \in 0 .. Full
      BY <1>1, ReadingAssumption
<1> QED BY <1>2, ReadingAssumption DEF WeightOf

LEMMA SkippedTyped == Skipped \in Path /\ Started \in Path /\ Skipped.hits = <<>> /\ Started.hits = <<>>
<1>1. <<>> \in Seq(SummaryDocs) /\ <<>> \in Seq(Hit)
      BY EmptySeq
<1>2. Skipped \in Path /\ Skipped.hits = <<>>
      BY <1>1 DEF Skipped, Path, None
<1>3. Started \in Path /\ Started.hits = Skipped.hits
      BY <1>2 DEF Started, Path
<1> QED BY <1>2, <1>3

LEMMA DropTyped ==
    ASSUME NEW x \in Path, x.todo # <<>>
    PROVE  Drop(x) \in Path /\ Drop(x).at = "next" /\ Drop(x).hits = x.hits
<1>1. Tail(x.todo) \in Seq(SummaryDocs)
      BY HeadTailProperties DEF Path
<1> QED BY <1>1 DEF Drop, Path, None

LEMMA HeadTyped ==
    ASSUME NEW x \in Path, x.todo # <<>>
    PROVE  Head(x.todo) \in SummaryDocs
BY HeadTailProperties DEF Path

(* The hits of a path come to finitely many answers.                       *)
LEMMA FusedTyped ==
    ASSUME TypeOK
    PROVE  Fused \subseteq Answer /\ IsFiniteSet(Fused)
<1>1. /\ a.hits \in Seq(Hit) /\ Len(a.hits) \in Nat /\ DOMAIN a.hits = 1 .. Len(a.hits)
      /\ b.hits \in Seq(Hit) /\ Len(b.hits) \in Nat /\ DOMAIN b.hits = 1 .. Len(b.hits)
      BY LenProperties DEF TypeOK, Path
<1> DEFINE I == Firsts(a.hits)
           J == {j \in Firsts(b.hits) : b.hits[j].id \notin Ids(a.hits)}
           A == {Plain(a.hits[i]) : i \in I}
           B == {Plain(b.hits[i]) : i \in J}
<1>2. IsFiniteSet(I) /\ IsFiniteSet(J)
  <2>1. I \subseteq 1 .. Len(a.hits) /\ J \subseteq 1 .. Len(b.hits)
        BY <1>1 DEF Firsts
  <2>2. IsFiniteSet(1 .. Len(a.hits)) /\ IsFiniteSet(1 .. Len(b.hits))
        BY <1>1, FS_Interval
  <2> QED BY <2>1, <2>2, FS_Subset
<1>3. IsFiniteSet(A) /\ IsFiniteSet(B)
  <2>1. [i \in I |-> Plain(a.hits[i])] \in Surjection(I, A)
        BY DEF Surjection
  <2>2. [i \in J |-> Plain(b.hits[i])] \in Surjection(J, B)
        BY DEF Surjection
  <2> QED BY <1>2, <2>1, <2>2, FS_Surjection
<1>4. A \subseteq Answer /\ B \subseteq Answer
  <2>1. ASSUME NEW i \in DOMAIN a.hits PROVE Plain(a.hits[i]) \in Answer
    <3>1. a.hits[i] \in Hit
          BY <1>1, ElementOfSeq
    <3> QED BY <3>1 DEF Plain, Answer, Hit
  <2>2. ASSUME NEW i \in DOMAIN b.hits PROVE Plain(b.hits[i]) \in Answer
    <3>1. b.hits[i] \in Hit
          BY <1>1, ElementOfSeq
    <3> QED BY <3>1 DEF Plain, Answer, Hit
  <2> QED BY <2>1, <2>2 DEF Firsts
<1>5. Fused = A \cup B
      BY DEF Fused
<1> QED BY <1>3, <1>4, <1>5, FS_Union

LEMMA AscendingTyped ==
    ASSUME NEW S, IsFiniteSet(S), NEW e \in Ascending(S)
    PROVE  /\ Len(e) \in Nat /\ DOMAIN e = 1 .. Len(e)
           /\ \A i \in 1 .. Len(e) : e[i] \in S
<1>1. Cardinality(S) \in Nat /\ e \in [1 .. Cardinality(S) -> S]
      BY FS_CardinalityType DEF Ascending
<1> QED BY <1>1, FunctionIsSeq

---------------------------------------------------------------------------
LEMMA TypeInit == Init => TypeOK
<1>1. <<>> \in Seq(Answer) /\ {} \subseteq ChunkDocs
      OBVIOUS
<1> QED BY <1>1, SkippedTyped DEF Init, Index!Init, TypeOK, Skipped

LEMMA IndexTyped ==
    ASSUME TypeOK, Index!Next
    PROVE  published' \subseteq Versions /\ offered' \subseteq ChunkDocs /\ searchable' \subseteq Docs
BY DEF TypeOK, Index!Next, Index!Publish, Index!Show, Index!Hide, Index!ChunksOf, ChunkDocs, Docs

(* A step of path A that moves it from one well-formed state to another.   *)
LEMMA StepTyped ==
    ASSUME TypeOK, NEW next \in Path, StepA(next), target' = target,
           next.at \in {"relocate", "persist", "order", "rows"} => next.todo # <<>>,
           next.at \in {"persist", "order", "rows"} => next.center \in ChunkDocs
    PROVE  TypeOK'
BY DEF TypeOK, StepA, indexVars

LEMMA MissTyped ==
    ASSUME TypeOK, a.at \in {"order", "rows"}, Miss, target' = target
    PROVE  TypeOK'
<1>1. a \in Path /\ a.todo # <<>> /\ a.center \in ChunkDocs
      BY DEF TypeOK
<1>2. CASE a.wide
  <2>1. Drop(a) \in Path /\ Drop(a).at = "next"
        BY <1>1, DropTyped
  <2>2. StepA(Drop(a))
        BY <1>2 DEF Miss
  <2> QED BY <2>1, <2>2, StepTyped
<1>3. CASE ~a.wide
  <2> DEFINE next == [a EXCEPT !.at = "order", !.wide = TRUE]
  <2>1. next \in Path /\ next.todo = a.todo /\ next.center = a.center
        BY <1>1 DEF Path
  <2>2. StepA(next)
        BY <1>3 DEF Miss
  <2> QED BY <1>1, <2>1, <2>2, StepTyped
<1> QED BY <1>2, <1>3

(* What is answered are hits that were kept.                               *)
LEMMA AnswersPicked ==
    ASSUME TypeOK, VerifyActive
    PROVE  /\ answers' \in Seq(Answer)
           /\ \A i \in DOMAIN answers' : \E j \in DOMAIN merged : answers'[i] = merged[j] /\ Kept(merged[j])
<1> DEFINE S == {i \in DOMAIN merged : Kept(merged[i])}
<1>1. Len(merged) \in Nat /\ DOMAIN merged = 1 .. Len(merged) /\ \A i \in DOMAIN merged : merged[i] \in Answer
      BY LenProperties, ElementOfSeq DEF TypeOK
<1>2. IsFiniteSet(S)
  <2>1. S \in SUBSET (1 .. Len(merged)) /\ IsFiniteSet(1 .. Len(merged))
        BY <1>1, FS_Interval
  <2> HIDE DEF S
  <2> QED BY <2>1, FS_Subset
<1>3. PICK e \in Ascending(S) :
            answers' = [i \in 1 .. (IF Len(e) < TopK THEN Len(e) ELSE TopK) |-> merged[e[i]]]
      BY DEF VerifyActive
<1> DEFINE k == IF Len(e) < TopK THEN Len(e) ELSE TopK
<1>4. Len(e) \in Nat /\ \A i \in 1 .. Len(e) : e[i] \in S
      BY <1>2, <1>3, AscendingTyped
<1>5. k \in Nat /\ \A i \in 1 .. k : i \in 1 .. Len(e)
      BY <1>4, ReadingAssumption
<1>6. \A i \in 1 .. k : e[i] \in S /\ merged[e[i]] \in Answer
      BY <1>1, <1>4, <1>5
<1> HIDE DEF k, S
<1>7. answers' \in [1 .. k -> Answer] /\ \A i \in 1 .. k : answers'[i] = merged[e[i]]
      BY <1>3, <1>6 DEF k
<1>8. answers' \in Seq(Answer) /\ DOMAIN answers' = 1 .. k
      BY <1>5, <1>7, FunctionIsSeq
<1> QED BY <1>6, <1>7, <1>8 DEF S

LEMMA TypeNext ==
    ASSUME TypeOK, [Next]_readingVars
    PROVE  TypeOK'
<1> USE DEF indexVars
<1>0. a \in Path /\ b \in Path
      BY DEF TypeOK
<1>1. CASE Index!Next /\ UNCHANGED askVars
      BY <1>1, IndexTyped DEF TypeOK, askVars
<1>2. ASSUME NEW pathA \in BOOLEAN, NEW pathB \in BOOLEAN, Ask(pathA, pathB) PROVE TypeOK'
      BY <1>2, SkippedTyped DEF Ask, TypeOK, Skipped, Started
<1>3. CASE SearchA
  <2>1. PICK docs \in Rankings(searchable \cap SummaryDocs, TopA) : a' = [a EXCEPT !.at = "next", !.todo = docs]
        BY <1>3 DEF SearchA
  <2>2. docs \in Seq(SummaryDocs)
        BY <2>1, RankingTyped, ReadingAssumption
  <2>3. a' \in Path /\ a'.at = "next"
        BY <1>0, <2>1, <2>2 DEF Path
  <2> QED BY <1>3, <2>3 DEF SearchA, TypeOK
<1>4. CASE SearchB
  <2>1. PICK docs \in Rankings(searchable \cap ChunkDocs, TopB) :
              b' = [b EXCEPT !.at = "done",
                      !.hits = [i \in DOMAIN docs |-> [id |-> docs[i], text |-> {docs[i]}, weight |-> Full]]]
        BY <1>4 DEF SearchB
  <2>2. docs \in Seq(ChunkDocs)
        BY <2>1, RankingTyped, ReadingAssumption
  <2>3. [i \in DOMAIN docs |-> [id |-> docs[i], text |-> {docs[i]}, weight |-> Full]] \in [1 .. Len(docs) -> Hit]
        BY <2>2, LenProperties, ReadingAssumption DEF Hit
  <2>4. b' \in Path
        BY <1>0, <2>1, <2>2, <2>3, LenProperties, FunctionIsSeq DEF Path
  <2> QED BY <1>4, <2>4 DEF SearchB, TypeOK
<1>5. CASE EndA
  <2> DEFINE next == [a EXCEPT !.at = "done", !.todo = <<>>]
  <2>1. <<>> \in Seq(SummaryDocs)
        BY EmptySeq
  <2>2. next \in Path /\ next.at = "done"
        BY <1>0, <2>1 DEF Path
  <2>3. StepA(next) /\ target' = target
        BY <1>5 DEF EndA
  <2> QED BY <2>2, <2>3, StepTyped
<1>6. CASE SelectCenter
  <2> DEFINE here == SourceDocs(Head(a.todo)) \cap offered
  <2>1. CASE here = {}
    <3> DEFINE next == [a EXCEPT !.at = "relocate"]
    <3>1. next \in Path /\ next.at = "relocate" /\ next.todo # <<>> /\ StepA(next) /\ target' = target
          BY <1>0, <1>6, <2>1 DEF SelectCenter, Path
    <3> QED BY <3>1, StepTyped
  <2>2. CASE here # {}
    <3>1. PICK c \in here : StepA([a EXCEPT !.at = "order", !.center = c])
          BY <1>6, <2>2 DEF SelectCenter
    <3> DEFINE next == [a EXCEPT !.at = "order", !.center = c]
    <3>2. c \in ChunkDocs
          BY <3>1 DEF TypeOK
    <3>3. next \in Path /\ next.todo # <<>> /\ next.center \in ChunkDocs /\ target' = target
          BY <1>0, <1>6, <3>2 DEF SelectCenter, Path
    <3> QED BY <3>1, <3>3, StepTyped
  <2> QED BY <2>1, <2>2
<1>7. CASE Relocate
  <2>1. PICK c \in Candidates(Head(a.todo)) : StepA([a EXCEPT !.at = "persist", !.center = c])
        BY <1>7 DEF Relocate
  <2> DEFINE next == [a EXCEPT !.at = "persist", !.center = c]
  <2>2. c \in ChunkDocs
        BY <2>1 DEF TypeOK, Candidates
  <2>3. next \in Path /\ next.todo # <<>> /\ next.center \in ChunkDocs /\ target' = target
        BY <1>0, <1>7, <2>2 DEF Relocate, Path, TypeOK
  <2> QED BY <2>1, <2>3, StepTyped
<1>8. CASE AnchorStale
  <2>1. a.todo # <<>> /\ StepA(Drop(a)) /\ target' = target
        BY <1>8 DEF AnchorStale, TypeOK
  <2> QED BY <1>0, <2>1, DropTyped, StepTyped
<1>9. CASE PersistRelocate
  <2>1. a.at = "persist" /\ a.todo # <<>> /\ a.center \in ChunkDocs /\ Head(a.todo) \in SummaryDocs
        BY <1>0, <1>9, HeadTyped DEF PersistRelocate, TypeOK
  <2>2. target' \in [SummaryDocs -> ChunkDocs \cup {None}]
        BY <1>9, <2>1 DEF PersistRelocate, TypeOK
  <2>3. a' = [a EXCEPT !.at = "order"] /\ a' \in Path /\ a'.todo # <<>> /\ a'.center \in ChunkDocs
        BY <1>0, <1>9, <2>1 DEF PersistRelocate, StepA, Path
  <2> QED BY <1>9, <2>2, <2>3 DEF PersistRelocate, StepA, TypeOK
<1>10. CASE WindowOrder
  <2>1. a.at = "order" /\ a.todo # <<>> /\ a.center \in ChunkDocs /\ target' = target
        BY <1>10 DEF WindowOrder, TypeOK
  <2>2. CASE a.center \in offered
    <3> DEFINE next == [a EXCEPT !.at = "rows"]
    <3>1. next \in Path /\ next.todo # <<>> /\ next.center \in ChunkDocs /\ StepA(next)
          BY <1>0, <1>10, <2>1, <2>2 DEF WindowOrder, Path
    <3> QED BY <2>1, <3>1, StepTyped
  <2>3. CASE a.center \notin offered
        BY <1>10, <2>1, <2>3, MissTyped DEF WindowOrder
  <2> QED BY <2>2, <2>3
<1>11. CASE WindowRows
  <2>1. a.at = "rows" /\ a.todo # <<>> /\ a.center \in ChunkDocs /\ target' = target
        BY <1>11 DEF WindowRows, TypeOK
  <2> DEFINE hit == [id |-> a.center, text |-> Window, weight |-> WeightOf(Head(a.todo))]
             next == [Drop(a) EXCEPT !.hits = Append(a.hits, hit)]
  <2>2. CASE StepA(next)
    <3>1. Window \subseteq ChunkDocs
          BY DEF Window, Around, TypeOK
    <3>2. hit \in Hit
          BY <1>0, <2>1, <3>1, HeadTyped, WeightTyped DEF Hit
    <3>3. Append(a.hits, hit) \in Seq(Hit)
          BY <1>0, <3>2, AppendProperties DEF Path
    <3>4. Drop(a) \in Path /\ Drop(a).at = "next"
          BY <1>0, <2>1, DropTyped
    <3>5. next \in Path /\ next.at = "next"
          BY <3>3, <3>4 DEF Path
    <3> QED BY <2>1, <2>2, <3>5, StepTyped
  <2>3. CASE Miss
        BY <2>1, <2>3, MissTyped
  <2> QED BY <1>11, <2>2, <2>3 DEF WindowRows
<1>12. CASE Fuse
  <2>1. Cardinality(Fused) \in Nat /\ Fused \subseteq Answer
        BY FusedTyped, FS_CardinalityType
  <2>2. merged' \in [1 .. Cardinality(Fused) -> Fused]
        BY <1>12 DEF Fuse
  <2>3. merged' \in Seq(Answer)
        BY <2>1, <2>2, FunctionIsSeq
  <2> QED BY <1>12, <2>3 DEF Fuse, TypeOK
<1>13. CASE Keep
  <2>1. PICK n \in 0 .. TopK : n <= Len(merged) /\ merged' = SubSeq(merged, 1, n)
        BY <1>13 DEF Keep
  <2>2. merged' \in Seq(Answer)
    <3>1. n \in Int /\ 1 \in Int
          BY <2>1, ReadingAssumption
    <3>2. \A i \in 1 .. n : merged[i] \in Answer
          BY <2>1, <3>1, ElementOfSeq, LenProperties DEF TypeOK
    <3>3. SubSeq(merged, 1, n) \in Seq(Answer)
          BY <3>1, <3>2, SubSeqProperties
    <3> QED BY <2>1, <3>3
  <2> QED BY <1>13, <2>2 DEF Keep, TypeOK
<1>14. CASE Rerank
  <2>1. PICK n \in 1 .. Len(merged) : \E order \in Injection(1 .. n, DOMAIN merged) :
              merged' = [i \in 1 .. n |-> merged[order[i]]]
        BY <1>14 DEF Rerank
  <2>2. PICK order \in Injection(1 .. n, DOMAIN merged) : merged' = [i \in 1 .. n |-> merged[order[i]]]
        BY <2>1
  <2>3. \A i \in 1 .. n : merged[order[i]] \in Answer
        BY <2>2, LenProperties, ElementOfSeq DEF Injection, TypeOK
  <2>4. n \in Nat
        BY <2>1, LenProperties DEF TypeOK
  <2>5. merged' \in Seq(Answer)
        BY <2>2, <2>3, <2>4, FunctionIsSeq
  <2> QED BY <1>14, <2>5 DEF Rerank, TypeOK
<1>15. CASE VerifyRows
  <2>1. Ids(merged) \subseteq ChunkDocs
    <3>1. ASSUME NEW i \in DOMAIN merged PROVE merged[i] \in Answer
          BY LenProperties, ElementOfSeq DEF TypeOK
    <3> QED BY <3>1 DEF Ids, Answer
  <2>2. found' \subseteq ChunkDocs
        BY <1>15, <2>1 DEF VerifyRows
  <2> QED BY <1>15, <2>2 DEF VerifyRows, TypeOK
<1>16. CASE VerifyActive
  <2>1. answers' \in Seq(Answer)
        BY <1>16, AnswersPicked
  <2> QED BY <1>16, <2>1 DEF VerifyActive, TypeOK
<1>17. CASE Done
      BY <1>17, SkippedTyped DEF Done, TypeOK, Skipped
<1>18. CASE Abort
      BY <1>18, SkippedTyped DEF Abort, TypeOK, Skipped
<1>19. CASE UNCHANGED readingVars
      BY <1>19 DEF readingVars, askVars, TypeOK
<1> QED BY <1>1, <1>2, <1>3, <1>4, <1>5, <1>6, <1>7, <1>8, <1>9, <1>10, <1>11, <1>12, <1>13,
           <1>14, <1>15, <1>16, <1>17, <1>18, <1>19 DEF Next, PathA

(* Every reachable state is well-typed.                                    *)
THEOREM ReadingTypeCorrect == Spec => []TypeOK
<1>1. TypeOK /\ [Next]_readingVars => TypeOK'
      BY TypeNext
<1> QED BY TypeInit, <1>1, PTL DEF Spec

---------------------------------------------------------------------------
(* The search only looks; what it looks at changes by itself, forwards.    *)
LEMMA SearchOnlyLooks ==
    ASSUME [Next]_readingVars
    PROVE  \/ Index!Next /\ UNCHANGED askVars
           \/ UNCHANGED indexVars
BY DEF Next, PathA, readingVars, Ask, SearchA, SearchB, EndA, SelectCenter, Relocate, AnchorStale,
       PersistRelocate, WindowOrder, WindowRows, Miss, StepA, Fuse, Keep, Rerank, VerifyRows,
       VerifyActive, Done, Abort

LEMMA PublishedGrows ==
    ASSUME [Next]_readingVars
    PROVE  published \subseteq published'
BY SearchOnlyLooks DEF Index!Next, Index!Publish, Index!Show, Index!Hide, indexVars

LEMMA NewestNext ==
    ASSUME TypeOK, NewestOffered, [Next]_readingVars
    PROVE  NewestOffered'
<1>1. CASE Index!Next
  <2>1. ASSUME NEW v \in Versions, Index!Publish(v) PROVE NewestOffered'
    <3>1. v \in Nat /\ v \in published' /\ \A u \in published' : u <= v
          BY <2>1, ReadingAssumption DEF Index!Publish, TypeOK
    <3>2. offered' = Index!ChunksOf(v)
          BY <2>1 DEF Index!Publish
    <3> QED BY <3>1, <3>2 DEF NewestOffered, Index!ChunksOf
  <2>2. ASSUME NEW d \in Docs, Index!Show(d) \/ Index!Hide(d) PROVE NewestOffered'
        BY <2>2 DEF Index!Show, Index!Hide, NewestOffered, Index!ChunksOf
  <2> QED BY <1>1, <2>1, <2>2 DEF Index!Next
<1>2. CASE UNCHANGED indexVars
      BY <1>2 DEF indexVars, NewestOffered, Index!ChunksOf
<1> QED BY <1>1, <1>2, SearchOnlyLooks

(* Everything offered is of the newest published version.                  *)
LEMMA OfferedIsNewest ==
    ASSUME NewestOffered, NEW c \in offered
    PROVE  VersionOf(c) \in published /\ \A u \in published : u <= VersionOf(c)
BY DEF NewestOffered, Index!ChunksOf, VersionOf

(* The verification compares with the newest published version.            *)
LEMMA ActiveIsNewest ==
    ASSUME TypeOK, NewestOffered, published # {}
    PROVE  /\ Active \in published /\ \A u \in published : u <= Active
           /\ offered = Index!ChunksOf(Active)
<1>1. PICK v \in published : (\A u \in published : u <= v) /\ offered = Index!ChunksOf(v)
      BY DEF NewestOffered
<1>2. published \subseteq Nat
      BY ReadingAssumption DEF TypeOK
<1>3. Max(published) = v
  <2>1. \E x \in published : \A y \in published : x >= y
        BY <1>1, <1>2
  <2>2. Max(published) \in published /\ \A y \in published : Max(published) >= y
        BY <2>1 DEF Max
  <2>3. Max(published) \in Nat /\ v \in Nat /\ Max(published) <= v /\ Max(published) >= v
        BY <1>1, <1>2, <2>2
  <2> QED BY <2>3
<1> QED BY <1>1, <1>3 DEF Active

---------------------------------------------------------------------------
(* A window read around a published chunk is of that chunk's version, or   *)
(* the chunk has been superseded.                                          *)
LEMMA WindowWhole ==
    ASSUME TypeOK, NewestOffered, VersionOf(a.center) \in published,
           NEW h, h.id = a.center, h.text = Window
    PROVE  Whole(h)
<1>1. published \subseteq Nat
      BY ReadingAssumption DEF TypeOK
<1>2. ASSUME NEW d \in Window PROVE VersionOf(d) \in published /\ VersionOf(h.id) <= VersionOf(d)
      BY OfferedIsNewest DEF Window, Around
<1>3. ASSUME NEW d \in Window, VersionOf(d) # VersionOf(h.id) PROVE Superseded(VersionOf(h.id))
  <2>1. VersionOf(h.id) \in published
        OBVIOUS
  <2>2. VersionOf(h.id) < VersionOf(d)
        BY <1>1, <1>2, <1>3, <2>1
  <2> QED BY <1>2, <1>3, <2>2 DEF Superseded
<1> QED BY <1>3 DEF Whole

LEMMA WholeKept ==
    ASSUME NEW h, Whole(h), published \subseteq published'
    PROVE  \/ \A d \in h.text : VersionOf(d) = VersionOf(h.id)
           \/ \E u \in published' : VersionOf(h.id) < u
BY DEF Whole, Superseded

(* The hits a step leaves to a path are those it had, or new and whole.    *)
LEMMA HitsNext ==
    ASSUME TypeOK, NewestOffered, CenterPublished, HitsWhole, [Next]_readingVars
    PROVE  /\ \A i \in DOMAIN a'.hits : Whole(a'.hits[i])
           /\ \A i \in DOMAIN b'.hits : Whole(b'.hits[i])
<1>0. a \in Path /\ b \in Path
      BY DEF TypeOK
<1> USE DEF HitsWhole
<1>1. CASE a'.hits = a.hits /\ b'.hits = b.hits
      BY <1>1
<1>2. CASE a'.hits = <<>> /\ b'.hits = <<>>
      BY <1>2
<1>3. CASE SearchB
  <2>1. PICK docs \in Rankings(searchable \cap ChunkDocs, TopB) :
              b' = [b EXCEPT !.at = "done",
                      !.hits = [i \in DOMAIN docs |-> [id |-> docs[i], text |-> {docs[i]}, weight |-> Full]]]
        BY <1>3 DEF SearchB
  <2>2. b'.hits = [i \in DOMAIN docs |-> [id |-> docs[i], text |-> {docs[i]}, weight |-> Full]]
        BY <1>0, <2>1 DEF Path
  <2>3. \A i \in DOMAIN b'.hits : Whole(b'.hits[i])
        BY <2>2 DEF Whole
  <2> QED BY <1>3, <2>3 DEF SearchB
<1>4. CASE WindowRows /\ ~Miss
  <2> DEFINE hit == [id |-> a.center, text |-> Window, weight |-> WeightOf(Head(a.todo))]
  <2>1. a.at = "rows" /\ a.todo # <<>> /\ a' = [Drop(a) EXCEPT !.hits = Append(a.hits, hit)] /\ b' = b
        BY <1>4 DEF WindowRows, StepA, TypeOK
  <2>2. a'.hits = Append(a.hits, hit)
        BY <1>0, <2>1, DropTyped DEF Path
  <2>3. Whole(hit)
        BY <2>1, WindowWhole DEF CenterPublished
  <2>4. a.hits \in Seq(Hit) /\ hit \in Hit
    <3>1. Window \subseteq ChunkDocs /\ a.center \in ChunkDocs
          BY <2>1 DEF Window, Around, TypeOK
    <3> QED BY <1>0, <2>1, <3>1, HeadTyped, WeightTyped DEF Hit, Path
  <2> HIDE DEF hit
  <2>5. ASSUME NEW i \in DOMAIN a'.hits PROVE a'.hits[i] = hit \/ (i \in DOMAIN a.hits /\ a'.hits[i] = a.hits[i])
        BY <2>2, <2>4, AppendProperties, LenProperties
  <2> QED BY <2>1, <2>3, <2>5
<1>5. \/ a'.hits = a.hits /\ b'.hits = b.hits
      \/ a'.hits = <<>> /\ b'.hits = <<>>
      \/ SearchB
      \/ WindowRows /\ ~Miss
  <2>1. ASSUME Miss, a.todo # <<>> PROVE a'.hits = a.hits /\ b' = b
        BY <1>0, <2>1, DropTyped DEF Miss, StepA, Path
  <2>2. CASE Index!Next /\ UNCHANGED askVars
        BY <2>2 DEF askVars
  <2>3. ASSUME NEW pathA \in BOOLEAN, NEW pathB \in BOOLEAN, Ask(pathA, pathB)
        PROVE  a'.hits = <<>> /\ b'.hits = <<>>
        BY <2>3, SkippedTyped DEF Ask
  <2>4. CASE SearchA
        BY <1>0, <2>4 DEF SearchA, Path
  <2>5. CASE EndA \/ PersistRelocate \/ Relocate
        BY <1>0, <2>5 DEF EndA, PersistRelocate, Relocate, StepA, Path
  <2>6. CASE SelectCenter
        BY <1>0, <2>6 DEF SelectCenter, StepA, Path
  <2>7. CASE AnchorStale
        BY <1>0, <2>7, DropTyped DEF AnchorStale, StepA, TypeOK
  <2>8. CASE WindowOrder
    <3>1. a.todo # <<>>
          BY <2>8 DEF WindowOrder, TypeOK
    <3> QED BY <1>0, <2>1, <2>8, <3>1 DEF WindowOrder, StepA, Path
  <2>9. CASE WindowRows /\ Miss
    <3>1. a.todo # <<>>
          BY <2>9 DEF WindowRows, TypeOK
    <3> QED BY <2>1, <2>9, <3>1
  <2>10. CASE Fuse \/ Keep \/ Rerank \/ VerifyRows \/ VerifyActive \/ UNCHANGED readingVars
        BY <2>10 DEF Fuse, Keep, Rerank, VerifyRows, VerifyActive, readingVars, askVars
  <2>11. CASE Done \/ Abort
        BY <2>11, SkippedTyped DEF Done, Abort
  <2> QED BY <2>2, <2>3, <2>4, <2>5, <2>6, <2>7, <2>8, <2>9, <2>10, <2>11 DEF Next, PathA
<1> QED BY <1>1, <1>2, <1>3, <1>4, <1>5

LEMMA HitsWholeNext ==
    ASSUME TypeOK, NewestOffered, CenterPublished, HitsWhole, [Next]_readingVars
    PROVE  HitsWhole'
<1>0. published \subseteq published'
      BY PublishedGrows
<1>1. /\ \A i \in DOMAIN a'.hits : Whole(a'.hits[i])
      /\ \A i \in DOMAIN b'.hits : Whole(b'.hits[i])
      BY HitsNext
<1>2. \A i \in DOMAIN merged' : Whole(merged'[i])
  <2>1. CASE merged' = merged \/ merged' = <<>>
        BY <2>1 DEF HitsWhole
  <2>2. CASE Fuse
    <3>1. Cardinality(Fused) \in Nat
          BY FusedTyped, FS_CardinalityType
    <3>2. merged' \in [1 .. Cardinality(Fused) -> Fused]
          BY <2>2 DEF Fuse
    <3>3. ASSUME NEW h \in Fused PROVE Whole(h)
          BY <3>3 DEF Fused, Firsts, Plain, HitsWhole, Whole
    <3> QED BY <3>2, <3>3
  <2>3. CASE Keep
    <3>1. PICK n \in 0 .. TopK : n <= Len(merged) /\ merged' = SubSeq(merged, 1, n)
          BY <2>3 DEF Keep
    <3>2. n \in Nat /\ Len(merged) \in Nat /\ DOMAIN merged = 1 .. Len(merged)
          BY <3>1, LenProperties, ReadingAssumption DEF TypeOK
    <3>3. DOMAIN merged' = 1 .. n /\ \A i \in 1 .. n : merged'[i] = merged[i]
      <4>1. \A i \in 1 .. n : merged[i] \in Answer
            BY <3>1, <3>2, ElementOfSeq DEF TypeOK
      <4>2. /\ SubSeq(merged, 1, n) \in Seq(Answer)
            /\ Len(SubSeq(merged, 1, n)) = IF 1 <= n THEN n - 1 + 1 ELSE 0
            /\ \A i \in 1 .. n - 1 + 1 : SubSeq(merged, 1, n)[i] = merged[1 + i - 1]
            BY <3>2, <4>1, SubSeqProperties
      <4>3. Len(merged') = n
            BY <3>1, <3>2, <4>2
      <4> QED BY <3>1, <3>2, <4>2, <4>3, LenProperties
    <3> QED BY <3>1, <3>2, <3>3 DEF HitsWhole
  <2>4. CASE Rerank
    <3>1. PICK n \in 1 .. Len(merged) : \E order \in Injection(1 .. n, DOMAIN merged) :
                merged' = [i \in 1 .. n |-> merged[order[i]]]
          BY <2>4 DEF Rerank
    <3>2. PICK order \in Injection(1 .. n, DOMAIN merged) : merged' = [i \in 1 .. n |-> merged[order[i]]]
          BY <3>1
    <3> QED BY <3>2 DEF Injection, HitsWhole
  <2> QED BY <2>1, <2>2, <2>3, <2>4
          DEF Next, PathA, readingVars, askVars, Ask, SearchA, SearchB, EndA, SelectCenter, Relocate,
              AnchorStale, PersistRelocate, WindowOrder, WindowRows, Miss, StepA, VerifyRows,
              VerifyActive, Done, Abort
<1>3. ASSUME NEW h, Whole(h)
      PROVE  \/ \A d \in h.text : VersionOf(d) = VersionOf(h.id)
             \/ \E u \in published' : VersionOf(h.id) < u
      BY <1>0, <1>3, WholeKept
<1> QED BY <1>1, <1>2, <1>3 DEF HitsWhole, Whole, Superseded, VersionOf

LEMMA CenterNext ==
    ASSUME TypeOK, NewestOffered, CenterPublished, [Next]_readingVars
    PROVE  CenterPublished'
<1>0. a \in Path /\ published \subseteq published'
      BY PublishedGrows DEF TypeOK
<1>1. CASE a'.at = a.at /\ a'.center = a.center
      BY <1>0, <1>1 DEF CenterPublished, VersionOf
<1>2. CASE a'.at \notin {"persist", "order", "rows"}
      BY <1>2 DEF CenterPublished
<1>3. CASE a.at \in {"persist", "order", "rows"} /\ a'.center = a.center
      BY <1>0, <1>3 DEF CenterPublished, VersionOf
<1>4. CASE a'.center \in offered
  <2>1. VersionOf(a'.center) \in published'
        BY <1>0, <1>4, OfferedIsNewest
  <2> QED BY <2>1 DEF CenterPublished, VersionOf
<1>5. \/ a'.at = a.at /\ a'.center = a.center
      \/ a'.at \notin {"persist", "order", "rows"}
      \/ a.at \in {"persist", "order", "rows"} /\ a'.center = a.center
      \/ a'.center \in offered
  <2>1. ASSUME StepA(Drop(a)), a.todo # <<>> PROVE a'.at = "next"
        BY <1>0, <2>1, DropTyped DEF StepA
  <2>2. ASSUME Miss, a.at \in {"order", "rows"}
        PROVE  \/ a'.at \notin {"persist", "order", "rows"}
               \/ a.at \in {"persist", "order", "rows"} /\ a'.center = a.center
    <3>1. a.todo # <<>>
          BY <2>2 DEF TypeOK
    <3> QED BY <1>0, <2>1, <2>2, <3>1 DEF Miss, StepA, Path
  <2>3. ASSUME NEW pathA \in BOOLEAN, NEW pathB \in BOOLEAN, Ask(pathA, pathB)
        PROVE  a'.at \notin {"persist", "order", "rows"}
        BY <2>3 DEF Ask, Started, Skipped
  <2>4. CASE SearchA \/ EndA
        BY <1>0, <2>4 DEF SearchA, EndA, StepA, Path
  <2>5. CASE SelectCenter
        BY <1>0, <2>5 DEF SelectCenter, StepA, Path
  <2>6. CASE Relocate
        BY <1>0, <2>6 DEF Relocate, Candidates, StepA, Path
  <2>7. CASE AnchorStale
        BY <2>1, <2>7 DEF AnchorStale, TypeOK
  <2>8. CASE PersistRelocate
        BY <1>0, <2>8 DEF PersistRelocate, StepA, Path
  <2>9. CASE WindowOrder
        BY <1>0, <2>2, <2>9 DEF WindowOrder, StepA, Path
  <2>10. CASE WindowRows
    <3>1. CASE Miss
          BY <2>2, <2>10, <3>1 DEF WindowRows
    <3>2. CASE ~Miss
      <4>1. a.todo # <<>>
            BY <2>10 DEF WindowRows, TypeOK
      <4> QED BY <1>0, <2>10, <3>2, <4>1, DropTyped DEF WindowRows, StepA, Path
    <3> QED BY <3>1, <3>2
  <2>11. CASE Done \/ Abort
        BY <2>11 DEF Done, Abort, Skipped
  <2>12. CASE \/ Index!Next /\ UNCHANGED askVars
              \/ SearchB \/ Fuse \/ Keep \/ Rerank \/ VerifyRows \/ VerifyActive
              \/ UNCHANGED readingVars
        BY <2>12 DEF SearchB, Fuse, Keep, Rerank, VerifyRows, VerifyActive, readingVars, askVars
  <2> QED BY <2>3, <2>4, <2>5, <2>6, <2>7, <2>8, <2>9, <2>10, <2>11, <2>12 DEF Next, PathA
<1> QED BY <1>1, <1>2, <1>3, <1>4, <1>5

(* A hit of a superseded version is not kept.                              *)
LEMMA KeptIsNewest ==
    ASSUME TypeOK, NewestOffered, NEW h, VersionOf(h.id) \in Versions, Kept(h)
    PROVE  ~Superseded(VersionOf(h.id))
<1> SUFFICES ASSUME NEW u \in published, VersionOf(h.id) < u PROVE FALSE
      BY DEF Superseded
<1>1. u <= Active /\ VersionOf(h.id) = Active
      BY ActiveIsNewest DEF Kept
<1>2. u \in Nat /\ VersionOf(h.id) \in Nat
      BY ReadingAssumption DEF TypeOK
<1> QED BY <1>1, <1>2

LEMMA EvidenceNext ==
    ASSUME TypeOK, NewestOffered, HitsWhole, EvidenceMatches, [Next]_readingVars
    PROVE  EvidenceMatches'
<1>1. CASE answers' = answers \/ answers' = <<>>
      BY <1>1 DEF EvidenceMatches, VersionOf
<1>2. CASE VerifyActive
  <2>1. ASSUME NEW i \in DOMAIN answers' PROVE \A d \in answers'[i].text : VersionOf(d) = VersionOf(answers'[i].id)
    <3>1. PICK j \in DOMAIN merged : answers'[i] = merged[j] /\ Kept(merged[j])
          BY <1>2, AnswersPicked
    <3>2. merged[j] \in Answer
          BY LenProperties, ElementOfSeq DEF TypeOK
    <3>3. VersionOf(merged[j].id) \in Versions
          BY <3>2 DEF Answer, ChunkDocs, VersionOf
    <3>4. Whole(merged[j]) /\ ~Superseded(VersionOf(merged[j].id))
          BY <3>1, <3>3, KeptIsNewest DEF HitsWhole
    <3> QED BY <3>1, <3>4 DEF Whole
  <2> QED BY <2>1 DEF EvidenceMatches, VersionOf
<1> QED BY <1>1, <1>2
        DEF Next, PathA, readingVars, askVars, Ask, SearchA, SearchB, EndA, SelectCenter, Relocate,
            AnchorStale, PersistRelocate, WindowOrder, WindowRows, Miss, StepA, Fuse, Keep, Rerank,
            VerifyRows, Done, Abort

LEMMA AnchorsNext ==
    ASSUME TypeOK, CenterPublished, AnchorsLeadToPublished, [Next]_readingVars
    PROVE  AnchorsLeadToPublished'
<1>0. published \subseteq published'
      BY PublishedGrows
<1>1. CASE target' = target
      BY <1>0, <1>1 DEF AnchorsLeadToPublished, VersionOf
<1>2. CASE PersistRelocate
  <2>1. VersionOf(a.center) \in published
        BY <1>2 DEF PersistRelocate, CenterPublished
  <2>2. ASSUME NEW s \in SummaryDocs PROVE target'[s] \in {target[s], a.center}
        BY <1>2 DEF PersistRelocate, TypeOK
  <2> QED BY <1>0, <2>1, <2>2 DEF AnchorsLeadToPublished, VersionOf
<1> QED BY <1>1, <1>2
        DEF Next, PathA, readingVars, askVars, Ask, SearchA, SearchB, EndA, SelectCenter, Relocate,
            AnchorStale, WindowOrder, WindowRows, Fuse, Keep, Rerank, VerifyRows, VerifyActive,
            Done, Abort

---------------------------------------------------------------------------
LEMMA ReadingInvInit == Init => ReadingInv
<1> SUFFICES ASSUME Init PROVE ReadingInv
      OBVIOUS
<1>1. TypeOK
      BY TypeInit
<1>2. a = Skipped /\ b = Skipped /\ Skipped.hits = <<>> /\ Skipped.at = "done"
      BY DEF Init, Skipped
<1> QED BY <1>1, <1>2 DEF Init, Index!Init, ReadingInv, NewestOffered, CenterPublished, HitsWhole,
                          EvidenceMatches, AnchorsLeadToPublished

(* The invariant is inductive.                                             *)
THEOREM ReadingInvariant == Spec => []ReadingInv
<1>1. ReadingInv /\ [Next]_readingVars => ReadingInv'
  <2> SUFFICES ASSUME ReadingInv, [Next]_readingVars PROVE ReadingInv'
        OBVIOUS
  <2> USE DEF ReadingInv
  <2>1. TypeOK'
        BY TypeNext
  <2>2. NewestOffered'
        BY NewestNext
  <2>3. CenterPublished'
        BY CenterNext
  <2>4. HitsWhole'
        BY HitsWholeNext
  <2>5. EvidenceMatches'
        BY EvidenceNext
  <2>6. AnchorsLeadToPublished'
        BY AnchorsNext
  <2> QED BY <2>1, <2>2, <2>3, <2>4, <2>5, <2>6
<1> QED BY ReadingInvInit, <1>1, PTL DEF Spec

(* No answer mixes versions: the text of a hit is of the version of the    *)
(* chunk it is cited by (read_window, postverify).                         *)
THEOREM EvidenceIsOfItsVersion == Spec => []EvidenceMatches
<1>1. ReadingInv => EvidenceMatches
      BY DEF ReadingInv
<1> QED BY ReadingInvariant, <1>1, PTL

(* An anchor is only moved to a chunk of a published version (_relocate,   *)
(* _persist_relocate).                                                     *)
THEOREM AnchorsFollowPublication == Spec => []AnchorsLeadToPublished
<1>1. ReadingInv => AnchorsLeadToPublished
      BY DEF ReadingInv
<1> QED BY ReadingInvariant, <1>1, PTL

(* The version fence of postverify lets through what the tables offer at   *)
(* that moment, and before the first publication documents of version 1.   *)
THEOREM FenceLetsOfferedThrough == Spec => AnswersAreOffered
<1> DEFINE Good == pc' = "answered" /\ pc = "active" =>
                      \A i \in DOMAIN answers' :
                         \/ answers'[i].id \in offered
                         \/ published = {} /\ VersionOf(answers'[i].id) = DefaultVersion
<1>1. ReadingInv /\ [Next]_readingVars => [Good]_readingVars
  <2> SUFFICES ASSUME ReadingInv, Next, pc' = "answered", pc = "active", NEW i \in DOMAIN answers'
               PROVE  \/ answers'[i].id \in offered
                      \/ published = {} /\ VersionOf(answers'[i].id) = DefaultVersion
        OBVIOUS
  <2> USE DEF ReadingInv
  <2>1. VerifyActive
        BY DEF Next, PathA, askVars, Ask, SearchA, SearchB, EndA, SelectCenter, Relocate,
               AnchorStale, PersistRelocate, WindowOrder, WindowRows, Miss, StepA, Fuse, Keep,
               Rerank, VerifyRows, Done, Abort
  <2>2. PICK j \in DOMAIN merged : answers'[i] = merged[j] /\ Kept(merged[j])
        BY <2>1, AnswersPicked
  <2>3. merged[j] \in Answer
        BY LenProperties, ElementOfSeq DEF TypeOK
  <2>4. CASE published = {}
        BY <2>2, <2>4 DEF Kept, Active
  <2>5. CASE published # {}
    <3>1. offered = Index!ChunksOf(Active) /\ VersionOf(merged[j].id) = Active
          BY <2>2, <2>5, ActiveIsNewest DEF Kept
    <3>2. merged[j].id \in ChunkDocs
          BY <2>3 DEF Answer
    <3> QED BY <2>2, <3>1, <3>2 DEF Index!ChunksOf, ChunkDocs, VersionOf
  <2> QED BY <2>4, <2>5
<1>2. (Spec => [][Good]_readingVars) <=> (Spec => AnswersAreOffered)
      BY DEF AnswersAreOffered
<1> QED BY ReadingInvariant, <1>1, <1>2, PTL DEF Spec

---------------------------------------------------------------------------
(***************************************************************************)
(* The fusion.                                                             *)
(***************************************************************************)

(* Of a set of natural numbers one is the least, and Min is that.          *)
LEMMA MinIsLeast ==
    ASSUME NEW T, T \subseteq Nat, T # {}
    PROVE  Min(T) \in T /\ \A y \in T : Min(T) <= y
<1>1. PICK R : R = OpToRel(<, Nat)
      OBVIOUS
<1>2. IsWellFoundedOn(R, Nat)
      BY <1>1, NatLessThanWellFounded
<1>3. \A x, y \in Nat : x < y => <<x, y>> \in R
      BY <1>1 DEF OpToRel
<1>4. PICK x \in T : \A y \in T : ~(<<y, x>> \in R)
      BY <1>2, WFMin
<1>5. \A y \in T : x \in Nat /\ y \in Nat /\ ~(y < x)
      BY <1>3, <1>4
<1>6. \A y \in T : x <= y
      BY <1>5
<1> QED BY <1>6 DEF Min

(* Of any finite sets one has the fewest elements.                         *)
LEMMA SmallestSet ==
    ASSUME NEW Q, Q # {}, \A S \in Q : IsFiniteSet(S)
    PROVE  \E S \in Q : \A T : Cardinality(T) < Cardinality(S) => T \notin Q
<1> DEFINE T == {Cardinality(S) : S \in Q}
<1>1. T \subseteq Nat /\ T # {}
      BY FS_CardinalityType
<1>2. PICK n \in T : \A m \in T : n <= m
  <2> HIDE DEF T
  <2> QED BY <1>1, MinIsLeast
<1>3. PICK S \in Q : n = Cardinality(S)
      BY <1>2
<1>4. \A U \in Q : Cardinality(S) <= Cardinality(U) /\ Cardinality(U) \in Nat
      BY <1>2, <1>3, FS_CardinalityType
<1>5. Cardinality(S) \in Nat
      BY FS_CardinalityType
<1> HIDE DEF T
<1>6. \A U : Cardinality(U) < Cardinality(S) => U \notin Q
      BY <1>4, <1>5
<1> QED BY <1>6

(* The product that the shares are parts of is a number: the fold exists,  *)
(* stage by stage, and by induction on the set its values are numbers.     *)
Pick(S) == CHOOSE x \in S : TRUE
Multiplies(g, S) == g = [s \in SUBSET S |-> IF s = {} THEN 1 ELSE Pick(s) * g[s \ {Pick(s)}]]

LEMMA ProductFold ==
    ASSUME NEW S
    PROVE  ProductSet(S) = (CHOOSE g : Multiplies(g, S))[S]
BY DEF ProductSet, FoldSet, MapThenFoldSet, Multiplies, Pick

LEMMA PickedElement ==
    ASSUME NEW S, IsFiniteSet(S), S # {}
    PROVE  /\ Pick(S) \in S
           /\ IsFiniteSet(S \ {Pick(S)})
           /\ Cardinality(S \ {Pick(S)}) = Cardinality(S) - 1
           /\ Cardinality(S) \in Nat
<1>1. Pick(S) \in S
      BY DEF Pick
<1> QED BY <1>1, FS_RemoveElement, FS_CardinalityType

MultipliesUpTo(n, g, S) ==
    \A s \in SUBSET S : Cardinality(s) <= n =>
        g[s] = IF s = {} THEN 1 ELSE Pick(s) * g[s \ {Pick(s)}]

LEMMA NextStage ==
    ASSUME NEW S, IsFiniteSet(S), NEW n \in Nat,
           NEW g, DOMAIN g = SUBSET S, MultipliesUpTo(n, g, S)
    PROVE  \E h : h = [s \in SUBSET S |-> h[s]] /\ MultipliesUpTo(n + 1, h, S)
<1> DEFINE h == [s \in SUBSET S |-> IF Cardinality(s) <= n THEN g[s]
                                    ELSE Pick(s) * g[s \ {Pick(s)}]]
<1>1. ASSUME NEW s \in SUBSET S, Cardinality(s) <= n + 1
      PROVE  h[s] = IF s = {} THEN 1 ELSE Pick(s) * h[s \ {Pick(s)}]
  <2>1. IsFiniteSet(s) /\ Cardinality(s) \in Nat
        BY FS_Subset, FS_CardinalityType
  <2>2. CASE s = {}
    <3>1. Cardinality(s) <= n
          BY <2>2, FS_EmptySet
    <3> QED BY <2>2, <3>1 DEF MultipliesUpTo
  <2>3. CASE s # {}
    <3> DEFINE t == s \ {Pick(s)}
    <3>0. Cardinality(t) = Cardinality(s) - 1
          BY <2>1, <2>3, PickedElement
    <3>1. t \in SUBSET S /\ Cardinality(t) <= n
          BY <1>1, <2>1, <3>0
    <3>2. h[t] = g[t]
          BY <3>1
    <3>3. h[s] = Pick(s) * g[t]
          BY <2>3 DEF MultipliesUpTo
    <3> QED BY <2>3, <3>2, <3>3
  <2> QED BY <2>2, <2>3
<1>2. h = [s \in SUBSET S |-> h[s]]
      OBVIOUS
<1>3. MultipliesUpTo(n + 1, h, S)
      BY <1>1 DEF MultipliesUpTo
<1> HIDE DEF h
<1> QED BY <1>2, <1>3

LEMMA ProductDefined ==
    ASSUME NEW S, IsFiniteSet(S)
    PROVE  \E g : Multiplies(g, S)
<1> DEFINE Has(n) == \E g : g = [s \in SUBSET S |-> g[s]] /\ MultipliesUpTo(n, g, S)
           Missing == {n \in Nat : ~Has(n)}
<1>1. Has(0)
  <2>1. PICK g : g = [s \in SUBSET S |-> 1]
        OBVIOUS
  <2>2. \A s \in SUBSET S : Cardinality(s) <= 0 => s = {}
        BY FS_Subset, FS_CardinalityType, FS_EmptySet
  <2>3. MultipliesUpTo(0, g, S)
        BY <2>1, <2>2 DEF MultipliesUpTo
  <2>4. g = [s \in SUBSET S |-> g[s]]
        BY <2>1
  <2> QED BY <2>3, <2>4
<1>2. ASSUME NEW n \in Nat, Has(n) PROVE Has(n + 1)
  <2>1. PICK g : g = [s \in SUBSET S |-> g[s]] /\ MultipliesUpTo(n, g, S)
        BY <1>2
  <2>2. DOMAIN g = SUBSET S
        BY <2>1
  <2> QED BY <2>1, <2>2, NextStage
<1> HIDE DEF Has
<1>3. Missing = {}
  <2> SUFFICES ASSUME Missing # {} PROVE FALSE
      OBVIOUS
  <2>1. Missing \subseteq Nat
        OBVIOUS
  <2>2. PICK n \in Missing : \A m \in Missing : n <= m
        BY <2>1, MinIsLeast
  <2>3. n \in Nat /\ ~Has(n) /\ n # 0
        BY <1>1, <2>2
  <2>4. n - 1 \in Nat /\ ~(n <= n - 1) /\ (n - 1) + 1 = n
        BY <2>3
  <2>5. Has(n - 1)
        BY <2>2, <2>4
  <2> QED BY <1>2, <2>3, <2>4, <2>5
<1>4. Has(Cardinality(S))
      BY <1>3, FS_CardinalityType
<1>5. PICK g : g = [s \in SUBSET S |-> g[s]] /\ MultipliesUpTo(Cardinality(S), g, S)
      BY <1>4 DEF Has
<1>6. \A s \in SUBSET S : Cardinality(s) <= Cardinality(S)
      BY FS_Subset
<1>7. \A s \in SUBSET S : g[s] = IF s = {} THEN 1 ELSE Pick(s) * g[s \ {Pick(s)}]
      BY <1>5, <1>6 DEF MultipliesUpTo
<1>8. Multiplies(g, S)
      BY <1>5, <1>7 DEF Multiplies
<1> QED BY <1>8

LEMMA ProductNat ==
    ASSUME NEW S, IsFiniteSet(S), S \subseteq Nat
    PROVE  ProductSet(S) \in Nat
<1>1. PICK g : Multiplies(g, S) /\ ProductSet(S) = g[S]
      BY ProductDefined, ProductFold
<1> DEFINE Q == {s \in SUBSET S : g[s] \notin Nat}
<1> SUFFICES ASSUME Q # {} PROVE FALSE
    BY <1>1
<1>2. \A s \in Q : IsFiniteSet(s)
      BY FS_Subset
<1> HIDE DEF Q
<1>3. PICK s \in Q : \A t : Cardinality(t) < Cardinality(s) => t \notin Q
      BY <1>2, SmallestSet
<1>4. s \in SUBSET S /\ g[s] \notin Nat /\ IsFiniteSet(s)
      BY <1>2, <1>3 DEF Q
<1>5. g[{}] = 1
      BY <1>1 DEF Multiplies
<1>6. s # {}
      BY <1>4, <1>5
<1> DEFINE t == s \ {Pick(s)}
<1>7. /\ Pick(s) \in Nat /\ t \in SUBSET S
      /\ Cardinality(t) = Cardinality(s) - 1 /\ Cardinality(s) \in Nat
      BY <1>4, <1>6, PickedElement
<1>8. Cardinality(t) < Cardinality(s)
      BY <1>7
<1>9. g[t] \in Nat
      BY <1>3, <1>7, <1>8 DEF Q
<1>10. g[s] = Pick(s) * g[t]
      BY <1>1, <1>4, <1>6 DEF Multiplies
<1>11. \A x, y \in Nat : x * y \in Nat
      OBVIOUS
<1> QED BY <1>4, <1>7, <1>9, <1>10, <1>11

(* A later rank and a smaller weight make no larger share.                 *)
LEMMA Shares ==
    ASSUME NEW U \in Nat, NEW n \in Nat \ {0}, NEW m \in Nat \ {0}, n <= m,
           NEW v \in Nat, NEW w \in Nat, w <= v
    PROVE  /\ v * (U \div n) \in Nat /\ w * (U \div m) \in Nat
           /\ w * (U \div m) <= v * (U \div n)
<1>1. PICK p, q : p = U \div n /\ q = U \div m
      OBVIOUS
<1>2. /\ p \in Nat /\ q \in Nat
      /\ m * q <= U /\ U < n * (p + 1)
      BY <1>1
<1>3. n * q <= m * q
      BY <1>2
<1>4. q <= p
  <2>1. SUFFICES ASSUME p + 1 <= q PROVE FALSE
        BY <1>2
  <2>2. n * (p + 1) <= n * q
        BY <1>2, <2>1
  <2>3. n * (p + 1) \in Nat /\ n * q \in Nat /\ m * q \in Nat
        BY <1>2
  <2> QED BY <1>2, <1>3, <2>2, <2>3
<1>5. w * q <= v * q /\ v * q <= v * p /\ w * q \in Nat /\ v * q \in Nat /\ v * p \in Nat
      BY <1>2, <1>4
<1>6. w * q <= v * p
      BY <1>5
<1> QED BY <1>1, <1>5, <1>6

LEMMA UnitNat == Unit \in Nat
<1> DEFINE top == Max({TopA, TopB}) - 1
           ranks == {K + rank : rank \in 0 .. top}
<1>1. top \in Int
  <2>1. {TopA, TopB} # {} /\ TopA \in Nat /\ TopB \in Nat
        BY ReadingAssumption
  <2>2. \E x \in {TopA, TopB} : \A y \in {TopA, TopB} : x >= y
        BY <2>1
  <2>3. Max({TopA, TopB}) \in {TopA, TopB}
        BY <2>2 DEF Max
  <2> QED BY <2>1, <2>3
<1> HIDE DEF top
<1>2. IsFiniteSet(K .. (K + top))
      BY <1>1, ReadingAssumption, FS_Interval
<1>3. IsFiniteSet(ranks)
  <2>1. ranks \subseteq K .. (K + top)
        BY <1>1, ReadingAssumption
  <2> QED BY <1>2, <2>1, FS_Subset
<1>4. ranks \subseteq Nat
      BY ReadingAssumption
<1>5. ProductSet(ranks) \in Nat
  <2> HIDE DEF ranks
  <2> QED BY <1>3, <1>4, ProductNat
<1> QED BY <1>5 DEF Unit, top

LEMMA FirstPosition ==
    ASSUME NEW hits \in Seq(Hit), NEW id \in Ids(hits)
    PROVE  /\ Min(Positions(hits, id)) \in 1 .. Len(hits)
           /\ Len(hits) \in Nat
           /\ hits[Min(Positions(hits, id))] \in Hit
<1>1. Len(hits) \in Nat /\ DOMAIN hits = 1 .. Len(hits)
      BY LenProperties
<1>2. Positions(hits, id) \subseteq Nat /\ Positions(hits, id) # {}
      BY <1>1 DEF Positions, Ids
<1>3. Min(Positions(hits, id)) \in Positions(hits, id)
      BY <1>2, MinIsLeast
<1>4. Min(Positions(hits, id)) \in 1 .. Len(hits)
      BY <1>1, <1>3 DEF Positions
<1> QED BY <1>1, <1>4, ElementOfSeq

(* Who outranks another in a path gets at least as many votes of it.       *)
LEMMA OutranksVotes ==
    ASSUME NEW hits \in Seq(Hit), NEW x, NEW y, Outranks(hits, x, y)
    PROVE  /\ Votes(hits, x) \in Nat /\ Votes(hits, y) \in Nat
           /\ Votes(hits, y) <= Votes(hits, x)
<1> K \in Nat \ {0} /\ Full \in Nat
    BY ReadingAssumption
<1>1. ASSUME NEW id \in Ids(hits)
      PROVE  /\ Min(Positions(hits, id)) \in Nat \ {0}
             /\ hits[Min(Positions(hits, id))].weight \in Nat
             /\ Votes(hits, id) = hits[Min(Positions(hits, id))].weight
                                    * (Unit \div (K + Min(Positions(hits, id)) - 1))
  <2>1. /\ Min(Positions(hits, id)) \in 1 .. Len(hits) /\ Len(hits) \in Nat
        /\ hits[Min(Positions(hits, id))] \in Hit
        BY FirstPosition
  <2>2. hits[Min(Positions(hits, id))].weight \in Nat
        BY <2>1 DEF Hit
  <2>3. Votes(hits, id) = hits[Min(Positions(hits, id))].weight
                            * (Unit \div (K + Min(Positions(hits, id)) - 1))
        BY <1>1 DEF Votes
  <2> QED BY <2>1, <2>2, <2>3
<1>2. ASSUME NEW id PROVE Votes(hits, id) \in Nat
  <2>1. CASE id \notin Ids(hits)
        BY <2>1 DEF Votes
  <2>2. CASE id \in Ids(hits)
    <3>1. PICK i, w : i = Min(Positions(hits, id)) /\ w = hits[i].weight
          OBVIOUS
    <3>2. K + i - 1 \in Nat \ {0} /\ w \in Nat
          BY <1>1, <2>2, <3>1
    <3>3. w * (Unit \div (K + i - 1)) \in Nat
      <4>1. K + i - 1 <= K + i - 1 /\ w <= w
            BY <3>2
      <4> QED BY <3>2, <4>1, UnitNat, Shares
    <3> QED BY <1>1, <2>2, <3>1, <3>3
  <2> QED BY <2>1, <2>2
<1>3. CASE y \notin Ids(hits)
  <2>1. Votes(hits, y) = 0
        BY <1>3 DEF Votes
  <2> QED BY <1>2, <2>1
<1>4. CASE y \in Ids(hits)
  <2>1. PICK i, j, v, w : /\ i = Min(Positions(hits, x)) /\ v = hits[i].weight
                          /\ j = Min(Positions(hits, y)) /\ w = hits[j].weight
        OBVIOUS
  <2>2. x \in Ids(hits) /\ i < j /\ w <= v
    <3>1. x \in Ids(hits) /\ i < j /\ v >= w
          BY <1>4, <2>1 DEF Outranks
    <3>2. v \in Nat /\ w \in Nat
          BY <1>1, <1>4, <2>1, <3>1
    <3> QED BY <3>1, <3>2
  <2>3. /\ i \in Nat \ {0} /\ j \in Nat \ {0} /\ v \in Nat /\ w \in Nat
        /\ Votes(hits, x) = v * (Unit \div (K + i - 1))
        /\ Votes(hits, y) = w * (Unit \div (K + j - 1))
        BY <1>1, <1>4, <2>1, <2>2
  <2>4. K + i - 1 \in Nat \ {0} /\ K + j - 1 \in Nat \ {0} /\ K + i - 1 <= K + j - 1
        BY <2>2, <2>3
  <2>5. w * (Unit \div (K + j - 1)) <= v * (Unit \div (K + i - 1))
        BY <2>2, <2>3, <2>4, UnitNat, Shares
  <2> QED BY <1>2, <2>3, <2>5
<1> QED BY <1>3, <1>4

(* Who outranks another in both paths is found before it too.              *)
LEMMA OutranksArrives ==
    ASSUME TypeOK, NEW x, NEW y, x # y, y \in Ids(a.hits) \cup Ids(b.hits),
           Outranks(a.hits, x, y), Outranks(b.hits, x, y)
    PROVE  Arrival(x) \in Nat /\ Arrival(y) \in Nat /\ Arrival(x) < Arrival(y)
<1>1. a.hits \in Seq(Hit) /\ b.hits \in Seq(Hit)
      BY DEF TypeOK, Path
<1>2. Len(a.hits) \in Nat
      BY <1>1, LenProperties
<1>3. \A id \in Ids(a.hits) : Min(Positions(a.hits, id)) \in 1 .. Len(a.hits)
      BY <1>1, FirstPosition
<1>4. \A id \in Ids(b.hits) : Min(Positions(b.hits, id)) \in Nat \ {0}
      BY <1>1, FirstPosition
<1>5. CASE y \in Ids(a.hits)
  <2>1. x \in Ids(a.hits) /\ Min(Positions(a.hits, x)) < Min(Positions(a.hits, y))
        BY <1>5 DEF Outranks
  <2> QED BY <1>3, <1>5, <2>1 DEF Arrival
<1>6. CASE y \notin Ids(a.hits)
  <2>1. /\ y \in Ids(b.hits)
        /\ x \in Ids(b.hits)
        /\ Min(Positions(b.hits, x)) < Min(Positions(b.hits, y))
        BY <1>6 DEF Outranks
  <2>2. Arrival(y) = Len(a.hits) + Min(Positions(b.hits, y))
        BY <1>6 DEF Arrival
  <2>3. CASE x \in Ids(a.hits)
    <3>1. Arrival(x) \in 1 .. Len(a.hits)
          BY <1>3, <2>3 DEF Arrival
    <3>2. Min(Positions(b.hits, y)) \in Nat \ {0}
          BY <1>4, <2>1
    <3> QED BY <1>2, <2>2, <3>1, <3>2
  <2>4. CASE x \notin Ids(a.hits)
    <3>1. Arrival(x) = Len(a.hits) + Min(Positions(b.hits, x))
          BY <2>4 DEF Arrival
    <3>2. Min(Positions(b.hits, x)) \in Nat /\ Min(Positions(b.hits, y)) \in Nat
          BY <1>4, <2>1
    <3> QED BY <1>2, <2>1, <2>2, <3>1, <3>2
  <2> QED BY <2>3, <2>4
<1> QED BY <1>5, <1>6

(* Until it is cut or reranked, the answer is the ranking of the hits.     *)
FusedInv ==
    pc = "fused" => /\ a.at = "done" /\ b.at = "done"
                    /\ merged \in [1 .. Cardinality(Fused) -> Fused] /\ Ranked(merged)

LEMMA RankedIsFair == TypeOK /\ FusedInv => FusionIsFair
<1> SUFFICES ASSUME TypeOK, FusedInv, pc = "fused",
                    NEW i \in DOMAIN merged, NEW j \in DOMAIN merged,
                    Outranks(a.hits, merged[i].id, merged[j].id),
                    Outranks(b.hits, merged[i].id, merged[j].id)
             PROVE  i <= j
    BY DEF FusionIsFair
<1>1. PICK x, y : x = merged[i].id /\ y = merged[j].id
      OBVIOUS
<1>2. Cardinality(Fused) \in Nat /\ DOMAIN merged = 1 .. Cardinality(Fused)
      BY FusedTyped, FS_CardinalityType DEF FusedInv
<1>3. i \in Nat /\ j \in Nat
      BY <1>2
<1> SUFFICES ASSUME j < i PROVE FALSE
    BY <1>3
<1>4. \/ Score(y) > Score(x)
      \/ Score(y) = Score(x) /\ Arrival(y) < Arrival(x)
      BY <1>1 DEF FusedInv, Ranked
<1>5. a.hits \in Seq(Hit) /\ b.hits \in Seq(Hit)
      BY DEF TypeOK, Path
<1>6. /\ Votes(a.hits, x) \in Nat /\ Votes(a.hits, y) \in Nat /\ Votes(a.hits, y) <= Votes(a.hits, x)
      /\ Votes(b.hits, x) \in Nat /\ Votes(b.hits, y) \in Nat /\ Votes(b.hits, y) <= Votes(b.hits, x)
      BY <1>1, <1>5, OutranksVotes
<1>7. Score(x) \in Nat /\ Score(y) \in Nat /\ Score(y) <= Score(x)
      BY <1>6 DEF Score
<1>8. Arrival(y) < Arrival(x)
      BY <1>4, <1>7
<1>9. y \in Ids(a.hits) \cup Ids(b.hits)
  <2>1. merged[j] \in Fused
        BY <1>2 DEF FusedInv
  <2> QED BY <1>1, <2>1 DEF Fused, Plain, Firsts, Ids
<1>10. x # y
  <2>0. Outranks(a.hits, x, y) /\ Outranks(b.hits, x, y)
        BY <1>1
  <2>1. \/ x \in Ids(a.hits) /\ Min(Positions(a.hits, x)) < Min(Positions(a.hits, y))
        \/ x \in Ids(b.hits) /\ Min(Positions(b.hits, x)) < Min(Positions(b.hits, y))
    <3>1. CASE y \in Ids(a.hits)
          BY <2>0, <3>1 DEF Outranks
    <3>2. CASE y \in Ids(b.hits)
          BY <2>0, <3>2 DEF Outranks
    <3> QED BY <1>9, <3>1, <3>2
  <2>2. ASSUME x = y PROVE FALSE
    <3>1. \A id \in Ids(a.hits) : Min(Positions(a.hits, id)) \in Nat
          BY <1>5, FirstPosition
    <3>2. \A id \in Ids(b.hits) : Min(Positions(b.hits, id)) \in Nat
          BY <1>5, FirstPosition
    <3> QED BY <2>1, <2>2, <3>1, <3>2
  <2> QED BY <2>2
<1>11. Arrival(x) \in Nat /\ Arrival(y) \in Nat /\ Arrival(x) < Arrival(y)
      BY <1>1, <1>9, <1>10, OutranksArrives
<1> QED BY <1>8, <1>11

LEMMA FusedInvNext ==
    ASSUME FusedInv, [Next]_readingVars
    PROVE  FusedInv'
<1>1. ASSUME UNCHANGED <<pc, a, b, merged>> PROVE FusedInv'
  <2>1. Fused' = Fused /\ (Ranked(merged)' <=> Ranked(merged))
        BY <1>1 DEF Fused, Ranked, Score, Arrival
  <2> QED BY <1>1, <2>1 DEF FusedInv
<1>2. ASSUME Fuse PROVE FusedInv'
  <2>1. a.at = "done" /\ b.at = "done" /\ UNCHANGED <<a, b>>
        BY <1>2 DEF Fuse
  <2>2. merged' \in [1 .. Cardinality(Fused) -> Fused] /\ Ranked(merged')
        BY <1>2 DEF Fuse
  <2>3. Fused' = Fused /\ (Ranked(merged)' <=> Ranked(merged'))
        BY <2>1 DEF Fused, Ranked, Score, Arrival
  <2> QED BY <2>1, <2>2, <2>3 DEF FusedInv
<1>3. ASSUME pc = "fused", PathA \/ SearchB PROVE FALSE
      BY <1>3 DEF FusedInv, PathA, SearchA, EndA, SelectCenter, Relocate, AnchorStale,
                  PersistRelocate, WindowOrder, WindowRows, SearchB
<1>4. ASSUME PathA \/ SearchB PROVE pc' = pc
      BY <1>4 DEF PathA, SearchA, EndA, SelectCenter, Relocate, AnchorStale,
                  PersistRelocate, WindowOrder, WindowRows, Miss, StepA, SearchB
<1>5. ASSUME NEW p, NEW q, Ask(p, q) PROVE pc' # "fused"
      BY <1>5 DEF Ask
<1>6. ASSUME Keep \/ Rerank \/ VerifyRows \/ VerifyActive \/ Done \/ Abort PROVE pc' # "fused"
      BY <1>6 DEF Keep, Rerank, VerifyRows, VerifyActive, Done, Abort
<1>7. ASSUME pc' # "fused" PROVE FusedInv'
      BY <1>7 DEF FusedInv
<1>8. ASSUME UNCHANGED askVars PROVE FusedInv'
      BY <1>1, <1>8 DEF askVars
<1> QED BY <1>2, <1>3, <1>4, <1>5, <1>6, <1>7, <1>8 DEF Next, readingVars

(* For any lists, weights and sizes of the paths: a chunk that every path  *)
(* ranks before another with no less weight is placed before it            *)
(* (fusion.py:2-23), for each chunk is voted for once per path and the sort   *)
(* keeps the order of arrival.                                             *)
THEOREM FusionFair == Spec => []FusionIsFair
<1>1. Init => FusedInv
      BY DEF Init, FusedInv
<1>2. FusedInv /\ [Next]_readingVars => FusedInv'
      BY FusedInvNext
<1>3. TypeOK /\ FusedInv => FusionIsFair
      BY RankedIsFair
<1> QED BY <1>1, <1>2, <1>3, ReadingTypeCorrect, PTL DEF Spec

=============================================================================
