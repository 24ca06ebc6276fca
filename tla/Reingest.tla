------------------------------ MODULE Reingest ------------------------------
(***************************************************************************)
(* What an ingest stages (ingest/pipeline.py:_build_sources, diff.py and   *)
(* summarizer.py): chunks, their vectors and the summaries, computed anew  *)
(* or carried over from the version before when little has changed.  The   *)
(* bytes of a file stay; what a re-parse changes is the chunking.          *)
(*                                                                         *)
(* One request at a time: how requests overlap is Indexing's subject, and  *)
(* so is what is visible.  A text is what a model embeds or a summary      *)
(* says; a vector is the set of the text it was made from, {} for none.    *)
(***************************************************************************)
EXTENDS Chunker

CONSTANTS
    Documents,      \* the parsed documents: sequences of blocks
    Configs,        \* the chunkings a re-parse may ask for
    MinTokens, MinChunks, WindowTokens,     \* the limits of summarize_file
    FaultKinds,     \* what may fail: "unread", "short", "loss"
    MaxIngests, MaxFaults

ASSUME ConfigsAssumption == \A c \in Configs : IsConfig(c)
ASSUME DocumentsAssumption == Documents \subseteq Seq(Block)

VARIABLES
    blocks,         \* what the parser makes of the file's bytes
    versions,       \* per version, the rows of kb_chunk and kb_summary_doc
    active,         \* the version the file points to
    outbox,         \* the documents still to publish
    es,             \* the vector of every document in the index
    pc,             \* "staged": an ingest stands before its drain
    faults          \* what has failed so far

vars == <<blocks, versions, active, outbox, es, pc, faults>>

ChunkId(v, k) == <<"chunk", v, k>>
SummaryId(v, t) == <<"summary", v, t>>

(* A version as it is read back, by a SELECT without an order: of rows with*)
(* the same content, the ones in late come last.  The version before the   *)
(* first has nothing.                                                      *)
NoVersion == [chunks |-> <<>>, summaries |-> {}]
LastVersion == IF versions = <<>> THEN NoVersion ELSE Last(versions)
PrevVersion(late) ==
    [chunks |-> LastVersion.chunks, summaries |-> LastVersion.summaries, late |-> late]

Fault(kind) ==
    /\ kind \in FaultKinds
    /\ faults < MaxFaults
    /\ faults' = faults + 1

Init ==
    /\ blocks \in Documents
    /\ versions = <<>>
    /\ active = 1
    /\ outbox = {}
    /\ es = [d \in {} |-> {}]
    /\ pc = "idle"
    /\ faults = 0

---------------------------------------------------------------------------
(* diff.match: by content, the last one read of several that are the same. *)
Holding(chunks, lines) == {i \in DOMAIN chunks : chunks[i].lines = lines}
LastHolding(chunks, lines) == Max(Holding(chunks, lines))
Repeated(chunks) ==
    {i \in DOMAIN chunks : Holding(chunks, chunks[i].lines) # {i}}
Found(prev, lines) ==
    LET same == Holding(prev.chunks, lines)
    IN  CHOOSE i \in same : i \in prev.late \/ same \cap prev.late = {}
Fresh(prev, new) == {k \in DOMAIN new : Holding(prev.chunks, new[k].lines) = {}}

(* At most half of the chunks are new.                                     *)
Incremental(new) ==
    versions # <<>> /\ 2 * Cardinality(Fresh(LastVersion, new)) <= Len(new)

(* Mutant: only the chunks that are still in their place.                  *)
OldToNewInPlace(prev, new) ==
    [i \in {i \in DOMAIN prev.chunks \cap DOMAIN new :
               prev.chunks[i].lines = new[i].lines} |-> i]

(* diff.old_to_new_map: from the chunks that matched to the last chunk of  *)
(* the new version with the same content.                                  *)
OldToNew(prev, new) ==
    LET matched == {Found(prev, new[k].lines) : k \in DOMAIN new \ Fresh(prev, new)}
    IN  [i \in matched |-> LastHolding(new, prev.chunks[i].lines)]

(* Mutant: one source that is still there will do.                         *)
CarriedOverAny(prev, new) ==
    LET map == OldToNew(prev, new)
        kept == {s \in prev.summaries : s.sources \cap DOMAIN map # {}}
    IN  {[text |-> s.text, sources |-> {map[i] : i \in s.sources \cap DOMAIN map}] : s \in kept}

(* The summaries whose sources are all in that map, with new source ids.   *)
CarriedOver(prev, new) ==
    LET map == OldToNew(prev, new)
        kept == {s \in prev.summaries : s.sources # {} /\ s.sources \subseteq DOMAIN map}
    IN  {[text |-> s.text, sources |-> {map[i] : i \in s.sources}] : s \in kept}

(* summarize_file: the chunks ks in windows that are closed when they are  *)
(* full; none at all for a file or a change that is too small.             *)
TokensOf(new, ks) == MapThenSumSet(LAMBDA k : Tokens(new[k].lines), ks)
Windows(new, ks) ==
    LET Put(ws, k) == IF TokensOf(new, Last(ws)) >= WindowTokens
                      THEN Append(ws, {k})
                      ELSE [ws EXCEPT ![Len(ws)] = @ \cup {k}]
    IN  IF TokensOf(new, ks) < MinTokens \/ Cardinality(ks) < MinChunks THEN <<>>
        ELSE FoldLeft(Put, <<{}>>, InOrder(ks))

(* summarize_window: the model writes an item about some of a window, or   *)
(* nothing, as when it fails.  What it writes is known by where it was     *)
(* written and by the contents it was written from.                        *)
Summary(target, w, new, ks) ==
    [text |-> [at |-> target, window |-> w, from |-> {new[k].lines : k \in ks}],
     sources |-> ks]
Answers(target, new, ks) ==
    LET ws == Windows(new, ks)
        Items(picked) == {Summary(target, w, new, picked \cap ws[w]) :
                            w \in {w \in DOMAIN ws : picked \cap ws[w] # {}}}
    IN  {Items(picked) : picked \in SUBSET (ks \cap UNION Range(ws))}

Eligible(new) == {k \in DOMAIN new : ~new[k].skip}
Row(id, vec) == [id |-> id, vec |-> vec]

(* The transaction that stages; chunkVec and summaryVec are the vectors.   *)
Stage(c, new, summaries, chunkVec, summaryVec) ==
    LET target == Len(versions) + 1
    IN  /\ versions' = Append(versions,
                          [chunks |-> new, summaries |-> summaries, config |-> c])
        /\ outbox' = outbox
             \cup {Row(ChunkId(target, k), chunkVec[k]) : k \in DOMAIN new}
             \cup {Row(SummaryId(target, s.text), summaryVec[s]) : s \in summaries}
        /\ pc' = "staged"
        /\ UNCHANGED <<blocks, active, es>>

Begins(c) == c \in Configs /\ pc = "idle" /\ Len(versions) < MaxIngests

(* The first version, and one that has changed too much.                   *)
StageFull(c) ==
    LET new == ChunksOf(c, blocks)
    IN  /\ Begins(c)
        /\ ~Incremental(new)
        /\ \E fresh \in Answers(Len(versions) + 1, new, Eligible(new)) :
              Stage(c, new, fresh, [k \in DOMAIN new |-> {new[k].lines}],
                                   [s \in fresh |-> {s.text}])
        /\ UNCHANGED faults

(* diff.reuse_vector: none when the index does not answer or has no such   *)
(* document, and none when that one has none.                              *)
ReuseVector(id, unread) == IF id \in DOMAIN es \ unread THEN es[id] ELSE {}

(* Mutant: the vector of any chunk the version before had in that place.   *)
ChunkVectorByPlace(prev, new, k, unread) ==
    IF k \in DOMAIN prev.chunks
    THEN ReuseVector(ChunkId(Len(versions), k), unread)
    ELSE {new[k].lines}

(* Mutant: the index is asked for the id that the chunk is going to have.  *)
ChunkVectorNewId(prev, new, k, unread) ==
    IF k \in Fresh(prev, new) THEN {new[k].lines}
    ELSE ReuseVector(ChunkId(Len(versions) + 1, k), unread)

ChunkVector(prev, new, k, unread) ==
    IF k \in Fresh(prev, new) THEN {new[k].lines}
    ELSE ReuseVector(ChunkId(Len(versions), Found(prev, new[k].lines)), unread)

(* What is known is taken over from the version before, whatever became of *)
(* that version; what is fresh is embedded and summarised by itself.       *)
StageIncremental(c) ==
    LET new == ChunksOf(c, blocks)
        asked == {d \in DOMAIN es : d[2] = Len(versions)}
    IN  /\ Begins(c)
        /\ Incremental(new)
        /\ \E late \in SUBSET Repeated(LastVersion.chunks),
              unread \in {{}} \cup {{d} : d \in asked} :
              LET prev == PrevVersion(late)
                  kept == CarriedOver(prev, new)
              IN  /\ IF unread = {} THEN UNCHANGED faults ELSE Fault("unread")
                  /\ \E fresh \in Answers(Len(versions) + 1, new,
                                         Eligible(new) \cap Fresh(prev, new)) :
                        Stage(c, new, kept \cup fresh,
                            [k \in DOMAIN new |-> ChunkVector(prev, new, k, unread)],
                            [s \in kept \cup fresh |->
                                IF s \in kept THEN ReuseVector(SummaryId(Len(versions), s.text), unread)
                                              ELSE {s.text}])

---------------------------------------------------------------------------
(* relay: the rows done reach the index.                                   *)
Published(done) ==
    LET ids == {r.id : r \in done}
    IN  [d \in DOMAIN es \cup ids |->
            IF d \in ids THEN (CHOOSE r \in done : r.id = d).vec ELSE es[d]]

(* The drain, the barrier and the flip.                                    *)
Publish ==
    /\ pc = "staged"
    /\ es' = Published(outbox)
    /\ outbox' = {}
    /\ active' = Len(versions)
    /\ pc' = "idle"
    /\ UNCHANGED <<blocks, versions, faults>>

(* A row does not get through, or none does, or the process dies before    *)
(* the flip: the version stays staged.                                     *)
PublishShort ==
    /\ pc = "staged"
    /\ Fault("short")
    /\ \E done \in {{}, outbox} \cup {outbox \ {r} : r \in outbox} :
          /\ es' = Published(done)
          /\ outbox' = outbox \ done
    /\ pc' = "idle"
    /\ UNCHANGED <<blocks, versions, active>>

(* The index loses a document.                                             *)
Lose(d) ==
    /\ Fault("loss")
    /\ es' = [e \in DOMAIN es \ {d} |-> es[e]]
    /\ UNCHANGED <<blocks, versions, active, outbox, pc>>

(* reconcile: the documents of the active version that are missing are     *)
(* embedded anew; one that is there without a vector is not missing.       *)
Reconcile ==
    LET v == active
        own == {Row(ChunkId(v, k), {versions[v].chunks[k].lines}) :
                  k \in DOMAIN versions[v].chunks}
                 \cup {Row(SummaryId(v, s.text), {s.text}) : s \in versions[v].summaries}
        missing == {r \in own : r.id \notin DOMAIN es}
    IN  /\ pc = "idle"
        /\ v \in DOMAIN versions
        /\ missing # {}
        /\ es' = Published(outbox \cup missing)
        /\ outbox' = {}
        /\ UNCHANGED <<blocks, versions, active, pc, faults>>

Next ==
    \/ \E c \in Configs : StageFull(c) \/ StageIncremental(c)
    \/ Publish \/ PublishShort
    \/ \E d \in DOMAIN es : Lose(d)
    \/ Reconcile

Spec == Init /\ [][Next]_vars

---------------------------------------------------------------------------
(***************************************************************************)
(* Properties.                                                             *)
(***************************************************************************)
TextOf(d) == IF d[1] = "chunk" THEN versions[d[2]].chunks[d[3]].lines ELSE d[3]

Served(v) ==
    {ChunkId(v, k) : k \in DOMAIN versions[v].chunks}
      \cup {SummaryId(v, s.text) : s \in versions[v].summaries}
IsRow(d) == d[2] \in DOMAIN versions /\ d \in Served(d[2])

(* No document has another's vector, through any number of re-ingests that *)
(* carry vectors over by content, or fail to (pipeline.py:144-151), and    *)
(* every document that is, or is going to be, in the index is a row.       *)
VectorsAreOwn ==
    /\ \A d \in DOMAIN es : IsRow(d) /\ es[d] \subseteq {TextOf(d)}
    /\ \A r \in outbox : IsRow(r.id) /\ r.vec \subseteq {TextOf(r.id)}

(* A summary stays supported by its sources (summarizer.py:14): however    *)
(* often it was carried over and its sources renamed, they are chunks of   *)
(* its version with just the contents it was written from.                 *)
SummariesSupported ==
    \A v \in DOMAIN versions : \A s \in versions[v].summaries :
        /\ s.sources \subseteq DOMAIN versions[v].chunks
        /\ {versions[v].chunks[k].lines : k \in s.sources} = s.text.from

(* A summary is not lost as long as little else changes: when no two chunks*)
(* of a version hold the same and the next has all that a summary was      *)
(* written from and at least as much that is old as new, it has the summary*)
(* too (diff.py:4).                                                        *)
SummariesSurvive ==
    \A v \in DOMAIN versions \ {1} :
        LET prev == versions[v - 1]
            new == versions[v].chunks
            held == {new[k].lines : k \in DOMAIN new}
        IN  Repeated(prev.chunks) = {} /\ 2 * Cardinality(Fresh(prev, new)) <= Len(new) =>
              \A s \in prev.summaries :
                  s.text.from \subseteq held => s.text \in {t.text : t \in versions[v].summaries}

(* Without a fault, all that the active version serves is in the index with*)
(* its own vector, the carried over and the fresh.                         *)
ServedHaveVectors ==
    pc = "idle" /\ versions # <<>> /\ faults = 0 =>
        /\ active = Len(versions)
        /\ \A d \in Served(active) : d \in DOMAIN es /\ es[d] = {TextOf(d)}

(* The chunks of every version divide the document as their method says    *)
(* (chunker.py:3-8, chunker_factory.py:5-13), whatever limit and overlap   *)
(* the request asked for as long as the limit is not 0 (Divisible).  What  *)
(* is not in them is what windows stride past when the overlap is negative,*)
(* and what is left of the characters that the windows' ends cut.          *)
ChunksDivide ==
    \A v \in DOMAIN versions :
        LET c == versions[v].config
            chunks == versions[v].chunks
        IN  /\ c.method # "one" /\ Divisible(c, blocks) => Covers(c, Divided(c, blocks), chunks)
            /\ c.method # "one" /\ c.size > 0 => Bounded(c, chunks)
            /\ c.method \in {"naive", "delimiter"} => Parted(Parts(c, blocks), chunks)

(* A character that a window cuts is whole in the next, when they overlap  *)
(* enough: then no character of the document is missing from its chunks    *)
(* (chunker.py:126-132, chunker_factory.py:113-123).                       *)
CharactersKept ==
    \A v \in DOMAIN versions :
        LET c == versions[v].config
            text == Divided(c, blocks)
        IN  c.method # "one" /\ Divisible(c, blocks) /\ Wide(c, text) =>
              KeepsCharacters(text, versions[v].chunks)

---------------------------------------------------------------------------
(* What the repository's own words promise and the code does not keep.     *)

(* pipeline.py:4: a chunk that has not changed keeps its embedding.  So    *)
(* whatever is in the index has one, as long as the index answers and loses*)
(* nothing.                                                                *)
UnchangedKeepEmbedding == \A d \in DOMAIN es : es[d] # {}
=============================================================================
