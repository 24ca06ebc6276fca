------------------------------ MODULE Chunker ------------------------------
(***************************************************************************)
(* ingest/chunker.py and chunker_factory.py: how the blocks of a parsed    *)
(* document become chunks.  A text is a sequence of tokens that show       *)
(* something (white space goes with them); a character may take several.   *)
(* What a chunk holds is the sequence of the texts that the code joins with*)
(* a line break.  Pages, boxes and section paths only ride along and are   *)
(* left out.  A configuration c is the chunking method, the token limit    *)
(* size, the overlap carry and the stride of the windows over a long text. *)
(***************************************************************************)
EXTENDS Integers, Sequences, SequencesExt

CONSTANTS Words,       \* the tokens of texts
          Delimiter,   \* the token that separates sentences
          Question,    \* the token a question begins with
          Continues,   \* the tokens that go on with the character before
          Replacement  \* U+FFFD, which stands for a part of a character

ASSUME WordsAssumption == Replacement \in Words

Methods == {"naive", "delimiter", "one", "qa"}

(* The limit and the overlap are any numbers that a request writes into   *)
(* the parser_config: the limit may be 0 or less; a negative overlap makes *)
(* the stride longer than the limit, one above 1 the carry.                *)
IsConfig(c) ==
    /\ c.method \in Methods
    /\ c.size \in Int /\ c.carry \in Nat /\ c.stride \in Nat \ {0}

Kinds == {"prose", "title", "table"}
Block == [kind : Kinds, text : Seq(Words)]

(* The elements of a sequence at some of its indices.                      *)
Nth(indices, k) == CHOOSE i \in indices : Cardinality({j \in indices : j <= i}) = k
InOrder(indices) == [k \in 1 .. Cardinality(indices) |-> Nth(indices, k)]
Picked(s, indices) ==
    LET order == InOrder(indices) IN [k \in DOMAIN order |-> s[order[k]]]

Nonblank(bs) == Picked(bs, {i \in DOMAIN bs : bs[i].text # <<>>})
Lines(bs) == [i \in DOMAIN bs |-> bs[i].text]
Tokens(lines) == FoldLeft(LAMBDA n, l : n + Len(l), 0, lines)
Chunk(lines, skip) == [lines |-> lines, skip |-> skip]

(* ---- _apply_delimiter: a prose block becomes one block per sentence --- *)
Cut(s, t) == IF t = Delimiter THEN Append(s, <<>>) ELSE [s EXCEPT ![Len(s)] = Append(@, t)]
Sentences(text) ==
    LET all == FoldLeft(Cut, << <<>> >>, text)
    IN  Picked(all, {i \in DOMAIN all : all[i] # <<>>})

ApplyDelimiter(bs) ==
    FlattenSeq([i \in DOMAIN bs |->
        IF bs[i].kind = "table" THEN <<bs[i]>>
        ELSE LET ps == Sentences(bs[i].text)
             IN  [j \in DOMAIN ps |-> [bs[i] EXCEPT !.text = ps[j]]]])

(* ---- chunk_blocks ------------------------------------------------------*)
Flush(st) ==
    [pending |-> <<>>,
     pieces |-> IF st.pending = <<>> THEN st.pieces
                ELSE Append(st.pieces, Chunk(Lines(st.pending), FALSE))]

LastBlocks(bs, n) == SubSeq(bs, Len(bs) - n + 1, Len(bs))
Fitting(c, bs) == Max({k \in 0 .. Len(bs) : Tokens(Lines(LastBlocks(bs, k))) <= c.carry})

(* Mutant: all of them too.                                                *)
CarriedAll(c, bs) == LastBlocks(bs, Fitting(c, bs))

(* A chunk that is full hands its last blocks on, as many as the overlap   *)
(* has room for, but never all of them.                                    *)
Carried(c, bs) == IF Fitting(c, bs) = Len(bs) THEN <<>> ELSE CarriedAll(c, bs)

(* ---- windows of tokens, decoded ----------------------------------------*)
(* A character begins at the kth token, or the text is over.               *)
Starts(text, k) == k = Len(text) + 1 \/ text[k] \notin Continues
Whole(text, from, to, k) ==
    /\ \E i \in from .. k : Starts(text, i)
    /\ \E j \in k + 1 .. to + 1 : Starts(text, j)

(* What is left of a character cut by an end of the window is not readable.*)
Decode(text, from, to) ==
    LET cut == SubSeq(text, from, to)
    IN  [k \in DOMAIN cut |->
            IF Whole(text, from, to, from + k - 1) THEN cut[k] ELSE Replacement]

(* A slice that ends at e < 0 ends that much before the end of the text.   *)
SliceEnd(text, e) == IF e < 0 THEN Len(text) + e ELSE Min({Len(text), e})

(* Mutant: one after the other, without an overlap.                        *)
WindowApart(text, i, c) ==
    Decode(text, i * c.size + 1, SliceEnd(text, i * c.size + c.size))

Window(text, i, c) ==
    Decode(text, i * c.stride + 1, SliceEnd(text, i * c.stride + c.size))

(* emit_slides stops at the first window that reaches the end; a window    *)
(* with nothing in it is not a chunk, as all are when the limit is 0.      *)
Slides(c, text) ==
    LET starts == {i \in 0 .. Len(text) :
                      /\ i = 0 \/ (i - 1) * c.stride + c.size < Len(text)
                      /\ Window(text, i, c) # <<>>}
    IN  [i \in 1 .. Cardinality(starts) |-> Chunk(<<Window(text, i - 1, c)>>, FALSE)]

Pack(c, st, b) ==
    CASE b.kind = "table" ->
           [Flush(st) EXCEPT !.pieces = Append(@, Chunk(<<b.text>>, TRUE))]
      [] b.kind = "title" -> [Flush(st) EXCEPT !.pending = <<b>>]
      [] b.kind = "prose" /\ Len(b.text) > c.size ->
           [Flush(st) EXCEPT !.pieces = @ \o Slides(c, b.text)]
      [] b.kind = "prose" /\ Len(b.text) <= c.size ->
           IF st.pending # <<>> /\ Tokens(Lines(st.pending)) + Len(b.text) > c.size
           THEN [Flush(st) EXCEPT !.pending = Append(Carried(c, st.pending), b)]
           ELSE [st EXCEPT !.pending = Append(@, b)]

ChunkBlocks(c, bs) ==
    LET st == FoldLeft(LAMBDA s, b : Pack(c, s, b),
                       [pending |-> <<>>, pieces |-> <<>>], Nonblank(bs))
    IN  Flush(st).pieces

(* ---- chunker_factory ---------------------------------------------------*)
One(bs) ==
    IF Nonblank(bs) = <<>> THEN <<>> ELSE <<Chunk(Lines(Nonblank(bs)), FALSE)>>

(* The windows over a long answer go on past the one that reaches the end. *)
AnswerSlides(c, text) ==
    LET n == CHOOSE k \in 0 .. Len(text) :
                 k * c.stride >= Len(text) /\ (k = 0 \/ (k - 1) * c.stride < Len(text))
    IN  [i \in 1 .. n |-> Chunk(<<Window(text, i - 1, c)>>, FALSE)]

(* One chunk per question, up to the next; what precedes the first         *)
(* question is in none.  With fewer than two questions it is naive.  An    *)
(* answer that is too long is slid over, unless the limit is none.         *)
Marks(lines) == {i \in DOMAIN lines : Head(lines[i]) = Question}
QA(c, bs) ==
    LET lines == Lines(Nonblank(bs))
        marks == InOrder(Marks(lines))
        Next(i) == IF i < Len(marks) THEN marks[i + 1] - 1 ELSE Len(lines)
        Pair(i) == LET seg == SubSeq(lines, marks[i], Next(i))
                   IN  IF Tokens(seg) <= c.size \/ c.size <= 0 THEN <<Chunk(seg, FALSE)>>
                       ELSE AnswerSlides(c, FlattenSeq(seg))
    IN  IF Len(marks) < 2 THEN ChunkBlocks(c, bs)
        ELSE FlattenSeq([i \in DOMAIN marks |-> Pair(i)])

ChunksOf(c, bs) ==
    CASE c.method = "naive"     -> ChunkBlocks(c, bs)
      [] c.method = "delimiter" -> ChunkBlocks(c, ApplyDelimiter(bs))
      [] c.method = "one"       -> One(bs)
      [] c.method = "qa"        -> QA(c, bs)
---------------------------------------------------------------------------
(* What the chunks of a document have to be, said without the algorithm.   *)

(* What a method divides: no delimiters where it cuts at them, and nothing *)
(* before the first of several questions.                                  *)
Parts(c, bs) == Nonblank(IF c.method = "delimiter" THEN ApplyDelimiter(bs) ELSE bs)
Divided(c, bs) ==
    LET lines == Lines(Parts(c, bs))
    IN  IF c.method = "qa" /\ Cardinality(Marks(lines)) > 1
        THEN FlattenSeq(SubSeq(lines, Min(Marks(lines)), Len(lines)))
        ELSE FlattenSeq(lines)

(* With a limit it can be divided; in pairs it can without.                *)
Divisible(c, bs) ==
    c.size > 0 \/ (c.method = "qa" /\ Cardinality(Marks(Lines(Parts(c, bs)))) > 1)

(* A chunk reads as the text does where it stands, but for the characters  *)
(* that its ends cut.                                                      *)
Reads(text, from, own) ==
    LET to == from + Len(own) - 1
    IN  /\ to <= Len(text)
        /\ \A k \in DOMAIN own :
              \/ own[k] = text[from + k - 1]
              \/ own[k] = Replacement /\ ~Whole(text, from, to, from + k - 1)

(* What windows leave out between them when they stride past their end.    *)
Gap(c) == IF c.size \in 1 .. c.stride THEN c.stride - c.size ELSE 0

(* Laid over that text from its first token to its last, every chunk starts*)
(* after the chunk before it did and where that one ends: no later but for *)
(* the gap, and no earlier than the overlap.                               *)
Place(from, to) == [from |-> from, to |-> to]
Lay(c, text, placed, chunk) ==
    LET own == FlattenSeq(chunk.lines)
        Fits(p, s) == /\ p.to + 1 - s <= c.carry \/ p.to + 1 - s <= c.size - c.stride
                      /\ Reads(text, s, own)
    IN  UNION {{Place(s, s + Len(own) - 1) :
                  s \in {s \in p.from + 1 .. p.to + 1 + Gap(c) : Fits(p, s)}} : p \in placed}
Covers(c, text, chunks) ==
    \E p \in FoldLeft(LAMBDA placed, chunk : Lay(c, text, placed, chunk), {Place(0, 0)}, chunks) :
        p.to + Gap(c) >= Len(text)

(* Windows overlap by as much as any character has after its first token.  *)
Wide(c, text) ==
    \A s \in DOMAIN text : \E i \in s .. s + c.size - c.stride : Starts(text, i)
Character(text, k) ==
    SubSeq(text, Max({i \in 1 .. k : Starts(text, i)}),
                 Min({j \in k + 1 .. Len(text) + 1 : Starts(text, j)}) - 1)
KeepsCharacters(text, chunks) ==
    \A k \in DOMAIN text : \E i \in DOMAIN chunks :
        LET own == FlattenSeq(chunks[i].lines)
        IN  \E from, to \in DOMAIN own : SubSeq(own, from, to) = Character(text, k)

(* A chunk goes on with prose only, past no title, and every table is one  *)
(* by itself, kept from the summaries; nothing else is.                    *)
Parted(parts, chunks) ==
    LET Texts(kind) == {parts[i].text : i \in {i \in DOMAIN parts : parts[i].kind = kind}}
    IN  /\ \A i \in DOMAIN chunks :
              LET lines == chunks[i].lines
              IN  /\ \A j \in 2 .. Len(lines) : lines[j] \in Texts("prose")
                  /\ chunks[i].skip => Len(lines) = 1 /\ lines[1] \in Texts("table")
        /\ Cardinality({i \in DOMAIN chunks : chunks[i].skip})
              = Cardinality({i \in DOMAIN parts : parts[i].kind = "table"})

(* No chunk is longer than the limit and the overlap together, unless it is*)
(* one block that is.                                                      *)
Bounded(c, chunks) ==
    \A i \in DOMAIN chunks :
        Len(chunks[i].lines) > 1 => Tokens(chunks[i].lines) <= c.size + c.carry
=============================================================================
