--------------------------- MODULE ReingestProofs ---------------------------
(***************************************************************************)
(* What the chunker makes divides its document, and carrying vectors and   *)
(* summaries over never mixes them up or loses them without need, whatever *)
(* the documents, the chunkings, the answers of the model and the faults.  *)
(***************************************************************************)
EXTENDS Reingest, SequenceTheorems, FiniteSetTheorems, WellFoundedInduction, TLAPS

(* ---- numbers and folds ------------------------------------------------ *)
(* A set of numbers with an upper bound has a greatest element.            *)
LEMMA Descending ==
    \E R : IsWellFoundedOn(R, Nat) /\ \A x, y \in Nat : <<x, y>> \in R <=> x < y
BY NatLessThanWellFounded DEF OpToRel

LEMMA MaxIsMember ==
    ASSUME NEW n \in Nat, NEW T \in SUBSET (0 .. n), T # {}
    PROVE  Max(T) \in T /\ \A k \in T : k <= Max(T)
<1> DEFINE D == {n - k : k \in T}
<1>1. D \subseteq Nat /\ D # {}
  <2>1. \A k \in T : n - k \in Nat /\ n - k \in D
        OBVIOUS
  <2> QED BY <2>1
<1>2. PICK R : IsWellFoundedOn(R, Nat) /\ \A x, y \in Nat : <<x, y>> \in R <=> x < y
      BY Descending
<1> HIDE DEF D
<1>3. PICK d \in D : \A e \in D : ~(<<e, d>> \in R)
  <2>1. IsWellFoundedOn(R, Nat)
        BY <1>2
  <2> QED BY ONLY <1>1, <2>1, WFMin, Zenon
<1>4. PICK m \in T : d = n - m
      BY <1>3 DEF D
<1>5. ASSUME NEW k \in T PROVE m >= k
  <2>1. n - k \in D
        BY DEF D
  <2>2. n - k \in Nat /\ n - m \in Nat
        BY <1>1, <1>4, <2>1
  <2>3. ~(n - k < n - m)
        BY <1>2, <1>3, <1>4, <2>1, <2>2
  <2> QED BY <2>3
<1>6. Max(T) \in T /\ \A k \in T : Max(T) >= k
      BY <1>5 DEF Max
<1>7. \A k \in T : k \in Int
      OBVIOUS
<1> QED BY <1>6, <1>7

(* Of a set of natural numbers one is the least; what holds of 0 and of    *)
(* the successor of every number it holds of, holds of all.                *)
LEMMA LeastNat ==
    ASSUME NEW T \in SUBSET Nat, T # {}
    PROVE  \E m \in T : \A k \in T : m <= k
<1>1. PICK R : IsWellFoundedOn(R, Nat) /\ \A x, y \in Nat : <<x, y>> \in R <=> x < y
      BY Descending
<1>2. PICK m \in T : \A k \in T : ~(<<k, m>> \in R)
  <2>1. IsWellFoundedOn(R, Nat) /\ T \subseteq Nat
        BY <1>1
  <2> QED BY ONLY T # {}, <2>1, WFMin, Zenon
<1>3. \A k \in T : m \in Nat /\ k \in Nat /\ ~(k < m)
      BY <1>1, <1>2
<1>4. \A k \in T : m <= k
      BY <1>3
<1> QED BY <1>4

LEMMA Stepwise ==
    ASSUME NEW P \in SUBSET Nat, 0 \in P, \A k \in Nat : k \in P => k + 1 \in P
    PROVE  P = Nat
<1> SUFFICES ASSUME Nat \ P # {} PROVE FALSE
    OBVIOUS
<1>1. PICK m \in Nat \ P : \A k \in Nat \ P : m <= k
  <2>1. Nat \ P \in SUBSET Nat
        OBVIOUS
  <2> QED BY <2>1, LeastNat
<1>2. m - 1 \in Nat /\ ~(m <= m - 1) /\ (m - 1) + 1 = m
      BY <1>1
<1>3. m - 1 \in P
      BY <1>1, <1>2
<1> QED BY <1>1, <1>2, <1>3

(* The function a fold over a sequence of length n is defined by: for every*)
(* step F there is one.                                                    *)
IsFold(g, n, base, F) ==
    \A s \in SUBSET (1 .. n) :
        g[s] = IF s = {} THEN base ELSE F[<<Max(s), g[s \ {Max(s)}]>>]

LEMMA MaxOf ==
    ASSUME NEW n \in Nat, NEW s \in SUBSET (1 .. n), s # {}
    PROVE  /\ Max(s) \in s
           /\ n \in s => Max(s) = n
<1>1. Max(s) \in s
      BY MaxIsMember
<1>2. ASSUME n \in s PROVE Max(s) = n
  <2>1. \E x \in s : \A y \in s : x >= y
        BY <1>2
  <2>2. \A y \in s : Max(s) >= y
        BY <2>1 DEF Max
  <2>3. Max(s) \in 1 .. n /\ Max(s) >= n
        BY <1>1, <1>2, <2>2
  <2> QED BY <2>3
<1> QED BY <1>1, <1>2

LEMMA FoldExists ==
    ASSUME NEW n \in Nat, NEW A, NEW base \in A, NEW F \in [(1 .. n) \X A -> A]
    PROVE  \E g \in [SUBSET (1 .. n) -> A] : IsFold(g, n, base, F)
<1> DEFINE Has(k) == \E g \in [SUBSET (1 .. k) -> A] : IsFold(g, k, base, F)
           P == {k \in Nat : k <= n => Has(k)}
<1>1. 0 \in P
  <2> DEFINE g == [s \in SUBSET (1 .. 0) |-> base]
  <2>1. \A s \in SUBSET (1 .. 0) : s = {}
        OBVIOUS
  <2>2. g \in [SUBSET (1 .. 0) -> A]
        OBVIOUS
  <2>3. IsFold(g, 0, base, F)
        BY <2>1 DEF IsFold
  <2> QED BY <2>2, <2>3
<1>2. ASSUME NEW k \in Nat, k \in P PROVE k + 1 \in P
  <2> SUFFICES ASSUME k + 1 <= n PROVE Has(k + 1)
      OBVIOUS
  <2>0. k <= n /\ Has(k)
    <3> HIDE DEF Has
    <3> QED BY <1>2
  <2>1. PICK g \in [SUBSET (1 .. k) -> A] : IsFold(g, k, base, F)
        BY <2>0
  <2>2. PICK top : top = k + 1
        OBVIOUS
  <2>3. /\ top \in 1 .. n
        /\ \A s \in SUBSET (1 .. top) : s \ {top} \in SUBSET (1 .. k)
        /\ \A s \in SUBSET (1 .. top) : top \notin s => s \in SUBSET (1 .. k)
        /\ \A s \in SUBSET (1 .. k) : top \notin s /\ s \in SUBSET (1 .. top)
        BY <2>2
  <2> DEFINE h == [s \in SUBSET (1 .. top) |->
                     IF top \in s THEN F[<<top, g[s \ {top}]>>] ELSE g[s]]
  <2>4. h \in [SUBSET (1 .. top) -> A]
    <3>1. ASSUME NEW s \in SUBSET (1 .. top) PROVE h[s] \in A
      <4>1. CASE top \in s
        <5>1. g[s \ {top}] \in A
              BY <2>3
        <5>2. F[<<top, g[s \ {top}]>>] \in A
              BY <2>3, <5>1
        <5> QED BY <4>1, <5>2
      <4>2. CASE top \notin s
        <5>1. g[s] \in A
              BY <2>3, <4>2
        <5> QED BY <4>2, <5>1
      <4> QED BY <4>1, <4>2
    <3> QED BY <3>1
  <2>5. ASSUME NEW s \in SUBSET (1 .. top)
        PROVE  h[s] = IF s = {} THEN base ELSE F[<<Max(s), h[s \ {Max(s)}]>>]
    <3>1. CASE top \in s
      <4>1. Max(s) = top
            BY <2>2, <3>1, MaxOf
      <4>2. h[s \ {top}] = g[s \ {top}]
            BY <2>3
      <4> QED BY <3>1, <4>1, <4>2
    <3>2. CASE top \notin s /\ s = {}
      <4>1. h[s] = g[s] /\ s \in SUBSET (1 .. k)
            BY <2>3, <3>2
      <4> QED BY <2>1, <3>2, <4>1 DEF IsFold
    <3>3. CASE top \notin s /\ s # {}
      <4>1. h[s] = g[s] /\ s \in SUBSET (1 .. k)
            BY <2>3, <3>3
      <4>2. s \ {Max(s)} \in SUBSET (1 .. k)
            BY <4>1
      <4>3. h[s \ {Max(s)}] = g[s \ {Max(s)}]
            BY <2>3, <4>2
      <4> QED BY <2>1, <3>3, <4>1, <4>3 DEF IsFold
    <3> QED BY <3>1, <3>2, <3>3
  <2>6. IsFold(h, top, base, F)
        BY <2>5 DEF IsFold
  <2> HIDE DEF h
  <2> QED BY <2>2, <2>4, <2>6
<1> HIDE DEF Has
<1>3. P = Nat
  <2>1. P \in SUBSET Nat
        OBVIOUS
  <2> HIDE DEF P
  <2> QED BY <1>1, <1>2, <2>1, Stepwise
<1>4. Has(n)
      BY <1>3
<1> QED BY <1>4 DEF Has

(* A fold runs over what is up to n, then over what is up to n - 1, ...    *)
LEMMA UpTo ==
    ASSUME NEW n \in Nat, NEW k \in 1 .. n
    PROVE  /\ 1 .. k \in SUBSET (1 .. n) /\ 1 .. k # {}
           /\ Max(1 .. k) = k
           /\ (1 .. k) \ {k} = 1 .. (k - 1)
<1>1. 1 .. k \in SUBSET (1 .. n) /\ 1 .. k # {} /\ k \in 1 .. k /\ k \in Nat
      OBVIOUS
<1>2. Max(1 .. k) = k
      BY <1>1, MaxOf
<1>3. (1 .. k) \ {k} = 1 .. (k - 1)
      BY <1>1
<1> QED BY <1>1, <1>2, <1>3

(* So what a fold is chosen to be is found in as many steps, as long as    *)
(* each step on a value in A is that of F.                                 *)
FoldSteps(h, n, A, base, F) ==
    /\ h \in [0 .. n -> A]
    /\ h[0] = base
    /\ \A k \in 1 .. n : h[k] = F[<<k, h[k - 1]>>]

StepsByF(g, n, A, base, F) ==
    /\ g[{}] = base
    /\ \A s \in SUBSET (1 .. n) : s # {} /\ g[s \ {Max(s)}] \in A =>
           g[s] = F[<<Max(s), g[s \ {Max(s)}]>>]

Reaches(v, n, A, base, F) == \E h : FoldSteps(h, n, A, base, F) /\ v = h[n]

LEMMA FoldStages ==
    ASSUME NEW n \in Nat, NEW A, NEW base \in A, NEW F \in [(1 .. n) \X A -> A], NEW g,
           StepsByF(g, n, A, base, F)
    PROVE  Reaches(g[1 .. n], n, A, base, F)
<1> DEFINE h == [k \in 0 .. n |-> g[1 .. k]]
           P == {k \in Nat : k <= n => g[1 .. k] \in A}
<1>1. g[1 .. 0] = base
  <2>1. 1 .. 0 = {}
        OBVIOUS
  <2> QED BY <2>1 DEF StepsByF
<1>2. ASSUME NEW k \in 1 .. n, g[1 .. (k - 1)] \in A
      PROVE  g[1 .. k] = F[<<k, g[1 .. (k - 1)]>>] /\ g[1 .. k] \in A
  <2>1. /\ 1 .. k \in SUBSET (1 .. n) /\ 1 .. k # {}
        /\ Max(1 .. k) = k
        /\ (1 .. k) \ {k} = 1 .. (k - 1)
        BY UpTo
  <2>2. PICK s : s = 1 .. k
        OBVIOUS
  <2>3. g[s] = F[<<Max(s), g[s \ {Max(s)}]>>]
        BY <1>2, <2>1, <2>2 DEF StepsByF
  <2>4. g[1 .. k] = F[<<k, g[1 .. (k - 1)]>>]
        BY <2>1, <2>2, <2>3
  <2> QED BY <1>2, <2>4
<1>3. P = Nat
  <2>1. 0 \in P
        BY <1>1
  <2>2. ASSUME NEW k \in Nat, k \in P PROVE k + 1 \in P
    <3> SUFFICES ASSUME k + 1 <= n PROVE g[1 .. (k + 1)] \in A
        OBVIOUS
    <3>1. g[1 .. k] \in A /\ k + 1 \in 1 .. n /\ (k + 1) - 1 = k
          BY <2>2
    <3> QED BY <1>2, <3>1
  <2>3. P \in SUBSET Nat
        OBVIOUS
  <2> HIDE DEF P
  <2> QED BY <2>1, <2>2, <2>3, Stepwise
<1>4. \A k \in 0 .. n : g[1 .. k] \in A
      BY <1>3
<1>5. h \in [0 .. n -> A]
      BY <1>4
<1>6. ASSUME NEW k \in 1 .. n PROVE h[k] = F[<<k, h[k - 1]>>]
  <2>1. k \in 0 .. n /\ k - 1 \in 0 .. n
        OBVIOUS
  <2> QED BY <1>2, <1>4, <2>1
<1>7. h[0] = base /\ g[1 .. n] = h[n]
      BY <1>1
<1> HIDE DEF h
<1>8. FoldSteps(h, n, A, base, F)
      BY <1>5, <1>6, <1>7 DEF FoldSteps
<1> QED BY <1>7, <1>8 DEF Reaches

(* ---- the tokens of lines ---------------------------------------------- *)
CountsTokens(g, lines) ==
    g = [s \in SUBSET DOMAIN lines |->
           IF s = {} THEN 0 ELSE g[s \ {Max(s)}] + Len(lines[Max(s)])]

LEMMA TokensDefined ==
    ASSUME NEW lines
    PROVE  Tokens(lines) = (CHOOSE g : CountsTokens(g, lines))[DOMAIN lines]
BY DEF Tokens, FoldLeft, MapThenFoldSet, CountsTokens

Counts(h, lines) ==
    /\ h \in [0 .. Len(lines) -> Nat]
    /\ h[0] = 0
    /\ \A k \in 1 .. Len(lines) : h[k] = h[k - 1] + Len(lines[k])

LEMMA TokensStages ==
    ASSUME NEW lines \in Seq(Seq(Words))
    PROVE  \E h : Counts(h, lines) /\ Tokens(lines) = h[Len(lines)]
<1>1. PICK n : n = Len(lines)
      OBVIOUS
<1>2. n \in Nat /\ DOMAIN lines = 1 .. n /\ \A i \in 1 .. n : Len(lines[i]) \in Nat
  <2>1. Len(lines) \in Nat /\ DOMAIN lines = 1 .. Len(lines)
        BY LenProperties
  <2>2. \A i \in 1 .. n : lines[i] \in Seq(Words)
        BY <1>1, ElementOfSeq
  <2> QED BY <1>1, <2>1, <2>2, LenProperties
<1> DEFINE F == [p \in (1 .. n) \X Nat |-> p[2] + Len(lines[p[1]])]
<1>3. F \in [(1 .. n) \X Nat -> Nat]
      BY <1>2
<1>4. PICK f \in [SUBSET (1 .. n) -> Nat] : IsFold(f, n, 0, F)
  <2> HIDE DEF F
  <2> QED BY <1>2, <1>3, FoldExists
<1>5. \A k \in 1 .. n, m \in Nat : F[<<k, m>>] = m + Len(lines[k])
      OBVIOUS
<1>6. CountsTokens(f, lines)
  <2>1. ASSUME NEW s \in SUBSET (1 .. n)
        PROVE  f[s] = IF s = {} THEN 0 ELSE f[s \ {Max(s)}] + Len(lines[Max(s)])
    <3>1. CASE s = {}
          BY <1>4, <3>1 DEF IsFold
    <3>2. CASE s # {}
      <4>1. Max(s) \in 1 .. n
            BY <1>2, <3>2, MaxOf
      <4>2. f[s \ {Max(s)}] \in Nat
            OBVIOUS
      <4>3. f[s] = F[<<Max(s), f[s \ {Max(s)}]>>]
            BY <1>4, <3>2 DEF IsFold
      <4> HIDE DEF F
      <4> QED BY <1>5, <3>2, <4>1, <4>2, <4>3
    <3> QED BY <3>1, <3>2
  <2>2. f = [s \in SUBSET (1 .. n) |-> f[s]]
        OBVIOUS
  <2> QED BY <1>2, <2>1, <2>2 DEF CountsTokens
<1>7. PICK g : CountsTokens(g, lines) /\ Tokens(lines) = g[1 .. n]
      BY <1>2, <1>6, TokensDefined
<1>8. /\ g[{}] = 0
      /\ \A s \in SUBSET (1 .. n) : s # {} =>
            g[s] = g[s \ {Max(s)}] + Len(lines[Max(s)])
      BY <1>2, <1>7 DEF CountsTokens
<1>9. ASSUME NEW s \in SUBSET (1 .. n), s # {}, g[s \ {Max(s)}] \in Nat
      PROVE  g[s] = F[<<Max(s), g[s \ {Max(s)}]>>]
  <2>1. Max(s) \in 1 .. n
        BY <1>2, <1>9, MaxOf
  <2> HIDE DEF F
  <2> QED BY <1>5, <1>8, <1>9, <2>1
<1>10. PICK h : FoldSteps(h, n, Nat, 0, F) /\ g[1 .. n] = h[n]
  <2> HIDE DEF F
  <2>1. StepsByF(g, n, Nat, 0, F)
        BY <1>8, <1>9 DEF StepsByF
  <2>2. n \in Nat /\ 0 \in Nat
        BY <1>2
  <2>3. Reaches(g[1 .. n], n, Nat, 0, F)
        BY ONLY <1>3, <2>1, <2>2, FoldStages
  <2> QED BY <2>3 DEF Reaches
<1>11. ASSUME NEW k \in 1 .. n PROVE h[k] = h[k - 1] + Len(lines[k])
  <2>1. k - 1 \in 0 .. n
        BY <1>2
  <2>2. h[k - 1] \in Nat /\ h[k] = F[<<k, h[k - 1]>>]
        BY <1>10, <2>1 DEF FoldSteps
  <2> HIDE DEF F
  <2> QED BY <1>5, <2>2
<1>12. Counts(h, lines)
      BY <1>1, <1>10, <1>11 DEF FoldSteps, Counts
<1> QED BY <1>1, <1>7, <1>10, <1>12

(* What counts the lines of a text counts those of a beginning of it.      *)
LEMMA CountsAgree ==
    ASSUME NEW s, NEW t, NEW g, NEW h, NEW n \in Nat,
           Counts(g, s), Counts(h, t), n <= Len(s), n <= Len(t),
           Len(s) \in Nat, Len(t) \in Nat,
           \A i \in 1 .. n : s[i] = t[i]
    PROVE  g[n] = h[n]
<1> DEFINE P == {k \in Nat : k <= n => g[k] = h[k]}
<1>1. 0 \in P
      BY DEF Counts
<1>2. ASSUME NEW k \in Nat, k \in P PROVE k + 1 \in P
  <2> SUFFICES ASSUME k + 1 <= n PROVE g[k + 1] = h[k + 1]
      OBVIOUS
  <2>1. k + 1 \in 1 .. Len(s) /\ k + 1 \in 1 .. Len(t) /\ k + 1 \in 1 .. n /\ (k + 1) - 1 = k
        OBVIOUS
  <2>2. g[k + 1] = g[k] + Len(s[k + 1]) /\ h[k + 1] = h[k] + Len(t[k + 1])
        BY <2>1 DEF Counts
  <2>3. g[k] = h[k]
        BY <1>2
  <2> QED BY <2>1, <2>2, <2>3
<1>3. P = Nat
  <2>1. P \in SUBSET Nat
        OBVIOUS
  <2> HIDE DEF P
  <2> QED BY <1>1, <1>2, <2>1, Stepwise
<1> QED BY <1>3

LEMMA TokensOfNone == Tokens(<<>>) = 0
<1>1. <<>> \in Seq(Seq(Words)) /\ Len(<<>>) = 0
      OBVIOUS
<1> QED BY <1>1, TokensStages DEF Counts

LEMMA TokensOfMore ==
    ASSUME NEW lines \in Seq(Seq(Words)), NEW l \in Seq(Words)
    PROVE  /\ Tokens(lines) \in Nat /\ Len(l) \in Nat
           /\ Tokens(Append(lines, l)) = Tokens(lines) + Len(l)
<1> DEFINE more == Append(lines, l)
<1>1. /\ more \in Seq(Seq(Words)) /\ Len(more) = Len(lines) + 1 /\ Len(lines) \in Nat
      /\ \A i \in 1 .. Len(lines) : more[i] = lines[i]
      /\ more[Len(lines) + 1] = l
      BY AppendProperties, LenProperties
<1> HIDE DEF more
<1>2. PICK g : Counts(g, lines) /\ Tokens(lines) = g[Len(lines)]
      BY TokensStages
<1>3. PICK h : Counts(h, more) /\ Tokens(more) = h[Len(more)]
      BY <1>1, TokensStages
<1>4. g[Len(lines)] = h[Len(lines)]
  <2>1. PICK n : n = Len(lines)
        OBVIOUS
  <2>2. /\ n \in Nat /\ n <= Len(lines) /\ n <= Len(more) /\ Len(more) \in Nat
        /\ \A i \in 1 .. n : lines[i] = more[i]
        BY <1>1, <2>1
  <2>3. Counts(g, lines) /\ Counts(h, more) /\ Len(lines) \in Nat
        BY <1>1, <1>2, <1>3
  <2>4. g[n] = h[n]
        BY ONLY <2>2, <2>3, CountsAgree
  <2> QED BY <2>1, <2>4
<1>5. h[Len(lines) + 1] = h[Len(lines)] + Len(more[Len(lines) + 1])
  <2>1. Len(lines) + 1 \in 1 .. Len(more) /\ (Len(lines) + 1) - 1 = Len(lines)
        BY <1>1
  <2> QED BY <1>3, <2>1 DEF Counts
<1>6. g[Len(lines)] \in Nat /\ Len(l) \in Nat
  <2>1. PICK n : n = Len(lines)
        OBVIOUS
  <2>2. n \in 0 .. n
        BY <1>1, <2>1
  <2>3. g \in [0 .. n -> Nat]
        BY <1>2, <2>1 DEF Counts
  <2>4. g[n] \in Nat
        BY <2>2, <2>3
  <2>5. Len(l) \in Nat
        BY LenProperties
  <2> QED BY <2>1, <2>4, <2>5
<1> QED BY <1>1, <1>2, <1>3, <1>4, <1>5, <1>6 DEF more

(* ---- what a chunk is made of ------------------------------------------ *)
Piece == [lines : Seq(Seq(Words)), skip : BOOLEAN]

LEMMA LinesTyped ==
    ASSUME NEW bs \in Seq(Block)
    PROVE  /\ Lines(bs) \in Seq(Seq(Words)) /\ Len(Lines(bs)) = Len(bs) /\ Len(bs) \in Nat
           /\ \A i \in 1 .. Len(bs) : bs[i] \in Block /\ Lines(bs)[i] = bs[i].text
<1>1. Len(bs) \in Nat /\ DOMAIN bs = 1 .. Len(bs) /\ \A i \in 1 .. Len(bs) : bs[i] \in Block
      BY LenProperties, ElementOfSeq
<1>2. \A b \in Block : b.text \in Seq(Words)
      BY DEF Block
<1>3. Lines(bs) = [i \in 1 .. Len(bs) |-> bs[i].text]
      BY <1>1 DEF Lines
<1>4. Lines(bs) \in [1 .. Len(bs) -> Seq(Words)]
      BY <1>1, <1>2, <1>3
<1>5. Lines(bs) \in Seq(Seq(Words)) /\ Len(Lines(bs)) = Len(bs)
      BY <1>1, <1>4
<1> QED BY <1>1, <1>3, <1>5

LEMMA LinesOfMore ==
    ASSUME NEW bs \in Seq(Block), NEW b \in Block
    PROVE  /\ Append(bs, b) \in Seq(Block) /\ Len(Append(bs, b)) = Len(bs) + 1
           /\ b.text \in Seq(Words)
           /\ Lines(Append(bs, b)) = Append(Lines(bs), b.text)
<1> DEFINE more == Append(bs, b)
<1>0. b.text \in Seq(Words)
      BY DEF Block
<1>1. /\ more \in Seq(Block) /\ Len(more) = Len(bs) + 1
      /\ \A i \in 1 .. Len(bs) : more[i] = bs[i]
      /\ more[Len(bs) + 1] = b
      BY AppendProperties
<1> HIDE DEF more
<1>2. /\ Lines(more) \in Seq(Seq(Words)) /\ Len(Lines(more)) = Len(bs) + 1
      /\ \A i \in 1 .. Len(bs) + 1 : Lines(more)[i] = more[i].text
      BY <1>1, LinesTyped
<1>3. /\ Lines(bs) \in Seq(Seq(Words)) /\ Len(Lines(bs)) = Len(bs) /\ Len(bs) \in Nat
      /\ \A i \in 1 .. Len(bs) : Lines(bs)[i] = bs[i].text
      BY LinesTyped
<1> DEFINE other == Append(Lines(bs), b.text)
<1>4. /\ other \in Seq(Seq(Words)) /\ Len(other) = Len(bs) + 1
      /\ \A i \in 1 .. Len(bs) : other[i] = Lines(bs)[i]
      /\ other[Len(bs) + 1] = b.text
      BY <1>0, <1>3, AppendProperties
<1> HIDE DEF other
<1>5. ASSUME NEW i \in 1 .. Len(Lines(more)) PROVE Lines(more)[i] = other[i]
  <2>1. CASE i \in 1 .. Len(bs)
        BY <1>1, <1>2, <1>3, <1>4, <2>1
  <2>2. CASE i \notin 1 .. Len(bs)
    <3>1. i = Len(bs) + 1 /\ i \in 1 .. Len(bs) + 1
          BY <1>2, <1>3, <2>2
    <3> QED BY <1>1, <1>2, <1>4, <3>1
  <2> QED BY <2>1, <2>2
<1>6. Lines(more) = other
      BY <1>2, <1>4, <1>5, SeqEqual
<1> QED BY <1>0, <1>1, <1>6 DEF more, other

(* ---- what a full chunk hands on --------------------------------------- *)
LEMMA LastBlocksTyped ==
    ASSUME NEW bs \in Seq(Block), NEW n \in 0 .. Len(bs)
    PROVE  /\ LastBlocks(bs, n) \in Seq(Block) /\ Len(LastBlocks(bs, n)) = n
           /\ n \in Nat /\ Len(bs) \in Nat
           /\ \A i \in 1 .. n : LastBlocks(bs, n)[i] = bs[Len(bs) - n + i]
<1>1. Len(bs) \in Nat /\ \A i \in 1 .. Len(bs) : bs[i] \in Block
      BY LenProperties, ElementOfSeq
<1>2. PICK m, l : m = Len(bs) - n + 1 /\ l = Len(bs)
      OBVIOUS
<1>3. m \in Int /\ l \in Int /\ n \in Nat /\ \A i \in m .. l : bs[i] \in Block
      BY <1>1, <1>2
<1>4. /\ SubSeq(bs, m, l) \in Seq(Block)
      /\ Len(SubSeq(bs, m, l)) = IF m <= l THEN l - m + 1 ELSE 0
      /\ \A i \in 1 .. l - m + 1 : SubSeq(bs, m, l)[i] = bs[m + i - 1]
      BY ONLY <1>3, SubSeqProperties
<1>5. Len(SubSeq(bs, m, l)) = n /\ l - m + 1 = n
      BY <1>1, <1>2, <1>4
<1>6. \A i \in 1 .. n : m + i - 1 = Len(bs) - n + i
      BY <1>1, <1>2
<1>7. LastBlocks(bs, n) = SubSeq(bs, m, l)
      BY <1>2 DEF LastBlocks
<1> QED BY <1>1, <1>3, <1>4, <1>5, <1>6, <1>7

LEMMA FittingFits ==
    ASSUME NEW c, IsConfig(c), NEW bs \in Seq(Block)
    PROVE  /\ Fitting(c, bs) \in 0 .. Len(bs)
           /\ Tokens(Lines(LastBlocks(bs, Fitting(c, bs)))) <= c.carry
<1> DEFINE fit == {k \in 0 .. Len(bs) : Tokens(Lines(LastBlocks(bs, k))) <= c.carry}
<1>1. Len(bs) \in Nat
      BY LenProperties
<1>2. 0 \in fit
  <2>1. /\ LastBlocks(bs, 0) \in Seq(Block) /\ Len(LastBlocks(bs, 0)) = 0
        BY <1>1, LastBlocksTyped
  <2>2. Lines(LastBlocks(bs, 0)) \in Seq(Seq(Words)) /\ Len(Lines(LastBlocks(bs, 0))) = 0
        BY <2>1, LinesTyped
  <2>3. Lines(LastBlocks(bs, 0)) = <<>>
        BY <2>2, EmptySeq
  <2>4. Tokens(Lines(LastBlocks(bs, 0))) = 0 /\ c.carry \in Nat
        BY <2>3, TokensOfNone DEF IsConfig
  <2> QED BY <1>1, <2>4
<1>3. fit \in SUBSET (0 .. Len(bs)) /\ fit # {}
      BY <1>2
<1>4. Max(fit) \in fit
  <2> HIDE DEF fit
  <2> QED BY <1>1, <1>3, MaxIsMember
<1> QED BY <1>4 DEF Fitting

(* It is less than all of it and no more than the overlap.                 *)
LEMMA CarriedFits ==
    ASSUME NEW c, IsConfig(c), NEW bs \in Seq(Block), bs # <<>>
    PROVE  \E n \in 0 .. Len(bs) - 1 :
              /\ Carried(c, bs) = LastBlocks(bs, n)
              /\ Tokens(Lines(Carried(c, bs))) <= c.carry
<1>1. Len(bs) \in Nat \ {0}
      BY EmptySeq
<1>2. /\ Fitting(c, bs) \in 0 .. Len(bs)
      /\ Tokens(Lines(LastBlocks(bs, Fitting(c, bs)))) <= c.carry
      BY FittingFits
<1>3. CASE Fitting(c, bs) = Len(bs)
  <2>1. LastBlocks(bs, 0) \in Seq(Block) /\ Len(LastBlocks(bs, 0)) = 0
        BY <1>1, LastBlocksTyped
  <2>2. Carried(c, bs) = <<>> /\ LastBlocks(bs, 0) = <<>>
        BY <1>3, <2>1, EmptySeq DEF Carried
  <2>3. Lines(<<>>) = <<>>
    <3>1. <<>> \in Seq(Block) /\ Len(<<>>) = 0
          BY EmptySeq
    <3>2. Lines(<<>>) \in Seq(Seq(Words)) /\ Len(Lines(<<>>)) = 0
          BY <3>1, LinesTyped
    <3> QED BY <3>2, EmptySeq
  <2>4. Tokens(Lines(Carried(c, bs))) <= c.carry
        BY <2>2, <2>3, TokensOfNone DEF IsConfig
  <2>5. 0 \in 0 .. Len(bs) - 1
        BY <1>1
  <2> QED BY <2>2, <2>4, <2>5
<1>4. CASE Fitting(c, bs) # Len(bs)
  <2>1. Fitting(c, bs) \in 0 .. Len(bs) - 1
        BY <1>1, <1>2, <1>4
  <2>2. Carried(c, bs) = LastBlocks(bs, Fitting(c, bs))
        BY <1>4 DEF Carried, CarriedAll
  <2> QED BY <1>2, <2>1, <2>2
<1> QED BY <1>3, <1>4

(* ---- the packing ------------------------------------------------------ *)
Packed(c) ==
    {st \in [pending : Seq(Block), pieces : Seq(Piece)] :
        /\ Bounded(c, st.pieces)
        /\ Len(st.pending) > 1 => Tokens(Lines(st.pending)) <= c.size + c.carry}

LEMMA ChunkTyped ==
    ASSUME NEW lines \in Seq(Seq(Words)), NEW skip \in BOOLEAN
    PROVE  /\ Chunk(lines, skip) \in Piece
           /\ Chunk(lines, skip).lines = lines /\ Chunk(lines, skip).skip = skip
BY DEF Chunk, Piece

LEMMA OneLine ==
    ASSUME NEW l \in Seq(Words)
    PROVE  <<l>> \in Seq(Seq(Words)) /\ Len(<<l>>) = 1
OBVIOUS

(* One more piece, and several more.                                       *)
LEMMA PieceAdded ==
    ASSUME NEW c, NEW ps \in Seq(Piece), Bounded(c, ps), NEW p \in Piece,
           Len(p.lines) > 1 => Tokens(p.lines) <= c.size + c.carry
    PROVE  Append(ps, p) \in Seq(Piece) /\ Bounded(c, Append(ps, p))
<1>1. /\ Append(ps, p) \in Seq(Piece) /\ Len(Append(ps, p)) = Len(ps) + 1
      /\ \A i \in 1 .. Len(ps) : Append(ps, p)[i] = ps[i]
      /\ Append(ps, p)[Len(ps) + 1] = p
      /\ Len(ps) \in Nat /\ DOMAIN ps = 1 .. Len(ps)
      BY AppendProperties, LenProperties
<1>2. DOMAIN Append(ps, p) = 1 .. Len(ps) + 1
      BY <1>1, LenProperties
<1>3. ASSUME NEW i \in 1 .. Len(ps) + 1, Len(Append(ps, p)[i].lines) > 1
      PROVE  Tokens(Append(ps, p)[i].lines) <= c.size + c.carry
  <2>1. CASE i \in 1 .. Len(ps)
        BY <1>1, <1>3, <2>1 DEF Bounded
  <2>2. CASE i = Len(ps) + 1
        BY <1>1, <1>3, <2>2
  <2> QED BY <1>1, <2>1, <2>2
<1> QED BY <1>1, <1>2, <1>3 DEF Bounded

LEMMA PiecesAdded ==
    ASSUME NEW c, NEW ps \in Seq(Piece), Bounded(c, ps), NEW qs \in Seq(Piece), Bounded(c, qs)
    PROVE  ps \o qs \in Seq(Piece) /\ Bounded(c, ps \o qs)
<1>1. /\ ps \o qs \in Seq(Piece) /\ Len(ps \o qs) = Len(ps) + Len(qs)
      /\ \A i \in 1 .. Len(ps) + Len(qs) :
            (ps \o qs)[i] = IF i <= Len(ps) THEN ps[i] ELSE qs[i - Len(ps)]
      /\ Len(ps) \in Nat /\ DOMAIN ps = 1 .. Len(ps)
      /\ Len(qs) \in Nat /\ DOMAIN qs = 1 .. Len(qs)
      BY ConcatProperties, LenProperties
<1>2. DOMAIN (ps \o qs) = 1 .. Len(ps) + Len(qs)
      BY <1>1, LenProperties
<1>3. ASSUME NEW i \in 1 .. Len(ps) + Len(qs), Len((ps \o qs)[i].lines) > 1
      PROVE  Tokens((ps \o qs)[i].lines) <= c.size + c.carry
  <2>1. CASE i <= Len(ps)
    <3>1. (ps \o qs)[i] = ps[i] /\ i \in DOMAIN ps
          BY <1>1, <2>1
    <3> QED BY <1>3, <3>1 DEF Bounded
  <2>2. CASE ~(i <= Len(ps))
    <3>1. (ps \o qs)[i] = qs[i - Len(ps)] /\ i - Len(ps) \in DOMAIN qs
          BY <1>1, <2>2
    <3> QED BY <1>3, <3>1 DEF Bounded
  <2> QED BY <2>1, <2>2
<1> QED BY <1>1, <1>2, <1>3 DEF Bounded

LEMMA FlushKeeps ==
    ASSUME NEW c, NEW st \in Packed(c)
    PROVE  /\ Flush(st) \in Packed(c) /\ Flush(st).pending = <<>>
           /\ Flush(st) = [pending |-> <<>>, pieces |-> Flush(st).pieces]
<1>1. st.pending \in Seq(Block) /\ st.pieces \in Seq(Piece) /\ Bounded(c, st.pieces)
      BY DEF Packed
<1>2. Flush(st).pieces \in Seq(Piece) /\ Bounded(c, Flush(st).pieces)
  <2>1. CASE st.pending = <<>>
        BY <1>1, <2>1 DEF Flush
  <2>2. CASE st.pending # <<>>
    <3> DEFINE p == Chunk(Lines(st.pending), FALSE)
    <3>1. /\ Lines(st.pending) \in Seq(Seq(Words))
          /\ Len(Lines(st.pending)) = Len(st.pending)
          BY <1>1, LinesTyped
    <3>2. p \in Piece /\ p.lines = Lines(st.pending)
          BY <3>1, ChunkTyped
    <3>3. Len(p.lines) > 1 => Tokens(p.lines) <= c.size + c.carry
          BY <3>1, <3>2 DEF Packed
    <3>4. Flush(st).pieces = Append(st.pieces, p)
          BY <2>2 DEF Flush
    <3> HIDE DEF p
    <3> QED BY <1>1, <3>2, <3>3, <3>4, PieceAdded
  <2> QED BY <2>1, <2>2
<1>3. <<>> \in Seq(Block) /\ Len(<<>>) = 0
      BY EmptySeq
<1>4. Flush(st) = [pending |-> <<>>, pieces |-> Flush(st).pieces]
      BY DEF Flush
<1> HIDE DEF Flush
<1>5. Flush(st).pending = <<>>
      BY <1>4
<1>6. PICK bs, ps : bs = <<>> /\ ps = Flush(st).pieces
      OBVIOUS
<1>7. Flush(st) = [pending |-> bs, pieces |-> ps]
      BY <1>4, <1>6
<1>8. bs \in Seq(Block) /\ ps \in Seq(Piece) /\ Bounded(c, ps) /\ ~(Len(bs) > 1)
      BY <1>2, <1>3, <1>6
<1>9. [pending |-> bs, pieces |-> ps] \in Packed(c)
      BY ONLY <1>8 DEF Packed
<1> QED BY <1>4, <1>5, <1>7, <1>9

(* What is decoded of a text has its tokens or replacements for them.      *)
LEMMA DecodeTyped ==
    ASSUME NEW text, NEW m, NEW n, SubSeq(text, m, n) \in Seq(Words)
    PROVE  /\ Decode(text, m, n) \in Seq(Words)
           /\ Len(Decode(text, m, n)) = Len(SubSeq(text, m, n))
           /\ \A k \in 1 .. Len(SubSeq(text, m, n)) :
                 Decode(text, m, n)[k] = IF Whole(text, m, n, m + k - 1) THEN SubSeq(text, m, n)[k]
                                         ELSE Replacement
<1>1. PICK cut, l, d : cut = SubSeq(text, m, n) /\ l = Len(cut) /\ d = Decode(text, m, n)
      OBVIOUS
<1>2. l \in Nat /\ DOMAIN cut = 1 .. l /\ \A k \in 1 .. l : cut[k] \in Words
  <2>1. cut \in Seq(Words)
        BY <1>1
  <2> QED BY ONLY <1>1, <2>1, LenProperties, ElementOfSeq
<1>3. d = [k \in 1 .. l |-> IF Whole(text, m, n, m + k - 1) THEN cut[k] ELSE Replacement]
      BY <1>1, <1>2 DEF Decode
<1>4. d \in [1 .. l -> Words]
      BY ONLY <1>2, <1>3, WordsAssumption
<1>5. d \in Seq(Words) /\ Len(d) = l
      BY ONLY <1>2, <1>4, SeqDef, LenProperties
<1> QED BY <1>1, <1>3, <1>5

(* Windows of a text are texts.                                            *)
LEMMA WindowTyped ==
    ASSUME NEW c, IsConfig(c), NEW text \in Seq(Words), NEW i \in Nat
    PROVE  /\ Window(text, i, c) \in Seq(Words)
           /\ i * c.stride \in Nat /\ c.size \in Int /\ Len(text) \in Nat
<1>0. Len(text) \in Nat /\ \A k \in 1 .. Len(text) : text[k] \in Words
      BY LenProperties, ElementOfSeq
<1>1. c.stride \in Nat /\ c.size \in Int
      BY DEF IsConfig
<1>2. i * c.stride \in Nat
      BY <1>1
<1>3. PICK m, e, n : m = i * c.stride + 1 /\ e = i * c.stride + c.size /\ n = SliceEnd(text, e)
      OBVIOUS
<1>4. n \in Int /\ n <= Len(text)
  <2>1. PICK x : x = Len(text)
        OBVIOUS
  <2>2. x \in Nat /\ e \in Int
        BY <1>0, <1>1, <1>2, <1>3, <2>1
  <2>3. CASE e < 0
    <3>1. n = x + e
          BY <1>3, <2>1, <2>3 DEF SliceEnd
    <3> QED BY <2>1, <2>2, <2>3, <3>1
  <2>4. CASE ~(e < 0)
    <3>1. n = Min({x, e})
          BY <1>3, <2>1, <2>4 DEF SliceEnd
    <3>2. \E z \in {x, e} : \A w \in {x, e} : z =< w
          BY <2>2
    <3>3. Min({x, e}) \in {x, e} /\ \A w \in {x, e} : Min({x, e}) <= w
          BY <3>2 DEF Min
    <3> QED BY <2>1, <2>2, <3>1, <3>3
  <2> QED BY <2>3, <2>4
<1>5. m \in Int /\ n \in Int /\ \A k \in m .. n : text[k] \in Words
  <2>1. m \in Nat \ {0} /\ n \in Int
        BY <1>2, <1>3, <1>4
  <2>2. \A k \in m .. n : k \in 1 .. Len(text)
        BY <1>0, <1>4, <2>1
  <2> QED BY <1>0, <2>1, <2>2
<1>6. SubSeq(text, m, n) \in Seq(Words)
      BY ONLY <1>5, SubSeqProperties
<1>7. Decode(text, m, n) \in Seq(Words)
      BY <1>6, DecodeTyped
<1> QED BY <1>0, <1>1, <1>2, <1>3, <1>7 DEF Window

LEMMA WindowsBounded ==
    ASSUME NEW c, IsConfig(c), NEW text \in Seq(Words), NEW n \in Nat, NEW ps,
           ps = [i \in 1 .. n |-> Chunk(<<Window(text, i - 1, c)>>, FALSE)]
    PROVE  ps \in Seq(Piece) /\ Bounded(c, ps)
<1>1. ASSUME NEW i \in 1 .. n
      PROVE  ps[i] \in Piece /\ Len(ps[i].lines) = 1
  <2>1. i - 1 \in Nat
        OBVIOUS
  <2>2. Window(text, i - 1, c) \in Seq(Words)
        BY <2>1, WindowTyped
  <2> QED BY <2>2, OneLine, ChunkTyped
<1>2. ps = [i \in 1 .. n |-> ps[i]]
      OBVIOUS
<1>3. ps \in [1 .. n -> Piece]
      BY ONLY <1>1, <1>2
<1>4. ps \in Seq(Piece) /\ DOMAIN ps = 1 .. n
      BY ONLY <1>3, n \in Nat, SeqDef
<1>5. \A i \in DOMAIN ps : ~(Len(ps[i].lines) > 1)
  <2>1. \A x : x = 1 => ~(x > 1)
        OBVIOUS
  <2> QED BY ONLY <1>1, <1>4, <2>1, Zenon
<1> QED BY ONLY <1>4, <1>5 DEF Bounded

LEMMA SlidesBounded ==
    ASSUME NEW c, IsConfig(c), NEW text \in Seq(Words)
    PROVE  Slides(c, text) \in Seq(Piece) /\ Bounded(c, Slides(c, text))
<1> DEFINE starts == {i \in 0 .. Len(text) : /\ i = 0 \/ (i - 1) * c.stride + c.size < Len(text)
                                             /\ Window(text, i, c) # <<>>}
<1>1. Len(text) \in Nat
      BY LenProperties
<1>2. IsFiniteSet(0 .. Len(text)) /\ starts \subseteq 0 .. Len(text)
      BY <1>1, FS_Interval
<1>3. Cardinality(starts) \in Nat
  <2> HIDE DEF starts
  <2> QED BY <1>2, FS_Subset, FS_CardinalityType
<1>4. Slides(c, text) = [i \in 1 .. Cardinality(starts) |-> Chunk(<<Window(text, i - 1, c)>>, FALSE)]
      BY DEF Slides
<1> HIDE DEF starts
<1> QED BY <1>3, <1>4, WindowsBounded

LEMMA PackKeeps ==
    ASSUME NEW c, IsConfig(c), NEW st \in Packed(c), NEW b \in Block
    PROVE  Pack(c, st, b) \in Packed(c)
<1> DEFINE fl == Flush(st)
<1>0. /\ st \in [pending : Seq(Block), pieces : Seq(Piece)]
      /\ st.pending \in Seq(Block) /\ st.pieces \in Seq(Piece) /\ Bounded(c, st.pieces)
      /\ Len(st.pending) \in Nat
      BY LenProperties DEF Packed
<1>1. /\ fl \in Packed(c) /\ fl = [pending |-> <<>>, pieces |-> fl.pieces]
      /\ fl.pieces \in Seq(Piece) /\ Bounded(c, fl.pieces)
      BY FlushKeeps DEF Packed
<1> HIDE DEF fl
<1>2. b.text \in Seq(Words) /\ b.kind \in Kinds /\ Len(b.text) \in Nat
      BY LenProperties DEF Block
<1>3. <<>> \in Seq(Block) /\ Len(<<>>) = 0
      BY EmptySeq
<1>4. ASSUME NEW ps, ps \in Seq(Piece), Bounded(c, ps)
      PROVE  [pending |-> <<>>, pieces |-> ps] \in Packed(c)
      BY <1>3, <1>4 DEF Packed
<1>5. CASE b.kind = "table"
  <2>0. PICK p : p = Chunk(<<b.text>>, TRUE)
        OBVIOUS
  <2>1. p \in Piece /\ ~(Len(p.lines) > 1)
    <3>1. PICK l : l = <<b.text>>
          OBVIOUS
    <3>2. l \in Seq(Seq(Words)) /\ Len(l) = 1
          BY <1>2, <3>1, OneLine
    <3>3. p \in Piece /\ p.lines = l
          BY <2>0, <3>1, <3>2, ChunkTyped
    <3>4. \A x : x = 1 => ~(x > 1)
          OBVIOUS
    <3>5. Len(p.lines) = 1
          BY <3>2, <3>3
    <3> QED BY <3>3, <3>4, <3>5, Zenon
  <2>2. PICK ps : ps = Append(fl.pieces, Chunk(<<b.text>>, TRUE))
        OBVIOUS
  <2>3. ps \in Seq(Piece) /\ Bounded(c, ps)
        BY <1>1, <2>0, <2>1, <2>2, PieceAdded
  <2>4. Pack(c, st, b) = [fl EXCEPT !.pieces = ps]
        BY <1>5, <2>2 DEF Pack, fl
  <2>5. Pack(c, st, b) = [pending |-> <<>>, pieces |-> ps]
        BY <1>1, <2>4
  <2> QED BY <1>4, <2>3, <2>5
<1>6. CASE b.kind = "title"
  <2>0. PICK bs : bs = <<b>>
        OBVIOUS
  <2>1. bs \in Seq(Block) /\ ~(Len(bs) > 1)
        BY <2>0
  <2>2. Pack(c, st, b) = [fl EXCEPT !.pending = bs]
        BY <1>6, <2>0 DEF Pack, fl
  <2>3. Pack(c, st, b) = [pending |-> bs, pieces |-> fl.pieces]
        BY <1>1, <2>2
  <2> QED BY <1>1, <2>1, <2>3 DEF Packed
<1>7. CASE b.kind = "prose" /\ Len(b.text) > c.size
  <2>1. PICK ps : ps = fl.pieces \o Slides(c, b.text)
        OBVIOUS
  <2>2. ps \in Seq(Piece) /\ Bounded(c, ps)
        BY <1>1, <1>2, <2>1, SlidesBounded, PiecesAdded
  <2>3. Pack(c, st, b) = [fl EXCEPT !.pieces = ps]
    <3>1. b.kind # "table" /\ b.kind # "title" /\ ~(Len(b.text) <= c.size)
          BY <1>2, <1>7 DEF IsConfig
    <3>2. Pack(c, st, b) = [fl EXCEPT !.pieces = @ \o Slides(c, b.text)]
          BY <1>7, <3>1, Zenon DEF Pack, fl
    <3> QED BY <2>1, <3>2
  <2>4. Pack(c, st, b) = [pending |-> <<>>, pieces |-> ps]
        BY <1>1, <2>3
  <2> QED BY <1>4, <2>2, <2>4
<1>8. CASE b.kind = "prose" /\ ~(Len(b.text) > c.size)
  <2>0. Len(b.text) <= c.size /\ c.size \in Nat /\ c.carry \in Nat
        BY <1>2, <1>8 DEF IsConfig
  <2>1. ASSUME NEW bs \in Seq(Block)
        PROVE  /\ Append(bs, b) \in Seq(Block) /\ Len(Append(bs, b)) = Len(bs) + 1
               /\ Tokens(Lines(Append(bs, b))) = Tokens(Lines(bs)) + Len(b.text)
               /\ Tokens(Lines(bs)) \in Nat
        BY <1>2, LinesTyped, LinesOfMore, TokensOfMore
  <2>2. CASE st.pending # <<>> /\ Tokens(Lines(st.pending)) + Len(b.text) > c.size
    <3>1. PICK n \in 0 .. Len(st.pending) - 1 :
             /\ Carried(c, st.pending) = LastBlocks(st.pending, n)
             /\ Tokens(Lines(Carried(c, st.pending))) <= c.carry
          BY <1>0, <2>2, CarriedFits
    <3>2. n \in 0 .. Len(st.pending)
          BY <1>0
    <3>3. Carried(c, st.pending) \in Seq(Block)
          BY <1>0, <3>1, <3>2, LastBlocksTyped
    <3>4. PICK bs : bs = Append(Carried(c, st.pending), b)
          OBVIOUS
    <3>5. bs \in Seq(Block) /\ Tokens(Lines(bs)) <= c.size + c.carry
          BY <2>0, <2>1, <3>1, <3>3, <3>4
    <3>6. Pack(c, st, b) = [fl EXCEPT !.pending = bs]
          BY <1>8, <2>0, <2>2, <3>4 DEF Pack, fl
    <3>7. Pack(c, st, b) = [pending |-> bs, pieces |-> fl.pieces]
          BY <1>1, <3>6
    <3> QED BY <1>1, <3>5, <3>7 DEF Packed
  <2>3. CASE ~(st.pending # <<>> /\ Tokens(Lines(st.pending)) + Len(b.text) > c.size)
    <3>1. PICK bs : bs = Append(st.pending, b)
          OBVIOUS
    <3>2. Pack(c, st, b) = [st EXCEPT !.pending = bs]
          BY <1>8, <2>0, <2>3, <3>1 DEF Pack
    <3>3. Pack(c, st, b) = [pending |-> bs, pieces |-> st.pieces]
          BY <1>0, <3>2
    <3>4. bs \in Seq(Block) /\ (Len(bs) > 1 => Tokens(Lines(bs)) <= c.size + c.carry)
      <4>1. CASE st.pending = <<>>
            BY <1>0, <1>3, <2>1, <3>1, <4>1
      <4>2. CASE st.pending # <<>>
            BY <1>0, <2>0, <2>1, <2>3, <3>1, <4>2
      <4> QED BY <4>1, <4>2
    <3> QED BY <1>0, <3>3, <3>4 DEF Packed
  <2> QED BY <2>2, <2>3
<1> QED BY <1>2, <1>5, <1>6, <1>7, <1>8 DEF Kinds

(* ---- chunk_blocks: the packing of all blocks, one by one -------------- *)
Unpacked == [pending |-> <<>>, pieces |-> <<>>]
PacksBlocks(g, c, bs) ==
    g = [s \in SUBSET DOMAIN bs |->
           IF s = {} THEN Unpacked ELSE Pack(c, g[s \ {Max(s)}], bs[Max(s)])]
Packing(c, bs) == FoldLeft(LAMBDA s, b : Pack(c, s, b), Unpacked, bs)

LEMMA PackingDefined ==
    ASSUME NEW c, NEW bs
    PROVE  Packing(c, bs) = (CHOOSE g : PacksBlocks(g, c, bs))[DOMAIN bs]
BY DEF Packing, FoldLeft, MapThenFoldSet, PacksBlocks

LEMMA UnpackedPacked ==
    ASSUME NEW c
    PROVE  Unpacked \in Packed(c)
<1>1. PICK bs, ps : bs = <<>> /\ ps = <<>>
      OBVIOUS
<1>2. bs \in Seq(Block) /\ ps \in Seq(Piece) /\ ~(Len(bs) > 1) /\ DOMAIN ps = {}
      BY <1>1
<1>3. Bounded(c, ps)
      BY <1>2 DEF Bounded
<1>4. [pending |-> bs, pieces |-> ps] \in Packed(c)
      BY ONLY <1>2, <1>3 DEF Packed
<1> QED BY <1>1, <1>4 DEF Unpacked

PacksStages(h, c, bs) ==
    /\ h \in [0 .. Len(bs) -> Packed(c)]
    /\ h[0] = Unpacked
    /\ \A k \in 1 .. Len(bs) : h[k] = Pack(c, h[k - 1], bs[k])

LEMMA PackingStages ==
    ASSUME NEW c, IsConfig(c), NEW bs \in Seq(Block)
    PROVE  \E h : PacksStages(h, c, bs) /\ Packing(c, bs) = h[Len(bs)]
<1>1. PICK n : n = Len(bs)
      OBVIOUS
<1>2. n \in Nat /\ DOMAIN bs = 1 .. n /\ \A i \in 1 .. n : bs[i] \in Block
      BY <1>1, LenProperties, ElementOfSeq
<1> DEFINE F == [p \in (1 .. n) \X Packed(c) |-> Pack(c, p[2], bs[p[1]])]
<1>3. F \in [(1 .. n) \X Packed(c) -> Packed(c)]
      BY <1>2, PackKeeps
<1>4. PICK f \in [SUBSET (1 .. n) -> Packed(c)] : IsFold(f, n, Unpacked, F)
  <2> HIDE DEF F
  <2> QED BY <1>2, <1>3, UnpackedPacked, FoldExists
<1>5. \A k \in 1 .. n, st \in Packed(c) : F[<<k, st>>] = Pack(c, st, bs[k])
      OBVIOUS
<1>6. PacksBlocks(f, c, bs)
  <2>1. ASSUME NEW s \in SUBSET (1 .. n)
        PROVE  f[s] = IF s = {} THEN Unpacked ELSE Pack(c, f[s \ {Max(s)}], bs[Max(s)])
    <3>1. CASE s = {}
          BY <1>4, <3>1 DEF IsFold
    <3>2. CASE s # {}
      <4>1. Max(s) \in 1 .. n
            BY <1>2, <3>2, MaxOf
      <4>2. f[s \ {Max(s)}] \in Packed(c)
            OBVIOUS
      <4>3. f[s] = F[<<Max(s), f[s \ {Max(s)}]>>]
            BY <1>4, <3>2 DEF IsFold
      <4> HIDE DEF F
      <4> QED BY <1>5, <3>2, <4>1, <4>2, <4>3
    <3> QED BY <3>1, <3>2
  <2>2. f = [s \in SUBSET (1 .. n) |-> f[s]]
        OBVIOUS
  <2> QED BY <1>2, <2>1, <2>2 DEF PacksBlocks
<1>7. PICK g : PacksBlocks(g, c, bs) /\ Packing(c, bs) = g[1 .. n]
      BY <1>2, <1>6, PackingDefined
<1>8. /\ g[{}] = Unpacked
      /\ \A s \in SUBSET (1 .. n) : s # {} =>
            g[s] = Pack(c, g[s \ {Max(s)}], bs[Max(s)])
      BY <1>2, <1>7 DEF PacksBlocks
<1>9. ASSUME NEW s \in SUBSET (1 .. n), s # {}, g[s \ {Max(s)}] \in Packed(c)
      PROVE  g[s] = F[<<Max(s), g[s \ {Max(s)}]>>]
  <2>1. Max(s) \in 1 .. n
        BY <1>2, <1>9, MaxOf
  <2> HIDE DEF F
  <2> QED BY <1>5, <1>8, <1>9, <2>1
<1>10. PICK h : FoldSteps(h, n, Packed(c), Unpacked, F) /\ g[1 .. n] = h[n]
  <2> HIDE DEF F
  <2>1. StepsByF(g, n, Packed(c), Unpacked, F)
        BY <1>8, <1>9 DEF StepsByF
  <2>2. n \in Nat /\ Unpacked \in Packed(c)
        BY <1>2, UnpackedPacked
  <2>3. Reaches(g[1 .. n], n, Packed(c), Unpacked, F)
        BY ONLY <1>3, <2>1, <2>2, FoldStages
  <2> QED BY <2>3 DEF Reaches
<1>11. ASSUME NEW k \in 1 .. n PROVE h[k] = Pack(c, h[k - 1], bs[k])
  <2>1. k - 1 \in 0 .. n
        BY <1>2
  <2>2. h[k - 1] \in Packed(c) /\ h[k] = F[<<k, h[k - 1]>>]
        BY <1>10, <2>1 DEF FoldSteps
  <2> HIDE DEF F
  <2> QED BY <1>5, <2>2
<1>12. PacksStages(h, c, bs)
      BY <1>1, <1>10, <1>11 DEF FoldSteps, PacksStages
<1> QED BY <1>1, <1>7, <1>10, <1>12

(* ---- the blocks that hold something ----------------------------------- *)
LEMMA NthExists ==
    ASSUME NEW n \in Nat, NEW I \in SUBSET (1 .. n)
    PROVE  /\ Cardinality(I) \in Nat
           /\ \A k \in 1 .. Cardinality(I) :
                 Nth(I, k) \in I /\ Cardinality({j \in I : j <= Nth(I, k)}) = k
<1> DEFINE Has(J) == \A k \in 1 .. Cardinality(J) :
                        \E i \in J : Cardinality({j \in J : j <= i}) = k
           P == {m \in Nat : \A J \in SUBSET (1 .. m) : Has(J)}
<1>1. \A m \in Nat : \A J \in SUBSET (1 .. m) : IsFiniteSet(J) /\ Cardinality(J) \in Nat
  <2> TAKE m \in Nat
  <2>1. IsFiniteSet(1 .. m)
        BY FS_Interval
  <2> QED BY <2>1, FS_Subset, FS_CardinalityType
<1>2. 0 \in P
  <2>1. \A J \in SUBSET (1 .. 0) : J = {}
        OBVIOUS
  <2>2. Has({})
        BY FS_EmptySet
  <2> QED BY <2>1, <2>2
<1>3. ASSUME NEW m \in Nat, m \in P PROVE m + 1 \in P
  <2>1. ASSUME NEW J \in SUBSET (1 .. (m + 1)) PROVE Has(J)
    <3>0. PICK top : top = m + 1
          OBVIOUS
    <3> DEFINE K == J \ {top}
    <3>1. K \in SUBSET (1 .. m)
          BY <3>0
    <3>2. Has(K)
          BY <1>3, <3>1
    <3>3. CASE top \notin J
      <4>1. K = J
            BY <3>3
      <4> QED BY <3>2, <4>1
    <3>4. CASE top \in J
      <4>1. Cardinality(K) = Cardinality(J) - 1 /\ Cardinality(J) \in Nat
        <5>0. top \in Nat /\ J \in SUBSET (1 .. top)
              BY <3>0
        <5>1. IsFiniteSet(J) /\ Cardinality(J) \in Nat
              BY <1>1, <5>0
        <5> QED BY <3>4, <5>1, FS_RemoveElement
      <4>2. ASSUME NEW k \in 1 .. Cardinality(J)
            PROVE  \E i \in J : Cardinality({j \in J : j <= i}) = k
        <5>1. CASE k = Cardinality(J)
          <6>0. \A j \in J : j <= top
                BY <3>0
          <6>1. {j \in J : j <= top} = J
                BY <6>0
          <6> QED BY <3>4, <5>1, <6>1
        <5>2. CASE k # Cardinality(J)
          <6>1. k \in 1 .. Cardinality(K)
                BY <4>1, <5>2
          <6>2. PICK i \in K : Cardinality({j \in K : j <= i}) = k
                BY <3>2, <6>1
          <6>3. i \in Nat /\ ~(top <= i)
                BY <3>0, <3>1
          <6>4. {j \in J : j <= i} = {j \in K : j <= i}
                BY <6>3
          <6> QED BY <6>2, <6>4
        <5> QED BY <5>1, <5>2
      <4> QED BY <4>2
    <3> QED BY <3>3, <3>4
  <2> HIDE DEF Has
  <2> QED BY <2>1
<1> HIDE DEF Has
<1>4. P = Nat
  <2>1. P \in SUBSET Nat
        OBVIOUS
  <2> HIDE DEF P
  <2> QED BY <1>2, <1>3, <2>1, Stepwise
<1>5. Has(I)
      BY <1>4
<1> QED BY <1>1, <1>5 DEF Has, Nth

LEMMA PickedTyped ==
    ASSUME NEW S, NEW s \in Seq(S), NEW I \in SUBSET DOMAIN s
    PROVE  /\ Picked(s, I) \in Seq(S)
           /\ \A k \in DOMAIN Picked(s, I) : \E i \in I : Picked(s, I)[k] = s[i]
<1>1. Len(s) \in Nat /\ DOMAIN s = 1 .. Len(s)
      BY LenProperties
<1>2. PICK n : n = Cardinality(I)
      OBVIOUS
<1>3. n \in Nat /\ \A k \in 1 .. n : Nth(I, k) \in I
      BY <1>1, <1>2, NthExists
<1>4. InOrder(I) = [k \in 1 .. n |-> Nth(I, k)]
      BY <1>2 DEF InOrder
<1>5. Picked(s, I) = [k \in 1 .. n |-> s[Nth(I, k)]]
      BY <1>4 DEF Picked
<1>6. \A k \in 1 .. n : s[Nth(I, k)] \in S
      BY <1>1, <1>3, ElementOfSeq
<1>7. Picked(s, I) \in [1 .. n -> S]
      BY <1>5, <1>6
<1>8. Picked(s, I) \in Seq(S)
      BY ONLY <1>3, <1>7, SeqDef
<1> QED BY <1>3, <1>5, <1>8

LEMMA NonblankTyped ==
    ASSUME NEW bs \in Seq(Block)
    PROVE  /\ Nonblank(bs) \in Seq(Block)
           /\ \A k \in DOMAIN Nonblank(bs) : Nonblank(bs)[k].text # <<>>
BY PickedTyped DEF Nonblank

LEMMA ChunkBlocksBounded ==
    ASSUME NEW c, IsConfig(c), NEW bs \in Seq(Block)
    PROVE  ChunkBlocks(c, bs) \in Seq(Piece) /\ Bounded(c, ChunkBlocks(c, bs))
<1>1. PICK st : st = Packing(c, Nonblank(bs))
      OBVIOUS
<1>2. st \in Packed(c)
  <2>1. PICK h : PacksStages(h, c, Nonblank(bs)) /\ st = h[Len(Nonblank(bs))]
        BY <1>1, NonblankTyped, PackingStages
  <2>2. Len(Nonblank(bs)) \in Nat
        BY NonblankTyped, LenProperties
  <2> QED BY <2>1, <2>2 DEF PacksStages
<1>3. ChunkBlocks(c, bs) = Flush(st).pieces
      BY <1>1 DEF ChunkBlocks, Packing, Unpacked
<1> QED BY <1>2, <1>3, FlushKeeps DEF Packed

(* ---- sequences of sequences, one after the other ---------------------- *)
Joins(h, seqs, n, S) ==
    /\ h \in [0 .. n -> Seq(S)]
    /\ h[0] = <<>>
    /\ \A k \in 1 .. n : h[k] = h[k - 1] \o seqs[k]

Flattens(g, seqs) ==
    g = [i \in 1 .. Len(seqs) |-> IF i = 1 THEN seqs[i] ELSE g[i - 1] \o seqs[i]]

LEMMA FlattenDefined ==
    ASSUME NEW seqs, Len(seqs) # 0
    PROVE  FlattenSeq(seqs) = (CHOOSE g : Flattens(g, seqs))[Len(seqs)]
BY DEF FlattenSeq, Flattens

LEMMA JoinsExist ==
    ASSUME NEW S, NEW seqs \in Seq(Seq(S))
    PROVE  \E h : Joins(h, seqs, Len(seqs), S)
<1> DEFINE Has(k) == \E h : Joins(h, seqs, k, S)
           P == {k \in Nat : k <= Len(seqs) => Has(k)}
<1>1. Len(seqs) \in Nat /\ \A i \in 1 .. Len(seqs) : seqs[i] \in Seq(S)
      BY LenProperties, ElementOfSeq
<1>2. 0 \in P
  <2>1. <<>> \in Seq(S)
        BY EmptySeq
  <2>2. PICK h : h = [k \in 0 .. 0 |-> <<>>]
        OBVIOUS
  <2>3. Joins(h, seqs, 0, S)
        BY <2>1, <2>2 DEF Joins
  <2> QED BY <2>3
<1>3. ASSUME NEW k \in Nat, k \in P PROVE k + 1 \in P
  <2> SUFFICES ASSUME k + 1 <= Len(seqs) PROVE Has(k + 1)
      OBVIOUS
  <2>1. PICK h : Joins(h, seqs, k, S)
    <3>1. k <= Len(seqs)
          BY <1>1
    <3> HIDE DEF Has
    <3>2. Has(k)
          BY <1>3, <3>1
    <3> QED BY <3>2 DEF Has
  <2>2. PICK top : top = k + 1
        OBVIOUS
  <2>3. top \in Nat /\ top \in 1 .. Len(seqs) /\ seqs[top] \in Seq(S) /\ h[k] \in Seq(S)
        BY <1>1, <2>1, <2>2 DEF Joins
  <2>4. PICK e : e = h[k] \o seqs[top]
        OBVIOUS
  <2>5. e \in Seq(S)
        BY <2>3, <2>4, ConcatProperties
  <2>6. PICK x : x = [i \in 0 .. top |-> IF i = top THEN e ELSE h[i]]
        OBVIOUS
  <2>7. \A i \in 0 .. top : i # top => i \in 0 .. k
        BY <2>2
  <2>8. x \in [0 .. top -> Seq(S)]
        BY <2>1, <2>5, <2>6, <2>7 DEF Joins
  <2>9. x[0] = <<>>
        BY <2>1, <2>2, <2>6 DEF Joins
  <2>10. ASSUME NEW i \in 1 .. top PROVE x[i] = x[i - 1] \o seqs[i]
    <3>1. i \in 0 .. top /\ i - 1 \in 0 .. top /\ i - 1 # top
          BY <2>2
    <3>2. x[i - 1] = h[i - 1]
          BY <2>6, <3>1
    <3>3. CASE i = top
      <4>1. i - 1 = k
            BY <2>2, <3>3
      <4> QED BY <2>4, <2>6, <3>1, <3>2, <3>3, <4>1
    <3>4. CASE i # top
      <4>1. i \in 1 .. k
            BY <2>2, <3>4
      <4>2. h[i] = h[i - 1] \o seqs[i]
            BY <2>1, <4>1 DEF Joins
      <4> QED BY <2>6, <3>1, <3>2, <3>4, <4>2
    <3> QED BY <3>3, <3>4
  <2>11. Joins(x, seqs, top, S)
        BY <2>8, <2>9, <2>10 DEF Joins
  <2> QED BY <2>2, <2>11
<1> HIDE DEF Has
<1>4. P = Nat
  <2>1. P \in SUBSET Nat
        OBVIOUS
  <2> HIDE DEF P
  <2> QED BY <1>2, <1>3, <2>1, Stepwise
<1>5. Has(Len(seqs))
      BY <1>1, <1>4
<1> QED BY <1>5 DEF Has

LEMMA FlattenStages ==
    ASSUME NEW S, NEW seqs \in Seq(Seq(S))
    PROVE  \E h : Joins(h, seqs, Len(seqs), S) /\ FlattenSeq(seqs) = h[Len(seqs)]
<1>0. PICK n : n = Len(seqs)
      OBVIOUS
<1>1. n \in Nat /\ \A i \in 1 .. n : seqs[i] \in Seq(S)
      BY <1>0, LenProperties, ElementOfSeq
<1>2. PICK h : Joins(h, seqs, n, S)
      BY <1>0, JoinsExist
<1>3. CASE n = 0
  <2>1. seqs = <<>>
        BY <1>0, <1>3, EmptySeq
  <2>2. FlattenSeq(seqs) = seqs
        BY <1>0, <1>3 DEF FlattenSeq
  <2> QED BY <1>0, <1>2, <1>3, <2>1, <2>2 DEF Joins
<1>4. CASE n # 0
  <2>1. PICK f : f = [i \in 1 .. n |-> h[i]]
        OBVIOUS
  <2>2. ASSUME NEW i \in 1 .. n
        PROVE  f[i] = IF i = 1 THEN seqs[i] ELSE f[i - 1] \o seqs[i]
    <3>1. f[i] = h[i] /\ h[i] = h[i - 1] \o seqs[i] /\ seqs[i] \in Seq(S)
          BY <1>1, <1>2, <2>1 DEF Joins
    <3>2. CASE i = 1
      <4>1. h[i - 1] = <<>>
            BY <1>2, <3>2 DEF Joins
      <4>2. <<>> \o seqs[i] = seqs[i]
            BY <3>1, ConcatEmptySeq
      <4> QED BY <3>1, <3>2, <4>1, <4>2
    <3>3. CASE i # 1
      <4>1. i - 1 \in 1 .. n
            BY <1>1, <3>3
      <4> QED BY <2>1, <3>1, <3>3, <4>1
    <3> QED BY <3>2, <3>3
  <2>3. f = [i \in 1 .. n |-> f[i]]
        BY <2>1
  <2>4. Flattens(f, seqs)
        BY <1>0, <2>2, <2>3 DEF Flattens
  <2>5. PICK g : Flattens(g, seqs) /\ FlattenSeq(seqs) = g[n]
        BY <1>0, <1>4, <2>4, FlattenDefined
  <2>6. \A i \in 1 .. n : g[i] = IF i = 1 THEN seqs[i] ELSE g[i - 1] \o seqs[i]
        BY <1>0, <2>5 DEF Flattens
  <2> DEFINE P == {k \in Nat : k \in 1 .. n => g[k] = h[k]}
  <2>7. P = Nat
    <3>1. 0 \in P
          OBVIOUS
    <3>2. ASSUME NEW k \in Nat, k \in P PROVE k + 1 \in P
      <4> SUFFICES ASSUME k + 1 \in 1 .. n PROVE g[k + 1] = h[k + 1]
          OBVIOUS
      <4>0. PICK i : i = k + 1
            OBVIOUS
      <4>1. i \in 1 .. n /\ i - 1 = k
            BY <4>0
      <4>2. h[i] = h[i - 1] \o seqs[i] /\ seqs[i] \in Seq(S)
            BY <1>1, <1>2, <4>1 DEF Joins
      <4>3. CASE k = 0
        <5>1. h[i - 1] = <<>> /\ g[i] = seqs[i]
              BY <1>2, <2>6, <4>1, <4>3 DEF Joins
        <5>2. <<>> \o seqs[i] = seqs[i]
              BY <4>2, ConcatEmptySeq
        <5> QED BY <4>0, <4>2, <5>1, <5>2
      <4>4. CASE k # 0
        <5>1. k \in 1 .. n /\ i # 1
              BY <1>1, <4>1, <4>4
        <5>2. g[i] = g[i - 1] \o seqs[i] /\ g[k] = h[k]
              BY <2>6, <3>2, <4>1, <5>1
        <5> QED BY <4>0, <4>1, <4>2, <5>2
      <4> QED BY <4>3, <4>4
    <3>3. P \in SUBSET Nat
          OBVIOUS
    <3> HIDE DEF P
    <3> QED BY <3>1, <3>2, <3>3, Stepwise
  <2>8. g[n] = h[n]
    <3>1. n \in P /\ n \in 1 .. n
          BY <1>1, <1>4, <2>7
    <3> QED BY <3>1
  <2> QED BY <1>0, <1>2, <2>5, <2>8
<1> QED BY <1>3, <1>4

LEMMA FlattenTyped ==
    ASSUME NEW S, NEW seqs \in Seq(Seq(S))
    PROVE  FlattenSeq(seqs) \in Seq(S)
<1>1. PICK h : Joins(h, seqs, Len(seqs), S) /\ FlattenSeq(seqs) = h[Len(seqs)]
      BY FlattenStages
<1>2. Len(seqs) \in Nat
      BY LenProperties
<1>3. Len(seqs) \in 0 .. Len(seqs)
      BY <1>2
<1> QED BY <1>1, <1>3 DEF Joins

LEMMA FlattenBounded ==
    ASSUME NEW c, NEW pss \in Seq(Seq(Piece)), \A i \in 1 .. Len(pss) : Bounded(c, pss[i])
    PROVE  FlattenSeq(pss) \in Seq(Piece) /\ Bounded(c, FlattenSeq(pss))
<1>1. PICK h : Joins(h, pss, Len(pss), Piece) /\ FlattenSeq(pss) = h[Len(pss)]
      BY FlattenStages
<1>2. Len(pss) \in Nat /\ \A i \in 1 .. Len(pss) : pss[i] \in Seq(Piece)
      BY LenProperties, ElementOfSeq
<1> DEFINE P == {k \in Nat : k <= Len(pss) => Bounded(c, h[k])}
<1>3. 0 \in P
  <2>1. h[0] = <<>> /\ DOMAIN <<>> = {}
        BY <1>1 DEF Joins
  <2>2. Bounded(c, h[0])
        BY <2>1 DEF Bounded
  <2> QED BY <2>2
<1>4. ASSUME NEW k \in Nat, k \in P PROVE k + 1 \in P
  <2> SUFFICES ASSUME k + 1 <= Len(pss) PROVE Bounded(c, h[k + 1])
      OBVIOUS
  <2>1. k \in 0 .. Len(pss) /\ k + 1 \in 1 .. Len(pss) /\ (k + 1) - 1 = k /\ k <= Len(pss)
        BY <1>2
  <2>2. h[k + 1] = h[k] \o pss[k + 1] /\ h[k] \in Seq(Piece)
        BY <1>1, <2>1 DEF Joins
  <2>3. Bounded(c, h[k]) /\ Bounded(c, pss[k + 1]) /\ pss[k + 1] \in Seq(Piece)
        BY <1>2, <1>4, <2>1
  <2> QED BY <2>2, <2>3, PiecesAdded
<1>5. P = Nat
  <2>1. P \in SUBSET Nat
        OBVIOUS
  <2> HIDE DEF P
  <2> QED BY <1>3, <1>4, <2>1, Stepwise
<1> QED BY <1>1, <1>2, <1>5, FlattenTyped

(* ---- _apply_delimiter ------------------------------------------------- *)
Cuts == {s \in Seq(Seq(Words)) : s # <<>>}
AllCut(text) == FoldLeft(Cut, << <<>> >>, text)
CutsText(g, text) ==
    g = [s \in SUBSET DOMAIN text |->
           IF s = {} THEN << <<>> >> ELSE Cut(g[s \ {Max(s)}], text[Max(s)])]

LEMMA CutDefined ==
    ASSUME NEW text
    PROVE  AllCut(text) = (CHOOSE g : CutsText(g, text))[DOMAIN text]
BY DEF AllCut, FoldLeft, MapThenFoldSet, CutsText

LEMMA CutTyped ==
    ASSUME NEW s \in Cuts, NEW t \in Words
    PROVE  Cut(s, t) \in Cuts
<1>1. s \in Seq(Seq(Words)) /\ s # <<>>
      BY DEF Cuts
<1>2. Len(s) \in 1 .. Len(s) /\ s[Len(s)] \in Seq(Words)
  <2>1. Len(s) \in Nat \ {0}
        BY <1>1, EmptySeq
  <2>2. Len(s) \in 1 .. Len(s)
        BY <2>1
  <2> QED BY <1>1, <2>2, ElementOfSeq
<1>3. CASE t = Delimiter
  <2>1. PICK e : e = <<>>
        OBVIOUS
  <2>2. e \in Seq(Words)
        BY <2>1
  <2>3. Append(s, e) \in Seq(Seq(Words)) /\ Append(s, e) # <<>>
        BY <1>1, <2>2, AppendProperties
  <2>4. Cut(s, t) = Append(s, e)
        BY <1>3, <2>1 DEF Cut
  <2> QED BY <2>3, <2>4 DEF Cuts
<1>4. CASE t # Delimiter
  <2>1. PICK e : e = Append(s[Len(s)], t)
        OBVIOUS
  <2>2. e \in Seq(Words)
        BY <1>2, <2>1, AppendProperties
  <2>3. PICK r : r = [s EXCEPT ![Len(s)] = e]
        OBVIOUS
  <2>4. r \in Seq(Seq(Words)) /\ Len(r) = Len(s)
        BY <1>1, <1>2, <2>2, <2>3, ExceptSeq
  <2>5. r # <<>>
        BY <1>1, <2>4, EmptySeq
  <2>6. Cut(s, t) = r
        BY <1>4, <2>1, <2>3 DEF Cut
  <2> QED BY <2>4, <2>5, <2>6 DEF Cuts
<1> QED BY <1>3, <1>4

LEMMA AllCutTyped ==
    ASSUME NEW text \in Seq(Words)
    PROVE  AllCut(text) \in Seq(Seq(Words))
<1>1. PICK n : n = Len(text)
      OBVIOUS
<1>2. n \in Nat /\ DOMAIN text = 1 .. n /\ \A i \in 1 .. n : text[i] \in Words
      BY <1>1, LenProperties, ElementOfSeq
<1>0. PICK start : start = << <<>> >>
      OBVIOUS
<1>00. start \in Cuts
  <2>1. start \in Seq(Seq(Words)) /\ Len(start) = 1
    <3>1. PICK e : e = <<>>
          OBVIOUS
    <3>2. e \in Seq(Words)
          BY <3>1
    <3>3. <<e>> \in Seq(Seq(Words)) /\ Len(<<e>>) = 1
          BY <3>2
    <3> QED BY <1>0, <3>1, <3>3
  <2>2. start # <<>>
        BY <2>1, EmptySeq
  <2> QED BY <2>1, <2>2 DEF Cuts
<1> DEFINE F == [p \in (1 .. n) \X Cuts |-> Cut(p[2], text[p[1]])]
<1>3. F \in [(1 .. n) \X Cuts -> Cuts]
      BY <1>2, CutTyped
<1>4. PICK f \in [SUBSET (1 .. n) -> Cuts] : IsFold(f, n, start, F)
  <2> HIDE DEF F
  <2> QED BY <1>2, <1>00, <1>3, FoldExists
<1>5. \A k \in 1 .. n, s \in Cuts : F[<<k, s>>] = Cut(s, text[k])
      OBVIOUS
<1>6. CutsText(f, text)
  <2>1. ASSUME NEW s \in SUBSET (1 .. n)
        PROVE  f[s] = IF s = {} THEN start ELSE Cut(f[s \ {Max(s)}], text[Max(s)])
    <3>1. CASE s = {}
          BY <1>4, <3>1 DEF IsFold
    <3>2. CASE s # {}
      <4>1. Max(s) \in 1 .. n
            BY <1>2, <3>2, MaxOf
      <4>2. f[s \ {Max(s)}] \in Cuts
            OBVIOUS
      <4>3. f[s] = F[<<Max(s), f[s \ {Max(s)}]>>]
            BY <1>4, <3>2 DEF IsFold
      <4> HIDE DEF F
      <4> QED BY <1>5, <3>2, <4>1, <4>2, <4>3
    <3> QED BY <3>1, <3>2
  <2>2. f = [s \in SUBSET (1 .. n) |-> f[s]]
        OBVIOUS
  <2> QED BY <1>0, <1>2, <2>1, <2>2 DEF CutsText
<1>7. PICK g : CutsText(g, text) /\ AllCut(text) = g[1 .. n]
      BY <1>2, <1>6, CutDefined
<1>8. /\ g[{}] = start
      /\ \A s \in SUBSET (1 .. n) : s # {} => g[s] = Cut(g[s \ {Max(s)}], text[Max(s)])
      BY <1>0, <1>2, <1>7 DEF CutsText
<1>9. ASSUME NEW s \in SUBSET (1 .. n), s # {}, g[s \ {Max(s)}] \in Cuts
      PROVE  g[s] = F[<<Max(s), g[s \ {Max(s)}]>>]
  <2>1. Max(s) \in 1 .. n
        BY <1>2, <1>9, MaxOf
  <2> HIDE DEF F
  <2> QED BY <1>5, <1>8, <1>9, <2>1
<1>10. PICK h : FoldSteps(h, n, Cuts, start, F) /\ g[1 .. n] = h[n]
  <2> HIDE DEF F
  <2>1. StepsByF(g, n, Cuts, start, F)
        BY <1>8, <1>9 DEF StepsByF
  <2>2. n \in Nat /\ start \in Cuts
        BY <1>2, <1>00
  <2>3. Reaches(g[1 .. n], n, Cuts, start, F)
        BY ONLY <1>3, <2>1, <2>2, FoldStages
  <2> QED BY <2>3 DEF Reaches
<1>11. h[n] \in Cuts
      BY <1>2, <1>10 DEF FoldSteps
<1> QED BY <1>7, <1>10, <1>11 DEF Cuts

LEMMA SentencesTyped ==
    ASSUME NEW text \in Seq(Words)
    PROVE  Sentences(text) \in Seq(Seq(Words))
<1>1. Sentences(text) = Picked(AllCut(text), {i \in DOMAIN AllCut(text) : AllCut(text)[i] # <<>>})
      BY DEF Sentences, AllCut
<1>2. {i \in DOMAIN AllCut(text) : AllCut(text)[i] # <<>>} \in SUBSET DOMAIN AllCut(text)
      OBVIOUS
<1> QED BY <1>1, <1>2, AllCutTyped, PickedTyped

LEMMA ApplyDelimiterTyped ==
    ASSUME NEW bs \in Seq(Block)
    PROVE  ApplyDelimiter(bs) \in Seq(Block)
<1> DEFINE Part(i) ==
             IF bs[i].kind = "table" THEN <<bs[i]>>
             ELSE LET ps == Sentences(bs[i].text)
                  IN  [j \in DOMAIN ps |-> [bs[i] EXCEPT !.text = ps[j]]]
           parts == [i \in DOMAIN bs |-> Part(i)]
<1>1. Len(bs) \in Nat /\ DOMAIN bs = 1 .. Len(bs) /\ \A i \in 1 .. Len(bs) : bs[i] \in Block
      BY LenProperties, ElementOfSeq
<1>2. ASSUME NEW i \in 1 .. Len(bs) PROVE Part(i) \in Seq(Block)
  <2>1. PICK b : b = bs[i]
        OBVIOUS
  <2>2. b \in Block /\ b.text \in Seq(Words)
        BY <1>1, <2>1 DEF Block
  <2>3. CASE b.kind = "table"
    <3>1. <<b>> \in Seq(Block)
          BY <2>2
    <3> QED BY <2>1, <2>3, <3>1
  <2>4. CASE b.kind # "table"
    <3>1. PICK ps : ps = Sentences(b.text)
          OBVIOUS
    <3>2. ps \in Seq(Seq(Words))
          BY <2>2, <3>1, SentencesTyped
    <3>3. Len(ps) \in Nat /\ DOMAIN ps = 1 .. Len(ps) /\ \A j \in 1 .. Len(ps) : ps[j] \in Seq(Words)
          BY <3>2, LenProperties, ElementOfSeq
    <3>4. \A t \in Seq(Words) : [b EXCEPT !.text = t] \in Block
          BY <2>2 DEF Block
    <3>5. PICK qs : qs = [j \in 1 .. Len(ps) |-> [b EXCEPT !.text = ps[j]]]
          OBVIOUS
    <3>6. qs \in [1 .. Len(ps) -> Block]
          BY <3>3, <3>4, <3>5
    <3>7. qs \in Seq(Block)
          BY ONLY <3>3, <3>6, SeqDef
    <3> QED BY <2>1, <2>4, <3>1, <3>3, <3>5, <3>7
  <2> QED BY <2>3, <2>4
<1> HIDE DEF Part
<1>3. parts \in [1 .. Len(bs) -> Seq(Block)]
      BY <1>1, <1>2
<1>4. parts \in Seq(Seq(Block))
  <2> HIDE DEF parts
  <2> QED BY ONLY <1>1, <1>3, SeqDef
<1>5. ApplyDelimiter(bs) = FlattenSeq(parts)
      BY DEF ApplyDelimiter, Part
<1> HIDE DEF parts
<1> QED BY <1>4, <1>5, FlattenTyped

(* ---- the methods ------------------------------------------------------ *)
LEMMA OneTyped ==
    ASSUME NEW bs \in Seq(Block)
    PROVE  One(bs) \in Seq(Piece)
<1>1. PICK e : e = <<>>
      OBVIOUS
<1>2. e \in Seq(Piece)
      BY <1>1
<1>3. Chunk(Lines(Nonblank(bs)), FALSE) \in Piece
      BY NonblankTyped, LinesTyped, ChunkTyped
<1>4. PICK p : p = Chunk(Lines(Nonblank(bs)), FALSE)
      OBVIOUS
<1>5. <<p>> \in Seq(Piece)
  <2>1. p \in Piece
        BY <1>3, <1>4
  <2> QED BY ONLY <2>1
<1> QED BY <1>1, <1>2, <1>4, <1>5 DEF One

LEMMA AnswerWindows ==
    ASSUME NEW c, IsConfig(c), NEW text \in Seq(Words)
    PROVE  \E n \in Nat :
              /\ AnswerSlides(c, text)
                    = [i \in 1 .. n |-> Chunk(<<Window(text, i - 1, c)>>, FALSE)]
              /\ n * c.stride >= Len(text)
              /\ n = 0 \/ (n - 1) * c.stride < Len(text)
<1>1. PICK len, step : len = Len(text) /\ step = c.stride
      OBVIOUS
<1>2. len \in Nat /\ step \in Nat \ {0}
      BY <1>1, LenProperties DEF IsConfig
<1> DEFINE T == {k \in Nat : k * step >= len}
<1>3. len \in T
  <2>1. \A x \in Nat, y \in Nat \ {0} : x * y >= x
        OBVIOUS
  <2> QED BY <1>2, <2>1
<1>4. PICK m \in T : \A k \in T : m <= k
  <2>1. T \in SUBSET Nat /\ T # {}
        BY <1>3
  <2> HIDE DEF T
  <2> QED BY <2>1, LeastNat
<1>5. m \in 0 .. len /\ m * step >= len
      BY <1>2, <1>3, <1>4
<1>6. m = 0 \/ (m - 1) * step < len
  <2> SUFFICES ASSUME m # 0 PROVE (m - 1) * step < len
      OBVIOUS
  <2>1. PICK k : k = m - 1
        OBVIOUS
  <2>2. k \in Nat /\ ~(m <= k)
        BY <1>5, <2>1
  <2>3. k \notin T
        BY <1>4, <2>2
  <2>4. \A x, y \in Nat : x * y \in Nat
        OBVIOUS
  <2>5. k * step \in Nat /\ ~(k * step >= len)
        BY <1>2, <2>2, <2>3, <2>4
  <2> QED BY <1>2, <2>1, <2>5
<1> DEFINE Ends(k) == k * step >= len /\ (k = 0 \/ (k - 1) * step < len)
<1>7. PICK n : n = CHOOSE k \in 0 .. len : Ends(k)
      OBVIOUS
<1>8. n \in Nat /\ Ends(n)
  <2>1. \E k \in 0 .. len : Ends(k)
        BY <1>5, <1>6
  <2> HIDE DEF Ends
  <2>2. n \in 0 .. len /\ Ends(n)
        BY <1>7, <2>1
  <2> QED BY <1>2, <2>2
<1>9. AnswerSlides(c, text) = [i \in 1 .. n |-> Chunk(<<Window(text, i - 1, c)>>, FALSE)]
      BY <1>1, <1>7, Zenon DEF AnswerSlides, Ends
<1>10. n * c.stride >= Len(text) /\ (n = 0 \/ (n - 1) * c.stride < Len(text))
       BY <1>1, <1>8
<1> QED BY <1>8, <1>9, <1>10

LEMMA AnswerSlidesBounded ==
    ASSUME NEW c, IsConfig(c), NEW text \in Seq(Words)
    PROVE  AnswerSlides(c, text) \in Seq(Piece) /\ Bounded(c, AnswerSlides(c, text))
BY AnswerWindows, WindowsBounded

(* ---- a text is where its lines are ------------------------------------ *)
LEMMA JoinsAgree ==
    ASSUME NEW S, NEW s, NEW t, NEW g, NEW h, NEW n \in Nat, NEW x \in Nat, NEW y \in Nat,
           Joins(g, s, x, S), Joins(h, t, y, S), n <= x, n <= y,
           \A i \in 1 .. n : s[i] = t[i]
    PROVE  g[n] = h[n]
<1> DEFINE P == {k \in Nat : k <= n => g[k] = h[k]}
<1>1. 0 \in P
      BY DEF Joins
<1>2. ASSUME NEW k \in Nat, k \in P PROVE k + 1 \in P
  <2> SUFFICES ASSUME k + 1 <= n PROVE g[k + 1] = h[k + 1]
      OBVIOUS
  <2>1. k + 1 \in 1 .. x /\ k + 1 \in 1 .. y /\ k + 1 \in 1 .. n /\ (k + 1) - 1 = k
        OBVIOUS
  <2>2. g[k + 1] = g[k] \o s[k + 1] /\ h[k + 1] = h[k] \o t[k + 1]
        BY <2>1 DEF Joins
  <2>3. g[k] = h[k] /\ s[k + 1] = t[k + 1]
        BY <1>2, <2>1
  <2> QED BY <2>2, <2>3
<1>3. P = Nat
  <2>1. P \in SUBSET Nat
        OBVIOUS
  <2> HIDE DEF P
  <2> QED BY <1>1, <1>2, <2>1, Stepwise
<1> QED BY <1>3

LEMMA FlattenOfMore ==
    ASSUME NEW S, NEW seqs \in Seq(Seq(S)), NEW x \in Seq(S)
    PROVE  /\ Append(seqs, x) \in Seq(Seq(S))
           /\ FlattenSeq(seqs) \in Seq(S)
           /\ FlattenSeq(Append(seqs, x)) = FlattenSeq(seqs) \o x
<1>0. PICK more, n : more = Append(seqs, x) /\ n = Len(seqs)
      OBVIOUS
<1>1. /\ more \in Seq(Seq(S)) /\ Len(more) = n + 1 /\ n \in Nat
      /\ \A i \in 1 .. n : more[i] = seqs[i]
      /\ more[n + 1] = x
      BY <1>0, AppendProperties, LenProperties
<1>2. PICK g : Joins(g, seqs, n, S) /\ FlattenSeq(seqs) = g[n]
      BY <1>0, FlattenStages
<1>3. PICK h : Joins(h, more, n + 1, S) /\ FlattenSeq(more) = h[n + 1]
      BY <1>1, FlattenStages
<1>4. g[n] = h[n]
  <2>1. \A i \in 1 .. n : seqs[i] = more[i]
        BY <1>1
  <2>2. PICK m : m = n + 1
        OBVIOUS
  <2>3. n \in Nat /\ m \in Nat /\ n <= n /\ n <= m
        BY <1>1, <2>2
  <2>4. Joins(g, seqs, n, S) /\ Joins(h, more, m, S)
        BY <1>2, <1>3, <2>2
  <2> QED BY ONLY <2>1, <2>3, <2>4, JoinsAgree
<1>5. h[n + 1] = h[n] \o more[n + 1]
  <2>1. n + 1 \in 1 .. n + 1 /\ (n + 1) - 1 = n
        BY <1>1
  <2> QED BY <1>3, <2>1 DEF Joins
<1> QED BY <1>0, <1>1, <1>2, <1>3, <1>4, <1>5, FlattenTyped

LEMMA FlattenOfNone == FlattenSeq(<<>>) = <<>>
BY DEF FlattenSeq

LEMMA FlattenOfOne ==
    ASSUME NEW S, NEW x \in Seq(S)
    PROVE  <<x>> \in Seq(Seq(S)) /\ FlattenSeq(<<x>>) = x
<1>1. PICK e : e = <<>>
      OBVIOUS
<1>2. e \in Seq(Seq(S)) /\ e \in Seq(S)
      BY <1>1, EmptySeq
<1>3. Append(e, x) = <<x>>
      BY <1>1
<1>4. FlattenSeq(Append(e, x)) = FlattenSeq(e) \o x /\ Append(e, x) \in Seq(Seq(S))
      BY <1>2, FlattenOfMore
<1>5. FlattenSeq(e) \o x = x
      BY <1>1, FlattenOfNone, ConcatEmptySeq
<1> QED BY <1>3, <1>4, <1>5

(* The lines after the first j, up to the k-th, and their text.            *)
Span(lines, j, k) == SubSeq(lines, j + 1, k)
TextIn(lines, j, k) == FlattenSeq(Span(lines, j, k))

LEMMA SpanTyped ==
    ASSUME NEW S, NEW lines \in Seq(S), NEW k \in 0 .. Len(lines), NEW j \in 0 .. k
    PROVE  /\ Span(lines, j, k) \in Seq(S) /\ Len(Span(lines, j, k)) = k - j
           /\ j \in Nat /\ k \in Nat /\ Len(lines) \in Nat
           /\ \A i \in 1 .. k - j : Span(lines, j, k)[i] = lines[j + i]
<1>1. Len(lines) \in Nat /\ \A i \in 1 .. Len(lines) : lines[i] \in S
      BY LenProperties, ElementOfSeq
<1>2. PICK m : m = j + 1
      OBVIOUS
<1>3. m \in Int /\ k \in Int /\ k \in Nat /\ j \in Nat /\ \A i \in m .. k : lines[i] \in S
      BY <1>1, <1>2
<1>4. /\ SubSeq(lines, m, k) \in Seq(S)
      /\ Len(SubSeq(lines, m, k)) = IF m <= k THEN k - m + 1 ELSE 0
      /\ \A i \in 1 .. k - m + 1 : SubSeq(lines, m, k)[i] = lines[m + i - 1]
      BY ONLY <1>3, SubSeqProperties
<1>5. Len(SubSeq(lines, m, k)) = k - j /\ k - m + 1 = k - j
      BY <1>2, <1>3, <1>4
<1>6. \A i \in 1 .. k - j : m + i - 1 = j + i
      BY <1>2, <1>3
<1>7. Span(lines, j, k) = SubSeq(lines, m, k)
      BY <1>2 DEF Span
<1> QED BY <1>1, <1>3, <1>4, <1>5, <1>6, <1>7

LEMMA SpanOfMore ==
    ASSUME NEW S, NEW lines \in Seq(S), NEW k \in 1 .. Len(lines), NEW j \in 0 .. k - 1
    PROVE  Span(lines, j, k) = Append(Span(lines, j, k - 1), lines[k])
<1>1. /\ k - 1 \in 0 .. Len(lines) /\ k \in 0 .. Len(lines) /\ j \in 0 .. k
      /\ k \in Nat /\ j \in Nat /\ lines[k] \in S
      BY LenProperties, ElementOfSeq
<1>2. /\ Span(lines, j, k) \in Seq(S) /\ Len(Span(lines, j, k)) = k - j
      /\ \A i \in 1 .. k - j : Span(lines, j, k)[i] = lines[j + i]
      BY <1>1, SpanTyped
<1>3. /\ Span(lines, j, k - 1) \in Seq(S) /\ Len(Span(lines, j, k - 1)) = (k - 1) - j
      /\ \A i \in 1 .. (k - 1) - j : Span(lines, j, k - 1)[i] = lines[j + i]
  <2>1. PICK m : m = k - 1
        OBVIOUS
  <2>2. m \in 0 .. Len(lines) /\ j \in 0 .. m
        BY <1>1, <2>1
  <2>3. /\ Span(lines, j, m) \in Seq(S) /\ Len(Span(lines, j, m)) = m - j
        /\ \A i \in 1 .. m - j : Span(lines, j, m)[i] = lines[j + i]
        BY <2>2, SpanTyped
  <2> QED BY <2>1, <2>3
<1>4. PICK t : t = Append(Span(lines, j, k - 1), lines[k])
      OBVIOUS
<1>5. /\ t \in Seq(S) /\ Len(t) = ((k - 1) - j) + 1
      /\ \A i \in 1 .. (k - 1) - j : t[i] = Span(lines, j, k - 1)[i]
      /\ t[((k - 1) - j) + 1] = lines[k]
      BY <1>1, <1>3, <1>4, AppendProperties
<1>6. Len(t) = k - j /\ t[k - j] = lines[k] /\ j + (k - j) = k
  <2>1. ((k - 1) - j) + 1 = k - j /\ j + (k - j) = k
        BY <1>1
  <2> QED BY <1>5, <2>1
<1>7. ASSUME NEW i \in 1 .. k - j PROVE Span(lines, j, k)[i] = t[i]
  <2>1. CASE i = k - j
        BY <1>2, <1>6, <2>1
  <2>2. CASE i # k - j
    <3>1. i \in 1 .. (k - 1) - j
          BY <1>1, <2>2
    <3> QED BY <1>2, <1>3, <1>5, <3>1
  <2> QED BY <2>1, <2>2
<1>8. \A i \in 1 .. Len(Span(lines, j, k)) : Span(lines, j, k)[i] = t[i]
      BY <1>2, <1>7
<1> QED BY <1>2, <1>4, <1>5, <1>6, <1>8, SeqEqual

LEMMA TextInTyped ==
    ASSUME NEW S, NEW lines \in Seq(Seq(S)), NEW k \in 0 .. Len(lines), NEW j \in 0 .. k
    PROVE  TextIn(lines, j, k) \in Seq(S)
BY SpanTyped, FlattenTyped DEF TextIn

LEMMA TextOfNone ==
    ASSUME NEW S, NEW lines \in Seq(Seq(S)), NEW k \in 0 .. Len(lines)
    PROVE  TextIn(lines, k, k) = <<>>
<1>1. Span(lines, k, k) \in Seq(Seq(S)) /\ Len(Span(lines, k, k)) = 0
  <2>1. k \in 0 .. k /\ k - k = 0
        BY LenProperties
  <2> QED BY <2>1, SpanTyped
<1>2. Span(lines, k, k) = <<>>
      BY <1>1, EmptySeq
<1> QED BY <1>2, FlattenOfNone DEF TextIn

LEMMA TextOfMore ==
    ASSUME NEW S, NEW lines \in Seq(Seq(S)), NEW k \in 1 .. Len(lines), NEW j \in 0 .. k - 1
    PROVE  TextIn(lines, j, k) = TextIn(lines, j, k - 1) \o lines[k]
<1>1. k - 1 \in 0 .. Len(lines) /\ lines[k] \in Seq(S)
      BY LenProperties, ElementOfSeq
<1>2. Span(lines, j, k - 1) \in Seq(Seq(S))
      BY <1>1, SpanTyped
<1> QED BY <1>1, <1>2, SpanOfMore, FlattenOfMore DEF TextIn

LEMMA TextOfOne ==
    ASSUME NEW S, NEW lines \in Seq(Seq(S)), NEW k \in 1 .. Len(lines)
    PROVE  TextIn(lines, k - 1, k) = lines[k]
<1>1. k - 1 \in 0 .. Len(lines) /\ k - 1 \in 0 .. k - 1 /\ lines[k] \in Seq(S)
      BY LenProperties, ElementOfSeq
<1>2. TextIn(lines, k - 1, k) = TextIn(lines, k - 1, k - 1) \o lines[k]
      BY <1>1, TextOfMore
<1>3. TextIn(lines, k - 1, k - 1) = <<>>
      BY <1>1, TextOfNone
<1> QED BY <1>1, <1>2, <1>3, ConcatEmptySeq

LEMMA TextOfTwo ==
    ASSUME NEW S, NEW lines \in Seq(Seq(S)), NEW k \in 0 .. Len(lines), NEW j \in 0 .. k,
           NEW m \in j .. k
    PROVE  TextIn(lines, j, k) = TextIn(lines, j, m) \o TextIn(lines, m, k)
<1> DEFINE P == {i \in Nat : i \in m .. k =>
                   TextIn(lines, j, i) = TextIn(lines, j, m) \o TextIn(lines, m, i)}
<1>0. /\ m \in Nat /\ j \in Nat /\ k \in Nat /\ Len(lines) \in Nat /\ m \in 0 .. Len(lines)
      /\ TextIn(lines, j, m) \in Seq(S)
  <2>1. m \in Nat /\ j \in Nat /\ k \in Nat /\ Len(lines) \in Nat /\ m \in 0 .. Len(lines)
        BY LenProperties
  <2>2. j \in 0 .. m
        BY <2>1
  <2> QED BY <2>1, <2>2, TextInTyped
<1>1. ASSUME NEW i \in Nat, i = m PROVE i \in P
  <2>1. TextIn(lines, m, m) = <<>>
        BY <1>0, TextOfNone
  <2> QED BY <1>0, <1>1, <2>1, ConcatEmptySeq
<1>2. 0 \in P
      BY <1>0, <1>1
<1>3. ASSUME NEW i \in Nat, i \in P PROVE i + 1 \in P
  <2>1. CASE i + 1 = m
        BY <1>1, <2>1
  <2>2. CASE i + 1 # m
    <3> SUFFICES ASSUME i + 1 \in m .. k
                 PROVE  TextIn(lines, j, i + 1) = TextIn(lines, j, m) \o TextIn(lines, m, i + 1)
        OBVIOUS
    <3>0. PICK x : x = i + 1
          OBVIOUS
    <3>1. /\ x \in 1 .. Len(lines) /\ x - 1 = i /\ i \in m .. k /\ i \in 0 .. Len(lines)
          /\ j \in 0 .. x - 1 /\ m \in 0 .. x - 1 /\ m \in 0 .. i
          BY <1>0, <2>2, <3>0
    <3>2. TextIn(lines, j, i) = TextIn(lines, j, m) \o TextIn(lines, m, i)
          BY <1>3, <3>1
    <3>3. /\ TextIn(lines, j, x) = TextIn(lines, j, i) \o lines[x]
          /\ TextIn(lines, m, x) = TextIn(lines, m, i) \o lines[x]
      <4>1. /\ TextIn(lines, j, x) = TextIn(lines, j, x - 1) \o lines[x]
            /\ TextIn(lines, m, x) = TextIn(lines, m, x - 1) \o lines[x]
            BY <3>1, TextOfMore
      <4> QED BY <3>1, <4>1
    <3>4. TextIn(lines, m, i) \in Seq(S) /\ lines[x] \in Seq(S)
          BY <3>1, TextInTyped, ElementOfSeq
    <3>5. PICK a, b, d : a = TextIn(lines, j, m) /\ b = TextIn(lines, m, i) /\ d = lines[x]
          OBVIOUS
    <3>6. a \in Seq(S) /\ b \in Seq(S) /\ d \in Seq(S)
          BY <1>0, <3>4, <3>5
    <3>7. (a \o b) \o d = a \o (b \o d)
          BY ONLY <3>6, ConcatAssociative, SMTT(30)
    <3>8. TextIn(lines, j, x) = (a \o b) \o d /\ TextIn(lines, m, x) = b \o d
          BY <3>2, <3>3, <3>5
    <3> QED BY <3>0, <3>5, <3>7, <3>8
  <2> QED BY <2>1, <2>2
<1>4. P = Nat
  <2>1. P \in SUBSET Nat
        OBVIOUS
  <2> HIDE DEF P
  <2> QED BY <1>2, <1>3, <2>1, Stepwise
<1>5. k \in P /\ k \in m .. k
  <2> HIDE DEF P
  <2> QED BY <1>0, <1>4
<1> QED BY <1>5

LEMMA SpanWhole ==
    ASSUME NEW S, NEW lines \in Seq(S)
    PROVE  Span(lines, 0, Len(lines)) = lines
<1>1. Len(lines) \in 0 .. Len(lines) /\ 0 \in 0 .. Len(lines) /\ Len(lines) - 0 = Len(lines)
      BY LenProperties
<1>2. /\ Span(lines, 0, Len(lines)) \in Seq(S)
      /\ Len(Span(lines, 0, Len(lines))) = Len(lines) - 0
      /\ \A i \in 1 .. Len(lines) - 0 : Span(lines, 0, Len(lines))[i] = lines[0 + i]
      BY <1>1, SpanTyped
<1>3. \A i \in 1 .. Len(lines) : 0 + i = i
      BY LenProperties
<1>4. \A i \in 1 .. Len(Span(lines, 0, Len(lines))) : Span(lines, 0, Len(lines))[i] = lines[i]
      BY <1>1, <1>2, <1>3
<1> QED BY <1>1, <1>2, <1>4, SeqEqual

(* How many tokens come before the line after the k-th.                    *)
Off(lines, k) == Len(TextIn(lines, 0, k))

LEMMA OffAdds ==
    ASSUME NEW S, NEW lines \in Seq(Seq(S)), NEW k \in 0 .. Len(lines), NEW j \in 0 .. k
    PROVE  /\ Off(lines, j) \in Nat /\ Off(lines, k) \in Nat
           /\ Off(lines, k) = Off(lines, j) + Len(TextIn(lines, j, k))
           /\ Off(lines, j) <= Off(lines, k)
           /\ TextIn(lines, j, k) \in Seq(S)
<1>1. 0 \in 0 .. k /\ j \in 0 .. Len(lines) /\ 0 \in 0 .. j
      BY LenProperties
<1>2. PICK a, b, d : a = TextIn(lines, 0, j) /\ b = TextIn(lines, j, k) /\ d = TextIn(lines, 0, k)
      OBVIOUS
<1>3. a \in Seq(S) /\ b \in Seq(S) /\ d \in Seq(S)
      BY <1>1, <1>2, TextInTyped
<1>4. d = a \o b
      BY <1>1, <1>2, TextOfTwo
<1>5. Len(a) \in Nat /\ Len(b) \in Nat /\ Len(d) = Len(a) + Len(b)
      BY <1>3, <1>4, ConcatProperties, LenProperties
<1>6. Off(lines, j) = Len(a) /\ Off(lines, k) = Len(d)
      BY <1>2 DEF Off
<1> QED BY <1>2, <1>3, <1>5, <1>6

LEMMA OffStarts ==
    ASSUME NEW S, NEW lines \in Seq(Seq(S))
    PROVE  Off(lines, 0) = 0
<1>1. 0 \in 0 .. Len(lines)
      BY LenProperties
<1>2. TextIn(lines, 0, 0) = <<>>
      BY <1>1, TextOfNone
<1> QED BY <1>2, EmptySeq DEF Off

LEMMA OffOfMore ==
    ASSUME NEW S, NEW lines \in Seq(Seq(S)), NEW k \in 1 .. Len(lines)
    PROVE  /\ Off(lines, k - 1) \in Nat /\ lines[k] \in Seq(S) /\ Len(lines[k]) \in Nat
           /\ Off(lines, k) = Off(lines, k - 1) + Len(lines[k])
<1>1. k \in 0 .. Len(lines) /\ k - 1 \in 0 .. k /\ lines[k] \in Seq(S)
      BY LenProperties, ElementOfSeq
<1>2. /\ Off(lines, k - 1) \in Nat
      /\ Off(lines, k) = Off(lines, k - 1) + Len(TextIn(lines, k - 1, k))
      BY <1>1, OffAdds
<1> QED BY <1>1, <1>2, TextOfOne, LenProperties

LEMMA OffGrows ==
    ASSUME NEW S, NEW lines \in Seq(Seq(S)), \A i \in 1 .. Len(lines) : lines[i] # <<>>,
           NEW k \in 1 .. Len(lines), NEW j \in 0 .. k - 1
    PROVE  Off(lines, j) < Off(lines, k)
<1>1. k - 1 \in 0 .. Len(lines) /\ k \in Nat /\ j \in Nat
      BY LenProperties
<1>2. Off(lines, j) \in Nat /\ Off(lines, k - 1) \in Nat /\ Off(lines, j) <= Off(lines, k - 1)
      BY <1>1, OffAdds
<1>3. Off(lines, k) = Off(lines, k - 1) + Len(lines[k])
      BY OffOfMore
<1>4. Len(lines[k]) \in Nat \ {0}
  <2>1. lines[k] \in Seq(S) /\ lines[k] # <<>>
        BY OffOfMore
  <2> QED BY <2>1, EmptySeq
<1> QED BY <1>2, <1>3, <1>4

LEMMA TokensAreLen ==
    ASSUME NEW lines \in Seq(Seq(Words))
    PROVE  Tokens(lines) = Len(FlattenSeq(lines))
<1> DEFINE P == {k \in Nat : k <= Len(lines) => Tokens(Span(lines, 0, k)) = Off(lines, k)}
<1>0. Len(lines) \in Nat /\ 0 \in 0 .. Len(lines) /\ Len(lines) \in 0 .. Len(lines)
      BY LenProperties
<1>1. 0 \in P
  <2>1. Span(lines, 0, 0) \in Seq(Seq(Words)) /\ Len(Span(lines, 0, 0)) = 0
    <3>1. 0 \in 0 .. 0 /\ 0 - 0 = 0
          OBVIOUS
    <3> QED BY <1>0, <3>1, SpanTyped
  <2>2. Span(lines, 0, 0) = <<>>
        BY <2>1, EmptySeq
  <2> QED BY <2>2, TokensOfNone, OffStarts
<1>2. ASSUME NEW k \in Nat, k \in P PROVE k + 1 \in P
  <2> SUFFICES ASSUME k + 1 <= Len(lines) PROVE Tokens(Span(lines, 0, k + 1)) = Off(lines, k + 1)
      OBVIOUS
  <2>1. PICK x : x = k + 1
        OBVIOUS
  <2>2. x \in 1 .. Len(lines) /\ x - 1 = k /\ k \in 0 .. Len(lines) /\ 0 \in 0 .. x - 1 /\ 0 \in 0 .. k
        BY <1>0, <2>1
  <2>3. Tokens(Span(lines, 0, k)) = Off(lines, k)
        BY <1>2, <2>2
  <2>4. Span(lines, 0, x) = Append(Span(lines, 0, x - 1), lines[x])
        BY <2>2, SpanOfMore
  <2>5. Off(lines, x) = Off(lines, x - 1) + Len(lines[x]) /\ lines[x] \in Seq(Words)
        BY <2>2, OffOfMore
  <2>6. Span(lines, 0, k) \in Seq(Seq(Words))
        BY <2>2, SpanTyped
  <2>7. Tokens(Append(Span(lines, 0, k), lines[x])) = Tokens(Span(lines, 0, k)) + Len(lines[x])
        BY <2>5, <2>6, TokensOfMore
  <2> QED BY <2>1, <2>2, <2>3, <2>4, <2>5, <2>7
<1>3. P = Nat
  <2>1. P \in SUBSET Nat
        OBVIOUS
  <2> HIDE DEF P
  <2> QED BY <1>1, <1>2, <2>1, Stepwise
<1>4. Tokens(Span(lines, 0, Len(lines))) = Off(lines, Len(lines))
      BY <1>0, <1>3
<1> QED BY <1>4, SpanWhole DEF Off, TextIn

(* A text l stands in another after its first s tokens.                    *)
Occurs(text, s, l) ==
    s + Len(l) <= Len(text) /\ \A i \in 1 .. Len(l) : text[s + i] = l[i]

(* Or it reads as that does, but for the characters cut at its ends.       *)
Shows(text, s, l) ==
    /\ s + Len(l) <= Len(text)
    /\ \A i \in 1 .. Len(l) :
          \/ text[s + i] = l[i]
          \/ l[i] = Replacement /\ ~Whole(text, s + 1, s + Len(l), s + i)

LEMMA OccursShows ==
    ASSUME NEW text, NEW s, NEW l, Occurs(text, s, l)
    PROVE  Shows(text, s, l)
BY DEF Occurs, Shows

LEMMA MiddleOccurs ==
    ASSUME NEW S, NEW x \in Seq(S), NEW y \in Seq(S), NEW z \in Seq(S)
    PROVE  Occurs((x \o y) \o z, Len(x), y)
<1>1. PICK xy : xy = x \o y
      OBVIOUS
<1>2. PICK xyz : xyz = xy \o z
      OBVIOUS
<1>3. /\ Len(x) \in Nat /\ Len(y) \in Nat /\ Len(z) \in Nat
      /\ xy \in Seq(S) /\ Len(xy) = Len(x) + Len(y)
      /\ \A i \in 1 .. Len(x) + Len(y) : xy[i] = IF i <= Len(x) THEN x[i] ELSE y[i - Len(x)]
      BY <1>1, ConcatProperties, LenProperties
<1>4. /\ Len(xyz) = Len(xy) + Len(z)
      /\ \A i \in 1 .. Len(xy) + Len(z) : xyz[i] = IF i <= Len(xy) THEN xy[i] ELSE z[i - Len(xy)]
  <2>1. xy \in Seq(S) /\ z \in Seq(S)
        BY <1>3
  <2> QED BY ONLY <1>2, <2>1, ConcatProperties
<1>5. ASSUME NEW i \in 1 .. Len(y) PROVE xyz[Len(x) + i] = y[i]
  <2>1. PICK k : k = Len(x) + i
        OBVIOUS
  <2>2. /\ k \in 1 .. Len(x) + Len(y) /\ k \in 1 .. Len(xy) + Len(z) /\ k <= Len(xy)
        /\ ~(k <= Len(x)) /\ k - Len(x) = i
        BY <1>3, <2>1
  <2>3. xyz[k] = xy[k] /\ xy[k] = y[k - Len(x)]
        BY <1>3, <1>4, <2>2
  <2> QED BY <2>1, <2>2, <2>3
<1>6. Len(x) + Len(y) <= Len(xyz)
      BY <1>3, <1>4
<1> QED BY <1>1, <1>2, <1>5, <1>6 DEF Occurs

LEMMA SpanOccurs ==
    ASSUME NEW S, NEW lines \in Seq(Seq(S)), NEW n \in 0 .. Len(lines), NEW k \in 0 .. n,
           NEW j \in 0 .. k, NEW b \in 0 .. j
    PROVE  /\ Occurs(TextIn(lines, b, n), Off(lines, j) - Off(lines, b), TextIn(lines, j, k))
           /\ Off(lines, b) \in Nat /\ Off(lines, j) \in Nat /\ Off(lines, b) <= Off(lines, j)
<1>1. /\ b \in 0 .. n /\ b \in 0 .. k /\ j \in 0 .. n /\ k \in b .. n /\ j \in b .. k
      /\ k \in 0 .. Len(lines) /\ j \in 0 .. Len(lines)
      BY LenProperties
<1>2. PICK x, y, z : x = TextIn(lines, b, j) /\ y = TextIn(lines, j, k) /\ z = TextIn(lines, k, n)
      OBVIOUS
<1>3. x \in Seq(S) /\ y \in Seq(S) /\ z \in Seq(S)
      BY <1>1, <1>2, TextInTyped
<1>4. TextIn(lines, b, n) = TextIn(lines, b, k) \o z
      BY <1>1, <1>2, TextOfTwo
<1>5. TextIn(lines, b, k) = x \o y
      BY <1>1, <1>2, TextOfTwo
<1>6. /\ Off(lines, b) \in Nat /\ Off(lines, j) \in Nat /\ Off(lines, b) <= Off(lines, j)
      /\ Off(lines, j) = Off(lines, b) + Len(x)
      BY <1>1, <1>2, OffAdds
<1>7. Off(lines, j) - Off(lines, b) = Len(x)
      BY <1>3, <1>6, LenProperties
<1>8. Occurs((x \o y) \o z, Len(x), y)
      BY <1>3, MiddleOccurs
<1> QED BY <1>2, <1>4, <1>5, <1>6, <1>7, <1>8

(* ---- chunks laid over the text ---------------------------------------- *)
Places == [from : Int, to : Int]
Nowhere == {Place(0, 0)}
Placed(c, text, chunks) ==
    FoldLeft(LAMBDA placed, chunk : Lay(c, text, placed, chunk), Nowhere, chunks)
LaysChunks(g, c, text, chunks) ==
    g = [s \in SUBSET DOMAIN chunks |->
           IF s = {} THEN Nowhere ELSE Lay(c, text, g[s \ {Max(s)}], chunks[Max(s)])]

LEMMA PlacedDefined ==
    ASSUME NEW c, NEW text, NEW chunks
    PROVE  Placed(c, text, chunks) = (CHOOSE g : LaysChunks(g, c, text, chunks))[DOMAIN chunks]
BY DEF Placed, FoldLeft, MapThenFoldSet, LaysChunks

LEMMA NowhereTyped == Nowhere \in SUBSET Places
<1>1. Place(0, 0) \in Places
      BY DEF Place, Places
<1> QED BY <1>1 DEF Nowhere

LEMMA LayTyped ==
    ASSUME NEW c, NEW text, NEW placed \in SUBSET Places, NEW chunk \in Piece
    PROVE  Lay(c, text, placed, chunk) \in SUBSET Places
<1>1. chunk.lines \in Seq(Seq(Words))
      BY DEF Piece
<1>2. PICK own : own = FlattenSeq(chunk.lines)
      OBVIOUS
<1>3. Len(own) \in Nat
      BY <1>1, <1>2, FlattenTyped, LenProperties
<1>4. ASSUME NEW q \in Lay(c, text, placed, chunk) PROVE q \in Places
  <2>0. PICK p \in placed :
           \E s \in p.from + 1 .. p.to + 1 + Gap(c) : q = Place(s, s + Len(own) - 1)
        BY <1>2, <1>4 DEF Lay
  <2>1. PICK s \in p.from + 1 .. p.to + 1 + Gap(c) : q = Place(s, s + Len(own) - 1)
        BY <2>0
  <2>2. s \in Int
    <3>1. p.from \in Int /\ p.to \in Int
          BY DEF Places
    <3> QED BY <3>1
  <2>3. s + Len(own) - 1 \in Int
        BY <1>3, <2>2
  <2>4. PICK t : t = s + Len(own) - 1
        OBVIOUS
  <2> QED BY <2>1, <2>2, <2>3, <2>4 DEF Place, Places
<1> QED BY <1>4

LaysStages(h, c, text, chunks, n) ==
    /\ h \in [0 .. n -> SUBSET Places]
    /\ h[0] = Nowhere
    /\ \A k \in 1 .. n : h[k] = Lay(c, text, h[k - 1], chunks[k])

LEMMA PlacedStages ==
    ASSUME NEW c, NEW text, NEW chunks \in Seq(Piece)
    PROVE  \E h : LaysStages(h, c, text, chunks, Len(chunks)) /\ Placed(c, text, chunks) = h[Len(chunks)]
<1>1. PICK n : n = Len(chunks)
      OBVIOUS
<1>2. n \in Nat /\ DOMAIN chunks = 1 .. n /\ \A i \in 1 .. n : chunks[i] \in Piece
      BY <1>1, LenProperties, ElementOfSeq
<1> DEFINE A == SUBSET Places
           F == [p \in (1 .. n) \X A |-> Lay(c, text, p[2], chunks[p[1]])]
<1>3. F \in [(1 .. n) \X A -> A]
      BY <1>2, LayTyped
<1>5. \A k \in 1 .. n, st \in A : F[<<k, st>>] = Lay(c, text, st, chunks[k])
      OBVIOUS
<1>0. Nowhere \in A
      BY NowhereTyped
<1> HIDE DEF A
<1>4. PICK f \in [SUBSET (1 .. n) -> A] : IsFold(f, n, Nowhere, F)
  <2> HIDE DEF F
  <2> QED BY <1>0, <1>2, <1>3, FoldExists
<1>6. LaysChunks(f, c, text, chunks)
  <2>1. ASSUME NEW s \in SUBSET (1 .. n)
        PROVE  f[s] = IF s = {} THEN Nowhere ELSE Lay(c, text, f[s \ {Max(s)}], chunks[Max(s)])
    <3>1. CASE s = {}
          BY <1>4, <3>1 DEF IsFold
    <3>2. CASE s # {}
      <4>1. Max(s) \in 1 .. n
            BY <1>2, <3>2, MaxOf
      <4>2. f[s \ {Max(s)}] \in A
            OBVIOUS
      <4>3. f[s] = F[<<Max(s), f[s \ {Max(s)}]>>]
            BY <1>4, <3>2 DEF IsFold
      <4> HIDE DEF F
      <4> QED BY <1>5, <3>2, <4>1, <4>2, <4>3
    <3> QED BY <3>1, <3>2
  <2>2. f = [s \in SUBSET (1 .. n) |-> f[s]]
        OBVIOUS
  <2> QED BY <1>2, <2>1, <2>2 DEF LaysChunks
<1>7. PICK g : LaysChunks(g, c, text, chunks) /\ Placed(c, text, chunks) = g[1 .. n]
      BY <1>2, <1>6, PlacedDefined
<1>8. /\ g[{}] = Nowhere
      /\ \A s \in SUBSET (1 .. n) : s # {} =>
            g[s] = Lay(c, text, g[s \ {Max(s)}], chunks[Max(s)])
      BY <1>2, <1>7 DEF LaysChunks
<1>9. ASSUME NEW s \in SUBSET (1 .. n), s # {}, g[s \ {Max(s)}] \in A
      PROVE  g[s] = F[<<Max(s), g[s \ {Max(s)}]>>]
  <2>1. Max(s) \in 1 .. n
        BY <1>2, <1>9, MaxOf
  <2> HIDE DEF F
  <2> QED BY <1>5, <1>8, <1>9, <2>1
<1>10. PICK h : FoldSteps(h, n, A, Nowhere, F) /\ g[1 .. n] = h[n]
  <2> HIDE DEF F
  <2>1. StepsByF(g, n, A, Nowhere, F)
        BY <1>8, <1>9 DEF StepsByF
  <2>3. Reaches(g[1 .. n], n, A, Nowhere, F)
        BY ONLY <1>0, <1>2, <1>3, <2>1, FoldStages
  <2> QED BY <2>3 DEF Reaches
<1>11. ASSUME NEW k \in 1 .. n PROVE h[k] = Lay(c, text, h[k - 1], chunks[k])
  <2>1. k - 1 \in 0 .. n
        BY <1>2
  <2>2. h[k - 1] \in A /\ h[k] = F[<<k, h[k - 1]>>]
        BY <1>10, <2>1 DEF FoldSteps
  <2> HIDE DEF F
  <2> QED BY <1>5, <2>2
<1>12. LaysStages(h, c, text, chunks, n)
      BY <1>10, <1>11 DEF FoldSteps, LaysStages, A
<1> QED BY <1>1, <1>7, <1>10, <1>12

LEMMA PlacedOfNone ==
    ASSUME NEW c, NEW text
    PROVE  Place(0, 0) \in Placed(c, text, <<>>)
<1>1. PICK e : e = <<>>
      OBVIOUS
<1>2. e \in Seq(Piece) /\ Len(e) = 0
      BY <1>1, EmptySeq
<1>3. Placed(c, text, e) = Nowhere
  <2>1. PICK h : LaysStages(h, c, text, e, Len(e)) /\ Placed(c, text, e) = h[Len(e)]
        BY <1>2, PlacedStages
  <2>2. h[0] = Nowhere
        BY <2>1 DEF LaysStages
  <2> QED BY <1>2, <2>1, <2>2
<1> QED BY <1>1, <1>3 DEF Nowhere

LEMMA PlacedOfMore ==
    ASSUME NEW c, NEW text, NEW chunks \in Seq(Piece), NEW chunk \in Piece
    PROVE  /\ Placed(c, text, Append(chunks, chunk))
                = Lay(c, text, Placed(c, text, chunks), chunk)
           /\ Placed(c, text, chunks) \in SUBSET Places
<1>0. PICK more, n : more = Append(chunks, chunk) /\ n = Len(chunks)
      OBVIOUS
<1>1. /\ more \in Seq(Piece) /\ Len(more) = n + 1 /\ n \in Nat
      /\ \A i \in 1 .. n : more[i] = chunks[i]
      /\ more[n + 1] = chunk
      BY <1>0, AppendProperties, LenProperties
<1>2. PICK g : LaysStages(g, c, text, chunks, n) /\ Placed(c, text, chunks) = g[n]
      BY <1>0, PlacedStages
<1>3. PICK h : LaysStages(h, c, text, more, n + 1) /\ Placed(c, text, more) = h[n + 1]
      BY <1>1, PlacedStages
<1> DEFINE P == {k \in Nat : k <= n => g[k] = h[k]}
<1>4. 0 \in P
      BY <1>2, <1>3 DEF LaysStages
<1>5. ASSUME NEW k \in Nat, k \in P PROVE k + 1 \in P
  <2> SUFFICES ASSUME k + 1 <= n PROVE g[k + 1] = h[k + 1]
      OBVIOUS
  <2>1. k + 1 \in 1 .. n /\ k + 1 \in 1 .. n + 1 /\ (k + 1) - 1 = k /\ k <= n
        BY <1>1
  <2>2. g[k + 1] = Lay(c, text, g[k], chunks[k + 1])
        BY <1>2, <2>1 DEF LaysStages
  <2>3. h[k + 1] = Lay(c, text, h[k], more[k + 1])
        BY <1>3, <2>1 DEF LaysStages
  <2>4. g[k] = h[k] /\ chunks[k + 1] = more[k + 1]
        BY <1>1, <1>5, <2>1
  <2> QED BY <2>2, <2>3, <2>4
<1>6. P = Nat
  <2>1. P \in SUBSET Nat
        OBVIOUS
  <2> HIDE DEF P
  <2> QED BY <1>4, <1>5, <2>1, Stepwise
<1>7. g[n] = h[n]
      BY <1>1, <1>6
<1>8. h[n + 1] = Lay(c, text, h[n], more[n + 1])
  <2>1. n + 1 \in 1 .. n + 1 /\ (n + 1) - 1 = n
        BY <1>1
  <2> QED BY <1>3, <2>1 DEF LaysStages
<1>9. g[n] \in SUBSET Places
  <2>1. n \in 0 .. n
        BY <1>1
  <2> QED BY <1>2, <2>1 DEF LaysStages
<1> QED BY <1>0, <1>1, <1>2, <1>3, <1>7, <1>8, <1>9

(* The gap is what makes up for a stride beyond the windows' end.          *)
LEMMA GapTyped ==
    ASSUME NEW c, IsConfig(c)
    PROVE  Gap(c) \in Nat /\ (c.size > 0 => c.stride <= c.size + Gap(c))
<1>1. c.size \in Int /\ c.stride \in Nat
      BY DEF IsConfig
<1>2. Gap(c) = IF c.size \in 1 .. c.stride THEN c.stride - c.size ELSE 0
      BY DEF Gap
<1> QED BY <1>1, <1>2

(* A chunk that stands where the one before it ends, no later but for the  *)
(* gap and no earlier than the overlap, is laid there.                     *)
LEMMA Laid ==
    ASSUME NEW c, NEW text \in Seq(Words), NEW chunks \in Seq(Piece), NEW chunk \in Piece,
           NEW p \in Placed(c, text, chunks), NEW a \in Nat, NEW own,
           own = FlattenSeq(chunk.lines), Shows(text, a, own), Gap(c) \in Nat,
           p.from <= a, a <= p.to + Gap(c), p.to - a <= c.carry \/ p.to - a <= c.size - c.stride
    PROVE  Place(a + 1, a + Len(own)) \in Placed(c, text, Append(chunks, chunk))
<1>0. own \in Seq(Words) /\ Len(own) \in Nat /\ Len(text) \in Nat
  <2>1. chunk.lines \in Seq(Seq(Words))
        BY DEF Piece
  <2>2. own \in Seq(Words)
        BY <2>1, FlattenTyped
  <2> QED BY <2>2, LenProperties
<1>1. p.from \in Int /\ p.to \in Int
      BY PlacedOfMore DEF Places
<1>2. PICK s, e : s = a + 1 /\ e = a + Len(own)
      OBVIOUS
<1>3. s \in Int /\ e \in Int /\ e <= Len(text) /\ s + Len(own) - 1 = e
  <2>1. a + Len(own) <= Len(text)
        BY DEF Shows
  <2>2. PICK n : n = Len(own)
        OBVIOUS
  <2>3. a + 1 \in Int /\ a + n \in Int /\ (a + 1) + n - 1 = a + n
        BY <1>0, <2>2
  <2> QED BY <1>2, <2>1, <2>2, <2>3
<1>4. Reads(text, s, own)
  <2>1. DOMAIN own = 1 .. Len(own)
        BY <1>0, LenProperties
  <2>2. ASSUME NEW i \in 1 .. Len(own)
        PROVE  \/ own[i] = text[s + i - 1]
               \/ own[i] = Replacement /\ ~Whole(text, s, e, s + i - 1)
    <3>1. s + i - 1 = a + i
          BY <1>2
    <3>2. text[a + i] = own[i] \/ (own[i] = Replacement /\ ~Whole(text, a + 1, a + Len(own), a + i))
          BY DEF Shows
    <3> QED BY <1>2, <3>1, <3>2
  <2> QED BY <1>3, <2>1, <2>2 DEF Reads
<1>5. p.to + 1 - s = p.to - a /\ s \in p.from + 1 .. p.to + 1 + Gap(c)
  <2>1. PICK x, y, g : x = p.from /\ y = p.to /\ g = Gap(c)
        OBVIOUS
  <2>2. x \in Int /\ y \in Int /\ g \in Nat /\ a \in Nat /\ s = a + 1 /\ x <= a /\ a <= y + g
        BY <1>1, <1>2, <2>1
  <2>3. y + 1 - s = y - a /\ s \in x + 1 .. y + 1 + g
        BY ONLY <2>2
  <2> QED BY <2>1, <2>3
<1>6. /\ p.to + 1 - s <= c.carry \/ p.to + 1 - s <= c.size - c.stride
      /\ Reads(text, s, own)
      BY <1>3, <1>4, <1>5
<1>7. Place(s, s + Len(own) - 1) \in Lay(c, text, Placed(c, text, chunks), chunk)
  <2> DEFINE Fits(r, t) == /\ r.to + 1 - t <= c.carry \/ r.to + 1 - t <= c.size - c.stride
                           /\ Reads(text, t, FlattenSeq(chunk.lines))
             Laying(r) == {Place(t, t + Len(FlattenSeq(chunk.lines)) - 1) :
                              t \in {t \in r.from + 1 .. r.to + 1 + Gap(c) : Fits(r, t)}}
  <2>1. Fits(p, s)
        BY <1>6
  <2>4. Place(s, s + Len(own) - 1) = Place(s, s + Len(FlattenSeq(chunk.lines)) - 1)
        OBVIOUS
  <2>2. Lay(c, text, Placed(c, text, chunks), chunk)
           = UNION {Laying(r) : r \in Placed(c, text, chunks)}
        BY DEF Lay
  <2> HIDE DEF Fits
  <2>3. Place(s, s + Len(FlattenSeq(chunk.lines)) - 1) \in Laying(p)
        BY <1>5, <2>1
  <2> HIDE DEF Laying
  <2> QED BY <2>2, <2>3, <2>4
<1> QED BY <1>2, <1>3, <1>7, PlacedOfMore

LEMMA ConcatOfMore ==
    ASSUME NEW S, NEW s \in Seq(S), NEW t \in Seq(S), NEW e \in S
    PROVE  s \o Append(t, e) = Append(s \o t, e) /\ s \o t \in Seq(S)
<1>1. PICK o : o = <<e>>
      OBVIOUS
<1>2. o \in Seq(S)
      BY <1>1
<1>3. Append(t, e) = t \o o
      BY <1>1, AppendIsConcat
<1>4. s \o t \in Seq(S)
      BY ConcatProperties
<1>5. Append(s \o t, e) = (s \o t) \o o
  <2>1. PICK u : u = s \o t
        OBVIOUS
  <2>2. u \in Seq(S)
        BY <1>4, <2>1
  <2>3. Append(u, e) = u \o <<e>>
        BY ONLY <2>2, e \in S, AppendIsConcat
  <2> QED BY <1>1, <2>1, <2>3
<1>6. (s \o t) \o o = s \o (t \o o)
      BY ONLY <1>2, s \in Seq(S), t \in Seq(S), ConcatAssociative, SMTT(30)
<1> QED BY <1>3, <1>4, <1>5, <1>6

(* A character that is whole in a text is whole in a part that has it.     *)
LEMMA WholeWithin ==
    ASSUME NEW text \in Seq(Words), NEW a \in Nat, NEW w \in Seq(Words), Occurs(text, a, w),
           NEW m \in Nat \ {0}, NEW n \in 0 .. Len(w), NEW k \in m .. n,
           Whole(text, a + m, a + n, a + k)
    PROVE  Whole(w, m, n, k)
<1>1. Len(text) \in Nat /\ Len(w) \in Nat
      BY LenProperties
<1>2. a + Len(w) <= Len(text) /\ \A i \in 1 .. Len(w) : text[a + i] = w[i]
      BY DEF Occurs
<1>3. ASSUME NEW y \in Int, NEW i, i = y - a, i \in 1 .. Len(w) + 1, Starts(text, y)
      PROVE  Starts(w, i)
  <2>1. y = a + i
        BY <1>3
  <2>2. CASE i = Len(w) + 1
        BY <2>2 DEF Starts
  <2>3. CASE i # Len(w) + 1
    <3>0. PICK l, t : l = Len(w) /\ t = Len(text)
          OBVIOUS
    <3>1. i \in 1 .. Len(w) /\ y # Len(text) + 1
      <4>1. l \in Nat /\ t \in Nat /\ a + l <= t /\ i \in 1 .. l + 1 /\ i # l + 1 /\ y = a + i
            BY <1>1, <1>2, <1>3, <2>1, <2>3, <3>0
      <4>2. i \in 1 .. l /\ y # t + 1
            BY ONLY <4>1, a \in Nat
      <4> QED BY <3>0, <4>2
    <3>2. text[y] \notin Continues /\ text[y] = w[i]
          BY <1>2, <1>3, <2>1, <3>1 DEF Starts
    <3> QED BY <3>2 DEF Starts
  <2> QED BY <2>2, <2>3
<1>4. \E i \in m .. k : Starts(w, i)
  <2>1. PICK y \in a + m .. a + k : Starts(text, y)
        BY DEF Whole
  <2>2. PICK i : i = y - a
        OBVIOUS
  <2>3. y \in Int /\ i \in m .. k /\ i \in 1 .. Len(w) + 1
        BY <1>1, <2>2
  <2> QED BY <1>3, <2>1, <2>2, <2>3
<1>5. \E j \in k + 1 .. n + 1 : Starts(w, j)
  <2>1. PICK y \in a + k + 1 .. a + n + 1 : Starts(text, y)
        BY DEF Whole
  <2>2. PICK j : j = y - a
        OBVIOUS
  <2>3. y \in Int /\ j \in k + 1 .. n + 1 /\ j \in 1 .. Len(w) + 1
        BY <1>1, <2>2
  <2> QED BY <1>3, <2>1, <2>2, <2>3
<1> QED BY <1>4, <1>5 DEF Whole

LEMMA ShowsWithin ==
    ASSUME NEW text \in Seq(Words), NEW a \in Nat, NEW w \in Seq(Words), NEW b \in Nat,
           NEW x \in Seq(Words), Occurs(text, a, w), Shows(w, b, x)
    PROVE  Shows(text, a + b, x)
<1>1. Len(text) \in Nat /\ Len(w) \in Nat /\ Len(x) \in Nat
      BY LenProperties
<1>2. a + Len(w) <= Len(text) /\ b + Len(x) <= Len(w)
      BY DEF Occurs, Shows
<1>3. (a + b) + Len(x) <= Len(text)
      BY <1>1, <1>2
<1>4. ASSUME NEW i \in 1 .. Len(x)
      PROVE  \/ text[(a + b) + i] = x[i]
             \/ x[i] = Replacement /\ ~Whole(text, (a + b) + 1, (a + b) + Len(x), (a + b) + i)
  <2>1. PICK k, m, n : k = b + i /\ m = b + 1 /\ n = b + Len(x)
        OBVIOUS
  <2>2. /\ k \in 1 .. Len(w) /\ a + k = (a + b) + i /\ m \in Nat \ {0} /\ n \in 0 .. Len(w)
        /\ k \in m .. n /\ a + m = (a + b) + 1 /\ a + n = (a + b) + Len(x)
        BY <1>1, <1>2, <2>1
  <2>3. text[a + k] = w[k]
        BY <2>2 DEF Occurs
  <2>4. w[k] = x[i] \/ (x[i] = Replacement /\ ~Whole(w, m, n, k))
        BY <2>1 DEF Shows
  <2>5. Whole(text, a + m, a + n, a + k) => Whole(w, m, n, k)
        BY <2>2, WholeWithin
  <2> QED BY <2>2, <2>3, <2>4, <2>5
<1> QED BY <1>3, <1>4 DEF Shows

(* A window stands where it was taken from.                                *)
WindowEnd(w, i, c) == IF Len(w) <= i * c.stride + c.size THEN Len(w) ELSE i * c.stride + c.size

LEMMA ConfigTyped ==
    ASSUME NEW c, IsConfig(c)
    PROVE  c.size \in Int /\ c.carry \in Nat /\ c.stride \in Nat \ {0}
BY DEF IsConfig

LEMMA WindowShows ==
    ASSUME NEW c, IsConfig(c), c.size > 0, NEW w \in Seq(Words), NEW i \in Nat, i * c.stride < Len(w)
    PROVE  /\ Window(w, i, c) \in Seq(Words)
           /\ i * c.stride \in Nat
           /\ Shows(w, i * c.stride, Window(w, i, c))
           /\ WindowEnd(w, i, c) \in Nat
           /\ i * c.stride < WindowEnd(w, i, c)
           /\ Len(Window(w, i, c)) = WindowEnd(w, i, c) - i * c.stride
<1>1. PICK b, n, l : b = i * c.stride /\ l = Len(w) /\ n = WindowEnd(w, i, c)
      OBVIOUS
<1>2. /\ c.size \in Nat \ {0} /\ l \in Nat
      /\ \A k \in 1 .. l : w[k] \in Words
      BY <1>1, ConfigTyped, LenProperties, ElementOfSeq
<1>3. b \in Nat /\ b < l
  <2>1. \A x, y \in Nat : x * y \in Nat
        OBVIOUS
  <2> QED BY <1>1, <2>1, ConfigTyped
<1>4. n \in Nat /\ n <= l /\ b < n /\ n <= b + c.size /\ (n = l \/ n = b + c.size)
  <2>1. n = IF l <= b + c.size THEN l ELSE b + c.size
        BY <1>1 DEF WindowEnd
  <2> QED BY <1>2, <1>3, <2>1
<1>5. Min({l, b + c.size}) = n
  <2>1. PICK y : y = b + c.size
        OBVIOUS
  <2>2. y \in Nat /\ n \in {l, y} /\ n <= l /\ n <= y
        BY <1>2, <1>3, <1>4, <2>1
  <2>3. \E z \in {l, y} : \A u \in {l, y} : z =< u
        BY <2>2
  <2>4. Min({l, y}) \in {l, y} /\ \A u \in {l, y} : Min({l, y}) =< u
        BY <2>3 DEF Min
  <2> QED BY <1>2, <2>1, <2>2, <2>4
<1>6. Window(w, i, c) = Decode(w, b + 1, n)
  <2>1. b + c.size \in Nat /\ ~(b + c.size < 0)
        BY <1>2, <1>3
  <2>2. SliceEnd(w, b + c.size) = Min({l, b + c.size})
        BY <1>1, <2>1 DEF SliceEnd
  <2> QED BY <1>1, <1>5, <2>2 DEF Window
<1>7. PICK m : m = b + 1
      OBVIOUS
<1>8. m \in Int /\ n \in Int /\ \A k \in m .. n : w[k] \in Words
  <2>1. \A k \in m .. n : k \in 1 .. l
        BY <1>2, <1>3, <1>4, <1>7
  <2> QED BY <1>2, <1>3, <1>4, <1>7, <2>1
<1>9. /\ SubSeq(w, m, n) \in Seq(Words)
      /\ Len(SubSeq(w, m, n)) = IF m <= n THEN n - m + 1 ELSE 0
      /\ \A k \in 1 .. n - m + 1 : SubSeq(w, m, n)[k] = w[m + k - 1]
      BY ONLY <1>8, SubSeqProperties
<1>10. PICK y, x : y = SubSeq(w, m, n) /\ x = Decode(w, m, n)
       OBVIOUS
<1>11. x \in Seq(Words) /\ Len(y) = n - b /\ Len(x) = n - b
  <2>1. Len(y) = n - b
        BY <1>3, <1>4, <1>7, <1>9, <1>10
  <2> QED BY <1>9, <1>10, <2>1, DecodeTyped
<1>12. ASSUME NEW k \in 1 .. n - b
       PROVE  w[b + k] = x[k] \/ (x[k] = Replacement /\ ~Whole(w, b + 1, b + Len(x), b + k))
  <2>1. m + k - 1 = b + k /\ k \in 1 .. n - m + 1 /\ b + Len(x) = n
        BY <1>3, <1>4, <1>7, <1>11
  <2>2. y[k] = w[b + k]
        BY <1>9, <1>10, <2>1
  <2>3. x[k] = IF Whole(w, m, n, m + k - 1) THEN y[k] ELSE Replacement
    <3>1. k \in 1 .. Len(y) /\ y \in Seq(Words)
          BY <1>9, <1>10, <1>11
    <3> QED BY ONLY <1>10, <3>1, DecodeTyped
  <2> QED BY <1>7, <2>1, <2>2, <2>3
<1>13. Shows(w, b, x)
  <2>1. b + Len(x) <= Len(w)
        BY <1>1, <1>2, <1>3, <1>4, <1>11
  <2> QED BY <1>11, <1>12, <2>1 DEF Shows
<1>14. Window(w, i, c) = x
       BY <1>6, <1>7, <1>10
<1> QED BY <1>1, <1>3, <1>4, <1>11, <1>13, <1>14

(* A chunk that ends at a, or before it by no more than the gap.           *)
Reached(c, p, a) == p.to <= a /\ a <= p.to + Gap(c)

LEMMA NoOverlap ==
    ASSUME NEW to \in Int, NEW a \in Nat, NEW carry \in Nat, to <= a
    PROVE  to - a <= carry
OBVIOUS

(* n windows that reach the end, each starting before it, cover a text w.  *)
LEMMA WindowsLaid ==
    ASSUME NEW c, IsConfig(c), c.size > 0,
           NEW text \in Seq(Words), NEW w \in Seq(Words), NEW a \in Nat,
           Occurs(text, a, w), NEW ps \in Seq(Piece), NEW p0 \in Placed(c, text, ps),
           p0.from <= a, Reached(c, p0, a), NEW n \in Nat, n # 0,
           \A i \in 0 .. n - 1 : i * c.stride < Len(w),
           Len(w) <= (n - 1) * c.stride + c.size + Gap(c),
           NEW ws, ws = [i \in 1 .. n |-> Chunk(<<Window(w, i - 1, c)>>, FALSE)]
    PROVE  \E q \in Placed(c, text, ps \o ws) : Reached(c, q, a + Len(w)) /\ q.from <= q.to
<1>1. PICK len, size, step, gap : len = Len(w) /\ size = c.size /\ step = c.stride /\ gap = Gap(c)
      OBVIOUS
<1>2. /\ len \in Nat /\ size \in Nat \ {0} /\ step \in Nat \ {0} /\ step <= size + gap
      /\ c.carry \in Nat /\ gap \in Nat
      BY <1>1, ConfigTyped, GapTyped, LenProperties
<1>3. PICK b : b = [i \in Nat |-> i * step]
      OBVIOUS
<1>4. /\ b[0] = 0 /\ \A i \in Nat : b[i] \in Nat /\ b[i] = i * c.stride
      /\ \A i \in Nat : b[i + 1] = b[i] + step
  <2>1. \A x, y \in Nat : x * y \in Nat /\ (x + 1) * y = x * y + y /\ 0 * y = 0
        OBVIOUS
  <2>2. \A i \in Nat : b[i] = i * step /\ i + 1 \in Nat
        BY <1>3
  <2>3. \A i \in Nat : b[i] \in Nat /\ b[i] = i * c.stride
    <3> TAKE i \in Nat
    <3>1. i * step \in Nat
          BY <1>2, <2>1
    <3> QED BY <1>1, <2>2, <3>1
  <2>4. \A i \in Nat : b[i + 1] = (i + 1) * step
        BY <2>2
  <2>5. \A i \in Nat : b[i + 1] = b[i] + step
    <3> TAKE i \in Nat
    <3>1. (i + 1) * step = i * step + step
          BY <1>2, <2>1
    <3> QED BY <2>2, <2>4, <3>1
  <2>6. b[0] = 0
        BY <1>2, <2>1, <2>2
  <2> QED BY <2>3, <2>5, <2>6
<1>5. \A i \in 0 .. n - 1 : b[i] < len
  <2>1. \A i \in 0 .. n - 1 : i \in Nat
        OBVIOUS
  <2> QED BY <1>1, <1>4, <2>1
<1>6. PICK E : E = [i \in Nat |-> WindowEnd(w, i, c)]
      OBVIOUS
<1>7. \A i \in Nat : E[i] = IF len <= b[i] + size THEN len ELSE b[i] + size
      BY <1>1, <1>4, <1>6 DEF WindowEnd
<1>8. ASSUME NEW i \in 1 .. n
      PROVE  /\ ws[i] \in Piece
             /\ FlattenSeq(ws[i].lines) = Window(w, i - 1, c)
             /\ i - 1 \in Nat /\ Window(w, i - 1, c) \in Seq(Words)
             /\ Shows(w, b[i - 1], Window(w, i - 1, c))
             /\ b[i - 1] < E[i - 1] /\ E[i - 1] \in Nat
             /\ Len(Window(w, i - 1, c)) = E[i - 1] - b[i - 1]
  <2>1. PICK k, x : k = i - 1 /\ x = Window(w, k, c)
        OBVIOUS
  <2>2. k \in Nat /\ k \in 0 .. n - 1 /\ k * c.stride < Len(w)
        BY <2>1
  <2>3. /\ x \in Seq(Words)
        /\ Shows(w, k * c.stride, x)
        /\ WindowEnd(w, k, c) \in Nat
        /\ k * c.stride < WindowEnd(w, k, c)
        /\ Len(x) = WindowEnd(w, k, c) - k * c.stride
        BY <2>1, <2>2, WindowShows
  <2>4. b[k] = k * c.stride /\ E[k] = WindowEnd(w, k, c)
        BY <1>4, <1>6, <2>2
  <2>5. PICK l : l = <<x>>
        OBVIOUS
  <2>6. l \in Seq(Seq(Words)) /\ FlattenSeq(l) = x
        BY <2>3, <2>5, FlattenOfOne
  <2>7. ws[i] = Chunk(l, FALSE)
        BY <2>1, <2>5
  <2>8. ws[i] \in Piece /\ ws[i].lines = l
        BY <2>6, <2>7, ChunkTyped
  <2> QED BY <2>1, <2>2, <2>3, <2>4, <2>6, <2>8
<1>9. ws \in Seq(Piece) /\ Len(ws) = n
  <2>1. ws = [i \in 1 .. n |-> ws[i]]
        OBVIOUS
  <2>2. ws \in [1 .. n -> Piece]
        BY ONLY <1>8, <2>1
  <2> QED BY ONLY <2>2, n \in Nat, SeqDef, LenProperties
<1> DEFINE Good(i, p) == /\ p \in Placed(c, text, ps \o Span(ws, 0, i))
                         /\ p.from \in Int /\ p.to \in Int
                         /\ p.from <= a + b[i]
                         /\ i = 0 => Reached(c, p, a)
                         /\ i # 0 => p.to = a + E[i - 1] /\ p.from <= p.to
           P == {i \in Nat : i <= n => \E p : Good(i, p)}
<1>10. 0 \in P
  <2>1. Span(ws, 0, 0) \in Seq(Piece) /\ Len(Span(ws, 0, 0)) = 0
    <3>1. PICK z : z = 0
          OBVIOUS
    <3>2. z \in 0 .. Len(ws) /\ z \in 0 .. z /\ z - z = 0
          BY <1>9, <3>1
    <3>3. Span(ws, z, z) \in Seq(Piece) /\ Len(Span(ws, z, z)) = z - z
          BY ONLY <1>9, <3>2, SpanTyped, ZenonT(60)
    <3> QED BY <3>1, <3>2, <3>3
  <2>2. Span(ws, 0, 0) = <<>>
        BY <2>1, EmptySeq
  <2>3. ps \o Span(ws, 0, 0) = ps
        BY <2>2, ConcatEmptySeq
  <2>4. p0 \in Places
    <3>1. PICK e : e = Chunk(<<>>, FALSE)
          OBVIOUS
    <3>2. e \in Piece
      <4>1. PICK l : l = <<>>
            OBVIOUS
      <4>2. l \in Seq(Seq(Words))
            BY <4>1, EmptySeq
      <4> QED BY <3>1, <4>1, <4>2, ChunkTyped
    <3> QED BY <3>2, PlacedOfMore
  <2>5. p0.from \in Int /\ p0.to \in Int
        BY <2>4 DEF Places
  <2>6. p0.from <= a + b[0] /\ a + b[0] = a
        BY <1>4, <2>5
  <2>7. p0 \in Placed(c, text, ps \o Span(ws, 0, 0))
        BY <2>3
  <2>8. Good(0, p0)
        BY <2>5, <2>6, <2>7
  <2> HIDE DEF Good
  <2> QED BY <2>8
<1> HIDE DEF Good
<1>11. ASSUME NEW i \in Nat, i \in P PROVE i + 1 \in P
  <2> SUFFICES ASSUME i + 1 <= n PROVE \E p : Good(i + 1, p)
      OBVIOUS
  <2>0. PICK x, now : x = i + 1 /\ now = ps \o Span(ws, 0, i)
        OBVIOUS
  <2>1. x \in 1 .. Len(ws) /\ x \in 1 .. n /\ x - 1 = i /\ 0 \in 0 .. x - 1 /\ i <= n /\ i \in 0 .. n - 1
        /\ i \in 0 .. Len(ws) /\ 0 \in 0 .. i /\ x # 0
        BY <1>9, <2>0
  <2>2. PICK p : Good(i, p)
    <3> QED BY <1>11, <2>1
  <2>3. PICK win, chunk : win = Window(w, i, c) /\ chunk = ws[x]
        OBVIOUS
  <2>4. /\ chunk \in Piece /\ FlattenSeq(chunk.lines) = win /\ win \in Seq(Words)
        /\ Shows(w, b[i], win)
        /\ b[i] < E[i] /\ E[i] \in Nat /\ Len(win) = E[i] - b[i] /\ b[i] \in Nat
        BY <1>4, <1>8, <2>1, <2>3
  <2>5. Span(ws, 0, i) \in Seq(Piece)
        BY <1>9, <2>1, SpanTyped
  <2>6. now \in Seq(Piece) /\ ps \o Span(ws, 0, x) = Append(now, chunk)
    <3>1. Span(ws, 0, x) = Append(Span(ws, 0, x - 1), ws[x])
          BY <1>9, <2>1, SpanOfMore
    <3>2. /\ ps \o Append(Span(ws, 0, i), chunk) = Append(ps \o Span(ws, 0, i), chunk)
          /\ ps \o Span(ws, 0, i) \in Seq(Piece)
          BY <2>4, <2>5, ConcatOfMore
    <3> QED BY <2>0, <2>1, <2>3, <3>1, <3>2
  <2>7. Shows(text, a + b[i], win)
        BY <2>4, ShowsWithin
  <2>8. PICK s : s = a + b[i]
        OBVIOUS
  <2>9. /\ s \in Nat /\ p.from \in Int /\ p.to \in Int /\ p.from <= s /\ s <= p.to + gap
        /\ p.to - s <= c.carry \/ p.to - s <= size - step
    <3>1. CASE i = 0
      <4>1. /\ p.to <= a /\ a <= p.to + gap /\ p.from <= a + b[i] /\ b[i] = 0
            /\ p.from \in Int /\ p.to \in Int
            BY <1>1, <1>4, <2>2, <3>1 DEF Good, Reached
      <4> QED BY <1>2, <2>8, <4>1
    <3>2. CASE i # 0
      <4>1. PICK k : k = i - 1
            OBVIOUS
      <4>2. k \in Nat /\ i = k + 1
            BY <3>2, <4>1
      <4>3. b[i] = b[k] + step /\ b[k] \in Nat /\ b[i] < len
            BY <1>4, <1>5, <2>1, <4>2
      <4>4. E[k] = IF len <= b[k] + size THEN len ELSE b[k] + size
            BY <1>7, <4>2
      <4>5. p.to = a + E[k] /\ p.from <= a + b[i] /\ p.from \in Int
            BY <2>2, <3>2, <4>1 DEF Good
      <4>6. E[k] \in Nat /\ b[i] <= E[k] + gap /\ E[k] <= b[k] + size
        <5>1. PICK x1, x2, x3 : x1 = b[i] /\ x2 = E[k] /\ x3 = b[k]
              OBVIOUS
        <5>2. /\ x1 = x3 + step /\ x3 \in Nat /\ x1 < len
              /\ x2 = IF len <= x3 + size THEN len ELSE x3 + size
              BY <4>3, <4>4, <5>1
        <5>3. x2 \in Nat /\ x1 <= x2 + gap /\ x2 <= x3 + size
              BY ONLY <1>2, <5>2
        <5> QED BY <5>1, <5>3
      <4>7. E[k] - b[i] <= size - step
        <5>1. PICK x1, x2, x3 : x1 = b[i] /\ x2 = E[k] /\ x3 = b[k]
              OBVIOUS
        <5>2. x1 = x3 + step /\ x3 \in Nat /\ x2 \in Nat /\ x2 <= x3 + size
              BY <4>3, <4>6, <5>1
        <5>3. x2 - x1 <= size - step
              BY ONLY <1>2, <5>2
        <5> QED BY <5>1, <5>3
      <4>8. p.to - s = E[k] - b[i] /\ s \in Nat /\ s <= p.to + gap /\ p.to \in Int
        <5>1. PICK x1, x2 : x1 = b[i] /\ x2 = E[k]
              OBVIOUS
        <5>2. x1 \in Nat /\ x2 \in Nat /\ x1 <= x2 + gap /\ s = a + x1 /\ p.to = a + x2
              BY <2>4, <2>8, <4>5, <4>6, <5>1
        <5>3. (a + x2) - (a + x1) = x2 - x1 /\ a + x1 <= a + x2 + gap /\ a + x1 \in Nat /\ a + x2 \in Int
              BY <1>2, <5>2
        <5>4. p.to - s = x2 - x1
              BY <5>2, <5>3
        <5>5. s \in Nat /\ s <= p.to + gap /\ p.to \in Int
              BY <5>2, <5>3
        <5> QED BY <5>1, <5>4, <5>5
      <4>9. p.to - s <= size - step
            BY <4>7, <4>8
      <4> QED BY <2>8, <4>5, <4>8, <4>9
    <3> QED BY <3>1, <3>2
  <2>10. Place(s + 1, s + Len(win)) \in Placed(c, text, Append(now, chunk))
    <3>1. p \in Placed(c, text, now)
          BY <2>0, <2>2 DEF Good
    <3>2. p.to - s <= c.carry \/ p.to - s <= c.size - c.stride
          BY <1>1, <2>9
    <3>3. /\ win = FlattenSeq(chunk.lines) /\ Shows(text, s, win)
          /\ Gap(c) \in Nat /\ s <= p.to + Gap(c)
          BY <1>1, <1>2, <2>4, <2>7, <2>8, <2>9
    <3> QED BY ONLY <2>4, <2>6, <2>9, <3>1, <3>2, <3>3, text \in Seq(Words), Laid
  <2>11. PICK q : q = Place(s + 1, s + Len(win))
         OBVIOUS
  <2>12. q.from = s + 1 /\ q.to = s + Len(win)
         BY <2>11 DEF Place
  <2>13. s + Len(win) = a + E[i]
    <3>1. PICK x1, x2, x3 : x1 = b[i] /\ x2 = E[i] /\ x3 = Len(win)
          OBVIOUS
    <3>2. x1 \in Nat /\ x2 \in Nat /\ x3 = x2 - x1 /\ s = a + x1
          BY <2>4, <2>8, <3>1
    <3>3. s + x3 = a + x2
          BY ONLY <3>2, a \in Nat
    <3> QED BY <3>1, <3>3
  <2>14. q.from \in Int /\ q.to \in Int /\ q.from <= a + b[x] /\ q.from <= q.to
    <3>1. b[x] = b[i] + step
          BY <1>4, <2>0
    <3>2. q.from = a + b[i] + 1 /\ q.to = a + E[i]
          BY <2>8, <2>12, <2>13
    <3>3. PICK x1, x2, x3 : x1 = b[i] /\ x2 = E[i] /\ x3 = b[x]
          OBVIOUS
    <3>4. /\ x1 \in Nat /\ x2 \in Nat /\ x1 < x2 /\ x3 = x1 + step
          /\ q.from = a + x1 + 1 /\ q.to = a + x2
          BY <2>4, <3>1, <3>2, <3>3
    <3>5. /\ a + x1 + 1 <= a + x3 /\ a + x1 + 1 <= a + x2
          /\ a + x1 + 1 \in Int /\ a + x2 \in Int
          BY ONLY <1>2, <3>4, a \in Nat
    <3>6. q.from <= a + x3 /\ q.from <= q.to /\ q.from \in Int /\ q.to \in Int
          BY ONLY <3>4, <3>5
    <3> QED BY <3>3, <3>6
  <2>16. q.to = a + E[x - 1]
         BY <2>1, <2>12, <2>13
  <2>17. q \in Placed(c, text, ps \o Span(ws, 0, x))
         BY <2>6, <2>10, <2>11
  <2>15. Good(x, q)
         BY <2>1, <2>14, <2>16, <2>17 DEF Good
  <2> QED BY <2>0, <2>15
<1>12. P = Nat
  <2>1. P \in SUBSET Nat
        OBVIOUS
  <2> HIDE DEF P
  <2> QED BY <1>10, <1>11, <2>1, Stepwise
<1>13. PICK p : Good(n, p)
  <2>1. n \in P
    <3> HIDE DEF P
    <3> QED BY <1>12
  <2> QED BY <2>1
<1>14. Span(ws, 0, n) = ws
       BY <1>9, SpanWhole
<1>15. E[n - 1] \in Nat /\ E[n - 1] <= len /\ len <= E[n - 1] + gap
  <2>0. PICK m, x, y : m = n - 1 /\ x = b[m] /\ y = E[m]
        OBVIOUS
  <2>1. m \in Nat /\ x = m * c.stride /\ x \in Nat
    <3>1. m \in Nat
          BY <2>0
    <3> QED BY <1>4, <2>0, <3>1
  <2>2. y = IF len <= x + size THEN len ELSE x + size
        BY <1>7, <2>0, <2>1
  <2>3. len <= x + size + gap
        BY <1>1, <2>0, <2>1
  <2>4. y \in Nat /\ y <= len /\ len <= y + gap
    <3>1. x \in Nat /\ len \in Nat /\ size \in Nat /\ gap \in Nat
          BY ONLY <1>2, <2>1
    <3> QED BY ONLY <2>2, <2>3, <3>1
  <2> QED BY <2>0, <2>4
<1>16. /\ p \in Placed(c, text, ps \o ws) /\ p.from <= p.to
       /\ p.to <= a + Len(w) /\ a + Len(w) <= p.to + Gap(c)
  <2>1. PICK y : y = E[n - 1]
        OBVIOUS
  <2>2. /\ p \in Placed(c, text, ps \o ws) /\ p.from <= p.to /\ p.to = a + y
        BY <1>13, <1>14, <2>1 DEF Good
  <2>3. y \in Nat /\ y <= len /\ len <= y + gap
        BY <1>15, <2>1
  <2>4. a + y <= a + len /\ a + len <= a + y + gap
        BY ONLY <1>2, <2>3, a \in Nat
  <2> QED BY <1>1, <2>2, <2>4
<1> QED BY <1>16 DEF Reached

(* The windows with something in them are the ones that start in the text. *)
LEMMA WindowEmpty ==
    ASSUME NEW c, IsConfig(c), c.size > 0, NEW w \in Seq(Words), NEW i \in Nat
    PROVE  Window(w, i, c) # <<>> <=> i * c.stride < Len(w)
<1>1. PICK b, l : b = i * c.stride /\ l = Len(w)
      OBVIOUS
<1>2. b \in Nat /\ l \in Nat /\ c.size \in Int
      BY <1>1, WindowTyped
<1>3. ASSUME b < l PROVE Window(w, i, c) # <<>>
  <2>1. PICK x, n : x = Window(w, i, c) /\ n = WindowEnd(w, i, c)
        OBVIOUS
  <2>2. n \in Nat /\ b < n /\ Len(x) = n - b
        BY <1>1, <1>3, <2>1, WindowShows
  <2>3. Len(x) # 0
        BY <1>2, <2>2
  <2>4. x # <<>>
        BY <2>3, EmptySeq
  <2> QED BY <2>1, <2>4
<1>4. ASSUME ~(b < l) PROVE Window(w, i, c) = <<>>
  <2>1. PICK m, n : m = b + 1 /\ n = SliceEnd(w, b + c.size)
        OBVIOUS
  <2>2. n = l
    <3>1. PICK y : y = b + c.size
          OBVIOUS
    <3>2. y \in Nat /\ ~(y < 0) /\ l <= y
          BY <1>2, <1>4, <3>1
    <3>3. n = Min({l, y})
          BY <1>1, <2>1, <3>1, <3>2 DEF SliceEnd
    <3>4. \E z \in {l, y} : \A u \in {l, y} : z =< u
          BY <1>2, <3>2
    <3>5. Min({l, y}) \in {l, y} /\ \A u \in {l, y} : Min({l, y}) =< u
          BY <3>4 DEF Min
    <3> QED BY <1>2, <3>2, <3>3, <3>5
  <2>3. m \in Int /\ n \in Int /\ ~(m <= n) /\ \A k \in m .. n : w[k] \in Words
        BY <1>2, <1>4, <2>1, <2>2
  <2>4. SubSeq(w, m, n) \in Seq(Words) /\ Len(SubSeq(w, m, n)) = 0
    <3>1. /\ SubSeq(w, m, n) \in Seq(Words)
          /\ Len(SubSeq(w, m, n)) = IF m <= n THEN n - m + 1 ELSE 0
          BY ONLY <2>3, SubSeqProperties
    <3> QED BY <2>3, <3>1
  <2>5. Decode(w, m, n) \in Seq(Words) /\ Len(Decode(w, m, n)) = 0
        BY <2>4, DecodeTyped
  <2>6. Window(w, i, c) = Decode(w, m, n)
        BY <1>1, <2>1 DEF Window
  <2> QED BY <2>5, <2>6, EmptySeq
<1> QED BY <1>1, <1>3, <1>4

(* The windows over a long block cover it, though they stop at its end.    *)
LEMMA SlidesLaid ==
    ASSUME NEW c, IsConfig(c), c.size > 0,
           NEW text \in Seq(Words), NEW w \in Seq(Words), w # <<>>,
           NEW a \in Nat, Occurs(text, a, w),
           NEW ps \in Seq(Piece), NEW p0 \in Placed(c, text, ps), p0.from <= a, Reached(c, p0, a)
    PROVE  \E q \in Placed(c, text, ps \o Slides(c, w)) : Reached(c, q, a + Len(w)) /\ q.from <= q.to
<1>1. PICK len, size, step, gap : len = Len(w) /\ size = c.size /\ step = c.stride /\ gap = Gap(c)
      OBVIOUS
<1>2. /\ len \in Nat \ {0} /\ size \in Nat \ {0} /\ step \in Nat \ {0} /\ step <= size + gap
      /\ gap \in Nat
      BY <1>1, ConfigTyped, GapTyped, EmptySeq
<1> DEFINE starts == {i \in 0 .. len : /\ i = 0 \/ (i - 1) * step + size < len
                                       /\ Window(w, i, c) # <<>>}
<1>0. \A i \in Nat : Window(w, i, c) # <<>> <=> i * step < len
      BY <1>1, WindowEmpty
<1>3. 0 \in starts /\ starts \in SUBSET (0 .. len)
  <2>1. 0 * step = 0
        BY <1>2
  <2> QED BY <1>0, <1>2, <2>1
<1>4. PICK m : m = Max(starts)
      OBVIOUS
<1>5. m \in starts /\ \A i \in starts : i <= m
  <2> HIDE DEF starts
  <2> QED BY <1>2, <1>3, <1>4, MaxIsMember
<1>6. m \in Nat /\ m <= len
      BY <1>2, <1>5
<1>7. \A x, y \in Nat : x * y \in Nat /\ (x + 1) * y = x * y + y /\ 0 * y = 0
      OBVIOUS
<1>8. \A x, y, z \in Nat : x <= y => x * z <= y * z
      OBVIOUS
<1>9. ASSUME NEW i \in 0 .. m PROVE i \in starts
  <2>0. Window(w, i, c) # <<>>
    <3>1. i \in Nat /\ m * step < len /\ m * step \in Nat /\ i * step \in Nat /\ i * step <= m * step
          BY <1>0, <1>2, <1>5, <1>6, <1>7, <1>8
    <3> QED BY <1>0, <1>2, <3>1
  <2>1. CASE i = 0
        BY <1>3, <2>1
  <2>2. CASE i # 0
    <3>1. PICK j, k : j = i - 1 /\ k = m - 1
          OBVIOUS
    <3>2. j \in Nat /\ k \in Nat /\ j <= k /\ m # 0
          BY <1>6, <2>2, <3>1
    <3>3. j * step \in Nat /\ k * step \in Nat /\ j * step <= k * step
          BY <1>2, <1>7, <1>8, <3>2
    <3>4. k * step + size < len
          BY <1>5, <3>1, <3>2
    <3>5. j * step + size < len
          BY <1>2, <3>3, <3>4
    <3> QED BY <1>2, <1>6, <2>0, <3>1, <3>5
  <2> QED BY <2>1, <2>2
<1>10. starts = 0 .. m
  <2>1. \A i \in starts : i \in 0 .. m
        BY <1>2, <1>3, <1>5
  <2> HIDE DEF starts
  <2> QED BY <1>9, <2>1
<1>11. Cardinality(starts) = m + 1
  <2>1. PICK z : z = 0
        OBVIOUS
  <2>2. z \in Int /\ m \in Int /\ ~(z > m) /\ m - z + 1 = m + 1
        BY <1>6, <2>1
  <2>3. Cardinality(z .. m) = IF z > m THEN 0 ELSE m - z + 1
        BY ONLY <2>2, FS_Interval
  <2> HIDE DEF starts
  <2> QED BY <1>10, <2>1, <2>2, <2>3
<1>12. PICK n : n = m + 1
       OBVIOUS
<1>13. n \in Nat /\ n # 0 /\ n - 1 = m
       BY <1>6, <1>12
<1>14. Slides(c, w) = [i \in 1 .. n |-> Chunk(<<Window(w, i - 1, c)>>, FALSE)]
  <2>1. Slides(c, w) = [i \in 1 .. Cardinality(starts) |-> Chunk(<<Window(w, i - 1, c)>>, FALSE)]
        BY <1>1 DEF Slides
  <2> HIDE DEF starts
  <2> QED BY <1>11, <1>12, <2>1
<1>15. ASSUME NEW i \in 0 .. n - 1 PROVE i * c.stride < Len(w)
  <2>1. i \in starts /\ i \in Nat
        BY <1>9, <1>13
  <2> QED BY <1>0, <1>1, <2>1
<1>16. Len(w) <= (n - 1) * c.stride + c.size + Gap(c)
  <2>1. m * step \in Nat
        BY <1>2, <1>6, <1>7
  <2> SUFFICES ASSUME m * step + size + gap < len PROVE FALSE
    <3>1. PICK x : x = m * step
          OBVIOUS
    <3>2. (n - 1) * c.stride = x /\ x \in Nat
          BY <1>1, <1>13, <2>1, <3>1
    <3>3. size \in Nat /\ gap \in Nat /\ len \in Nat
          BY <1>2
    <3>4. ~(x + size + gap < len) => len <= x + size + gap
          BY ONLY <3>2, <3>3
    <3> QED BY <1>1, <3>1, <3>2, <3>4
  <2>2. m <= m * step
    <3>1. \A x \in Nat, y \in Nat \ {0} : x <= x * y
          OBVIOUS
    <3> QED BY <1>2, <1>6, <3>1
  <2>3. n \in 0 .. len /\ (n - 1) * step + size < len
        BY <1>2, <1>6, <1>12, <1>13, <2>1, <2>2
  <2>4. Window(w, n, c) # <<>>
    <3>1. n * step = m * step + step
          BY <1>2, <1>6, <1>7, <1>12
    <3>2. n * step < len
          BY <1>2, <2>1, <3>1
    <3> QED BY <1>0, <1>13, <3>2
  <2>5. n \in starts
        BY <2>3, <2>4
  <2> HIDE DEF starts
  <2>6. n <= m
        BY <1>5, <2>5
  <2> QED BY <1>6, <1>12, <2>6
<1>17. PICK ws : ws = Slides(c, w)
       OBVIOUS
<1>18. ws = [i \in 1 .. n |-> Chunk(<<Window(w, i - 1, c)>>, FALSE)]
       BY <1>14, <1>17
<1>19. \E q \in Placed(c, text, ps \o ws) : Reached(c, q, a + Len(w)) /\ q.from <= q.to
       BY ONLY IsConfig(c), text \in Seq(Words), w \in Seq(Words), a \in Nat,
               Occurs(text, a, w), ps \in Seq(Piece), p0 \in Placed(c, text, ps),
               c.size > 0, p0.from <= a, Reached(c, p0, a), <1>13, <1>15, <1>16, <1>18, WindowsLaid, ZenonT(60)
<1> QED BY <1>17, <1>19

(* The windows over a long answer cover it, though they go on past its end. *)
LEMMA AnswerSlidesLaid ==
    ASSUME NEW c, IsConfig(c), c.size > 0,
           NEW text \in Seq(Words), NEW w \in Seq(Words), w # <<>>,
           NEW a \in Nat, Occurs(text, a, w),
           NEW ps \in Seq(Piece), NEW p0 \in Placed(c, text, ps), p0.from <= a, Reached(c, p0, a)
    PROVE  \E q \in Placed(c, text, ps \o AnswerSlides(c, w)) : Reached(c, q, a + Len(w)) /\ q.from <= q.to
<1>1. PICK len, size, step, gap : len = Len(w) /\ size = c.size /\ step = c.stride /\ gap = Gap(c)
      OBVIOUS
<1>2. /\ len \in Nat \ {0} /\ size \in Nat \ {0} /\ step \in Nat \ {0} /\ step <= size + gap
      /\ gap \in Nat
      BY <1>1, ConfigTyped, GapTyped, EmptySeq
<1>3. \A x, y \in Nat : x * y \in Nat /\ (x + 1) * y = x * y + y /\ 0 * y = 0
      OBVIOUS
<1>4. \A x, y, z \in Nat : x <= y => x * z <= y * z
      OBVIOUS
<1>5. PICK n \in Nat :
         /\ AnswerSlides(c, w) = [i \in 1 .. n |-> Chunk(<<Window(w, i - 1, c)>>, FALSE)]
         /\ n * c.stride >= Len(w)
         /\ n = 0 \/ (n - 1) * c.stride < Len(w)
      BY AnswerWindows
<1>6. n # 0
      BY <1>1, <1>2, <1>3, <1>5
<1>7. PICK m : m = n - 1
      OBVIOUS
<1>8. m \in Nat /\ n = m + 1 /\ m * step \in Nat /\ m * step < len /\ n * step = m * step + step
  <2>1. m \in Nat /\ n = m + 1
        BY <1>6, <1>7
  <2>2. m * step \in Nat /\ (m + 1) * step = m * step + step
        BY <1>2, <1>3, <2>1
  <2>3. m * step < len
        BY <1>1, <1>5, <1>6, <1>7
  <2> QED BY <2>1, <2>2, <2>3
<1>9. ASSUME NEW i \in 0 .. n - 1 PROVE i * c.stride < Len(w)
  <2>1. i \in Nat /\ i <= m
        BY <1>8
  <2>2. i * step <= m * step /\ i * step \in Nat
        BY <1>2, <1>3, <1>4, <1>8, <2>1
  <2> QED BY <1>1, <1>2, <1>8, <2>2
<1>10. Len(w) <= (n - 1) * c.stride + c.size + Gap(c)
  <2>1. PICK x, y : x = m * step /\ y = n * step
        OBVIOUS
  <2>2. x \in Nat /\ y = x + step /\ len <= y
        BY <1>1, <1>5, <1>8, <2>1
  <2>3. len <= x + size + gap
        BY ONLY <1>2, <2>2
  <2> QED BY <1>1, <1>7, <2>1, <2>3
<1>11. PICK ws : ws = AnswerSlides(c, w)
       OBVIOUS
<1>12. ws = [i \in 1 .. n |-> Chunk(<<Window(w, i - 1, c)>>, FALSE)]
       BY <1>5, <1>11
<1>13. \E q \in Placed(c, text, ps \o ws) : Reached(c, q, a + Len(w)) /\ q.from <= q.to
       BY ONLY IsConfig(c), text \in Seq(Words), w \in Seq(Words), a \in Nat,
               Occurs(text, a, w), ps \in Seq(Piece), p0 \in Placed(c, text, ps),
               c.size > 0, p0.from <= a, Reached(c, p0, a), n \in Nat, <1>6, <1>9, <1>10, <1>12, WindowsLaid, ZenonT(60)
<1> QED BY <1>11, <1>13

(* ---- the packing covers the text -------------------------------------- *)
LEMMA LinesOfSpan ==
    ASSUME NEW bs \in Seq(Block), NEW k \in 0 .. Len(bs), NEW j \in 0 .. k
    PROVE  Lines(Span(bs, j, k)) = Span(Lines(bs), j, k)
<1>1. /\ Span(bs, j, k) \in Seq(Block) /\ Len(Span(bs, j, k)) = k - j
      /\ j \in Nat /\ k \in Nat /\ Len(bs) \in Nat
      /\ \A i \in 1 .. k - j : Span(bs, j, k)[i] = bs[j + i]
      BY SpanTyped
<1>2. /\ Lines(bs) \in Seq(Seq(Words)) /\ Len(Lines(bs)) = Len(bs)
      /\ \A i \in 1 .. Len(bs) : Lines(bs)[i] = bs[i].text
      BY LinesTyped
<1>3. PICK s, t : s = Lines(Span(bs, j, k)) /\ t = Span(Lines(bs), j, k)
      OBVIOUS
<1>4. /\ s \in Seq(Seq(Words)) /\ Len(s) = k - j
      /\ \A i \in 1 .. k - j : s[i] = Span(bs, j, k)[i].text
      BY <1>1, <1>3, LinesTyped
<1>5. k \in 0 .. Len(Lines(bs))
      BY <1>2
<1>6. /\ t \in Seq(Seq(Words)) /\ Len(t) = k - j
      /\ \A i \in 1 .. k - j : t[i] = Lines(bs)[j + i]
  <2>1. PICK ls : ls = Lines(bs)
        OBVIOUS
  <2>2. ls \in Seq(Seq(Words)) /\ k \in 0 .. Len(ls)
        BY <1>2, <1>5, <2>1
  <2>3. /\ Span(ls, j, k) \in Seq(Seq(Words)) /\ Len(Span(ls, j, k)) = k - j
        /\ \A i \in 1 .. k - j : Span(ls, j, k)[i] = ls[j + i]
        BY ONLY <2>2, j \in 0 .. k, SpanTyped, ZenonT(60)
  <2> QED BY <1>3, <2>1, <2>3
<1>7. ASSUME NEW i \in 1 .. Len(s) PROVE s[i] = t[i]
  <2>1. PICK x : x = j + i
        OBVIOUS
  <2>2. i \in 1 .. k - j /\ x \in 1 .. Len(bs)
        BY <1>1, <1>4, <2>1
  <2>3. s[i] = bs[x].text /\ t[i] = Lines(bs)[x]
        BY <1>1, <1>4, <1>6, <2>1, <2>2
  <2> QED BY <1>2, <2>2, <2>3
<1>8. s = t
      BY <1>4, <1>6, <1>7, SeqEqual
<1> QED BY <1>3, <1>8

LEMMA LastOfSpan ==
    ASSUME NEW bs \in Seq(Block), NEW k \in 0 .. Len(bs), NEW j \in 0 .. k, NEW n \in 0 .. k - j
    PROVE  LastBlocks(Span(bs, j, k), n) = Span(bs, k - n, k)
<1>1. /\ Span(bs, j, k) \in Seq(Block) /\ Len(Span(bs, j, k)) = k - j
      /\ j \in Nat /\ k \in Nat /\ Len(bs) \in Nat
      /\ \A i \in 1 .. k - j : Span(bs, j, k)[i] = bs[j + i]
      BY SpanTyped
<1>2. PICK s, t, m : s = LastBlocks(Span(bs, j, k), n) /\ t = Span(bs, m, k) /\ m = k - n
      OBVIOUS
<1>3. n \in 0 .. Len(Span(bs, j, k)) /\ m \in 0 .. k /\ k - m = n /\ n \in Nat
      BY <1>1, <1>2
<1>4. /\ s \in Seq(Block) /\ Len(s) = n
      /\ \A i \in 1 .. n : s[i] = Span(bs, j, k)[Len(Span(bs, j, k)) - n + i]
      BY <1>1, <1>2, <1>3, LastBlocksTyped
<1>5. /\ t \in Seq(Block) /\ Len(t) = k - m
      /\ \A i \in 1 .. k - m : t[i] = bs[m + i]
      BY <1>2, <1>3, SpanTyped
<1>6. ASSUME NEW i \in 1 .. Len(s) PROVE s[i] = t[i]
  <2>1. PICK x, y : x = (k - j) - n + i /\ y = m + i
        OBVIOUS
  <2>2. i \in 1 .. n /\ i \in 1 .. k - m /\ x \in 1 .. k - j /\ j + x = y
    <3>1. j \in Nat /\ k \in Nat /\ n \in 0 .. k - j /\ m = k - n
          BY <1>1, <1>2
    <3>2. i \in 1 .. n
          BY <1>4
    <3>3. k - m = n /\ x \in 1 .. k - j /\ j + x = y
          BY ONLY <2>1, <3>1, <3>2
    <3> QED BY <3>2, <3>3
  <2>3. s[i] = Span(bs, j, k)[x]
        BY <1>1, <1>4, <2>1, <2>2
  <2>4. Span(bs, j, k)[x] = bs[j + x] /\ t[i] = bs[y]
        BY <1>1, <1>5, <2>1, <2>2
  <2> QED BY <2>2, <2>3, <2>4
<1>7. s = t
      BY <1>3, <1>4, <1>5, <1>6, SeqEqual
<1> QED BY <1>2, <1>7

(* The blocks pending are the last ones; the chunks before them end where  *)
(* they start, later by no more than the overlap or earlier by the gap.    *)
Text(bs) == FlattenSeq(Lines(bs))
LeadsTo(c, bs, st, k, j, p) ==
    /\ p \in Placed(c, Text(bs), st.pieces)
    /\ p.from <= Off(Lines(bs), j) /\ Off(Lines(bs), j) <= p.to + Gap(c)
    /\ p.to - Off(Lines(bs), j) <= c.carry
    /\ st.pending = Span(bs, j, k)
    /\ j = k => p.to <= Off(Lines(bs), k)
Leads(c, bs, st, k) == \E j \in 0 .. k, p \in Places : LeadsTo(c, bs, st, k, j, p)

(* So when they are flushed, the chunks end where the next block starts.   *)
EndsAt(c, bs, st, k, j, p) ==
    /\ p \in Placed(c, Text(bs), Flush(st).pieces)
    /\ p.from <= Off(Lines(bs), k) /\ Reached(c, p, Off(Lines(bs), k))
    /\ st.pending = Span(bs, j, k)
    /\ j < k => p.from = Off(Lines(bs), j) + 1 /\ p.to = Off(Lines(bs), k)

NonblankBlocks(bs) == bs \in Seq(Block) /\ \A i \in 1 .. Len(bs) : bs[i].text # <<>>

LEMMA TextTyped ==
    ASSUME NEW bs, NonblankBlocks(bs)
    PROVE  /\ Text(bs) \in Seq(Words) /\ Lines(bs) \in Seq(Seq(Words))
           /\ Len(Lines(bs)) = Len(bs) /\ Len(bs) \in Nat
           /\ \A i \in 1 .. Len(Lines(bs)) : Lines(bs)[i] # <<>>
           /\ TextIn(Lines(bs), 0, Len(bs)) = Text(bs)
           /\ Len(Text(bs)) = Off(Lines(bs), Len(bs))
<1>1. /\ Lines(bs) \in Seq(Seq(Words)) /\ Len(Lines(bs)) = Len(bs) /\ Len(bs) \in Nat
      /\ \A i \in 1 .. Len(bs) : Lines(bs)[i] = bs[i].text
      BY LinesTyped DEF NonblankBlocks
<1>2. \A i \in 1 .. Len(Lines(bs)) : Lines(bs)[i] # <<>>
      BY <1>1 DEF NonblankBlocks
<1>3. Text(bs) \in Seq(Words)
      BY <1>1, FlattenTyped DEF Text
<1>4. TextIn(Lines(bs), 0, Len(bs)) = Text(bs)
      BY <1>1, SpanWhole DEF TextIn, Text
<1> QED BY <1>1, <1>2, <1>3, <1>4 DEF Off

LEMMA TextOccurs ==
    ASSUME NEW bs, NonblankBlocks(bs), NEW k \in 0 .. Len(bs), NEW j \in 0 .. k
    PROVE  /\ Occurs(Text(bs), Off(Lines(bs), j), TextIn(Lines(bs), j, k))
           /\ Off(Lines(bs), j) \in Nat /\ Off(Lines(bs), k) \in Nat
           /\ Off(Lines(bs), k) = Off(Lines(bs), j) + Len(TextIn(Lines(bs), j, k))
           /\ Off(Lines(bs), j) <= Off(Lines(bs), k)
<1>1. PICK ls, n, z : ls = Lines(bs) /\ n = Len(bs) /\ z = 0
      OBVIOUS
<1>2. /\ ls \in Seq(Seq(Words)) /\ Len(ls) = n /\ n \in Nat
      /\ TextIn(ls, z, n) = Text(bs)
      BY <1>1, TextTyped
<1>3. n \in 0 .. Len(ls) /\ k \in 0 .. n /\ k \in 0 .. Len(ls) /\ z \in 0 .. j
      BY <1>1, <1>2
<1>4. Occurs(TextIn(ls, z, n), Off(ls, j) - Off(ls, z), TextIn(ls, j, k))
      BY ONLY <1>2, <1>3, j \in 0 .. k, SpanOccurs
<1>5. Off(ls, z) = 0
      BY <1>1, <1>2, OffStarts
<1>6. /\ Off(ls, j) \in Nat /\ Off(ls, k) \in Nat
      /\ Off(ls, k) = Off(ls, j) + Len(TextIn(ls, j, k))
      /\ Off(ls, j) <= Off(ls, k)
      BY ONLY <1>2, <1>3, j \in 0 .. k, OffAdds
<1>7. Off(ls, j) - Off(ls, z) = Off(ls, j)
      BY <1>5, <1>6
<1> QED BY <1>1, <1>2, <1>4, <1>6, <1>7

LEMMA TextStrict ==
    ASSUME NEW bs, NonblankBlocks(bs), NEW k \in 1 .. Len(bs), NEW j \in 0 .. k - 1
    PROVE  Off(Lines(bs), j) < Off(Lines(bs), k)
BY TextTyped, OffGrows

LEMMA FlushEnds ==
    ASSUME NEW c, IsConfig(c), NEW bs, NonblankBlocks(bs), NEW k \in 0 .. Len(bs),
           NEW st \in Packed(c), Leads(c, bs, st, k)
    PROVE  \E j \in 0 .. k, p \in Places : EndsAt(c, bs, st, k, j, p)
<1>0. /\ st.pending \in Seq(Block) /\ st.pieces \in Seq(Piece)
      /\ Text(bs) \in Seq(Words) /\ bs \in Seq(Block) /\ Len(bs) \in Nat
      BY TextTyped DEF Packed, NonblankBlocks
<1>6. Gap(c) \in Nat
      BY GapTyped
<1>1. PICK j \in 0 .. k, p \in Places : LeadsTo(c, bs, st, k, j, p)
      BY DEF Leads
<1>2. /\ j \in Nat /\ k \in Nat /\ st.pending = Span(bs, j, k)
      /\ Len(Span(bs, j, k)) = k - j
  <2>1. j \in Nat /\ k \in Nat /\ Len(Span(bs, j, k)) = k - j
        BY <1>0, SpanTyped
  <2> QED BY <1>1, <2>1 DEF LeadsTo
<1>3. /\ Occurs(Text(bs), Off(Lines(bs), j), TextIn(Lines(bs), j, k))
      /\ Off(Lines(bs), j) \in Nat /\ Off(Lines(bs), k) \in Nat
      /\ Off(Lines(bs), k) = Off(Lines(bs), j) + Len(TextIn(Lines(bs), j, k))
      BY TextOccurs
<1>4. CASE j = k
  <2>1. st.pending = <<>>
        BY <1>0, <1>2, <1>4, EmptySeq
  <2>2. Flush(st).pieces = st.pieces
        BY <2>1 DEF Flush
  <2>3. EndsAt(c, bs, st, k, j, p)
        BY <1>1, <1>2, <1>4, <2>2 DEF LeadsTo, EndsAt, Reached
  <2> QED BY <2>3
<1>5. CASE j # k
  <2>0. j < k /\ k \in 1 .. Len(bs) /\ j \in 0 .. k - 1
        BY <1>0, <1>2, <1>5
  <2>1. st.pending # <<>>
    <3>1. Len(st.pending) # 0
          BY <1>2, <2>0
    <3> QED BY <3>1, EmptySeq
  <2>2. PICK x : x = Chunk(Lines(st.pending), FALSE)
        OBVIOUS
  <2>3. Flush(st).pieces = Append(st.pieces, x)
        BY <2>1, <2>2 DEF Flush
  <2>4. x \in Piece /\ x.lines = Lines(st.pending)
        BY <1>0, <2>2, LinesTyped, ChunkTyped
  <2>5. FlattenSeq(x.lines) = TextIn(Lines(bs), j, k)
        BY <1>0, <1>2, <2>4, LinesOfSpan DEF TextIn
  <2>6. PICK own, a : own = TextIn(Lines(bs), j, k) /\ a = Off(Lines(bs), j)
        OBVIOUS
  <2>7. PICK q : q = Place(a + 1, a + Len(own))
        OBVIOUS
  <2>8. q \in Placed(c, Text(bs), Append(st.pieces, x))
    <3>1. /\ p \in Placed(c, Text(bs), st.pieces) /\ p.from <= a /\ a <= p.to + Gap(c)
          /\ p.to - a <= c.carry
          BY <1>1, <2>6 DEF LeadsTo
    <3>2. own = FlattenSeq(x.lines) /\ Shows(Text(bs), a, own) /\ a \in Nat
          BY <1>3, <2>5, <2>6, OccursShows
    <3>3. Place(a + 1, a + Len(own)) \in Placed(c, Text(bs), Append(st.pieces, x))
          BY ONLY <1>0, <1>6, <2>4, <3>1, <3>2, Laid
    <3> QED BY <2>7, <3>3
  <2>9. q.from = a + 1 /\ q.to = a + Len(own)
        BY <2>7 DEF Place
  <2>10. a < Off(Lines(bs), k) /\ a \in Nat /\ Off(Lines(bs), k) = a + Len(own)
        BY <1>3, <2>0, <2>6, TextStrict
  <2>11. EndsAt(c, bs, st, k, j, q)
    <3>1. q.from <= Off(Lines(bs), k) /\ q.to = Off(Lines(bs), k) /\ Reached(c, q, Off(Lines(bs), k))
          BY <1>3, <1>6, <2>9, <2>10 DEF Reached
    <3> QED BY <1>2, <2>3, <2>6, <2>8, <2>9, <3>1 DEF EndsAt
  <2>12. q \in Places
         BY <2>8, <2>4, <1>0, PlacedOfMore, AppendProperties
  <2> QED BY <2>11, <2>12
<1> QED BY <1>4, <1>5

(* What one block does to the packing, by kind.                            *)
State(pending, pieces) == [pending |-> pending, pieces |-> pieces]
IsLong(c, b) == b.kind = "prose" /\ Len(b.text) > c.size
IsFull(c, st, b) ==
    /\ b.kind = "prose" /\ ~(Len(b.text) > c.size)
    /\ st.pending # <<>> /\ Tokens(Lines(st.pending)) + Len(b.text) > c.size
IsFitting(c, st, b) ==
    /\ b.kind = "prose" /\ ~(Len(b.text) > c.size)
    /\ ~(st.pending # <<>> /\ Tokens(Lines(st.pending)) + Len(b.text) > c.size)

LEMMA PackIs ==
    ASSUME NEW c, IsConfig(c), NEW st \in Packed(c), NEW b \in Block
    PROVE  /\ b.kind = "table" =>
                Pack(c, st, b) = State(<<>>, Append(Flush(st).pieces, Chunk(<<b.text>>, TRUE)))
           /\ b.kind = "title" => Pack(c, st, b) = State(<<b>>, Flush(st).pieces)
           /\ IsLong(c, b) =>
                Pack(c, st, b) = State(<<>>, Flush(st).pieces \o Slides(c, b.text))
           /\ IsFull(c, st, b) =>
                Pack(c, st, b) = State(Append(Carried(c, st.pending), b), Flush(st).pieces)
           /\ IsFitting(c, st, b) =>
                Pack(c, st, b) = State(Append(st.pending, b), st.pieces)
           /\ \/ b.kind = "table" \/ b.kind = "title" \/ IsLong(c, b)
              \/ IsFull(c, st, b) \/ IsFitting(c, st, b)
<1> DEFINE fl == Flush(st)
<1>0. st \in [pending : Seq(Block), pieces : Seq(Piece)]
      BY DEF Packed
<1>1. fl = [pending |-> <<>>, pieces |-> fl.pieces]
      BY FlushKeeps
<1>2. b.kind \in Kinds /\ Len(b.text) \in Nat /\ c.size \in Int
      BY LenProperties, ConfigTyped DEF Block
<1>3. ASSUME b.kind = "table"
      PROVE  Pack(c, st, b) = State(<<>>, Append(fl.pieces, Chunk(<<b.text>>, TRUE)))
  <2>1. PICK ps : ps = Append(fl.pieces, Chunk(<<b.text>>, TRUE))
        OBVIOUS
  <2>2. Pack(c, st, b) = [fl EXCEPT !.pieces = ps]
        BY <1>3, <2>1 DEF Pack, fl
  <2> HIDE DEF fl
  <2>3. PICK e, qs : e = <<>> /\ qs = fl.pieces
        OBVIOUS
  <2>4. fl = [pending |-> e, pieces |-> qs]
        BY <1>1, <2>3
  <2>5. [fl EXCEPT !.pieces = ps] = [pending |-> e, pieces |-> ps]
        BY ONLY <2>4
  <2> QED BY <2>1, <2>2, <2>3, <2>5 DEF State
<1>4. ASSUME b.kind = "title" PROVE Pack(c, st, b) = State(<<b>>, fl.pieces)
  <2>1. PICK bs : bs = <<b>>
        OBVIOUS
  <2>2. Pack(c, st, b) = [fl EXCEPT !.pending = bs]
        BY <1>4, <2>1 DEF Pack, fl
  <2> HIDE DEF fl
  <2>3. PICK e, qs : e = <<>> /\ qs = fl.pieces
        OBVIOUS
  <2>4. fl = [pending |-> e, pieces |-> qs]
        BY <1>1, <2>3
  <2>5. [fl EXCEPT !.pending = bs] = [pending |-> bs, pieces |-> qs]
        BY ONLY <2>4
  <2> QED BY <2>1, <2>2, <2>3, <2>5 DEF State
<1>5. ASSUME IsLong(c, b) PROVE Pack(c, st, b) = State(<<>>, fl.pieces \o Slides(c, b.text))
  <2>1. b.kind = "prose" /\ Len(b.text) > c.size /\ ~(Len(b.text) <= c.size)
        BY <1>2, <1>5 DEF IsLong
  <2>2. b.kind # "table" /\ b.kind # "title"
        BY <2>1
  <2>3. Pack(c, st, b) = [fl EXCEPT !.pieces = @ \o Slides(c, b.text)]
        BY <2>1, <2>2, Zenon DEF Pack, fl
  <2> HIDE DEF fl
  <2>4. PICK ps : ps = fl.pieces \o Slides(c, b.text)
        OBVIOUS
  <2>5. Pack(c, st, b) = [fl EXCEPT !.pieces = ps]
        BY <2>3, <2>4
  <2>6. PICK e, qs : e = <<>> /\ qs = fl.pieces
        OBVIOUS
  <2>7. fl = [pending |-> e, pieces |-> qs]
        BY <1>1, <2>6
  <2>8. [fl EXCEPT !.pieces = ps] = [pending |-> e, pieces |-> ps]
        BY ONLY <2>7
  <2> QED BY <2>4, <2>5, <2>6, <2>8 DEF State
<1>6. ASSUME IsFull(c, st, b)
      PROVE  Pack(c, st, b) = State(Append(Carried(c, st.pending), b), fl.pieces)
  <2>1. b.kind = "prose" /\ Len(b.text) <= c.size
        BY <1>2, <1>6 DEF IsFull
  <2>2. PICK bs : bs = Append(Carried(c, st.pending), b)
        OBVIOUS
  <2>3. Pack(c, st, b) = [fl EXCEPT !.pending = bs]
        BY <1>2, <1>6, <2>1, <2>2 DEF Pack, fl, IsFull
  <2> HIDE DEF fl
  <2> QED BY <1>1, <2>2, <2>3 DEF State
<1>7. ASSUME IsFitting(c, st, b)
      PROVE  Pack(c, st, b) = State(Append(st.pending, b), st.pieces)
  <2>1. b.kind = "prose" /\ Len(b.text) <= c.size
        BY <1>2, <1>7 DEF IsFitting
  <2>2. PICK bs : bs = Append(st.pending, b)
        OBVIOUS
  <2>3. Pack(c, st, b) = [st EXCEPT !.pending = bs]
        BY <1>2, <1>7, <2>1, <2>2 DEF Pack, IsFitting
  <2> QED BY <1>0, <2>2, <2>3 DEF State
<1>8. \/ b.kind = "table" \/ b.kind = "title" \/ IsLong(c, b)
      \/ IsFull(c, st, b) \/ IsFitting(c, st, b)
      BY <1>2 DEF Kinds, IsLong, IsFull, IsFitting
<1> QED BY <1>3, <1>4, <1>5, <1>6, <1>7, <1>8

LEMMA SpanOfNone ==
    ASSUME NEW S, NEW s \in Seq(S), NEW k \in 0 .. Len(s)
    PROVE  Span(s, k, k) = <<>>
<1>1. k \in Nat /\ k \in 0 .. k /\ k - k = 0
      BY LenProperties
<1>2. Span(s, k, k) \in Seq(S) /\ Len(Span(s, k, k)) = 0
      BY <1>1, SpanTyped
<1> QED BY <1>2, EmptySeq

LEMMA SpanOfOne ==
    ASSUME NEW S, NEW s \in Seq(S), NEW k \in 1 .. Len(s)
    PROVE  Span(s, k - 1, k) = <<s[k]>>
<1>1. PICK j, e : j = k - 1 /\ e = <<>>
      OBVIOUS
<1>2. j \in 0 .. Len(s) /\ j \in 0 .. k - 1
      BY <1>1, LenProperties
<1>3. Span(s, j, j) = e
      BY <1>1, <1>2, SpanOfNone
<1>4. Span(s, j, k) = Append(Span(s, j, k - 1), s[k])
      BY <1>2, SpanOfMore
<1>5. Append(e, s[k]) = <<s[k]>>
      BY <1>1
<1> QED BY <1>1, <1>3, <1>4, <1>5

(* What the blocks carried are: the last ones of those pending.            *)
LEMMA CarriedSpan ==
    ASSUME NEW c, IsConfig(c), NEW bs, NonblankBlocks(bs), NEW k \in 0 .. Len(bs), NEW j \in 0 .. k,
           j < k
    PROVE  \E i \in j + 1 .. k :
              /\ Carried(c, Span(bs, j, k)) = Span(bs, i, k)
              /\ Off(Lines(bs), k) - Off(Lines(bs), i) <= c.carry
<1>0. bs \in Seq(Block) /\ Len(bs) \in Nat /\ j \in Nat /\ k \in Nat
      BY TextTyped DEF NonblankBlocks
<1>1. PICK s : s = Span(bs, j, k)
      OBVIOUS
<1>2. s \in Seq(Block) /\ Len(s) = k - j
      BY <1>0, <1>1, SpanTyped
<1>3. s # <<>>
  <2>1. Len(s) # 0
        BY <1>0, <1>2
  <2> QED BY <2>1, EmptySeq
<1>4. PICK n \in 0 .. Len(s) - 1 :
         Carried(c, s) = LastBlocks(s, n) /\ Tokens(Lines(Carried(c, s))) <= c.carry
      BY <1>2, <1>3, CarriedFits
<1>5. PICK i : i = k - n
      OBVIOUS
<1>6. i \in j + 1 .. k /\ i \in 0 .. k /\ n \in 0 .. k - j
      BY <1>0, <1>2, <1>5
<1>7. Carried(c, s) = Span(bs, i, k)
      BY <1>0, <1>1, <1>4, <1>5, <1>6, LastOfSpan
<1>8. Lines(Carried(c, s)) = Span(Lines(bs), i, k)
      BY <1>0, <1>6, <1>7, LinesOfSpan
<1>9. Tokens(Span(Lines(bs), i, k)) = Len(TextIn(Lines(bs), i, k))
  <2>1. Lines(bs) \in Seq(Seq(Words)) /\ k \in 0 .. Len(Lines(bs))
        BY TextTyped
  <2>2. Span(Lines(bs), i, k) \in Seq(Seq(Words))
        BY <1>6, <2>1, SpanTyped
  <2> QED BY <2>2, TokensAreLen DEF TextIn
<1>10. /\ Off(Lines(bs), i) \in Nat /\ Len(TextIn(Lines(bs), i, k)) \in Int
       /\ Off(Lines(bs), k) = Off(Lines(bs), i) + Len(TextIn(Lines(bs), i, k))
  <2>1. Lines(bs) \in Seq(Seq(Words)) /\ k \in 0 .. Len(Lines(bs))
        BY TextTyped
  <2>2. TextIn(Lines(bs), i, k) \in Seq(Words)
        BY <1>6, <2>1, TextInTyped
  <2>3. Len(TextIn(Lines(bs), i, k)) \in Int
        BY <2>2, LenProperties
  <2>4. i \in 0 .. k
        BY <1>6
  <2> QED BY <2>3, <2>4, TextOccurs
<1>11. Off(Lines(bs), k) - Off(Lines(bs), i) = Len(TextIn(Lines(bs), i, k))
       BY <1>10
<1>12. Off(Lines(bs), k) - Off(Lines(bs), i) <= c.carry
       BY <1>4, <1>8, <1>9, <1>11
<1> QED BY <1>1, <1>6, <1>7, <1>12

(* One block more, of any kind, and the chunks still lead up to it.        *)
LEMMA PackLeads ==
    ASSUME NEW c, IsConfig(c), c.size > 0, NEW bs, NonblankBlocks(bs), NEW k \in 1 .. Len(bs),
           NEW st \in Packed(c), Leads(c, bs, st, k - 1)
    PROVE  Leads(c, bs, Pack(c, st, bs[k]), k)
<1>0. PICK b, ls, m, text : b = bs[k] /\ ls = Lines(bs) /\ m = k - 1 /\ text = Text(bs)
      OBVIOUS
<1>1. /\ bs \in Seq(Block) /\ Len(bs) \in Nat /\ k \in 0 .. Len(bs) /\ m \in 0 .. Len(bs)
      /\ m \in 0 .. k /\ k \in 0 .. k /\ m \in Nat /\ k \in Nat /\ k = m + 1
      /\ m \in 0 .. k - 1
      /\ ls \in Seq(Seq(Words)) /\ Len(ls) = Len(bs) /\ text \in Seq(Words)
      BY <1>0, TextTyped DEF NonblankBlocks
<1>2. b \in Block /\ b.text # <<>> /\ b.text \in Seq(Words) /\ ls[k] = b.text
  <2>1. b \in Block /\ b.text # <<>>
        BY <1>0, <1>1, ElementOfSeq DEF NonblankBlocks
  <2>2. ls[k] = b.text
        BY <1>0, <1>1, LinesTyped
  <2> QED BY <2>1, <2>2 DEF Block
<1>3. /\ Occurs(text, Off(ls, m), b.text)
      /\ Off(ls, m) \in Nat /\ Off(ls, k) \in Nat
      /\ Off(ls, k) = Off(ls, m) + Len(b.text)
      /\ Off(ls, m) < Off(ls, k)
  <2>1. TextIn(ls, m, k) = b.text
        BY <1>0, <1>1, <1>2, TextOfOne
  <2>2. /\ Occurs(text, Off(ls, m), TextIn(ls, m, k))
        /\ Off(ls, m) \in Nat /\ Off(ls, k) \in Nat
        /\ Off(ls, k) = Off(ls, m) + Len(TextIn(ls, m, k))
        BY <1>0, <1>1, TextOccurs
  <2>3. Off(ls, m) < Off(ls, k)
        BY <1>0, <1>1, TextStrict
  <2> QED BY <2>1, <2>2, <2>3
<1>4. PICK j \in 0 .. m, p \in Places : EndsAt(c, bs, st, m, j, p)
      BY <1>0, <1>1, FlushEnds
<1>5. PICK ps : ps = Flush(st).pieces
      OBVIOUS
<1>6. /\ ps \in Seq(Piece) /\ p \in Placed(c, text, ps)
      /\ p.from <= Off(ls, m) /\ p.from \in Int /\ p.to \in Int
      /\ Reached(c, p, Off(ls, m)) /\ p.to <= Off(ls, m) /\ Off(ls, m) <= p.to + Gap(c)
      /\ st.pending = Span(bs, j, m) /\ st.pending \in Seq(Block)
      /\ j < m => p.from = Off(ls, j) + 1 /\ p.to = Off(ls, m)
      BY <1>0, <1>4, <1>5, FlushKeeps DEF EndsAt, Packed, Places, Reached
<1>7. c.carry \in Nat /\ Gap(c) \in Nat
      BY ConfigTyped, GapTyped
<1>8. ASSUME NEW qs, NEW q, q \in Placed(c, text, qs), q \in Places, q.from <= Off(ls, k), Reached(c, q, Off(ls, k))
      PROVE  Leads(c, bs, State(<<>>, qs), k)
  <2>1. Span(bs, k, k) = <<>>
        BY <1>1, SpanOfNone
  <2>2. q.to - Off(ls, k) <= c.carry /\ Off(ls, k) <= q.to + Gap(c) /\ q.to <= Off(ls, k)
    <3>1. q.to \in Int /\ Off(ls, k) <= q.to + Gap(c) /\ q.to <= Off(ls, k)
          BY <1>8 DEF Places, Reached
    <3>2. q.to - Off(ls, k) <= c.carry
          BY ONLY <1>3, <1>7, <3>1, NoOverlap
    <3> QED BY <3>1, <3>2
  <2>3. PICK s : s = State(<<>>, qs)
        OBVIOUS
  <2>4. s.pieces = qs /\ s.pending = <<>>
        BY <2>3 DEF State
  <2>5. LeadsTo(c, bs, s, k, k, q)
        BY <1>0, <1>8, <2>1, <2>2, <2>4 DEF LeadsTo
  <2> QED BY <1>1, <1>8, <2>3, <2>5 DEF Leads
<1>9. ASSUME NEW pd, NEW i \in 0 .. m, p.from <= Off(ls, i), Off(ls, i) <= p.to + Gap(c),
             p.to - Off(ls, i) <= c.carry, pd = Append(Span(bs, i, m), b)
      PROVE  Leads(c, bs, State(pd, ps), k)
  <2>1. Span(bs, i, k) = pd
    <3>1. i \in 0 .. k - 1
          BY <1>0
    <3>2. Span(bs, i, k) = Append(Span(bs, i, k - 1), bs[k])
          BY <1>1, <3>1, SpanOfMore
    <3> QED BY <1>0, <1>9, <3>2
  <2>2. PICK s : s = State(pd, ps)
        OBVIOUS
  <2>3. s.pieces = ps /\ s.pending = pd
        BY <2>2 DEF State
  <2>4. i \in 0 .. k /\ i # k
        BY <1>1
  <2>5. LeadsTo(c, bs, s, k, i, p)
        BY <1>0, <1>6, <1>9, <2>1, <2>3, <2>4 DEF LeadsTo
  <2> QED BY <2>2, <2>4, <2>5 DEF Leads
<1>10. CASE b.kind = "table"
  <2>1. PICK l, x : l = <<b.text>> /\ x = Chunk(l, TRUE)
        OBVIOUS
  <2>2. x \in Piece /\ FlattenSeq(x.lines) = b.text
    <3>1. l \in Seq(Seq(Words)) /\ FlattenSeq(l) = b.text
          BY <1>2, <2>1, FlattenOfOne
    <3> QED BY <2>1, <3>1, ChunkTyped
  <2>3. PICK qs, q, a : /\ qs = Append(ps, x) /\ a = Off(ls, m)
                        /\ q = Place(Off(ls, m) + 1, Off(ls, m) + Len(b.text))
        OBVIOUS
  <2>4. q \in Placed(c, text, qs)
    <3>1. /\ a \in Nat /\ p.from <= a /\ a <= p.to + Gap(c) /\ p.to - a <= c.carry
          /\ Gap(c) \in Nat
      <4>1. p.to - Off(ls, m) <= c.carry
            BY ONLY <1>3, <1>6, <1>7, NoOverlap
      <4> QED BY ONLY <1>3, <1>6, <1>7, <2>3, <4>1
    <3>2. PICK own : own = b.text
          OBVIOUS
    <3>3. own = FlattenSeq(x.lines) /\ Shows(text, a, own)
          BY <1>3, <2>2, <2>3, <3>2, OccursShows
    <3>4. Place(a + 1, a + Len(own)) \in Placed(c, text, Append(ps, x))
          BY ONLY <1>1, <1>6, <2>2, <3>1, <3>3, Laid
    <3> QED BY <2>3, <3>2, <3>4
  <2>5. q.from = Off(ls, m) + 1 /\ q.to = Off(ls, k)
        BY <1>3, <2>3 DEF Place
  <2>6. q.from <= Off(ls, k) /\ q \in Places /\ Reached(c, q, Off(ls, k))
    <3>1. PICK o, y, n, g : o = Off(ls, m) /\ y = Off(ls, k) /\ n = Len(b.text) /\ g = Gap(c)
          OBVIOUS
    <3>2. o \in Nat /\ y \in Nat /\ o < y /\ g \in Nat /\ y = o + n
          BY <1>3, <1>7, <3>1
    <3>3. o + 1 <= y /\ o + 1 \in Int /\ y \in Int /\ y <= y /\ y <= y + g
          BY ONLY <3>2
    <3>4. q = [from |-> o + 1, to |-> y]
          BY ONLY <2>3, <3>1, <3>2 DEF Place
    <3> QED BY ONLY <3>1, <3>3, <3>4 DEF Places, Reached
  <2>7. Leads(c, bs, State(<<>>, qs), k)
        BY <1>8, <2>4, <2>5, <2>6
  <2>8. Pack(c, st, b) = State(<<>>, qs)
        BY <1>2, <1>5, <1>10, <2>1, <2>3, PackIs
  <2> QED BY <1>0, <2>7, <2>8
<1>11. CASE b.kind = "title"
  <2>1. PICK e, pd : e = <<>> /\ pd = <<b>>
        OBVIOUS
  <2>2. pd = Append(Span(bs, m, m), b)
    <3>1. Span(bs, m, m) = e
          BY <1>1, <2>1, SpanOfNone
    <3>2. Append(e, b) = <<b>>
          BY <2>1
    <3> QED BY <2>1, <3>1, <3>2
  <2>3. m \in 0 .. m /\ Off(ls, m) <= p.to + Gap(c) /\ p.to - Off(ls, m) <= c.carry
    <3>1. m \in 0 .. m
          BY ONLY <1>1
    <3>2. p.to - Off(ls, m) <= c.carry
          BY ONLY <1>3, <1>6, <1>7, NoOverlap
    <3> QED BY <1>6, <3>1, <3>2
  <2>4. Leads(c, bs, State(pd, ps), k)
        BY <1>6, <1>9, <2>2, <2>3
  <2>5. Pack(c, st, b) = State(pd, ps)
        BY <1>2, <1>5, <1>11, <2>1, PackIs
  <2> QED BY <1>0, <2>4, <2>5
<1>12. CASE IsLong(c, b)
  <2>1. PICK w, a, qs : w = b.text /\ a = Off(ls, m) /\ qs = ps \o Slides(c, w)
        OBVIOUS
  <2>2. PICK q \in Placed(c, text, ps \o Slides(c, w)) : Reached(c, q, a + Len(w)) /\ q.from <= q.to
    <3>1. w \in Seq(Words) /\ w # <<>> /\ a \in Nat /\ Occurs(text, a, w) /\ p.from <= a /\ Reached(c, p, a)
          BY <1>2, <1>3, <1>6, <2>1
    <3> QED BY ONLY IsConfig(c), c.size > 0, <1>1, <1>6, <3>1, SlidesLaid
  <2>3. q \in Places
    <3>1. qs \in Seq(Piece)
          BY <1>2, <1>6, <2>1, SlidesBounded, ConcatProperties
    <3>2. PICK x : x = Chunk(<<>>, FALSE)
          OBVIOUS
    <3>3. x \in Piece
      <4>1. PICK l : l = <<>>
            OBVIOUS
      <4>2. l \in Seq(Seq(Words))
            BY <4>1, EmptySeq
      <4> QED BY <3>2, <4>1, <4>2, ChunkTyped
    <3> QED BY <2>1, <2>2, <3>1, <3>3, PlacedOfMore
  <2>4. Reached(c, q, Off(ls, k)) /\ q.from <= Off(ls, k)
    <3>1. q.from \in Int /\ q.to \in Int
          BY <2>3 DEF Places
    <3>2. a + Len(w) = Off(ls, k)
          BY <1>3, <2>1
    <3>3. q.to <= Off(ls, k)
          BY <2>2, <3>2 DEF Reached
    <3> QED BY <1>3, <2>2, <3>1, <3>2, <3>3
  <2>5. Leads(c, bs, State(<<>>, qs), k)
        BY <1>8, <2>1, <2>2, <2>3, <2>4
  <2>6. Pack(c, st, b) = State(<<>>, qs)
        BY <1>2, <1>5, <1>12, <2>1, PackIs
  <2> QED BY <1>0, <2>5, <2>6
<1>13. CASE IsFull(c, st, b)
  <2>1. j < m
    <3> SUFFICES ASSUME j = m PROVE FALSE
        BY <1>1
    <3>1. st.pending = <<>>
          BY <1>1, <1>6, SpanOfNone
    <3> QED BY <1>13, <3>1 DEF IsFull
  <2>2. PICK i \in j + 1 .. m : /\ Carried(c, Span(bs, j, m)) = Span(bs, i, m)
                                /\ Off(ls, m) - Off(ls, i) <= c.carry
        BY <1>0, <1>1, <2>1, CarriedSpan
  <2>3. PICK pd : pd = Append(Span(bs, i, m), b)
        OBVIOUS
  <2>4. i \in 0 .. m /\ i \in 1 .. Len(bs) /\ j \in 0 .. i - 1
        BY <1>1
  <2>5. Off(ls, j) < Off(ls, i) /\ Off(ls, i) <= Off(ls, m) /\ Off(ls, j) \in Nat /\ Off(ls, i) \in Nat
    <3>1. Off(ls, j) < Off(ls, i)
          BY <1>0, <2>4, TextStrict
    <3>2. Off(ls, i) <= Off(ls, m) /\ Off(ls, i) \in Nat
          BY <1>0, <1>1, <2>4, TextOccurs
    <3>3. Off(ls, j) \in Nat
          BY <1>0, <1>1, TextOccurs
    <3> QED BY <3>1, <3>2, <3>3
  <2>6. p.from <= Off(ls, i) /\ Off(ls, i) <= p.to + Gap(c) /\ p.to - Off(ls, i) <= c.carry
    <3>1. PICK x, y, z, g : x = Off(ls, j) /\ y = Off(ls, i) /\ z = Off(ls, m) /\ g = Gap(c)
          OBVIOUS
    <3>2. /\ x \in Nat /\ y \in Nat /\ z \in Nat /\ g \in Nat /\ c.carry \in Nat
          /\ x < y /\ y <= z /\ z - y <= c.carry
          BY <1>3, <1>7, <2>2, <2>5, <3>1
    <3>3. p.from = x + 1 /\ p.to = z
          BY <1>6, <2>1, <3>1
    <3>4. x + 1 <= y /\ y <= z + g
          BY ONLY <3>2
    <3> QED BY <3>1, <3>2, <3>3, <3>4
  <2>7. Leads(c, bs, State(pd, ps), k)
        BY <1>9, <2>3, <2>4, <2>6
  <2>8. Pack(c, st, b) = State(pd, ps)
    <3>1. Carried(c, st.pending) = Span(bs, i, m)
          BY <1>6, <2>2
    <3>2. Pack(c, st, b) = State(Append(Carried(c, st.pending), b), Flush(st).pieces)
          BY <1>2, <1>13, PackIs
    <3> QED BY <1>5, <2>3, <3>1, <3>2
  <2> QED BY <1>0, <2>7, <2>8
<1>14. CASE IsFitting(c, st, b)
  <2>1. PICK i \in 0 .. m, r \in Places : LeadsTo(c, bs, st, m, i, r)
        BY <1>0 DEF Leads
  <2>2. Span(bs, i, k) = Append(st.pending, b)
    <3>1. i \in 0 .. k - 1
          BY <1>0
    <3>2. Span(bs, i, k) = Append(Span(bs, i, k - 1), bs[k])
          BY <1>1, <3>1, SpanOfMore
    <3> QED BY <1>0, <2>1, <3>2 DEF LeadsTo
  <2>3. PICK s : s = State(Append(st.pending, b), st.pieces)
        OBVIOUS
  <2>4. s.pieces = st.pieces /\ s.pending = Append(st.pending, b)
        BY <2>3 DEF State
  <2>5. i \in 0 .. k /\ i # k
        BY <1>1
  <2>6. LeadsTo(c, bs, s, k, i, r)
        BY <2>1, <2>2, <2>4, <2>5 DEF LeadsTo
  <2>7. Pack(c, st, b) = s
        BY <1>2, <1>14, <2>3, PackIs
  <2> QED BY <1>0, <2>5, <2>6, <2>7 DEF Leads
<1> QED BY <1>2, <1>10, <1>11, <1>12, <1>13, <1>14, PackIs

LEMMA StartLeads ==
    ASSUME NEW c, IsConfig(c), NEW bs, NonblankBlocks(bs)
    PROVE  Leads(c, bs, Unpacked, 0)
<1>1. PICK p, z, e : p = Place(0, 0) /\ z = 0 /\ e = <<>>
      OBVIOUS
<1>2. p.from = 0 /\ p.to = 0 /\ p \in Places
      BY <1>1 DEF Place, Places
<1>3. bs \in Seq(Block) /\ z \in 0 .. Len(bs) /\ z \in 0 .. z
      BY <1>1, TextTyped DEF NonblankBlocks
<1>4. Span(bs, z, z) = e
      BY <1>1, <1>3, SpanOfNone
<1>5. Off(Lines(bs), z) = 0
      BY <1>1, TextTyped, OffStarts
<1>6. Unpacked.pending = e /\ Unpacked.pieces = e
      BY <1>1 DEF Unpacked
<1>7. p \in Placed(c, Text(bs), e)
      BY <1>1, PlacedOfNone
<1>8. 0 - 0 <= c.carry /\ 0 <= 0 + Gap(c)
      BY ConfigTyped, GapTyped
<1>9. LeadsTo(c, bs, Unpacked, z, z, p)
      BY <1>2, <1>4, <1>5, <1>6, <1>7, <1>8 DEF LeadsTo
<1> QED BY <1>1, <1>2, <1>3, <1>9 DEF Leads

LEMMA PackingLeads ==
    ASSUME NEW c, IsConfig(c), c.size > 0, NEW bs, NonblankBlocks(bs)
    PROVE  Packing(c, bs) \in Packed(c) /\ Leads(c, bs, Packing(c, bs), Len(bs))
<1>0. bs \in Seq(Block) /\ Len(bs) \in Nat
      BY TextTyped DEF NonblankBlocks
<1>1. PICK h : PacksStages(h, c, bs) /\ Packing(c, bs) = h[Len(bs)]
      BY <1>0, PackingStages
<1> DEFINE P == {k \in Nat : k <= Len(bs) => Leads(c, bs, h[k], k)}
<1>2. 0 \in P
  <2>1. Leads(c, bs, h[0], 0)
        BY <1>1, StartLeads DEF PacksStages
  <2> QED BY <2>1
<1>3. ASSUME NEW k \in Nat, k \in P PROVE k + 1 \in P
  <2> SUFFICES ASSUME k + 1 <= Len(bs) PROVE Leads(c, bs, h[k + 1], k + 1)
      OBVIOUS
  <2>1. PICK x, st : x = k + 1 /\ st = h[k]
        OBVIOUS
  <2>2. x \in 1 .. Len(bs) /\ x - 1 = k /\ k \in 0 .. Len(bs) /\ k <= Len(bs)
        BY <1>0, <2>1
  <2>3. st \in Packed(c) /\ Leads(c, bs, st, x - 1) /\ h[x] = Pack(c, st, bs[x])
        BY <1>1, <1>3, <2>1, <2>2 DEF PacksStages
  <2>4. Leads(c, bs, Pack(c, st, bs[x]), x)
        BY <2>2, <2>3, PackLeads
  <2> QED BY <2>1, <2>3, <2>4
<1>4. P = Nat
  <2>1. P \in SUBSET Nat
        OBVIOUS
  <2> HIDE DEF P
  <2> QED BY <1>2, <1>3, <2>1, Stepwise
<1>5. Len(bs) \in 0 .. Len(bs) /\ Leads(c, bs, h[Len(bs)], Len(bs))
      BY <1>0, <1>4
<1> QED BY <1>1, <1>5 DEF PacksStages

LEMMA NonblankIs ==
    ASSUME NEW bs \in Seq(Block)
    PROVE  NonblankBlocks(Nonblank(bs))
<1>1. PICK nb : nb = Nonblank(bs)
      OBVIOUS
<1>2. nb \in Seq(Block) /\ \A k \in DOMAIN nb : nb[k].text # <<>>
      BY <1>1, NonblankTyped
<1>3. DOMAIN nb = 1 .. Len(nb)
      BY <1>2, LenProperties
<1> QED BY <1>1, <1>2, <1>3 DEF NonblankBlocks

LEMMA CoversWhenPlaced ==
    ASSUME NEW c, NEW text, NEW chunks, NEW p \in Placed(c, text, chunks), Reached(c, p, Len(text)),
           p.to \in Int, Gap(c) \in Nat, Len(text) \in Nat
    PROVE  Covers(c, text, chunks)
<1>1. p.to + Gap(c) >= Len(text)
      BY DEF Reached
<1> QED BY <1>1 DEF Placed, Nowhere, Covers

(* The chunks of blocks cover their text, from the first token to the last.*)
LEMMA ChunkBlocksCover ==
    ASSUME NEW c, IsConfig(c), c.size > 0, NEW bs \in Seq(Block)
    PROVE  Covers(c, FlattenSeq(Lines(Nonblank(bs))), ChunkBlocks(c, bs))
<1>1. PICK nb, st, n : nb = Nonblank(bs) /\ st = Packing(c, nb) /\ n = Len(nb)
      OBVIOUS
<1>2. NonblankBlocks(nb)
      BY <1>1, NonblankIs
<1>3. st \in Packed(c) /\ Leads(c, nb, st, n) /\ n \in 0 .. Len(nb)
      BY <1>1, <1>2, PackingLeads, TextTyped
<1>4. PICK j \in 0 .. n, p \in Places : EndsAt(c, nb, st, n, j, p)
      BY <1>2, <1>3, FlushEnds
<1>5. ChunkBlocks(c, bs) = Flush(st).pieces
      BY <1>1 DEF ChunkBlocks, Packing, Unpacked
<1>6. /\ p \in Placed(c, Text(nb), Flush(st).pieces) /\ Reached(c, p, Len(Text(nb)))
      /\ p.to \in Int /\ Gap(c) \in Nat /\ Len(Text(nb)) \in Nat
  <2>1. Text(nb) \in Seq(Words) /\ Len(Text(nb)) = Off(Lines(nb), Len(nb))
        BY <1>2, TextTyped
  <2> QED BY <1>1, <1>4, <2>1, GapTyped, LenProperties DEF EndsAt, Places
<1>7. Covers(c, Text(nb), Flush(st).pieces)
      BY <1>6, CoversWhenPlaced
<1> QED BY <1>1, <1>5, <1>7 DEF Text

(* ---- the packing goes on with prose only and cuts tables out ---------- *)
TextsOf(bs, kind) == {bs[i].text : i \in {i \in DOMAIN bs : bs[i].kind = kind}}
GoesOn(bs, p) ==
    /\ \A j \in 2 .. Len(p.lines) : p.lines[j] \in TextsOf(bs, "prose")
    /\ p.skip => Len(p.lines) = 1 /\ p.lines[1] \in TextsOf(bs, "table")
AllGoOn(bs, ps) == \A i \in DOMAIN ps : GoesOn(bs, ps[i])
Skips(ps) == {i \in DOMAIN ps : ps[i].skip}
Tables(bs, k) == {i \in 1 .. k : bs[i].kind = "table"}
Divides(bs, ps, k) ==
    AllGoOn(bs, ps) /\ Cardinality(Skips(ps)) = Cardinality(Tables(bs, k))
ProseAfter(bs, pending, k) ==
    \E j \in 0 .. k :
        pending = Span(bs, j, k) /\ \A i \in j + 2 .. k : bs[i].kind = "prose"

LEMMA SetsOfIndices ==
    ASSUME NEW n \in Nat, NEW S \in SUBSET (1 .. n)
    PROVE  IsFiniteSet(S) /\ Cardinality(S) \in Nat
<1>1. IsFiniteSet(1 .. n)
      BY FS_Interval
<1> QED BY <1>1, FS_Subset, FS_CardinalityType

LEMMA OneMoreIndex ==
    ASSUME NEW n \in Nat, NEW S \in SUBSET (1 .. n), NEW top, top = n + 1
    PROVE  Cardinality(S \cup {top}) = Cardinality(S) + 1
<1>1. IsFiniteSet(S) /\ Cardinality(S) \in Nat
      BY SetsOfIndices
<1>2. top \notin S
      OBVIOUS
<1> QED BY <1>1, <1>2, FS_AddElement

LEMMA SkipsOfMore ==
    ASSUME NEW bs, NEW ps \in Seq(Piece), AllGoOn(bs, ps), NEW x \in Piece, GoesOn(bs, x)
    PROVE  /\ AllGoOn(bs, Append(ps, x))
           /\ x.skip => Cardinality(Skips(Append(ps, x))) = Cardinality(Skips(ps)) + 1
           /\ ~x.skip => Cardinality(Skips(Append(ps, x))) = Cardinality(Skips(ps))
<1>1. PICK n, more, top : n = Len(ps) /\ more = Append(ps, x) /\ top = n + 1
      OBVIOUS
<1>2. /\ more \in Seq(Piece) /\ Len(more) = top /\ n \in Nat
      /\ \A i \in 1 .. n : more[i] = ps[i]
      /\ more[top] = x
      BY <1>1, AppendProperties, LenProperties
<1>3. DOMAIN ps = 1 .. n /\ DOMAIN more = 1 .. top
      BY <1>1, <1>2, LenProperties
<1>4. ASSUME NEW i \in 1 .. top PROVE GoesOn(bs, more[i])
  <2>1. CASE i = top
        BY <1>2, <2>1
  <2>2. CASE i # top
    <3>1. i \in 1 .. n
          BY <1>1, <1>2, <2>2
    <3> QED BY <1>2, <1>3, <3>1 DEF AllGoOn
  <2> QED BY <2>1, <2>2
<1>5. AllGoOn(bs, more)
      BY <1>3, <1>4 DEF AllGoOn
<1>6. Skips(ps) \in SUBSET (1 .. n)
      BY <1>3 DEF Skips
<1>7. ASSUME x.skip PROVE Cardinality(Skips(more)) = Cardinality(Skips(ps)) + 1
  <2>1. Skips(more) = Skips(ps) \cup {top}
        BY <1>1, <1>2, <1>3, <1>7 DEF Skips
  <2> QED BY <1>1, <1>2, <1>6, <2>1, OneMoreIndex
<1>8. ASSUME ~x.skip PROVE Skips(more) = Skips(ps)
      BY <1>1, <1>2, <1>3, <1>8 DEF Skips
<1> QED BY <1>1, <1>5, <1>7, <1>8

LEMMA SkipsOfTwo ==
    ASSUME NEW bs, NEW ps \in Seq(Piece), AllGoOn(bs, ps), NEW qs \in Seq(Piece),
           \A i \in DOMAIN qs : ~qs[i].skip /\ Len(qs[i].lines) = 1
    PROVE  AllGoOn(bs, ps \o qs) /\ Skips(ps \o qs) = Skips(ps)
<1>1. PICK n, m, both : n = Len(ps) /\ m = Len(qs) /\ both = ps \o qs
      OBVIOUS
<1>2. /\ both \in Seq(Piece) /\ Len(both) = n + m /\ n \in Nat /\ m \in Nat
      /\ \A i \in 1 .. n + m : both[i] = IF i <= n THEN ps[i] ELSE qs[i - n]
      BY <1>1, ConcatProperties, LenProperties
<1>3. DOMAIN ps = 1 .. n /\ DOMAIN qs = 1 .. m /\ DOMAIN both = 1 .. n + m
      BY <1>1, <1>2, LenProperties
<1>4. ASSUME NEW i \in 1 .. n + m
      PROVE  GoesOn(bs, both[i]) /\ (both[i].skip <=> i \in Skips(ps))
  <2>1. CASE i <= n
    <3>1. i \in 1 .. n /\ both[i] = ps[i]
          BY <1>2, <2>1
    <3> QED BY <1>3, <3>1 DEF AllGoOn, Skips
  <2>2. CASE ~(i <= n)
    <3>1. PICK j : j = i - n
          OBVIOUS
    <3>2. j \in 1 .. m /\ both[i] = qs[j] /\ i \notin 1 .. n
          BY <1>2, <2>2, <3>1
    <3>3. ~both[i].skip /\ Len(both[i].lines) = 1
          BY <1>3, <3>2
    <3>4. 2 .. Len(both[i].lines) = {}
          BY <3>3
    <3>5. GoesOn(bs, both[i])
          BY <3>3, <3>4 DEF GoesOn
    <3>6. i \notin Skips(ps)
          BY <1>3, <3>2 DEF Skips
    <3> QED BY <3>3, <3>5, <3>6
  <2> QED BY <2>1, <2>2
<1>5. AllGoOn(bs, both)
      BY <1>3, <1>4 DEF AllGoOn
<1>6. Skips(ps) \subseteq 1 .. n + m
      BY <1>2, <1>3 DEF Skips
<1>7. Skips(both) = {i \in 1 .. n + m : both[i].skip}
      BY <1>3 DEF Skips
<1>8. Skips(both) = Skips(ps)
  <2>1. \A i \in 1 .. n + m : both[i].skip <=> i \in Skips(ps)
        BY <1>4
  <2> QED BY ONLY <1>6, <1>7, <2>1
<1> QED BY <1>1, <1>5, <1>8

LEMMA TablesOfMore ==
    ASSUME NEW bs, NEW k \in Nat, k # 0
    PROVE  /\ bs[k].kind = "table" =>
                Cardinality(Tables(bs, k)) = Cardinality(Tables(bs, k - 1)) + 1
           /\ bs[k].kind # "table" => Tables(bs, k) = Tables(bs, k - 1)
<1>1. PICK m : m = k - 1
      OBVIOUS
<1>2. m \in Nat /\ k = m + 1 /\ Tables(bs, m) \in SUBSET (1 .. m)
      BY <1>1 DEF Tables
<1>3. ASSUME bs[k].kind = "table" PROVE Tables(bs, k) = Tables(bs, m) \cup {k}
      BY <1>2, <1>3 DEF Tables
<1>4. ASSUME bs[k].kind # "table" PROVE Tables(bs, k) = Tables(bs, m)
      BY <1>2, <1>4 DEF Tables
<1>5. Cardinality(Tables(bs, m) \cup {k}) = Cardinality(Tables(bs, m)) + 1
      BY <1>2, OneMoreIndex
<1> QED BY <1>1, <1>3, <1>4, <1>5

LEMMA FlushDivides ==
    ASSUME NEW c, NEW bs \in Seq(Block), NEW k \in 0 .. Len(bs), NEW st \in Packed(c),
           Divides(bs, st.pieces, k), ProseAfter(bs, st.pending, k)
    PROVE  Divides(bs, Flush(st).pieces, k) /\ Flush(st).pieces \in Seq(Piece)
<1>0. st.pending \in Seq(Block) /\ st.pieces \in Seq(Piece) /\ Flush(st).pieces \in Seq(Piece)
      BY FlushKeeps DEF Packed
<1>1. CASE st.pending = <<>>
  <2>1. Flush(st).pieces = st.pieces
        BY <1>1 DEF Flush
  <2> QED BY <1>0, <2>1
<1>2. CASE st.pending # <<>>
  <2>1. PICK x : x = Chunk(Lines(st.pending), FALSE)
        OBVIOUS
  <2>2. Flush(st).pieces = Append(st.pieces, x)
        BY <1>2, <2>1 DEF Flush
  <2>3. x \in Piece /\ x.lines = Lines(st.pending) /\ ~x.skip
        BY <1>0, <2>1, LinesTyped, ChunkTyped
  <2>4. PICK j \in 0 .. k :
           st.pending = Span(bs, j, k) /\ \A i \in j + 2 .. k : bs[i].kind = "prose"
        BY DEF ProseAfter
  <2>5. /\ j \in Nat /\ k \in Nat /\ Len(bs) \in Nat
        /\ Len(Span(bs, j, k)) = k - j
        /\ \A i \in 1 .. k - j : Span(bs, j, k)[i] = bs[j + i]
        BY SpanTyped
  <2>6. /\ Len(x.lines) = k - j
        /\ \A i \in 1 .. k - j : x.lines[i] = st.pending[i].text
        BY <1>0, <2>3, <2>4, <2>5, LinesTyped
  <2>7. ASSUME NEW i \in 2 .. Len(x.lines) PROVE x.lines[i] \in TextsOf(bs, "prose")
    <3>1. PICK y : y = j + i
          OBVIOUS
    <3>2. i \in 1 .. k - j /\ y \in j + 2 .. k /\ y \in 1 .. Len(bs)
          BY <2>5, <2>6, <3>1
    <3>3. x.lines[i] = bs[y].text /\ bs[y].kind = "prose"
          BY <2>4, <2>5, <2>6, <3>1, <3>2
    <3>4. y \in DOMAIN bs
          BY <3>2, LenProperties
    <3> QED BY <3>3, <3>4 DEF TextsOf
  <2>8. GoesOn(bs, x)
        BY <2>3, <2>7 DEF GoesOn
  <2>9. /\ AllGoOn(bs, Append(st.pieces, x))
        /\ Cardinality(Skips(Append(st.pieces, x))) = Cardinality(Skips(st.pieces))
        BY <1>0, <2>3, <2>8, SkipsOfMore DEF Divides
  <2> QED BY <1>0, <2>2, <2>9 DEF Divides
<1> QED BY <1>1, <1>2

LEMMA SlidesAreSingle ==
    ASSUME NEW c, IsConfig(c), NEW text \in Seq(Words)
    PROVE  \A i \in DOMAIN Slides(c, text) :
              ~Slides(c, text)[i].skip /\ Len(Slides(c, text)[i].lines) = 1
<1>1. PICK ws : ws = Slides(c, text)
      OBVIOUS
<1>2. PICK n : ws = [i \in 1 .. n |-> Chunk(<<Window(text, i - 1, c)>>, FALSE)]
  <2> DEFINE starts == {i \in 0 .. Len(text) : /\ i = 0 \/ (i - 1) * c.stride + c.size < Len(text)
                                               /\ Window(text, i, c) # <<>>}
  <2>1. ws = [i \in 1 .. Cardinality(starts) |-> Chunk(<<Window(text, i - 1, c)>>, FALSE)]
        BY <1>1 DEF Slides
  <2> HIDE DEF starts
  <2> QED BY <2>1
<1>3. ASSUME NEW i \in DOMAIN ws PROVE ~ws[i].skip /\ Len(ws[i].lines) = 1
  <2>1. PICK l : l = <<Window(text, i - 1, c)>>
        OBVIOUS
  <2>2. ws[i] = Chunk(l, FALSE)
        BY <1>2, <2>1
  <2>3. ws[i].lines = l /\ ws[i].skip = FALSE
        BY <2>2 DEF Chunk
  <2>4. Len(l) = 1
        BY <2>1
  <2> QED BY <2>3, <2>4
<1> QED BY <1>1, <1>3

LEMMA PackDivides ==
    ASSUME NEW c, IsConfig(c), NEW bs \in Seq(Block), NEW k \in 1 .. Len(bs),
           NEW st \in Packed(c), Divides(bs, st.pieces, k - 1), ProseAfter(bs, st.pending, k - 1)
    PROVE  /\ Divides(bs, Pack(c, st, bs[k]).pieces, k)
           /\ ProseAfter(bs, Pack(c, st, bs[k]).pending, k)
<1>0. PICK b, m : b = bs[k] /\ m = k - 1
      OBVIOUS
<1>1. /\ Len(bs) \in Nat /\ k \in 0 .. Len(bs) /\ m \in 0 .. Len(bs)
      /\ m \in Nat /\ k \in Nat /\ k # 0 /\ k = m + 1 /\ k \in DOMAIN bs
      BY <1>0, LenProperties
<1>2. b \in Block /\ b.text \in Seq(Words)
  <2>1. b \in Block
        BY <1>0, <1>1, ElementOfSeq
  <2> QED BY <2>1 DEF Block
<1>3. PICK ps : ps = Flush(st).pieces
      OBVIOUS
<1>4. Divides(bs, ps, m) /\ ps \in Seq(Piece)
      BY <1>0, <1>1, <1>3, FlushDivides
<1>5. ASSUME b.kind # "table" PROVE Tables(bs, k) = Tables(bs, m)
      BY <1>0, <1>1, <1>5, TablesOfMore
<1>6. \A pd, qs : State(pd, qs).pending = pd /\ State(pd, qs).pieces = qs
      BY DEF State
<1>7. ProseAfter(bs, <<>>, k)
  <2>1. PICK e : e = <<>>
        OBVIOUS
  <2>2. Span(bs, k, k) = e
        BY <1>1, <2>1, SpanOfNone
  <2>3. k \in 0 .. k /\ k + 2 .. k = {}
        BY <1>1
  <2>4. ProseAfter(bs, e, k)
        BY <2>2, <2>3 DEF ProseAfter
  <2> QED BY <2>1, <2>4
<1>8. CASE b.kind = "table"
  <2>1. PICK l, x : l = <<b.text>> /\ x = Chunk(l, TRUE)
        OBVIOUS
  <2>2. l \in Seq(Seq(Words)) /\ Len(l) = 1 /\ l[1] = b.text
        BY <1>2, <2>1
  <2>3. x \in Piece /\ x.lines = l /\ x.skip
        BY <2>1, <2>2, ChunkTyped
  <2>4. GoesOn(bs, x)
    <3>0. Len(x.lines) = 1
          BY <2>2, <2>3
    <3>1. 2 .. Len(x.lines) = {} /\ Len(x.lines) = 1
          BY <3>0
    <3>2. x.lines[1] \in TextsOf(bs, "table")
          BY <1>0, <1>1, <1>8, <2>2, <2>3 DEF TextsOf
    <3> QED BY <3>1, <3>2 DEF GoesOn
  <2>5. Pack(c, st, b) = State(<<>>, Append(ps, x))
        BY <1>2, <1>3, <1>8, <2>1, PackIs
  <2>6. /\ AllGoOn(bs, Append(ps, x))
        /\ Cardinality(Skips(Append(ps, x))) = Cardinality(Skips(ps)) + 1
        BY <1>4, <2>3, <2>4, SkipsOfMore DEF Divides
  <2>7. Cardinality(Tables(bs, k)) = Cardinality(Tables(bs, m)) + 1
        BY <1>0, <1>1, <1>8, TablesOfMore
  <2>8. Divides(bs, Append(ps, x), k)
        BY <1>4, <2>6, <2>7 DEF Divides
  <2> QED BY <1>0, <1>6, <1>7, <2>5, <2>8
<1>9. CASE b.kind = "title"
  <2>1. Pack(c, st, b) = State(<<b>>, ps)
        BY <1>2, <1>3, <1>9, PackIs
  <2>2. Divides(bs, ps, k)
        BY <1>4, <1>5, <1>9 DEF Divides
  <2>3. PICK pd : pd = <<b>>
        OBVIOUS
  <2>4. ProseAfter(bs, pd, k)
    <3>1. Span(bs, m, k) = pd
          BY <1>0, <1>1, <2>3, SpanOfOne
    <3>2. m \in 0 .. k /\ m + 2 .. k = {}
          BY <1>1
    <3> QED BY <3>1, <3>2 DEF ProseAfter
  <2> QED BY <1>0, <1>6, <2>1, <2>2, <2>3, <2>4
<1>10. CASE IsLong(c, b)
  <2>1. PICK qs : qs = ps \o Slides(c, b.text)
        OBVIOUS
  <2>2. Pack(c, st, b) = State(<<>>, qs)
        BY <1>2, <1>3, <1>10, <2>1, PackIs
  <2>3. AllGoOn(bs, qs) /\ Skips(qs) = Skips(ps)
        BY <1>2, <1>4, <2>1, SlidesBounded, SlidesAreSingle, SkipsOfTwo DEF Divides
  <2>4. Divides(bs, qs, k)
        BY <1>4, <1>5, <1>10, <2>3 DEF Divides, IsLong
  <2> QED BY <1>0, <1>6, <1>7, <2>2, <2>4
<1>11. ASSUME NEW j \in 0 .. m, \A i \in j + 2 .. m : bs[i].kind = "prose", b.kind = "prose"
       PROVE  ProseAfter(bs, Append(Span(bs, j, m), b), k)
  <2>1. j \in 0 .. k - 1 /\ j \in 0 .. k
        BY <1>0, <1>1
  <2>2. Span(bs, j, k) = Append(Span(bs, j, m), b)
    <3>1. Span(bs, j, k) = Append(Span(bs, j, k - 1), bs[k])
          BY <2>1, SpanOfMore
    <3> QED BY <1>0, <3>1
  <2>3. ASSUME NEW i \in j + 2 .. k PROVE bs[i].kind = "prose"
    <3>1. i = k \/ i \in j + 2 .. m
          BY <1>1
    <3> QED BY <1>0, <1>11, <3>1
  <2> QED BY <2>1, <2>2, <2>3 DEF ProseAfter
<1>12. PICK j \in 0 .. m :
          st.pending = Span(bs, j, m) /\ \A i \in j + 2 .. m : bs[i].kind = "prose"
       BY <1>0 DEF ProseAfter
<1>13. CASE IsFull(c, st, b)
  <2>1. j \in Nat /\ Len(st.pending) = m - j /\ st.pending \in Seq(Block) /\ st.pending # <<>>
    <3>1. PICK s : s = Span(bs, j, m)
          OBVIOUS
    <3>2. m \in 0 .. Len(bs)
          BY <1>1
    <3>3. s \in Seq(Block) /\ Len(s) = m - j /\ j \in Nat
          BY <1>1, <3>1, <3>2, SpanTyped
    <3>4. st.pending # <<>>
          BY <1>13 DEF IsFull
    <3> QED BY <1>12, <3>1, <3>3, <3>4
  <2>2. PICK n \in 0 .. Len(st.pending) - 1 : Carried(c, st.pending) = LastBlocks(st.pending, n)
        BY <2>1, CarriedFits
  <2>3. PICK i : i = m - n
        OBVIOUS
  <2>4. i \in 0 .. m /\ n \in 0 .. m - j /\ j < i
    <3>1. PICK x : x = Len(st.pending)
          OBVIOUS
    <3>2. x = m - j /\ n \in 0 .. x - 1 /\ j \in Nat /\ m \in Nat
          BY <1>1, <2>1, <3>1
    <3>3. m - n \in 0 .. m /\ n \in 0 .. m - j /\ j < m - n
          BY ONLY <3>2
    <3> QED BY <2>3, <3>3
  <2>5. Carried(c, st.pending) = Span(bs, i, m)
        BY <1>1, <1>12, <2>2, <2>3, <2>4, LastOfSpan
  <2>6. \A y \in i + 2 .. m : y \in j + 2 .. m
        BY <1>1, <2>1, <2>4
  <2>7. ProseAfter(bs, Append(Span(bs, i, m), b), k)
        BY <1>11, <1>12, <1>13, <2>4, <2>6 DEF IsFull
  <2>8. Pack(c, st, b) = State(Append(Carried(c, st.pending), b), ps)
        BY <1>2, <1>3, <1>13, PackIs
  <2>9. Divides(bs, ps, k)
        BY <1>4, <1>5, <1>13 DEF Divides, IsFull
  <2> QED BY <1>0, <1>6, <2>5, <2>7, <2>8, <2>9
<1>14. CASE IsFitting(c, st, b)
  <2>1. Pack(c, st, b) = State(Append(st.pending, b), st.pieces)
        BY <1>2, <1>14, PackIs
  <2>2. Divides(bs, st.pieces, k)
        BY <1>0, <1>5, <1>14 DEF Divides, IsFitting
  <2>3. ProseAfter(bs, Append(st.pending, b), k)
        BY <1>11, <1>12, <1>14 DEF IsFitting
  <2> QED BY <1>0, <1>6, <2>1, <2>2, <2>3
<1> QED BY <1>2, <1>8, <1>9, <1>10, <1>13, <1>14, PackIs

(* So after every block, which is after the last one too.                  *)
LEMMA PackingDivides ==
    ASSUME NEW c, IsConfig(c), NEW bs \in Seq(Block)
    PROVE  /\ Packing(c, bs) \in Packed(c)
           /\ Divides(bs, Packing(c, bs).pieces, Len(bs))
           /\ ProseAfter(bs, Packing(c, bs).pending, Len(bs))
<1>0. Len(bs) \in Nat
      BY LenProperties
<1>1. PICK h : PacksStages(h, c, bs) /\ Packing(c, bs) = h[Len(bs)]
      BY PackingStages
<1> DEFINE Good(k) == Divides(bs, h[k].pieces, k) /\ ProseAfter(bs, h[k].pending, k)
           P == {k \in Nat : k <= Len(bs) => Good(k)}
<1>2. 0 \in P
  <2>1. PICK e, z : e = <<>> /\ z = 0
        OBVIOUS
  <2>2. h[z].pieces = e /\ h[z].pending = e
        BY <1>1, <2>1 DEF PacksStages, Unpacked
  <2>3. z \in 0 .. Len(bs) /\ z \in 0 .. z /\ DOMAIN e = {} /\ z + 2 .. z = {}
        BY <1>0, <2>1
  <2>4. Span(bs, z, z) = e
        BY <2>1, <2>3, SpanOfNone
  <2>5. ProseAfter(bs, e, z)
        BY <2>3, <2>4 DEF ProseAfter
  <2>6. Skips(e) = {} /\ AllGoOn(bs, e)
        BY <2>3 DEF Skips, AllGoOn
  <2>7. Tables(bs, z) = {}
        BY <2>1 DEF Tables
  <2>8. Divides(bs, e, z)
        BY <2>6, <2>7 DEF Divides
  <2>9. Good(0)
        BY <2>1, <2>2, <2>5, <2>8
  <2> HIDE DEF Good
  <2> QED BY <2>9
<1> HIDE DEF Good
<1>3. ASSUME NEW k \in Nat, k \in P PROVE k + 1 \in P
  <2> SUFFICES ASSUME k + 1 <= Len(bs) PROVE Good(k + 1)
      OBVIOUS
  <2>1. PICK x, st : x = k + 1 /\ st = h[k]
        OBVIOUS
  <2>2. x \in 1 .. Len(bs) /\ x - 1 = k /\ k \in 0 .. Len(bs) /\ k <= Len(bs)
        BY <1>0, <2>1
  <2>3. st \in Packed(c) /\ h[x] = Pack(c, st, bs[x])
        BY <1>1, <2>1, <2>2 DEF PacksStages
  <2>4. Divides(bs, st.pieces, x - 1) /\ ProseAfter(bs, st.pending, x - 1)
    <3>1. Good(k)
          BY <1>3, <2>2
    <3> QED BY <2>1, <2>2, <3>1 DEF Good
  <2>5. /\ Divides(bs, Pack(c, st, bs[x]).pieces, x)
        /\ ProseAfter(bs, Pack(c, st, bs[x]).pending, x)
        BY <2>2, <2>3, <2>4, PackDivides
  <2>6. Good(x)
        BY <2>3, <2>5 DEF Good
  <2> QED BY <2>1, <2>6
<1>4. P = Nat
  <2>1. P \in SUBSET Nat
        OBVIOUS
  <2> HIDE DEF P
  <2> QED BY <1>2, <1>3, <2>1, Stepwise
<1>5. Len(bs) \in 0 .. Len(bs) /\ Good(Len(bs))
      BY <1>0, <1>4
<1> QED BY <1>1, <1>5 DEF PacksStages, Good

(* The chunks of blocks go on with prose only, and are its tables.         *)
LEMMA ChunkBlocksPart ==
    ASSUME NEW c, IsConfig(c), NEW bs \in Seq(Block)
    PROVE  Parted(Nonblank(bs), ChunkBlocks(c, bs))
<1>1. PICK nb, st, n, ps : nb = Nonblank(bs) /\ st = Packing(c, nb) /\ n = Len(nb) /\ ps = Flush(st).pieces
      OBVIOUS
<1>2. nb \in Seq(Block)
      BY <1>1, NonblankTyped
<1>3. n \in 0 .. Len(nb) /\ DOMAIN nb = 1 .. n
      BY <1>1, <1>2, LenProperties
<1>4. st \in Packed(c) /\ Divides(nb, st.pieces, n) /\ ProseAfter(nb, st.pending, n)
      BY <1>1, <1>2, PackingDivides
<1>5. Divides(nb, ps, n)
      BY <1>1, <1>2, <1>3, <1>4, FlushDivides
<1>6. ChunkBlocks(c, bs) = ps
      BY <1>1 DEF ChunkBlocks, Packing, Unpacked
<1>7. \A i \in DOMAIN ps : GoesOn(nb, ps[i])
      BY <1>5 DEF Divides, AllGoOn
<1>8. Cardinality({i \in DOMAIN ps : ps[i].skip})
         = Cardinality({i \in DOMAIN nb : nb[i].kind = "table"})
      BY <1>3, <1>5 DEF Divides, Skips, Tables
<1>9. Parted(nb, ps)
      BY <1>7, <1>8, Zenon DEF Parted, GoesOn, TextsOf
<1> QED BY <1>1, <1>6, <1>9

(* ---- questions and answers -------------------------------------------- *)
(* The next index is a greater one, and the first is the least.            *)
LEMMA NthGrows ==
    ASSUME NEW n \in Nat, NEW I \in SUBSET (1 .. n), NEW k \in 1 .. Cardinality(I) - 1
    PROVE  Nth(I, k) < Nth(I, k + 1)
<1>0. Cardinality(I) \in Nat
      BY NthExists
<1>1. PICK x, a, b : x = k + 1 /\ a = Nth(I, k) /\ b = Nth(I, x)
      OBVIOUS
<1>2. k \in 1 .. Cardinality(I) /\ x \in 1 .. Cardinality(I)
      BY <1>0, <1>1
<1>3. /\ a \in I /\ Cardinality({j \in I : j <= a}) = k
      /\ b \in I /\ Cardinality({j \in I : j <= b}) = x
      BY <1>1, <1>2, NthExists
<1>4. a \in Nat /\ b \in Nat /\ I \subseteq Nat
      BY <1>3
<1> SUFFICES ASSUME b <= a PROVE FALSE
    BY <1>1, <1>4
<1>5. PICK S, T : S = {j \in I : j <= a} /\ T = {j \in I : j <= b}
      OBVIOUS
<1>6. S \in SUBSET (1 .. n) /\ T \in SUBSET S
  <2>1. \A j \in Nat : j <= b => j <= a
        BY <1>4
  <2> QED BY <1>4, <1>5, <2>1
<1>7. IsFiniteSet(S)
      BY <1>6, SetsOfIndices
<1>8. Cardinality(T) <= Cardinality(S)
      BY <1>6, <1>7, FS_Subset
<1> QED BY <1>1, <1>3, <1>5, <1>8

LEMMA NthOfOne ==
    ASSUME NEW n \in Nat, NEW I \in SUBSET (1 .. n), Cardinality(I) # 0
    PROVE  Nth(I, 1) = Min(I) /\ 1 \in 1 .. Cardinality(I)
<1>0. Cardinality(I) \in Nat
      BY NthExists
<1>1. PICK a, o : a = Nth(I, 1) /\ o = 1
      OBVIOUS
<1>2. o \in 1 .. Cardinality(I)
      BY <1>0, <1>1
<1>3. a \in I /\ Cardinality({j \in I : j <= a}) = 1 /\ a \in Nat
  <2>1. Nth(I, o) \in I /\ Cardinality({j \in I : j <= Nth(I, o)}) = o
        BY <1>2, NthExists
  <2>2. a \in I /\ Cardinality({j \in I : j <= a}) = 1
        BY <1>1, <2>1
  <2> QED BY <2>2
<1>4. ASSUME NEW y \in I PROVE a <= y
  <2> SUFFICES ASSUME y < a PROVE FALSE
      BY <1>3
  <2>1. PICK S : S = {j \in I : j <= a}
        OBVIOUS
  <2>2. S \in SUBSET (1 .. n) /\ y \in S /\ a \in S /\ y # a
    <3>1. y \in Nat /\ y <= a /\ a <= a /\ y # a
          BY <1>3
    <3> QED BY <1>3, <2>1, <3>1
  <2>3. IsFiniteSet(S)
        BY <2>2, SetsOfIndices
  <2>4. IsFiniteSet(S \ {a}) /\ Cardinality(S \ {a}) = 0
    <3>1. Cardinality(S \ {a}) = Cardinality(S) - 1 /\ IsFiniteSet(S \ {a})
          BY <2>2, <2>3, FS_RemoveElement
    <3> QED BY <1>3, <2>1, <3>1
  <2>5. S \ {a} = {}
        BY <2>4, FS_EmptySet
  <2> QED BY <2>2, <2>5
<1>5. Min(I) = a
  <2>1. Min(I) \in I /\ \A y \in I : Min(I) <= y
    <3>1. \E x \in I : \A y \in I : x =< y
          BY <1>3, <1>4
    <3> QED BY <3>1 DEF Min
  <2>2. a <= Min(I) /\ Min(I) <= a /\ Min(I) \in Nat
        BY <1>3, <1>4, <2>1, I \subseteq Nat
  <2> QED BY <1>3, <2>2
<1> QED BY <1>1, <1>2, <1>5

Pair(c, seg) ==
    IF Tokens(seg) <= c.size \/ c.size <= 0 THEN <<Chunk(seg, FALSE)>>
    ELSE AnswerSlides(c, FlattenSeq(seg))
Borders(lines, n, cut) ==
    /\ cut \in [0 .. n -> 0 .. Len(lines)]
    /\ cut[0] = Min(Marks(lines)) - 1 /\ cut[n] = Len(lines)
    /\ \A i \in 1 .. n : cut[i - 1] < cut[i]
PairsAt(c, lines, n, cut) == [i \in 1 .. n |-> Pair(c, Span(lines, cut[i - 1], cut[i]))]
IsPaired(c, lines, n, chunks) ==
    \E cut : Borders(lines, n, cut) /\ chunks = FlattenSeq(PairsAt(c, lines, n, cut))

(* With two questions, one from each to the next; with less, the packing.  *)
LEMMA QAIs ==
    ASSUME NEW c, IsConfig(c), NEW bs \in Seq(Block), NEW lines, lines = Lines(Nonblank(bs)),
           NEW n, n = Cardinality(Marks(lines))
    PROVE  /\ n \in Nat
           /\ ~(n > 1) => QA(c, bs) = ChunkBlocks(c, bs)
           /\ n > 1 => IsPaired(c, lines, n, QA(c, bs))
<1> DEFINE marks == InOrder(Marks(lines))
           Until(i) == IF i < Len(marks) THEN marks[i + 1] - 1 ELSE Len(lines)
           Seg(i) == SubSeq(lines, marks[i], Until(i))
           PairOf(i) == IF Tokens(Seg(i)) <= c.size \/ c.size <= 0 THEN <<Chunk(Seg(i), FALSE)>>
                       ELSE AnswerSlides(c, FlattenSeq(Seg(i)))
           pairs == [i \in DOMAIN marks |-> PairOf(i)]
<1>1. lines \in Seq(Seq(Words)) /\ Len(lines) \in Nat /\ DOMAIN lines = 1 .. Len(lines)
  <2>1. lines \in Seq(Seq(Words))
        BY NonblankTyped, LinesTyped
  <2> QED BY <2>1, LenProperties
<1>2. PICK M : M = Marks(lines)
      OBVIOUS
<1>3. M \in SUBSET (1 .. Len(lines))
      BY <1>1, <1>2 DEF Marks
<1>4. n \in Nat /\ \A k \in 1 .. n : Nth(M, k) \in 1 .. Len(lines)
  <2>1. n = Cardinality(M)
        BY <1>2
  <2> QED BY <1>1, <1>3, <2>1, NthExists
<1>5. marks = [k \in 1 .. n |-> Nth(M, k)]
      BY <1>2 DEF InOrder
<1> HIDE DEF marks
<1>6. DOMAIN marks = 1 .. n /\ Len(marks) = n
  <2>1. marks \in [1 .. n -> 1 .. Len(lines)]
        BY <1>4, <1>5
  <2>2. marks \in Seq(1 .. Len(lines)) /\ Len(marks) = n
        BY <1>4, <2>1
  <2> QED BY <2>1, <2>2
<1>7. QA(c, bs) = IF Len(marks) < 2 THEN ChunkBlocks(c, bs) ELSE FlattenSeq(pairs)
      BY DEF QA, PairOf, Seg, marks
<1>8. ASSUME ~(n > 1) PROVE QA(c, bs) = ChunkBlocks(c, bs)
      BY <1>4, <1>6, <1>7, <1>8
<1>9. ASSUME n > 1 PROVE IsPaired(c, lines, n, QA(c, bs))
  <2>0. PICK cut : cut = [i \in 0 .. n |-> IF i < n THEN marks[i + 1] - 1 ELSE Len(lines)]
        OBVIOUS
  <2>1. \A i \in 0 .. n - 1 : i + 1 \in 1 .. n /\ marks[i + 1] \in 1 .. Len(lines)
                              /\ cut[i] = marks[i + 1] - 1
    <3> TAKE i \in 0 .. n - 1
    <3>1. i + 1 \in 1 .. n /\ i \in 0 .. n /\ i < n
          BY <1>4
    <3>2. marks[i + 1] \in 1 .. Len(lines)
          BY <1>4, <1>5, <3>1
    <3> QED BY <2>0, <3>1, <3>2
  <2>2. cut[n] = Len(lines) /\ n \in 0 .. n
        BY <1>4, <2>0
  <2>3. cut \in [0 .. n -> 0 .. Len(lines)]
    <3>1. ASSUME NEW i \in 0 .. n
          PROVE  (IF i < n THEN marks[i + 1] - 1 ELSE Len(lines)) \in 0 .. Len(lines)
      <4>1. CASE i = n
            BY <1>1, <1>4, <4>1
      <4>2. CASE i # n
        <5>1. i \in 0 .. n - 1
              BY <1>4, <4>2
        <5>2. marks[i + 1] \in 1 .. Len(lines)
              BY <2>1, <5>1
        <5> QED BY <1>1, <5>2
      <4> QED BY <4>1, <4>2
    <3> QED BY <2>0, <3>1
  <2>4. cut[0] = Min(M) - 1
    <3>1. Cardinality(M) # 0
          BY <1>2, <1>4, <1>9
    <3>2. Nth(M, 1) = Min(M)
          BY <1>1, <1>3, <3>1, NthOfOne
    <3>3. 0 \in 0 .. n - 1 /\ 1 \in 1 .. n
          BY <1>4, <1>9
    <3>4. cut[0] = marks[0 + 1] - 1 /\ 0 + 1 = 1
          BY <2>1, <3>3
    <3> QED BY <1>5, <3>2, <3>3, <3>4
  <2>5. ASSUME NEW i \in 1 .. n PROVE cut[i - 1] < cut[i]
    <3>1. PICK j, y : j = i - 1 /\ y = i + 1
          OBVIOUS
    <3>2. j \in 0 .. n - 1 /\ j + 1 = i
          BY <1>4, <3>1
    <3>3. cut[j] = marks[i] - 1 /\ marks[i] \in 1 .. Len(lines)
          BY <2>1, <3>2
    <3>4. CASE i = n
      <4>1. PICK x, l : x = marks[i] /\ l = Len(lines)
            OBVIOUS
      <4>2. cut[j] = x - 1 /\ cut[i] = l /\ x \in 1 .. l /\ l \in Nat
            BY <1>1, <2>2, <3>3, <3>4, <4>1
      <4>3. x - 1 < l
            BY ONLY <4>2
      <4> QED BY <3>1, <4>2, <4>3
    <3>5. CASE i # n
      <4>1. i \in 0 .. n - 1 /\ i \in 1 .. Cardinality(M) - 1 /\ y \in 1 .. n
            BY <1>2, <1>4, <3>1, <3>5
      <4>2. cut[i] = marks[y] - 1 /\ marks[y] \in 1 .. Len(lines)
            BY <2>1, <3>1, <4>1
      <4>3. Nth(M, i) < Nth(M, i + 1)
            BY <1>1, <1>3, <4>1, NthGrows
      <4>4. marks[i] < marks[y]
            BY <1>5, <3>1, <4>1, <4>3
      <4> QED BY <3>1, <3>3, <4>2, <4>4
    <3> QED BY <3>4, <3>5
  <2>6. Borders(lines, n, cut)
        BY <1>2, <2>2, <2>3, <2>4, <2>5 DEF Borders
  <2>7. ASSUME NEW i \in 1 .. n PROVE PairOf(i) = Pair(c, Span(lines, cut[i - 1], cut[i]))
    <3>1. PICK j : j = i - 1
          OBVIOUS
    <3>2. j \in 0 .. n - 1 /\ j + 1 = i /\ i \in 0 .. n
          BY <1>4, <3>1
    <3>3. cut[j] + 1 = marks[i]
      <4>1. cut[j] = marks[i] - 1 /\ marks[i] \in 1 .. Len(lines)
            BY <2>1, <3>2
      <4> QED BY <4>1
    <3>4. cut[i] = Until(i)
          BY <1>6, <2>0, <3>2
    <3>5. Seg(i) = Span(lines, cut[j], cut[i])
          BY <3>3, <3>4 DEF Span
    <3> HIDE DEF Seg
    <3> QED BY <3>1, <3>5 DEF Pair
  <2>8. pairs = PairsAt(c, lines, n, cut)
    <3> HIDE DEF PairOf
    <3> QED BY <1>6, <2>7 DEF PairsAt
  <2>9. QA(c, bs) = FlattenSeq(PairsAt(c, lines, n, cut))
    <3>1. ~(Len(marks) < 2)
          BY <1>4, <1>6, <1>9
    <3> HIDE DEF pairs
    <3> QED BY <1>7, <2>8, <3>1
  <2> QED BY <2>6, <2>9 DEF IsPaired
<1> QED BY <1>4, <1>8, <1>9

LEMMA PairTyped ==
    ASSUME NEW c, IsConfig(c), NEW seg \in Seq(Seq(Words))
    PROVE  Pair(c, seg) \in Seq(Piece) /\ (c.size > 0 => Bounded(c, Pair(c, seg)))
<1>1. CASE Tokens(seg) <= c.size \/ c.size <= 0
  <2>1. PICK p : p = Chunk(seg, FALSE)
        OBVIOUS
  <2>2. p \in Piece /\ p.lines = seg
        BY <2>1, ChunkTyped
  <2>3. c.size > 0 => Tokens(p.lines) <= c.size + c.carry
    <3>1. c.size \in Int /\ c.carry \in Nat
          BY DEF IsConfig
    <3>2. Tokens(seg) \in Nat
      <4>1. <<>> \in Seq(Words)
            BY EmptySeq
      <4> QED BY <4>1, TokensOfMore
    <3> QED BY <1>1, <2>2, <3>1, <3>2
  <2>4. PICK ps : ps = <<p>>
        OBVIOUS
  <2>5. ps \in Seq(Piece) /\ DOMAIN ps = {1} /\ ps[1] = p
        BY <2>2, <2>4
  <2>6. c.size > 0 => Bounded(c, ps)
        BY <2>3, <2>5 DEF Bounded
  <2> QED BY <1>1, <2>1, <2>4, <2>5, <2>6 DEF Pair
<1>2. CASE ~(Tokens(seg) <= c.size \/ c.size <= 0)
  <2>1. FlattenSeq(seg) \in Seq(Words)
        BY FlattenTyped
  <2> QED BY <1>2, <2>1, AnswerSlidesBounded DEF Pair
<1> QED BY <1>1, <1>2

LEMMA PairsTyped ==
    ASSUME NEW c, IsConfig(c), NEW lines \in Seq(Seq(Words)), NEW n \in Nat, NEW cut,
           Borders(lines, n, cut)
    PROVE  /\ PairsAt(c, lines, n, cut) \in Seq(Seq(Piece))
           /\ Len(PairsAt(c, lines, n, cut)) = n
           /\ \A i \in 1 .. n :
                /\ cut[i] \in 0 .. Len(lines) /\ cut[i - 1] \in 0 .. cut[i]
                /\ Span(lines, cut[i - 1], cut[i]) \in Seq(Seq(Words))
                /\ PairsAt(c, lines, n, cut)[i] = Pair(c, Span(lines, cut[i - 1], cut[i]))
                /\ Pair(c, Span(lines, cut[i - 1], cut[i])) \in Seq(Piece)
                /\ c.size > 0 => Bounded(c, Pair(c, Span(lines, cut[i - 1], cut[i])))
<1>0. Len(lines) \in Nat
      BY LenProperties
<1>1. ASSUME NEW i \in 1 .. n
      PROVE  /\ cut[i] \in 0 .. Len(lines) /\ cut[i - 1] \in 0 .. cut[i]
             /\ Span(lines, cut[i - 1], cut[i]) \in Seq(Seq(Words))
  <2>1. PICK a, b, j : a = cut[i - 1] /\ b = cut[i] /\ j = i - 1
        OBVIOUS
  <2>2. i \in 0 .. n /\ j \in 0 .. n
        BY <2>1
  <2>3. a \in 0 .. Len(lines) /\ b \in 0 .. Len(lines) /\ a < b
        BY <2>1, <2>2 DEF Borders
  <2>4. a \in 0 .. b
        BY <1>0, <2>3
  <2>5. Span(lines, a, b) \in Seq(Seq(Words))
        BY <2>3, <2>4, SpanTyped
  <2> QED BY <2>1, <2>3, <2>4, <2>5
<1>2. PICK ps : ps = PairsAt(c, lines, n, cut)
      OBVIOUS
<1>3. ASSUME NEW i \in 1 .. n
      PROVE  /\ ps[i] = Pair(c, Span(lines, cut[i - 1], cut[i]))
             /\ Pair(c, Span(lines, cut[i - 1], cut[i])) \in Seq(Piece)
             /\ c.size > 0 => Bounded(c, Pair(c, Span(lines, cut[i - 1], cut[i])))
  <2>1. ps[i] = Pair(c, Span(lines, cut[i - 1], cut[i]))
        BY <1>2 DEF PairsAt
  <2> QED BY <1>1, <2>1, PairTyped
<1>4. ps \in [1 .. n -> Seq(Piece)]
  <2>1. ps = [i \in 1 .. n |-> ps[i]]
        BY <1>2 DEF PairsAt
  <2>2. \A i \in 1 .. n : ps[i] \in Seq(Piece)
        BY <1>3
  <2> QED BY ONLY <2>1, <2>2
<1>5. ps \in Seq(Seq(Piece)) /\ Len(ps) = n
      BY ONLY <1>4, n \in Nat, SeqDef, LenProperties
<1> QED BY <1>1, <1>2, <1>3, <1>5

(* Of the chunks of a question none is too long: windows hold one line.    *)
LEMMA QABounded ==
    ASSUME NEW c, IsConfig(c), NEW bs \in Seq(Block)
    PROVE  QA(c, bs) \in Seq(Piece) /\ (c.size > 0 => Bounded(c, QA(c, bs)))
<1>1. PICK lines, n : lines = Lines(Nonblank(bs)) /\ n = Cardinality(Marks(lines))
      OBVIOUS
<1>2. /\ n \in Nat
      /\ ~(n > 1) => QA(c, bs) = ChunkBlocks(c, bs)
      /\ n > 1 => IsPaired(c, lines, n, QA(c, bs))
      BY <1>1, QAIs
<1>3. lines \in Seq(Seq(Words))
      BY <1>1, NonblankTyped, LinesTyped
<1>4. CASE ~(n > 1)
      BY <1>2, <1>4, ChunkBlocksBounded
<1>5. CASE n > 1
  <2>1. PICK cut : Borders(lines, n, cut) /\ QA(c, bs) = FlattenSeq(PairsAt(c, lines, n, cut))
        BY <1>2, <1>5 DEF IsPaired
  <2>2. PICK pss : pss = PairsAt(c, lines, n, cut)
        OBVIOUS
  <2>3. pss \in Seq(Seq(Piece)) /\ \A i \in 1 .. Len(pss) : c.size > 0 => Bounded(c, pss[i])
    <3>1. /\ PairsAt(c, lines, n, cut) \in Seq(Seq(Piece)) /\ Len(PairsAt(c, lines, n, cut)) = n
          /\ \A i \in 1 .. n :
                /\ PairsAt(c, lines, n, cut)[i] = Pair(c, Span(lines, cut[i - 1], cut[i]))
                /\ c.size > 0 => Bounded(c, Pair(c, Span(lines, cut[i - 1], cut[i])))
          BY <1>2, <1>3, <2>1, PairsTyped
    <3>2. pss \in Seq(Seq(Piece)) /\ Len(pss) = n
          BY <2>2, <3>1
    <3>3. ASSUME NEW i \in 1 .. n PROVE c.size > 0 => Bounded(c, pss[i])
          BY <2>2, <3>1
    <3> QED BY <3>2, <3>3
  <2>4. FlattenSeq(pss) \in Seq(Piece)
        BY <2>3, FlattenTyped
  <2>5. ASSUME c.size > 0 PROVE Bounded(c, FlattenSeq(pss))
        BY <2>3, <2>5, FlattenBounded
  <2> QED BY <2>1, <2>2, <2>4, <2>5
<1> QED BY <1>4, <1>5

(* The chunks of all questions are laid from the first question to the end. *)
LEMMA PairsLaid ==
    ASSUME NEW c, IsConfig(c), NEW lines \in Seq(Seq(Words)),
           \A i \in 1 .. Len(lines) : lines[i] # <<>>,
           NEW n \in Nat, NEW cut, Borders(lines, n, cut)
    PROVE  Covers(c, TextIn(lines, cut[0], cut[n]), FlattenSeq(PairsAt(c, lines, n, cut)))
<1>0. PICK text, pss, z : text = TextIn(lines, cut[0], cut[n]) /\ pss = PairsAt(c, lines, n, cut) /\ z = cut[0]
      OBVIOUS
<1>1. /\ pss \in Seq(Seq(Piece)) /\ Len(pss) = n
      /\ \A i \in 1 .. n :
            /\ cut[i] \in 0 .. Len(lines) /\ cut[i - 1] \in 0 .. cut[i]
            /\ Span(lines, cut[i - 1], cut[i]) \in Seq(Seq(Words))
            /\ pss[i] = Pair(c, Span(lines, cut[i - 1], cut[i])) /\ pss[i] \in Seq(Piece)
  <2>1. /\ PairsAt(c, lines, n, cut) \in Seq(Seq(Piece)) /\ Len(PairsAt(c, lines, n, cut)) = n
        /\ \A i \in 1 .. n :
              /\ cut[i] \in 0 .. Len(lines) /\ cut[i - 1] \in 0 .. cut[i]
              /\ Span(lines, cut[i - 1], cut[i]) \in Seq(Seq(Words))
              /\ PairsAt(c, lines, n, cut)[i] = Pair(c, Span(lines, cut[i - 1], cut[i]))
              /\ PairsAt(c, lines, n, cut)[i] \in Seq(Piece)
        BY PairsTyped
  <2> QED BY <1>0, <2>1
<1>2. PICK h : Joins(h, pss, n, Piece) /\ FlattenSeq(pss) = h[n]
      BY <1>1, FlattenStages
<1>3. /\ cut[n] = Len(lines) /\ Len(lines) \in Nat /\ z \in 0 .. Len(lines)
      /\ \A i \in 0 .. n : cut[i] \in 0 .. Len(lines)
      BY <1>0, LenProperties DEF Borders
<1>4. \A i \in 0 .. n : z \in 0 .. cut[i]
  <2> DEFINE P == {k \in Nat : k <= n => z <= cut[k]}
  <2>1. 0 \in P
        BY <1>0, <1>3
  <2>2. ASSUME NEW k \in Nat, k \in P PROVE k + 1 \in P
    <3> SUFFICES ASSUME k + 1 <= n PROVE z <= cut[k + 1]
        OBVIOUS
    <3>1. PICK x : x = k + 1
          OBVIOUS
    <3>2. x \in 1 .. n /\ x - 1 = k /\ k \in 0 .. n /\ x \in 0 .. n /\ k <= n
          BY <3>1
    <3>3. cut[x - 1] < cut[x] /\ z <= cut[k]
          BY <2>2, <3>2 DEF Borders
    <3>4. cut[k] \in Nat /\ cut[x] \in Nat /\ z \in Nat
          BY <1>3, <3>2
    <3> QED BY <3>1, <3>2, <3>3, <3>4
  <2>3. P = Nat
    <3>1. P \in SUBSET Nat
          OBVIOUS
    <3> HIDE DEF P
    <3> QED BY <2>1, <2>2, <3>1, Stepwise
  <2>4. ASSUME NEW i \in 0 .. n PROVE z \in 0 .. cut[i]
    <3>1. z <= cut[i]
          BY <2>3
    <3> QED BY <1>3, <3>1
  <2> QED BY <2>4
<1>5. text \in Seq(Words)
  <2>1. cut[n] \in 0 .. Len(lines) /\ z \in 0 .. cut[n]
        BY <1>3, <1>4
  <2> QED BY <1>0, <2>1, TextInTyped
<1> DEFINE at(i) == Off(lines, cut[i]) - Off(lines, z)
           Good(i, p) == /\ p \in Placed(c, text, h[i]) /\ p \in Places
                         /\ p.from <= at(i) /\ Reached(c, p, at(i))
           P == {k \in Nat : k <= n => \E p : Good(k, p)}
<1>13. Gap(c) \in Nat /\ c.carry \in Nat /\ c.size \in Int
      BY GapTyped, ConfigTyped
<1>6. 0 \in P
  <2>1. PICK p, e : p = Place(0, 0) /\ e = <<>>
        OBVIOUS
  <2>2. p.from = 0 /\ p.to = 0 /\ p \in Places
        BY <2>1 DEF Place, Places
  <2>3. h[0] = e /\ p \in Placed(c, text, e)
        BY <1>2, <2>1, PlacedOfNone DEF Joins
  <2>4. at(0) = 0
    <3>1. z \in 0 .. z
          BY <1>3
    <3>2. Off(lines, z) \in Nat
          BY <1>3, <3>1, OffAdds
    <3> QED BY <1>0, <3>2
  <2>5. Reached(c, p, 0)
        BY <1>13, <2>2 DEF Reached
  <2>6. Good(0, p)
        BY <2>2, <2>3, <2>4, <2>5
  <2> HIDE DEF Good
  <2> QED BY <2>6
<1>7. ASSUME NEW k \in Nat, k \in P PROVE k + 1 \in P
  <2> HIDE DEF Good
  <2> SUFFICES ASSUME k + 1 <= n PROVE \E p : Good(k + 1, p)
      OBVIOUS
  <2>1. PICK x : x = k + 1
        OBVIOUS
  <2>2. x \in 1 .. n /\ x - 1 = k /\ k \in 0 .. n /\ x \in 0 .. n /\ k <= n
        BY <2>1
  <2>3. PICK p : Good(k, p)
        BY <1>7, <2>2
  <2>4. PICK i, j, seg, w, a : /\ i = cut[k] /\ j = cut[x] /\ seg = Span(lines, cut[k], cut[x])
                               /\ w = TextIn(lines, cut[k], cut[x]) /\ a = at(k)
        OBVIOUS
  <2>5. /\ j \in 0 .. Len(lines) /\ i \in 0 .. j /\ seg \in Seq(Seq(Words))
        /\ pss[x] = Pair(c, seg) /\ pss[x] \in Seq(Piece) /\ FlattenSeq(seg) = w
        /\ i < j /\ z \in 0 .. i /\ z \in 0 .. j
    <3>1. i < j
          BY <2>2, <2>4 DEF Borders
    <3>2. z \in 0 .. i /\ z \in 0 .. j
          BY <1>4, <2>2, <2>4
    <3>3. /\ j \in 0 .. Len(lines) /\ i \in 0 .. j /\ seg \in Seq(Seq(Words))
          /\ pss[x] = Pair(c, seg) /\ pss[x] \in Seq(Piece)
          BY <1>1, <2>2, <2>4
    <3> QED BY <2>4, <3>1, <3>2, <3>3 DEF TextIn
  <2>6. Occurs(text, a, w) /\ Off(lines, z) \in Nat /\ Off(lines, i) \in Nat /\ a \in Nat
    <3>1. PICK m : m = cut[n]
          OBVIOUS
    <3>2. m \in 0 .. Len(lines) /\ j \in 0 .. m
          BY <1>3, <2>5, <3>1
    <3>3. /\ Occurs(TextIn(lines, z, m), Off(lines, i) - Off(lines, z), TextIn(lines, i, j))
          /\ Off(lines, z) \in Nat /\ Off(lines, i) \in Nat /\ Off(lines, z) <= Off(lines, i)
          BY ONLY <2>5, <3>2, lines \in Seq(Seq(Words)), SpanOccurs
    <3>4. a = Off(lines, i) - Off(lines, z)
          BY <2>4
    <3>5. a \in Nat
          BY <3>3, <3>4
    <3> QED BY <1>0, <2>4, <3>1, <3>3, <3>4, <3>5
  <2>7. /\ w \in Seq(Words) /\ w # <<>> /\ Len(w) \in Nat /\ Len(w) # 0
        /\ Off(lines, j) = Off(lines, i) + Len(w)
    <3>1. w \in Seq(Words) /\ Off(lines, j) = Off(lines, i) + Len(w)
      <4>1. /\ Off(lines, j) = Off(lines, i) + Len(TextIn(lines, i, j))
            /\ TextIn(lines, i, j) \in Seq(Words)
            BY <2>5, OffAdds
      <4> QED BY <2>4, <4>1
    <3>2. Off(lines, i) < Off(lines, j)
      <4>1. j \in 1 .. Len(lines) /\ i \in 0 .. j - 1
            BY <1>3, <2>5
      <4> QED BY <4>1, OffGrows
    <3>3. Len(w) \in Nat /\ Len(w) # 0
          BY <2>6, <3>1, <3>2, LenProperties
    <3> QED BY <3>1, <3>3, EmptySeq
  <2>8. at(x) = a + Len(w)
        BY <2>4, <2>6, <2>7
  <2>9. PICK ps : ps = h[k]
        OBVIOUS
  <2>10. ps \in Seq(Piece) /\ h[x] = ps \o pss[x]
         BY <1>2, <2>2, <2>9 DEF Joins
  <2>11. /\ p \in Placed(c, text, ps) /\ p \in Places /\ p.from <= a /\ Reached(c, p, a)
         /\ a <= p.to + Gap(c) /\ p.to - a <= c.carry
    <3>1. p \in Placed(c, text, ps) /\ p \in Places /\ p.from <= a /\ Reached(c, p, a)
          BY <2>3, <2>4, <2>9 DEF Good
    <3> QED BY <1>13, <2>6, <3>1 DEF Reached, Places
  <2>12. ASSUME NEW q, q \in Placed(c, text, h[x]), q \in Places, Reached(c, q, a + Len(w)), q.from <= q.to
         PROVE  Good(x, q)
    <3>1. q.from <= a + Len(w)
          BY <2>6, <2>7, <2>12 DEF Reached, Places
    <3> QED BY <2>8, <2>12, <3>1 DEF Good
  <2>13. CASE Tokens(seg) <= c.size \/ c.size <= 0
    <3>1. PICK one, y : y = Chunk(seg, FALSE) /\ one = <<y>>
          OBVIOUS
    <3>2. y \in Piece /\ y.lines = seg
          BY <2>5, <3>1, ChunkTyped
    <3>3. h[x] = Append(ps, y)
      <4>1. pss[x] = one
            BY <2>5, <2>13, <3>1 DEF Pair
      <4>2. Append(ps, y) = ps \o <<y>>
            BY ONLY <2>10, <3>2, AppendIsConcat
      <4> QED BY <2>10, <3>1, <4>1, <4>2
    <3>4. PICK q : q = Place(a + 1, a + Len(w))
          OBVIOUS
    <3>5. q \in Placed(c, text, h[x])
      <4>1. w = FlattenSeq(y.lines) /\ Shows(text, a, w)
            BY <2>5, <2>6, <3>2, OccursShows
      <4>2. Place(a + 1, a + Len(w)) \in Placed(c, text, Append(ps, y))
            BY ONLY <1>13, <1>5, <2>6, <2>10, <2>11, <3>2, <4>1, Laid
      <4> QED BY <3>3, <3>4, <4>2
    <3>6. q.from = a + 1 /\ q.to = a + Len(w) /\ q \in Places /\ a + 1 <= a + Len(w)
          BY <2>6, <2>7, <3>4 DEF Place, Places
    <3>8. Reached(c, q, a + Len(w))
          BY <1>13, <2>6, <2>7, <3>6 DEF Reached
    <3>7. Good(x, q)
          BY <2>12, <3>5, <3>6, <3>8
    <3> QED BY <2>1, <3>7
  <2>14. CASE ~(Tokens(seg) <= c.size \/ c.size <= 0)
    <3>0. c.size > 0
          BY <1>13, <2>14
    <3>1. pss[x] = AnswerSlides(c, w)
          BY <2>5, <2>14 DEF Pair
    <3>2. PICK q \in Placed(c, text, ps \o AnswerSlides(c, w)) : Reached(c, q, a + Len(w)) /\ q.from <= q.to
          BY ONLY IsConfig(c), <3>0, <1>5, <2>6, <2>7, <2>10, <2>11, AnswerSlidesLaid
    <3>3. q \in Placed(c, text, h[x])
          BY <2>10, <3>1, <3>2
    <3>4. q \in Places
      <4>1. h[x] \in Seq(Piece)
            BY <1>2, <2>2 DEF Joins
      <4>2. PICK y, l : l = <<>> /\ y = Chunk(l, FALSE)
            OBVIOUS
      <4>3. y \in Piece
        <5>1. l \in Seq(Seq(Words))
              BY <4>2, EmptySeq
        <5> QED BY <4>2, <5>1, ChunkTyped
      <4> QED BY <3>3, <4>1, <4>3, PlacedOfMore
    <3>5. Good(x, q)
          BY <2>12, <3>2, <3>3, <3>4
    <3> QED BY <2>1, <3>5
  <2> QED BY <2>13, <2>14
<1> HIDE DEF Good
<1>8. P = Nat
  <2>1. P \in SUBSET Nat
        OBVIOUS
  <2> HIDE DEF P
  <2> QED BY <1>6, <1>7, <2>1, Stepwise
<1>9. PICK p : Good(n, p)
  <2>1. n \in P
    <3> HIDE DEF P
    <3> QED BY <1>8
  <2> QED BY <2>1
<1>10. at(n) = Len(text)
  <2>1. cut[n] \in 0 .. Len(lines) /\ z \in 0 .. cut[n]
        BY <1>3, <1>4
  <2>2. Off(lines, z) \in Nat /\ Off(lines, cut[n]) = Off(lines, z) + Len(TextIn(lines, z, cut[n]))
        BY <2>1, OffAdds
  <2>3. Len(text) \in Nat
        BY <1>5, LenProperties
  <2> QED BY <1>0, <2>2, <2>3
<1>11. p \in Placed(c, text, h[n]) /\ Reached(c, p, Len(text)) /\ p.to \in Int
       BY <1>9, <1>10 DEF Good, Places
<1>12. Covers(c, text, h[n])
  <2>1. Len(text) \in Nat
        BY <1>5, LenProperties
  <2> QED BY <1>13, <1>11, <2>1, CoversWhenPlaced
<1> QED BY <1>0, <1>2, <1>12

(* ---- every method ------------------------------------------------------ *)
(* What every method gives are chunks, and none is too long but one block. *)
LEMMA ChunksOfBounded ==
    ASSUME NEW c, IsConfig(c), NEW bs \in Seq(Block)
    PROVE  /\ ChunksOf(c, bs) \in Seq(Piece)
           /\ c.method # "one" /\ c.size > 0 => Bounded(c, ChunksOf(c, bs))
<1>1. c.method \in Methods
      BY DEF IsConfig
<1>2. CASE c.method = "naive"
      BY <1>2, ChunkBlocksBounded DEF ChunksOf
<1>3. CASE c.method = "delimiter"
  <2>1. PICK cs : cs = ApplyDelimiter(bs)
        OBVIOUS
  <2>2. cs \in Seq(Block)
        BY <2>1, ApplyDelimiterTyped
  <2> QED BY <1>3, <2>1, <2>2, ChunkBlocksBounded DEF ChunksOf
<1>4. CASE c.method = "one"
      BY <1>4, OneTyped DEF ChunksOf
<1>5. CASE c.method = "qa"
      BY <1>5, QABounded DEF ChunksOf
<1> QED BY <1>1, <1>2, <1>3, <1>4, <1>5 DEF Methods

(* The questions' chunks cover the text from the first question on.        *)
LEMMA QACover ==
    ASSUME NEW c, IsConfig(c), c.method = "qa", NEW bs \in Seq(Block), Divisible(c, bs)
    PROVE  Covers(c, Divided(c, bs), QA(c, bs))
<1>1. PICK nb, lines, M, n : /\ nb = Nonblank(bs) /\ lines = Lines(nb)
                             /\ M = Marks(lines) /\ n = Cardinality(M)
      OBVIOUS
<1>2. /\ n \in Nat
      /\ ~(n > 1) => QA(c, bs) = ChunkBlocks(c, bs)
      /\ n > 1 => IsPaired(c, lines, n, QA(c, bs))
      BY <1>1, QAIs
<1>3. /\ lines \in Seq(Seq(Words)) /\ Len(lines) \in Nat /\ DOMAIN lines = 1 .. Len(lines)
      /\ \A i \in 1 .. Len(lines) : lines[i] # <<>>
  <2>1. nb \in Seq(Block) /\ \A k \in DOMAIN nb : nb[k].text # <<>>
        BY <1>1, NonblankTyped
  <2>2. /\ lines \in Seq(Seq(Words)) /\ Len(lines) = Len(nb) /\ Len(nb) \in Nat
        /\ \A i \in 1 .. Len(nb) : lines[i] = nb[i].text
        BY <1>1, <2>1, LinesTyped
  <2> QED BY <2>1, <2>2, LenProperties
<1>4. /\ Divided(c, bs) = IF n > 1 THEN FlattenSeq(SubSeq(lines, Min(M), Len(lines)))
                          ELSE FlattenSeq(lines)
      /\ c.size > 0 \/ n > 1
  <2>1. Parts(c, bs) = nb
        BY <1>1 DEF Parts
  <2> QED BY <1>1, <2>1 DEF Divided, Divisible
<1>5. CASE ~(n > 1)
  <2>1. Divided(c, bs) = FlattenSeq(Lines(Nonblank(bs))) /\ c.size > 0
        BY <1>1, <1>4, <1>5
  <2> QED BY <1>2, <1>5, <2>1, ChunkBlocksCover
<1>6. CASE n > 1
  <2>1. PICK cut : Borders(lines, n, cut) /\ QA(c, bs) = FlattenSeq(PairsAt(c, lines, n, cut))
        BY <1>2, <1>6 DEF IsPaired
  <2>2. Covers(c, TextIn(lines, cut[0], cut[n]), FlattenSeq(PairsAt(c, lines, n, cut)))
        BY <1>2, <1>3, <2>1, PairsLaid
  <2>3. Min(M) \in Nat
    <3>1. M \in SUBSET (1 .. Len(lines)) /\ Cardinality(M) # 0
          BY <1>1, <1>2, <1>3, <1>6 DEF Marks
    <3>2. PICK o : o = 1
          OBVIOUS
    <3>3. Nth(M, o) = Min(M) /\ o \in 1 .. Cardinality(M)
          BY <1>3, <3>1, <3>2, NthOfOne
    <3>4. Nth(M, o) \in M
          BY <1>3, <3>1, <3>3, NthExists
    <3>5. PICK x : x = Nth(M, o)
          OBVIOUS
    <3>6. x \in Nat
      <4>1. x \in M /\ \A y \in 1 .. Len(lines) : y \in Nat
            BY <3>4, <3>5
      <4> QED BY <3>1, <4>1
    <3> QED BY <3>3, <3>5, <3>6
  <2>4. PICK z, m : z = cut[0] /\ m = cut[n]
        OBVIOUS
  <2>5. z + 1 = Min(M) /\ m = Len(lines)
        BY <1>1, <2>1, <2>3, <2>4 DEF Borders
  <2>6. TextIn(lines, z, m) = Divided(c, bs)
        BY <1>4, <1>6, <2>5 DEF TextIn, Span
  <2> QED BY <2>1, <2>2, <2>4, <2>6
<1> QED BY <1>5, <1>6

(* The chunks of every method that divides cover what it divides, if it can. *)
LEMMA ChunksOfCover ==
    ASSUME NEW c, IsConfig(c), c.method # "one", NEW bs \in Seq(Block), Divisible(c, bs)
    PROVE  Covers(c, Divided(c, bs), ChunksOf(c, bs))
<1>1. c.method \in {"naive", "delimiter", "qa"}
      BY DEF IsConfig, Methods
<1>2. CASE c.method = "naive"
  <2>1. Divided(c, bs) = FlattenSeq(Lines(Nonblank(bs))) /\ c.size > 0
        BY <1>2 DEF Divided, Divisible, Parts
  <2> QED BY <1>2, <2>1, ChunkBlocksCover DEF ChunksOf
<1>3. CASE c.method = "delimiter"
  <2>1. PICK cs : cs = ApplyDelimiter(bs)
        OBVIOUS
  <2>2. cs \in Seq(Block)
        BY <2>1, ApplyDelimiterTyped
  <2>3. Divided(c, bs) = FlattenSeq(Lines(Nonblank(cs))) /\ c.size > 0
        BY <1>3, <2>1 DEF Divided, Divisible, Parts
  <2>4. ChunksOf(c, bs) = ChunkBlocks(c, cs)
        BY <1>3, <2>1 DEF ChunksOf
  <2> QED BY <2>2, <2>3, <2>4, ChunkBlocksCover
<1>4. CASE c.method = "qa"
      BY <1>4, QACover DEF ChunksOf
<1> QED BY <1>1, <1>2, <1>3, <1>4

(* And where blocks are packed, they go on with prose and are the tables.  *)
LEMMA ChunksOfPart ==
    ASSUME NEW c, IsConfig(c), c.method \in {"naive", "delimiter"}, NEW bs \in Seq(Block)
    PROVE  Parted(Parts(c, bs), ChunksOf(c, bs))
<1>1. CASE c.method = "naive"
      BY <1>1, ChunkBlocksPart DEF ChunksOf, Parts
<1>2. CASE c.method = "delimiter"
  <2>1. PICK cs : cs = ApplyDelimiter(bs)
        OBVIOUS
  <2>2. cs \in Seq(Block)
        BY <2>1, ApplyDelimiterTyped
  <2> QED BY <1>2, <2>1, <2>2, ChunkBlocksPart DEF ChunksOf, Parts
<1> QED BY <1>1, <1>2

---------------------------------------------------------------------------
(***************************************************************************)
(* Vectors and summaries stay with what they belong to.                    *)
(***************************************************************************)

(* Chunking gives a list.                                                  *)
IsList(s) == Len(s) \in Nat /\ s = [k \in 1 .. Len(s) |-> s[k]]

(* ---- chunks by content ------------------------------------------------ *)
LEMMA LastHoldingHolds ==
    ASSUME NEW chunks, IsList(chunks), NEW lines, Holding(chunks, lines) # {}
    PROVE  /\ LastHolding(chunks, lines) \in DOMAIN chunks
           /\ chunks[LastHolding(chunks, lines)].lines = lines
<1>1. DOMAIN chunks = 1 .. Len(chunks) /\ Len(chunks) \in Nat
      BY DEF IsList
<1>2. Holding(chunks, lines) \in SUBSET (1 .. Len(chunks))
      BY <1>1 DEF Holding
<1>3. LastHolding(chunks, lines) \in Holding(chunks, lines)
  <2>1. Holding(chunks, lines) \in SUBSET (0 .. Len(chunks))
        BY <1>1, <1>2
  <2> QED BY <1>1, <2>1, MaxIsMember DEF LastHolding
<1> QED BY <1>3 DEF Holding

LEMMA FoundHolds ==
    ASSUME NEW prev, NEW lines, Holding(prev.chunks, lines) # {}
    PROVE  /\ Found(prev, lines) \in DOMAIN prev.chunks
           /\ prev.chunks[Found(prev, lines)].lines = lines
<1> DEFINE same == Holding(prev.chunks, lines)
<1>1. \E i \in same : i \in prev.late \/ same \cap prev.late = {}
      OBVIOUS
<1>2. Found(prev, lines) \in same
      BY <1>1 DEF Found
<1> QED BY <1>2 DEF Holding

(* The map takes a chunk to one with the same content.                     *)
LEMMA OldToNewKeepsContent ==
    ASSUME NEW prev, IsList(prev.chunks), NEW new, IsList(new),
           NEW i \in DOMAIN OldToNew(prev, new)
    PROVE  /\ i \in DOMAIN prev.chunks
           /\ OldToNew(prev, new)[i] \in DOMAIN new
           /\ new[OldToNew(prev, new)[i]].lines = prev.chunks[i].lines
<1>1. PICK k \in DOMAIN new \ Fresh(prev, new) : i = Found(prev, new[k].lines)
      BY DEF OldToNew
<1>2. Holding(prev.chunks, new[k].lines) # {}
      BY DEF Fresh
<1>3. i \in DOMAIN prev.chunks /\ prev.chunks[i].lines = new[k].lines
      BY <1>1, <1>2, FoundHolds
<1>4. k \in Holding(new, prev.chunks[i].lines)
      BY <1>3 DEF Holding
<1>5. OldToNew(prev, new)[i] = LastHolding(new, prev.chunks[i].lines)
      BY DEF OldToNew
<1> QED BY <1>3, <1>4, <1>5, LastHoldingHolds

(* ---- summaries -------------------------------------------------------- *)
Supported(chunks, s) ==
    /\ s.sources \subseteq DOMAIN chunks
    /\ {chunks[k].lines : k \in s.sources} = s.text.from

LEMMA CarriedOverSupported ==
    ASSUME NEW prev, IsList(prev.chunks), NEW new, IsList(new),
           \A s \in prev.summaries : Supported(prev.chunks, s),
           NEW s \in CarriedOver(prev, new)
    PROVE  Supported(new, s)
<1> DEFINE map == OldToNew(prev, new)
<1>1. PICK p \in prev.summaries :
         /\ p.sources \subseteq DOMAIN map
         /\ s = [text |-> p.text, sources |-> {map[i] : i \in p.sources}]
      BY DEF CarriedOver
<1>2. \A i \in DOMAIN map : map[i] \in DOMAIN new /\ new[map[i]].lines = prev.chunks[i].lines
      BY OldToNewKeepsContent
<1> HIDE DEF map
<1>3. s.sources = {map[i] : i \in p.sources} /\ s.text = p.text
      BY <1>1
<1>4. s.sources \subseteq DOMAIN new
      BY <1>1, <1>2, <1>3
<1>5. {new[k].lines : k \in s.sources} = {prev.chunks[i].lines : i \in p.sources}
      BY <1>1, <1>2, <1>3
<1>6. {prev.chunks[i].lines : i \in p.sources} = p.text.from
      BY <1>1 DEF Supported
<1> QED BY <1>3, <1>4, <1>5, <1>6 DEF Supported

LEMMA AnswersSupported ==
    ASSUME NEW target, NEW new, NEW ks \in SUBSET DOMAIN new,
           NEW items \in Answers(target, new, ks), NEW s \in items
    PROVE  Supported(new, s)
<1> DEFINE ws == Windows(new, ks)
<1>1. PICK picked \in SUBSET ks :
         items = {Summary(target, w, new, picked \cap ws[w]) :
                    w \in {w \in DOMAIN ws : picked \cap ws[w] # {}}}
      BY DEF Answers
<1> HIDE DEF ws
<1>2. PICK w \in DOMAIN ws : s = Summary(target, w, new, picked \cap ws[w])
      BY <1>1
<1> QED BY <1>2 DEF Summary, Supported

(* ---- the invariant ---------------------------------------------------- *)
(* The rows of the versions, and what the two properties say of them.      *)
VersionsInv ==
    /\ blocks \in Documents
    /\ versions \in Seq(Range(versions))
    /\ \A v \in DOMAIN versions : IsList(versions[v].chunks)

Inv == VersionsInv /\ VectorsAreOwn /\ SummariesSupported

LEMMA InitInv == Init => Inv
<1> SUFFICES ASSUME Init PROVE Inv
    OBVIOUS
<1>1. versions = <<>> /\ blocks \in Documents /\ outbox = {} /\ es = [d \in {} |-> {}]
      BY DEF Init
<1>2. <<>> \in Seq(Range(versions)) /\ DOMAIN versions = {}
      BY <1>1
<1>3. DOMAIN es = {}
      BY <1>1
<1> QED BY <1>1, <1>2, <1>3 DEF Inv, VersionsInv, VectorsAreOwn, SummariesSupported

(* A version more changes nothing of the earlier ones.                     *)
LEMMA AppendVersion ==
    ASSUME versions \in Seq(Range(versions)), NEW x, versions' = Append(versions, x)
    PROVE  /\ Len(versions) \in Nat
           /\ DOMAIN versions = 1 .. Len(versions)
           /\ DOMAIN versions' = 1 .. Len(versions) + 1
           /\ \A v \in DOMAIN versions : versions'[v] = versions[v]
           /\ versions'[Len(versions) + 1] = x
           /\ versions' \in Seq(Range(versions'))
<1> DEFINE S == Range(versions) \cup {x}
<1>1. versions \in Seq(S) /\ x \in S
      BY SeqDef DEF Range
<1>2. Len(versions) \in Nat /\ DOMAIN versions = 1 .. Len(versions)
      BY <1>1
<1>3. /\ versions' \in Seq(S)
      /\ Len(versions') = Len(versions) + 1
      /\ \A v \in 1 .. Len(versions) : versions'[v] = versions[v]
      /\ versions'[Len(versions) + 1] = x
      BY <1>1, AppendProperties
<1>4. versions' \in [1 .. Len(versions') -> S]
      BY ONLY <1>3, LenProperties
<1>5. DOMAIN versions' = 1 .. Len(versions) + 1
      BY <1>3, <1>4
<1>6. versions' \in [1 .. Len(versions') -> Range(versions')]
      BY <1>4 DEF Range
<1>7. versions' \in Seq(Range(versions'))
  <2>1. Len(versions') \in Nat
        BY <1>2, <1>3
  <2> QED BY ONLY <2>1, <1>6, SeqDef
<1> QED BY <1>2, <1>3, <1>5, <1>7

(* Rows and their texts stay as they are with a version more.              *)
LEMMA RowsStay ==
    ASSUME VersionsInv, NEW x, versions' = Append(versions, x), NEW d, IsRow(d)
    PROVE  IsRow(d)' /\ TextOf(d)' = TextOf(d)
<1>1. /\ d[2] \in DOMAIN versions
      /\ d[2] \in DOMAIN versions'
      /\ versions'[d[2]] = versions[d[2]]
      BY AppendVersion DEF VersionsInv, IsRow
<1>2. Served(d[2])' = Served(d[2]) /\ d \in Served(d[2])
      BY <1>1 DEF IsRow, Served
<1>3. IsRow(d)'
      BY <1>1, <1>2 DEF IsRow
<1>4. TextOf(d)' = TextOf(d)
      BY <1>1 DEF TextOf
<1> QED BY <1>3, <1>4

LEMMA StageKeeps ==
    ASSUME Inv, NEW c, NEW new, IsList(new), NEW summaries, NEW chunkVec, NEW summaryVec,
           Stage(c, new, summaries, chunkVec, summaryVec),
           \A k \in DOMAIN new : chunkVec[k] \subseteq {new[k].lines},
           \A s \in summaries : Supported(new, s) /\ summaryVec[s] \subseteq {s.text}
    PROVE  Inv'
<1>0. PICK target : target = Len(versions) + 1
      OBVIOUS
<1> DEFINE x == [chunks |-> new, summaries |-> summaries, config |-> c]
<1>1. versions' = Append(versions, x) /\ UNCHANGED <<blocks, es>>
      BY DEF Stage
<1>2. /\ target \in DOMAIN versions' /\ versions'[target] = x
      /\ DOMAIN versions' = DOMAIN versions \cup {target}
      /\ \A v \in DOMAIN versions : versions'[v] = versions[v]
      /\ versions' \in Seq(Range(versions'))
      BY <1>0, <1>1, AppendVersion DEF Inv, VersionsInv
<1>3. x.chunks = new /\ x.summaries = summaries
      OBVIOUS
<1> HIDE DEF x
<1>4. VersionsInv'
      BY <1>1, <1>2, <1>3 DEF Inv, VersionsInv
<1>5. SummariesSupported'
  <2>1. ASSUME NEW s \in summaries
        PROVE  s.sources \subseteq DOMAIN new /\ {new[k].lines : k \in s.sources} = s.text.from
        BY DEF Supported
  <2> QED BY <1>2, <1>3, <2>1 DEF Inv, SummariesSupported
<1>6. \A d \in DOMAIN es : IsRow(d)' /\ es[d] \subseteq {TextOf(d)'}
      BY <1>1, RowsStay DEF Inv, VectorsAreOwn
<1>7. \A r \in outbox : IsRow(r.id)' /\ r.vec \subseteq {TextOf(r.id)'}
      BY <1>1, RowsStay DEF Inv, VectorsAreOwn
<1>8. ASSUME NEW k \in DOMAIN new
      PROVE  LET r == Row(ChunkId(target, k), chunkVec[k])
             IN  IsRow(r.id)' /\ r.vec \subseteq {TextOf(r.id)'}
  <2> DEFINE id == ChunkId(target, k)
  <2>1. id[1] = "chunk" /\ id[2] = target /\ id[3] = k
        BY DEF ChunkId
  <2>2. id \in Served(target)'
        BY <1>2, <1>3 DEF Served, ChunkId
  <2>3. IsRow(id)'
        BY <1>2, <2>1, <2>2 DEF IsRow
  <2>4. TextOf(id)' = new[k].lines
        BY <1>2, <1>3, <2>1 DEF TextOf
  <2>5. Row(id, chunkVec[k]).id = id /\ Row(id, chunkVec[k]).vec = chunkVec[k]
        BY DEF Row
  <2> HIDE DEF id
  <2> QED BY <2>3, <2>4, <2>5 DEF id
<1>9. ASSUME NEW s \in summaries
      PROVE  LET r == Row(SummaryId(target, s.text), summaryVec[s])
             IN  IsRow(r.id)' /\ r.vec \subseteq {TextOf(r.id)'}
  <2> DEFINE id == SummaryId(target, s.text)
  <2>1. id[1] = "summary" /\ id[2] = target /\ id[3] = s.text
        BY DEF SummaryId
  <2>2. id \in Served(target)'
        BY <1>2, <1>3 DEF Served, SummaryId
  <2>3. IsRow(id)'
        BY <1>2, <2>1, <2>2 DEF IsRow
  <2>4. TextOf(id)' = s.text
        BY <2>1 DEF TextOf
  <2>5. Row(id, summaryVec[s]).id = id /\ Row(id, summaryVec[s]).vec = summaryVec[s]
        BY DEF Row
  <2> HIDE DEF id
  <2> QED BY <2>3, <2>4, <2>5 DEF id
<1>10. outbox' = outbox
          \cup {Row(ChunkId(target, k), chunkVec[k]) : k \in DOMAIN new}
          \cup {Row(SummaryId(target, s.text), summaryVec[s]) : s \in summaries}
      BY <1>0 DEF Stage
<1>11. \A r \in outbox' : IsRow(r.id)' /\ r.vec \subseteq {TextOf(r.id)'}
      BY <1>7, <1>8, <1>9, <1>10
<1>12. VectorsAreOwn'
      BY <1>1, <1>6, <1>11 DEF VectorsAreOwn
<1> QED BY <1>4, <1>5, <1>12 DEF Inv

(* ---- the steps -------------------------------------------------------- *)
LEMMA NewChunks ==
    ASSUME Inv, NEW c \in Configs
    PROVE  IsList(ChunksOf(c, blocks))
<1>1. PICK bs, cs : bs = blocks /\ cs = ChunksOf(c, blocks)
      OBVIOUS
<1>2. IsConfig(c) /\ bs \in Seq(Block)
      BY <1>1, ConfigsAssumption, DocumentsAssumption DEF Inv, VersionsInv
<1>3. cs \in Seq(Piece)
      BY <1>1, <1>2, ChunksOfBounded
<1> QED BY <1>1, <1>3, LenProperties DEF IsList

LEMMA StageFullKeeps ==
    ASSUME Inv, NEW c \in Configs, StageFull(c)
    PROVE  Inv'
<1> DEFINE new == ChunksOf(c, blocks)
<1>1. IsList(new)
      BY NewChunks
<1>2. Eligible(new) \in SUBSET DOMAIN new
      BY DEF Eligible
<1>3. PICK fresh \in Answers(Len(versions) + 1, new, Eligible(new)) :
         Stage(c, new, fresh, [k \in DOMAIN new |-> {new[k].lines}], [s \in fresh |-> {s.text}])
      BY DEF StageFull
<1> HIDE DEF new
<1>4. \A s \in fresh : Supported(new, s)
      BY <1>2, <1>3, AnswersSupported
<1> QED BY <1>1, <1>3, <1>4, StageKeeps

(* What is asked for under the id of a row is the text of that row, or     *)
(* nothing.                                                                *)
LEMMA ReusedIsOwn ==
    ASSUME Inv, NEW id, NEW unread
    PROVE  ReuseVector(id, unread) \subseteq {TextOf(id)}
BY DEF Inv, VectorsAreOwn, ReuseVector

LEMMA StageIncrementalKeeps ==
    ASSUME Inv, NEW c \in Configs, StageIncremental(c)
    PROVE  Inv'
<1> DEFINE new == ChunksOf(c, blocks)
           n == Len(versions)
           last == LastVersion
<1>1. IsList(new)
      BY NewChunks
<1>2. n \in DOMAIN versions /\ last = versions[n]
  <2>1. versions # <<>>
        BY DEF StageIncremental, Incremental
  <2>2. Len(versions) \in Nat \ {0} /\ DOMAIN versions = 1 .. Len(versions)
        BY <2>1, EmptySeq, LenProperties DEF Inv, VersionsInv
  <2> QED BY <2>1, <2>2 DEF LastVersion, Last
<1> HIDE DEF last
<1>0. PICK late, unread :
         LET prev == PrevVersion(late)
             kept == CarriedOver(prev, new)
         IN  \E fresh \in Answers(n + 1, new, Eligible(new) \cap Fresh(prev, new)) :
               Stage(c, new, kept \cup fresh,
                   [k \in DOMAIN new |-> ChunkVector(prev, new, k, unread)],
                   [s \in kept \cup fresh |->
                       IF s \in kept THEN ReuseVector(SummaryId(n, s.text), unread)
                                     ELSE {s.text}])
      BY DEF StageIncremental
<1> DEFINE prev == PrevVersion(late)
           kept == CarriedOver(prev, new)
<1>3. /\ prev.chunks = versions[n].chunks
      /\ IsList(prev.chunks) /\ \A s \in prev.summaries : Supported(prev.chunks, s)
      BY <1>2 DEF PrevVersion, last, Inv, VersionsInv, SummariesSupported, Supported
<1>4. PICK fresh \in Answers(n + 1, new, Eligible(new) \cap Fresh(prev, new)) :
         Stage(c, new, kept \cup fresh,
               [k \in DOMAIN new |-> ChunkVector(prev, new, k, unread)],
               [s \in kept \cup fresh |->
                   IF s \in kept THEN ReuseVector(SummaryId(n, s.text), unread) ELSE {s.text}])
      BY <1>0
<1>5. Eligible(new) \cap Fresh(prev, new) \in SUBSET DOMAIN new
      BY DEF Eligible
<1> HIDE DEF new, prev, n, kept
<1>6. \A s \in kept \cup fresh : Supported(new, s)
      BY <1>1, <1>3, <1>4, <1>5, AnswersSupported, CarriedOverSupported DEF kept
<1>7. ASSUME NEW k \in DOMAIN new
      PROVE  ChunkVector(prev, new, k, unread) \subseteq {new[k].lines}
  <2>1. CASE k \in Fresh(prev, new)
        BY <2>1 DEF ChunkVector
  <2>2. CASE k \notin Fresh(prev, new)
    <3> DEFINE i == Found(prev, new[k].lines)
    <3>1. Holding(prev.chunks, new[k].lines) # {}
          BY <2>2 DEF Fresh
    <3>2. prev.chunks[i].lines = new[k].lines
          BY <3>1, FoundHolds
    <3> HIDE DEF i
    <3>3. TextOf(ChunkId(n, i)) = new[k].lines
          BY <1>3, <3>2 DEF TextOf, ChunkId
    <3>4. ChunkVector(prev, new, k, unread) = ReuseVector(ChunkId(n, i), unread)
          BY <2>2 DEF ChunkVector, i, n
    <3> QED BY <3>3, <3>4, ReusedIsOwn
  <2> QED BY <2>1, <2>2
<1>8. ASSUME NEW s
      PROVE  ReuseVector(SummaryId(n, s.text), unread) \subseteq {s.text}
  <2>1. TextOf(SummaryId(n, s.text)) = s.text
        BY DEF TextOf, SummaryId
  <2> QED BY <2>1, ReusedIsOwn
<1> QED BY <1>1, <1>4, <1>6, <1>7, <1>8, StageKeeps

LEMMA PublishedIsOwn ==
    ASSUME Inv, NEW done, \A r \in done : IsRow(r.id) /\ r.vec \subseteq {TextOf(r.id)}
    PROVE  \A d \in DOMAIN Published(done) :
              IsRow(d) /\ Published(done)[d] \subseteq {TextOf(d)}
<1> DEFINE ids == {r.id : r \in done}
<1> SUFFICES ASSUME NEW d \in DOMAIN Published(done)
             PROVE  IsRow(d) /\ Published(done)[d] \subseteq {TextOf(d)}
    OBVIOUS
<1>1. DOMAIN Published(done) = DOMAIN es \cup ids
      BY DEF Published
<1>2. CASE d \in ids
  <2>1. Published(done)[d] = (CHOOSE r \in done : r.id = d).vec
        BY <1>1, <1>2 DEF Published
  <2>2. \E r \in done : r.id = d
        BY <1>2
  <2>3. PICK r \in done : r.id = d /\ Published(done)[d] = r.vec
        BY <2>1, <2>2
  <2> QED BY <2>3
<1>3. CASE d \notin ids
  <2>1. d \in DOMAIN es /\ Published(done)[d] = es[d]
        BY <1>1, <1>3 DEF Published
  <2> QED BY <2>1 DEF Inv, VectorsAreOwn
<1> QED BY <1>2, <1>3

(* With the versions as they are, the properties depend on what is in the  *)
(* index and in the outbox.                                                *)
LEMMA IndexStepKeeps ==
    ASSUME Inv, UNCHANGED <<blocks, versions>>,
           \A d \in DOMAIN es' : IsRow(d) /\ es'[d] \subseteq {TextOf(d)},
           \A r \in outbox' : IsRow(r.id) /\ r.vec \subseteq {TextOf(r.id)}
    PROVE  Inv'
<1>1. \A d : (IsRow(d)' <=> IsRow(d)) /\ TextOf(d)' = TextOf(d)
      BY DEF IsRow, TextOf, Served
<1>2. VectorsAreOwn'
      BY <1>1 DEF VectorsAreOwn
<1>3. VersionsInv' /\ SummariesSupported'
      BY DEF Inv, VersionsInv, SummariesSupported
<1> QED BY <1>2, <1>3 DEF Inv

LEMMA PublishKeeps == ASSUME Inv, Publish \/ PublishShort PROVE Inv'
<1>1. \A r \in outbox : IsRow(r.id) /\ r.vec \subseteq {TextOf(r.id)}
      BY DEF Inv, VectorsAreOwn
<1>2. CASE Publish
  <2>1. es' = Published(outbox) /\ outbox' = {} /\ UNCHANGED <<blocks, versions>>
        BY <1>2 DEF Publish
  <2> QED BY <1>1, <2>1, PublishedIsOwn, IndexStepKeeps
<1>3. CASE PublishShort
  <2>1. UNCHANGED <<blocks, versions>>
        BY <1>3 DEF PublishShort
  <2>2. PICK done \in SUBSET outbox : es' = Published(done) /\ outbox' = outbox \ done
        BY <1>3 DEF PublishShort
  <2>3. \A d \in DOMAIN es' : IsRow(d) /\ es'[d] \subseteq {TextOf(d)}
        BY <1>1, <2>2, PublishedIsOwn
  <2> QED BY <1>1, <2>1, <2>2, <2>3, IndexStepKeeps
<1> QED BY <1>2, <1>3

LEMMA LoseKeeps == ASSUME Inv, NEW d \in DOMAIN es, Lose(d) PROVE Inv'
<1>1. es' = [e \in DOMAIN es \ {d} |-> es[e]] /\ UNCHANGED <<blocks, versions, outbox>>
      BY DEF Lose
<1>2. \A e \in DOMAIN es' : e \in DOMAIN es /\ es'[e] = es[e]
      BY <1>1
<1> QED BY <1>1, <1>2, IndexStepKeeps DEF Inv, VectorsAreOwn

LEMMA ReconcileKeeps == ASSUME Inv, Reconcile PROVE Inv'
<1> DEFINE v == active
           chunks == {Row(ChunkId(v, k), {versions[v].chunks[k].lines}) :
                        k \in DOMAIN versions[v].chunks}
           texts == {Row(SummaryId(v, s.text), {s.text}) : s \in versions[v].summaries}
           missing == {r \in chunks \cup texts : r.id \notin DOMAIN es}
<1>1. /\ v \in DOMAIN versions
      /\ es' = Published(outbox \cup missing)
      /\ outbox' = {} /\ UNCHANGED <<blocks, versions>>
      BY DEF Reconcile
<1>2. ASSUME NEW r \in chunks
      PROVE  IsRow(r.id) /\ r.vec \subseteq {TextOf(r.id)}
  <2>1. PICK k \in DOMAIN versions[v].chunks :
           r = Row(ChunkId(v, k), {versions[v].chunks[k].lines})
        BY <1>2
  <2>2. r.id = ChunkId(v, k) /\ r.vec = {versions[v].chunks[k].lines}
        BY <2>1 DEF Row
  <2>3. TextOf(r.id) = versions[v].chunks[k].lines
        BY <2>2 DEF TextOf, ChunkId
  <2>4. r.id[2] = v /\ r.id \in Served(v)
        BY <2>2 DEF ChunkId, Served
  <2> QED BY <1>1, <2>2, <2>3, <2>4 DEF IsRow
<1>3. ASSUME NEW r \in texts
      PROVE  IsRow(r.id) /\ r.vec \subseteq {TextOf(r.id)}
  <2>1. PICK s \in versions[v].summaries : r = Row(SummaryId(v, s.text), {s.text})
        BY <1>3
  <2>2. r.id = SummaryId(v, s.text) /\ r.vec = {s.text}
        BY <2>1 DEF Row
  <2>3. TextOf(r.id) = s.text
        BY <2>2 DEF TextOf, SummaryId
  <2>4. r.id[2] = v /\ r.id \in Served(v)
        BY <2>2 DEF SummaryId, Served
  <2> QED BY <1>1, <2>2, <2>3, <2>4 DEF IsRow
<1> HIDE DEF chunks, texts
<1>4. \A r \in outbox \cup missing : IsRow(r.id) /\ r.vec \subseteq {TextOf(r.id)}
      BY <1>2, <1>3 DEF Inv, VectorsAreOwn
<1> HIDE DEF missing
<1>5. \A d \in DOMAIN es' : IsRow(d) /\ es'[d] \subseteq {TextOf(d)}
      BY <1>1, <1>4, PublishedIsOwn
<1> QED BY <1>1, <1>5, IndexStepKeeps

LEMMA StutterKeeps == ASSUME Inv, UNCHANGED vars PROVE Inv'
<1>1. UNCHANGED <<blocks, versions, es, outbox>>
      BY DEF vars
<1> QED BY <1>1, IndexStepKeeps DEF Inv, VectorsAreOwn

LEMMA NextKeeps == Inv /\ [Next]_vars => Inv'
<1> SUFFICES ASSUME Inv, [Next]_vars PROVE Inv'
    OBVIOUS
<1>1. CASE \E c \in Configs : StageFull(c) \/ StageIncremental(c)
      BY <1>1, StageFullKeeps, StageIncrementalKeeps
<1>2. CASE Publish \/ PublishShort
      BY <1>2, PublishKeeps
<1>3. CASE \E d \in DOMAIN es : Lose(d)
      BY <1>3, LoseKeeps
<1>4. CASE Reconcile
      BY <1>4, ReconcileKeeps
<1>5. CASE UNCHANGED vars
      BY <1>5, StutterKeeps
<1> QED BY <1>1, <1>2, <1>3, <1>4, <1>5 DEF Next

(* The invariant the two theorems follow from.                             *)
THEOREM InvHolds == Spec => []Inv
<1> QED BY InitInv, NextKeeps, PTL DEF Spec

(* A document in the index, or on its way there, is a row of the file and  *)
(* has the vector of its own text or none, for any documents, chunkings,   *)
(* answers and faults.                                                     *)
THEOREM VectorsTheorem == Spec => []VectorsAreOwn
<1>1. Inv => VectorsAreOwn
      BY DEF Inv
<1> QED BY <1>1, InvHolds, PTL

(* The sources of a summary have the contents it was written from, however *)
(* many versions ago that was.                                             *)
THEOREM SummariesTheorem == Spec => []SummariesSupported
<1>1. Inv => SummariesSupported
      BY DEF Inv
<1> QED BY <1>1, InvHolds, PTL
---------------------------------------------------------------------------
(***************************************************************************)
(* Without a fault, what is served has its vector.                         *)
(***************************************************************************)

(* Between two requests the newest version is served and in the index;     *)
(* before a drain every document of it is in the outbox with its vector.   *)
HasVector(d) == d \in DOMAIN es /\ es[d] = {TextOf(d)}
ArrivedInv ==
    /\ faults \in Nat
    /\ faults = 0 /\ pc = "idle" =>
         /\ outbox = {}
         /\ versions # <<>> => /\ active = Len(versions)
                               /\ \A d \in Served(Len(versions)) : HasVector(d)
    /\ faults = 0 /\ pc = "staged" =>
         /\ versions # <<>>
         /\ \A d \in Served(Len(versions)) : \E r \in outbox : r.id = d
         /\ \A r \in outbox : r.vec = {TextOf(r.id)}
    /\ pc \in {"idle", "staged"}

LEMMA ArrivedInit == Init => ArrivedInv
BY DEF Init, ArrivedInv

LEMMA NewestVersion ==
    ASSUME VersionsInv
    PROVE  /\ Len(versions) \in Nat /\ DOMAIN versions = 1 .. Len(versions)
           /\ versions # <<>> => Len(versions) \in DOMAIN versions /\ LastVersion = versions[Len(versions)]
<1>1. Len(versions) \in Nat /\ DOMAIN versions = 1 .. Len(versions)
      BY LenProperties DEF VersionsInv
<1>2. versions # <<>> => Len(versions) # 0
      BY EmptySeq DEF VersionsInv
<1>3. versions # <<>> => LastVersion = versions[Len(versions)]
      BY DEF LastVersion, Last
<1> QED BY <1>1, <1>2, <1>3

LEMMA StageArrives ==
    ASSUME Inv, outbox = {}, NEW c, NEW new, NEW summaries, NEW chunkVec, NEW summaryVec,
           Stage(c, new, summaries, chunkVec, summaryVec), faults' = faults, faults \in Nat,
           \A k \in DOMAIN new : chunkVec[k] = {new[k].lines},
           \A s \in summaries : summaryVec[s] = {s.text}
    PROVE  ArrivedInv'
<1>0. PICK target : target = Len(versions) + 1
      OBVIOUS
<1> DEFINE x == [chunks |-> new, summaries |-> summaries, config |-> c]
<1>1. versions' = Append(versions, x) /\ pc' = "staged"
      BY DEF Stage
<1>2. /\ target \in DOMAIN versions' /\ versions'[target] = x
      /\ versions' \in Seq(Range(versions')) /\ DOMAIN versions' = 1 .. target
      BY <1>0, <1>1, AppendVersion DEF Inv, VersionsInv
<1>3. x.chunks = new /\ x.summaries = summaries
      OBVIOUS
<1> HIDE DEF x
<1>4. Len(versions') = target /\ versions' # <<>>
  <2>1. Len(versions) \in Nat /\ versions \in Seq(Range(versions) \cup {x})
        BY NewestVersion, SeqDef DEF Inv, VersionsInv, Range
  <2>2. Len(versions') = Len(versions) + 1
        BY <1>1, <2>1, AppendProperties
  <2> QED BY <1>0, <1>2, <2>1, <2>2
<1>5. outbox' = {Row(ChunkId(target, k), chunkVec[k]) : k \in DOMAIN new}
                \cup {Row(SummaryId(target, s.text), summaryVec[s]) : s \in summaries}
      BY <1>0 DEF Stage
<1>6. Served(target)' = {ChunkId(target, k) : k \in DOMAIN new}
                        \cup {SummaryId(target, s.text) : s \in summaries}
      BY <1>2, <1>3 DEF Served
<1>7. \A d \in Served(target)' : \E r \in outbox' : r.id = d
  <2>1. ASSUME NEW k \in DOMAIN new PROVE \E r \in outbox' : r.id = ChunkId(target, k)
    <3>1. Row(ChunkId(target, k), chunkVec[k]) \in outbox'
          BY <1>5
    <3> QED BY <3>1 DEF Row
  <2>2. ASSUME NEW s \in summaries PROVE \E r \in outbox' : r.id = SummaryId(target, s.text)
    <3>1. Row(SummaryId(target, s.text), summaryVec[s]) \in outbox'
          BY <1>5
    <3> QED BY <3>1 DEF Row
  <2> QED BY <1>6, <2>1, <2>2
<1>8. ASSUME NEW k \in DOMAIN new
      PROVE  LET r == Row(ChunkId(target, k), chunkVec[k]) IN r.vec = {TextOf(r.id)'}
  <2>1. ChunkId(target, k)[1] = "chunk" /\ ChunkId(target, k)[2] = target /\ ChunkId(target, k)[3] = k
        BY DEF ChunkId
  <2>2. TextOf(ChunkId(target, k))' = new[k].lines
        BY <1>2, <1>3, <2>1 DEF TextOf
  <2> QED BY <2>2 DEF Row
<1>9. ASSUME NEW s \in summaries
      PROVE  LET r == Row(SummaryId(target, s.text), summaryVec[s]) IN r.vec = {TextOf(r.id)'}
  <2>1. TextOf(SummaryId(target, s.text))' = s.text
        BY DEF TextOf, SummaryId
  <2> QED BY <2>1 DEF Row
<1>10. \A r \in outbox' : r.vec = {TextOf(r.id)'}
       BY <1>5, <1>8, <1>9
<1> QED BY <1>1, <1>4, <1>7, <1>10 DEF ArrivedInv

(* A step that fails says so.                                              *)
LEMMA FaultCounts == ASSUME faults \in Nat, NEW kind, Fault(kind)
                     PROVE  faults' \in Nat /\ faults' # 0
BY DEF Fault

LEMMA PublishArrives ==
    ASSUME Inv, ArrivedInv, Publish
    PROVE  ArrivedInv'
<1>1. /\ pc = "staged" /\ pc' = "idle" /\ outbox' = {} /\ active' = Len(versions)
      /\ es' = Published(outbox) /\ UNCHANGED <<blocks, versions, faults>>
      BY DEF Publish
<1>2. CASE faults # 0
      BY <1>1, <1>2 DEF ArrivedInv
<1>3. ASSUME faults = 0, NEW d \in Served(Len(versions))
      PROVE  d \in DOMAIN es' /\ es'[d] = {TextOf(d)}
  <2>1. PICK r \in outbox : r.id = d
        BY <1>1, <1>3 DEF ArrivedInv
  <2>2. d \in DOMAIN es' /\ es'[d] = (CHOOSE q \in outbox : q.id = d).vec
        BY <1>1, <2>1 DEF Published
  <2>3. PICK q \in outbox : q.id = d /\ es'[d] = q.vec
        BY <2>1, <2>2
  <2>4. q.vec = {TextOf(q.id)}
        BY <1>1, <1>3 DEF ArrivedInv
  <2> QED BY <2>2, <2>3, <2>4
<1>4. ASSUME faults = 0 PROVE ArrivedInv'
  <2>1. Served(Len(versions))' = Served(Len(versions)) /\ \A d : TextOf(d)' = TextOf(d)
        BY <1>1 DEF Served, TextOf
  <2>2. \A d \in Served(Len(versions))' : HasVector(d)'
        BY <1>3, <1>4, <2>1 DEF HasVector
  <2> QED BY <1>1, <2>2 DEF ArrivedInv
<1> QED BY <1>2, <1>4 DEF ArrivedInv

LEMMA StageIncrementalArrives ==
    ASSUME Inv, ArrivedInv, NEW c \in Configs, StageIncremental(c)
    PROVE  ArrivedInv'
<1> DEFINE new == ChunksOf(c, blocks)
           n == Len(versions)
<1>0. VersionsInv /\ faults \in Nat
      BY DEF Inv, ArrivedInv
<1>1. pc = "idle" /\ versions # <<>> /\ n \in DOMAIN versions /\ LastVersion = versions[n]
      BY <1>0, NewestVersion DEF StageIncremental, Begins, Incremental
<1>2. PICK late, unread :
         /\ unread = {} \/ Fault("unread")
         /\ unread = {} => UNCHANGED faults
         /\ LET prev == PrevVersion(late)
                kept == CarriedOver(prev, new)
            IN  \E fresh :
               Stage(c, new, kept \cup fresh,
                   [k \in DOMAIN new |-> ChunkVector(prev, new, k, unread)],
                   [s \in kept \cup fresh |->
                       IF s \in kept THEN ReuseVector(SummaryId(n, s.text), unread)
                                     ELSE {s.text}])
      BY DEF StageIncremental
<1> DEFINE prev == PrevVersion(late)
           kept == CarriedOver(prev, new)
<1>3. prev.chunks = versions[n].chunks /\ prev.summaries = versions[n].summaries
      BY <1>1 DEF PrevVersion
<1>4. PICK fresh :
         Stage(c, new, kept \cup fresh,
               [k \in DOMAIN new |-> ChunkVector(prev, new, k, unread)],
               [s \in kept \cup fresh |->
                   IF s \in kept THEN ReuseVector(SummaryId(n, s.text), unread) ELSE {s.text}])
      BY <1>2
<1> HIDE DEF new, prev, n, kept
<1>5. CASE faults' # 0
  <2>1. faults' \in Nat
        BY <1>0, <1>2, FaultCounts
  <2>2. pc' = "staged"
        BY <1>4 DEF Stage
  <2> QED BY <1>5, <2>1, <2>2 DEF ArrivedInv
<1>6. CASE faults' = 0
  <2>1. unread = {} /\ faults' = faults
        BY <1>0, <1>2, <1>6, FaultCounts
  <2>2. outbox = {} /\ \A d \in Served(n) : HasVector(d)
        BY <1>1, <1>6, <2>1 DEF ArrivedInv, n
  <2>3. ASSUME NEW k \in DOMAIN new
        PROVE  ChunkVector(prev, new, k, unread) = {new[k].lines}
    <3>1. CASE k \in Fresh(prev, new)
          BY <3>1 DEF ChunkVector
    <3>2. CASE k \notin Fresh(prev, new)
      <4> DEFINE i == Found(prev, new[k].lines)
      <4>1. Holding(prev.chunks, new[k].lines) # {}
            BY <3>2 DEF Fresh
      <4>2. i \in DOMAIN prev.chunks /\ prev.chunks[i].lines = new[k].lines
            BY <4>1, FoundHolds
      <4> HIDE DEF i
      <4>3. TextOf(ChunkId(n, i)) = new[k].lines
            BY <1>3, <4>2 DEF TextOf, ChunkId
      <4>4. HasVector(ChunkId(n, i))
            BY <1>3, <2>2, <4>2 DEF Served
      <4>5. ChunkVector(prev, new, k, unread) = ReuseVector(ChunkId(n, i), unread)
            BY <3>2 DEF ChunkVector, i, n
      <4> QED BY <2>1, <4>3, <4>4, <4>5 DEF ReuseVector, HasVector
    <3> QED BY <3>1, <3>2
  <2>4. ASSUME NEW s \in kept
        PROVE  ReuseVector(SummaryId(n, s.text), unread) = {s.text}
    <3>1. PICK p \in prev.summaries : s.text = p.text
          BY DEF kept, CarriedOver
    <3>2. HasVector(SummaryId(n, s.text))
          BY <1>3, <2>2, <3>1 DEF Served
    <3>3. TextOf(SummaryId(n, s.text)) = s.text
          BY DEF TextOf, SummaryId
    <3> QED BY <2>1, <3>2, <3>3 DEF ReuseVector, HasVector
  <2> QED BY <1>0, <1>4, <2>1, <2>2, <2>3, <2>4, StageArrives
<1> QED BY <1>5, <1>6

LEMMA ArrivedStep ==
    ASSUME Inv, ArrivedInv, [Next]_vars
    PROVE  ArrivedInv'
<1>0. VersionsInv /\ faults \in Nat
      BY DEF Inv, ArrivedInv
<1>1. ASSUME NEW c \in Configs, StageFull(c) PROVE ArrivedInv'
  <2> DEFINE new == ChunksOf(c, blocks)
  <2>1. PICK fresh :
           Stage(c, new, fresh, [k \in DOMAIN new |-> {new[k].lines}], [s \in fresh |-> {s.text}])
        BY <1>1 DEF StageFull
  <2>2. pc = "idle" /\ faults' = faults
        BY <1>1 DEF StageFull, Begins
  <2> HIDE DEF new
  <2>3. CASE faults = 0
    <3>1. outbox = {}
          BY <2>2, <2>3 DEF ArrivedInv
    <3> QED BY <1>0, <2>1, <2>2, <3>1, StageArrives
  <2>4. CASE faults # 0
        BY <1>0, <2>1, <2>2, <2>4 DEF ArrivedInv, Stage
  <2> QED BY <2>3, <2>4
<1>2. ASSUME NEW c \in Configs, StageIncremental(c) PROVE ArrivedInv'
      BY <1>2, StageIncrementalArrives
<1>3. ASSUME Publish PROVE ArrivedInv'
      BY <1>3, PublishArrives
<1>4. ASSUME PublishShort PROVE ArrivedInv'
      BY <1>0, <1>4, FaultCounts DEF PublishShort, ArrivedInv
<1>5. ASSUME NEW d \in DOMAIN es, Lose(d) PROVE ArrivedInv'
      BY <1>0, <1>5, FaultCounts DEF Lose, ArrivedInv
<1>6. ASSUME Reconcile PROVE ArrivedInv'
  <2>1. pc = "idle" /\ pc' = pc /\ faults' = faults /\ active \in DOMAIN versions
        BY <1>6 DEF Reconcile
  <2>2. CASE faults # 0
        BY <1>0, <2>1, <2>2 DEF ArrivedInv
  <2>3. CASE faults = 0
    <3>1. versions # <<>>
          BY <2>1
    <3>2. \A d \in Served(active) : d \in DOMAIN es
          BY <2>1, <2>3, <3>1 DEF ArrivedInv, HasVector
    <3>3. \A k \in DOMAIN versions[active].chunks : ChunkId(active, k) \in DOMAIN es
          BY <3>2 DEF Served
    <3>4. \A s \in versions[active].summaries : SummaryId(active, s.text) \in DOMAIN es
          BY <3>2 DEF Served
    <3>5. FALSE
          BY <1>6, <3>3, <3>4 DEF Reconcile, Row
    <3> QED BY <3>5
  <2> QED BY <2>2, <2>3
<1>7. ASSUME UNCHANGED vars PROVE ArrivedInv'
  <2>1. UNCHANGED <<versions, active, outbox, es, pc, faults>>
        BY <1>7 DEF vars
  <2>2. Served(Len(versions))' = Served(Len(versions)) /\ \A d : TextOf(d)' = TextOf(d)
        BY <2>1 DEF Served, TextOf
  <2>3. \A d : HasVector(d)' <=> HasVector(d)
        BY <2>1, <2>2 DEF HasVector
  <2> QED BY <2>1, <2>2, <2>3 DEF ArrivedInv
<1> QED BY <1>1, <1>2, <1>3, <1>4, <1>5, <1>6, <1>7 DEF Next

(* While nothing fails, every chunk and summary of the version that is     *)
(* served is in the index with the vector of its own text, whether it was  *)
(* computed anew or asked back from the index (pipeline.py:144-151): the   *)
(* re-ingests lose no vector by themselves.                                *)
THEOREM VectorsArrive == Spec => []ServedHaveVectors
<1>1. ArrivedInv => ServedHaveVectors
      BY DEF ArrivedInv, HasVector, ServedHaveVectors
<1>2. Inv /\ ArrivedInv /\ [Next]_vars => ArrivedInv'
      BY ArrivedStep
<1> QED BY <1>1, <1>2, ArrivedInit, InvHolds, PTL DEF Spec

---------------------------------------------------------------------------
(***************************************************************************)
(* Summaries that can stay do.                                             *)
(***************************************************************************)

(* What SummariesSurvive says of two versions that follow each other.      *)
Survive(prev, next) ==
    Repeated(prev.chunks) = {} /\ 2 * Cardinality(Fresh(prev, next.chunks)) <= Len(next.chunks) =>
        \A s \in prev.summaries :
            s.text.from \subseteq {next.chunks[k].lines : k \in DOMAIN next.chunks}
                => s.text \in {t.text : t \in next.summaries}
SurviveInv ==
    /\ \A v \in DOMAIN versions \ {1} : Survive(versions[v - 1], versions[v])
    /\ \A v \in DOMAIN versions : \A s \in versions[v].summaries : s.sources # {}

(* Every summary has a source.                                             *)
LEMMA AnswersSourced ==
    ASSUME NEW target, NEW new, NEW ks, NEW items \in Answers(target, new, ks), NEW s \in items
    PROVE  s.sources # {}
<1> DEFINE ws == Windows(new, ks)
<1>1. PICK picked \in SUBSET (ks \cap UNION Range(ws)) :
         items = {Summary(target, w, new, picked \cap ws[w]) :
                    w \in {w \in DOMAIN ws : picked \cap ws[w] # {}}}
      BY DEF Answers
<1> HIDE DEF ws
<1>2. PICK w \in DOMAIN ws : /\ s = Summary(target, w, new, picked \cap ws[w])
                             /\ picked \cap ws[w] # {}
      BY <1>1
<1> QED BY <1>2 DEF Summary

LEMMA CarriedOverSourced ==
    ASSUME NEW prev, NEW new, NEW s \in CarriedOver(prev, new)
    PROVE  s.sources # {}
BY DEF CarriedOver

(* When no two chunks hold the same, a chunk whose content is in the new   *)
(* version too is in the map.                                              *)
LEMMA StillThere ==
    ASSUME NEW prev, NEW new, Repeated(prev.chunks) = {}, NEW i \in DOMAIN prev.chunks,
           NEW k \in DOMAIN new, new[k].lines = prev.chunks[i].lines
    PROVE  i \in DOMAIN OldToNew(prev, new)
<1>1. Holding(prev.chunks, new[k].lines) = {i}
      BY DEF Repeated
<1>2. k \in DOMAIN new \ Fresh(prev, new)
      BY <1>1 DEF Fresh
<1>3. Found(prev, new[k].lines) \in Holding(prev.chunks, new[k].lines)
      BY <1>1, FoundHolds DEF Holding
<1>4. Found(prev, new[k].lines) = i
      BY <1>1, <1>3
<1> QED BY <1>2, <1>4 DEF OldToNew

LEMMA CarriedOverKeeps ==
    ASSUME NEW prev, NEW new, Repeated(prev.chunks) = {},
           NEW s \in prev.summaries, Supported(prev.chunks, s), s.sources # {},
           s.text.from \subseteq {new[k].lines : k \in DOMAIN new}
    PROVE  \E t \in CarriedOver(prev, new) : t.text = s.text
<1> DEFINE map == OldToNew(prev, new)
<1>1. ASSUME NEW i \in s.sources PROVE i \in DOMAIN map
  <2>1. i \in DOMAIN prev.chunks /\ prev.chunks[i].lines \in s.text.from
        BY DEF Supported
  <2>2. PICK k \in DOMAIN new : new[k].lines = prev.chunks[i].lines
        BY <2>1
  <2> QED BY <2>1, <2>2, StillThere
<1>2. [text |-> s.text, sources |-> {map[i] : i \in s.sources}] \in CarriedOver(prev, new)
      BY <1>1 DEF CarriedOver
<1> QED BY <1>2

(* A version that keeps what it has to keep of the version before.         *)
LEMMA StageSurvives ==
    ASSUME Inv, SurviveInv, NEW c, NEW new, NEW summaries, NEW chunkVec, NEW summaryVec,
           Stage(c, new, summaries, chunkVec, summaryVec),
           \A s \in summaries : s.sources # {},
           versions # <<>> => Survive(LastVersion, [chunks |-> new, summaries |-> summaries, config |-> c])
    PROVE  SurviveInv'
<1>0. PICK target : target = Len(versions) + 1
      OBVIOUS
<1> DEFINE x == [chunks |-> new, summaries |-> summaries, config |-> c]
<1>1. versions' = Append(versions, x)
      BY DEF Stage
<1>2. /\ versions'[target] = x /\ DOMAIN versions = 1 .. Len(versions)
      /\ DOMAIN versions' = DOMAIN versions \cup {target} /\ Len(versions) \in Nat
      /\ \A v \in DOMAIN versions : versions'[v] = versions[v]
      BY <1>0, <1>1, AppendVersion DEF Inv, VersionsInv
<1>3. x.summaries = summaries
      OBVIOUS
<1>4. versions # <<>> => Survive(LastVersion, x)
      OBVIOUS
<1> HIDE DEF x
<1>5. \A v \in DOMAIN versions' : \A s \in versions'[v].summaries : s.sources # {}
      BY <1>2, <1>3 DEF SurviveInv
<1>6. ASSUME NEW v \in DOMAIN versions' \ {1} PROVE Survive(versions'[v - 1], versions'[v])
  <2>1. CASE v \in DOMAIN versions
    <3>1. v - 1 \in DOMAIN versions
          BY <1>2, <1>6, <2>1
    <3>2. versions'[v] = versions[v] /\ versions'[v - 1] = versions[v - 1]
          BY <1>2, <2>1, <3>1
    <3> QED BY <1>6, <2>1, <3>2 DEF SurviveInv
  <2>2. CASE v = target
    <3>1. v - 1 = Len(versions) /\ Len(versions) \in DOMAIN versions
          BY <1>0, <1>2, <1>6, <2>2
    <3>2. versions # <<>>
          BY <3>1
    <3>3. LastVersion = versions'[v - 1]
          BY <1>2, <3>1, <3>2, NewestVersion DEF Inv
    <3> QED BY <1>2, <1>4, <2>2, <3>2, <3>3
  <2> QED BY <1>2, <1>6, <2>1, <2>2
<1>7. \A v \in DOMAIN versions' \ {1} : Survive(versions'[v - 1], versions'[v])
      BY <1>6
<1> QED BY <1>5, <1>7 DEF SurviveInv

LEMMA SurviveStep ==
    ASSUME Inv, SurviveInv, [Next]_vars
    PROVE  SurviveInv'
<1>1. ASSUME NEW c \in Configs, StageFull(c) PROVE SurviveInv'
  <2> DEFINE new == ChunksOf(c, blocks)
  <2>1. PICK fresh \in Answers(Len(versions) + 1, new, Eligible(new)) :
           Stage(c, new, fresh, [k \in DOMAIN new |-> {new[k].lines}], [s \in fresh |-> {s.text}])
        BY <1>1 DEF StageFull
  <2>2. ~Incremental(new)
        BY <1>1 DEF StageFull
  <2> HIDE DEF new
  <2>3. \A s \in fresh : s.sources # {}
        BY <2>1, AnswersSourced
  <2>4. versions # <<>> => Survive(LastVersion, [chunks |-> new, summaries |-> fresh, config |-> c])
        BY <2>2 DEF Incremental, Survive
  <2> QED BY <2>1, <2>3, <2>4, StageSurvives
<1>2. ASSUME NEW c \in Configs, StageIncremental(c) PROVE SurviveInv'
  <2> DEFINE new == ChunksOf(c, blocks)
  <2>0. Inv /\ versions # <<>> /\ Len(versions) \in DOMAIN versions /\ LastVersion = versions[Len(versions)]
        BY <1>2, NewestVersion DEF StageIncremental, Incremental, Inv
  <2>1. PICK late, unread :
           LET prev == PrevVersion(late)
               kept == CarriedOver(prev, new)
           IN  \E fresh \in Answers(Len(versions) + 1, new, Eligible(new) \cap Fresh(prev, new)) :
                 Stage(c, new, kept \cup fresh,
                     [k \in DOMAIN new |-> ChunkVector(prev, new, k, unread)],
                     [s \in kept \cup fresh |->
                         IF s \in kept THEN ReuseVector(SummaryId(Len(versions), s.text), unread)
                                       ELSE {s.text}])
        BY <1>2 DEF StageIncremental
  <2> DEFINE prev == PrevVersion(late)
             kept == CarriedOver(prev, new)
  <2>2. prev.chunks = LastVersion.chunks /\ prev.summaries = LastVersion.summaries
        BY DEF PrevVersion
  <2>3. PICK fresh \in Answers(Len(versions) + 1, new, Eligible(new) \cap Fresh(prev, new)) :
           \E chunkVec, summaryVec : Stage(c, new, kept \cup fresh, chunkVec, summaryVec)
        BY <2>1
  <2> HIDE DEF new, prev
  <2>4. \A s \in kept \cup fresh : s.sources # {}
        BY <2>3, AnswersSourced, CarriedOverSourced
  <2>5. \A s \in prev.summaries : Supported(prev.chunks, s) /\ s.sources # {}
        BY <2>0, <2>2 DEF Inv, SummariesSupported, SurviveInv, Supported
  <2> DEFINE x == [chunks |-> new, summaries |-> kept \cup fresh, config |-> c]
  <2>6. x.chunks = new /\ x.summaries = kept \cup fresh
        OBVIOUS
  <2>7. ASSUME Repeated(prev.chunks) = {}, NEW s \in prev.summaries,
               s.text.from \subseteq {new[k].lines : k \in DOMAIN new}
        PROVE  \E t \in kept : t.text = s.text
        BY <2>5, <2>7, CarriedOverKeeps
  <2> HIDE DEF x, kept
  <2>8. Survive(LastVersion, x)
        BY <2>2, <2>6, <2>7 DEF Survive
  <2>9. Survive(LastVersion, [chunks |-> new, summaries |-> kept \cup fresh, config |-> c])
        BY <2>8 DEF x
  <2> QED BY <2>3, <2>4, <2>9, StageSurvives
<1>3. ASSUME UNCHANGED versions PROVE SurviveInv'
      BY <1>3 DEF SurviveInv
<1> QED BY <1>1, <1>2, <1>3 DEF Next, Publish, PublishShort, Lose, Reconcile, vars

(* However often a file is ingested again, a summary whose sources' texts  *)
(* are all still there is taken over, as long as no text occurs twice and  *)
(* at least half of the chunks are old (diff.py:4, pipeline.py:158-170).   *)
THEOREM SummariesStay == Spec => []SummariesSurvive
<1>1. SurviveInv => SummariesSurvive
      BY DEF SurviveInv, Survive, SummariesSurvive
<1>2. Init => SurviveInv
      BY DEF Init, SurviveInv
<1>3. Inv /\ SurviveInv /\ [Next]_vars => SurviveInv'
      BY SurviveStep
<1> QED BY <1>1, <1>2, <1>3, InvHolds, PTL DEF Spec

---------------------------------------------------------------------------
(***************************************************************************)
(* The chunks of every version divide the document.                        *)
(***************************************************************************)
MadeInv ==
    \A v \in DOMAIN versions :
        /\ versions[v].config \in Configs
        /\ versions[v].chunks = ChunksOf(versions[v].config, blocks)

(* A version is made of its document by its configuration.                 *)
LEMMA StageMakes ==
    ASSUME Inv, MadeInv, NEW c \in Configs, NEW summaries, NEW chunkVec, NEW summaryVec,
           Stage(c, ChunksOf(c, blocks), summaries, chunkVec, summaryVec)
    PROVE  MadeInv'
<1>0. PICK target, new : target = Len(versions) + 1 /\ new = ChunksOf(c, blocks)
      OBVIOUS
<1> DEFINE x == [chunks |-> new, summaries |-> summaries, config |-> c]
<1>1. versions' = Append(versions, x) /\ blocks' = blocks
      BY <1>0 DEF Stage
<1>2. x.chunks = new /\ x.config = c
      OBVIOUS
<1> HIDE DEF x
<1>3. /\ versions'[target] = x /\ DOMAIN versions' = DOMAIN versions \cup {target}
      /\ \A v \in DOMAIN versions : versions'[v] = versions[v]
      BY <1>0, <1>1, AppendVersion DEF Inv, VersionsInv
<1> QED BY <1>0, <1>1, <1>2, <1>3 DEF MadeInv

LEMMA MadeStep ==
    ASSUME Inv, MadeInv, [Next]_vars
    PROVE  MadeInv'
<1>1. ASSUME NEW c \in Configs, StageFull(c) PROVE MadeInv'
  <2>1. \E fresh, chunkVec, summaryVec : Stage(c, ChunksOf(c, blocks), fresh, chunkVec, summaryVec)
        BY <1>1 DEF StageFull
  <2> QED BY <2>1, StageMakes
<1>2. ASSUME NEW c \in Configs, StageIncremental(c) PROVE MadeInv'
  <2>1. \E all, chunkVec, summaryVec : Stage(c, ChunksOf(c, blocks), all, chunkVec, summaryVec)
        BY <1>2 DEF StageIncremental
  <2> QED BY <2>1, StageMakes
<1>3. ASSUME UNCHANGED <<versions, blocks>> PROVE MadeInv'
      BY <1>3 DEF MadeInv
<1> QED BY <1>1, <1>2, <1>3 DEF Next, Publish, PublishShort, Lose, Reconcile, vars

(* Whatever the document, the versions before, and the limit and overlap   *)
(* asked for, the chunks of a version stand one after the other from the   *)
(* first token of the text to its last, if the limit is not 0 or less (in  *)
(* pairs of questions and answers even then): with no more between two     *)
(* than the stride of the windows exceeds the limit by, nothing when the   *)
(* overlap is not negative, overlapping by no more than they may, and each *)
(* read as the text does, but for the characters that its ends cut.  With  *)
(* such a limit none is too long unless it is one block; and by blocks they*)
(* go on with prose only and keep every table by itself (chunker.py:3-8,   *)
(* 126-132, chunker_factory.py:5-13, 113-123).  That a wide enough overlap *)
(* keeps the cut characters is CharactersKept, which is only model-checked.*)
THEOREM ChunksCorrect == Spec => []ChunksDivide
<1>1. Init => MadeInv
      BY DEF Init, MadeInv
<1>2. Inv /\ MadeInv /\ [Next]_vars => MadeInv'
      BY MadeStep
<1>3. Inv /\ MadeInv => ChunksDivide
  <2> SUFFICES ASSUME Inv, MadeInv, NEW v \in DOMAIN versions
               PROVE  LET c == versions[v].config
                          chunks == versions[v].chunks
                      IN  /\ c.method # "one" /\ Divisible(c, blocks) => Covers(c, Divided(c, blocks), chunks)
                          /\ c.method # "one" /\ c.size > 0 => Bounded(c, chunks)
                          /\ c.method \in {"naive", "delimiter"} => Parted(Parts(c, blocks), chunks)
      BY DEF ChunksDivide
  <2>1. PICK c, bs : c = versions[v].config /\ bs = blocks
        OBVIOUS
  <2>2. IsConfig(c) /\ bs \in Seq(Block) /\ versions[v].chunks = ChunksOf(c, bs)
        BY <2>1, ConfigsAssumption, DocumentsAssumption DEF Inv, VersionsInv, MadeInv
  <2>3. c.method # "one" /\ Divisible(c, bs) => Covers(c, Divided(c, bs), ChunksOf(c, bs))
        BY <2>2, ChunksOfCover
  <2>5. c.method # "one" /\ c.size > 0 => Bounded(c, ChunksOf(c, bs))
        BY <2>2, ChunksOfBounded
  <2>4. c.method \in {"naive", "delimiter"} => Parted(Parts(c, bs), ChunksOf(c, bs))
        BY <2>2, ChunksOfPart
  <2> QED BY <2>1, <2>2, <2>3, <2>4, <2>5
<1> QED BY <1>1, <1>2, <1>3, InvHolds, PTL DEF Spec
=============================================================================
