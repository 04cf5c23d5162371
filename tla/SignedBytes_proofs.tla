------------------------- MODULE SignedBytes_proofs -------------------------
(***************************************************************************)
(* What the codecs do with every sequence of bytes: a transaction has one  *)
(* form, and they agree on it; that the bytes of a signed transaction are  *)
(* as many as its payment was estimated to have; and that the codecs read  *)
(* back what the wallets write.                                            *)
(***************************************************************************)
EXTENDS SignedBytes, CoinSelection_proofs, SequenceTheorems

Byte == 0 .. 255

-----------------------------------------------------------------------------
(***************************************************************************)
(* A fold from the left, one item at a time.  The step is a function of    *)
(* the index and of what the fold has so far, one of A.                    *)
(***************************************************************************)
Folds(f, b, Step) ==
  \A Q \in DOMAIN f :
    f[Q] = IF Q = {} THEN b ELSE Step[<<Max(Q), f[Q \ {Max(Q)}]>>]

(* A set of indices without its greatest.                                  *)
LEMMA Smaller ==
  ASSUME NEW k \in Nat, NEW Q \in SUBSET (1 .. k), Q # {}
  PROVE  Max(Q) \in 1 .. k /\ Q \ {Max(Q)} \in SUBSET (1 .. k - 1)
<1>1. Max(Q) \in Q /\ \A x \in Q : x <= Max(Q)
  BY Greatest
<1>2. \A x \in Q \ {Max(Q)} : x \in 1 .. k /\ Max(Q) \in 1 .. k /\ x # Max(Q)
  BY <1>1
<1>3. \A x \in Q \ {Max(Q)} : x \in 1 .. k - 1
  BY <1>1, <1>2
<1> QED BY <1>1, <1>3

LEMMA FoldExists ==
  ASSUME NEW L \in Nat, NEW A, NEW b \in A, NEW Step \in [(1 .. L) \X A -> A]
  PROVE  \E f \in [SUBSET (1 .. L) -> A] : Folds(f, b, Step)
<1> DEFINE T == {k \in 0 .. L : \E f \in [SUBSET (1 .. k) -> A] : Folds(f, b, Step)}
<1>1. 0 \in T
  <2> DEFINE f == [Q \in SUBSET (1 .. 0) |-> b]
  <2>1. \A Q \in SUBSET (1 .. 0) : Q = {}
    OBVIOUS
  <2>2. f \in [SUBSET (1 .. 0) -> A] /\ Folds(f, b, Step)
    BY <2>1 DEF Folds
  <2> QED BY <2>2
<1>2. ASSUME NEW k \in 1 .. L, k - 1 \in T PROVE k \in T
  <2>1. PICK f \in [SUBSET (1 .. k - 1) -> A] : Folds(f, b, Step)
    BY <1>2
  <2> DEFINE g == [Q \in SUBSET (1 .. k) |->
                     IF Q = {} THEN b ELSE Step[<<Max(Q), f[Q \ {Max(Q)}]>>]]
  <2>2. ASSUME NEW Q \in SUBSET (1 .. k), Q # {}
        PROVE  Q \ {Max(Q)} \in SUBSET (1 .. k - 1) /\ Max(Q) \in 1 .. L
    BY <2>2, Smaller
  <2>3. g \in [SUBSET (1 .. k) -> A]
    <3> SUFFICES ASSUME NEW Q \in SUBSET (1 .. k), Q # {}
                 PROVE  Step[<<Max(Q), f[Q \ {Max(Q)}]>>] \in A
      OBVIOUS
    <3>1. f[Q \ {Max(Q)}] \in A /\ Max(Q) \in 1 .. L
      BY <2>1, <2>2
    <3> QED BY <3>1
  <2>4. SUBSET (1 .. k - 1) \subseteq SUBSET (1 .. k)
    OBVIOUS
  <2>5. \A Q \in SUBSET (1 .. k - 1) : g[Q] = f[Q]
    BY <2>1, <2>4 DEF Folds
  <2>6. Folds(g, b, Step)
    BY <2>2, <2>5, <2>4 DEF Folds
  <2>7. k \in 0 .. L
    OBVIOUS
  <2> HIDE DEF g
  <2> QED BY <2>3, <2>6, <2>7
<1>3. 0 .. L \subseteq T
  <2> HIDE DEF T
  <2> QED BY <1>1, <1>2, UpTo
<1>4. L \in 0 .. L
  OBVIOUS
<1> QED BY <1>3, <1>4

(* The first items of a fold.                                              *)
LEMMA FirstItems ==
  ASSUME NEW L \in Nat, NEW k \in 1 .. L
  PROVE  /\ 1 .. k \in SUBSET (1 .. L) /\ 1 .. k # {} /\ Max(1 .. k) = k
         /\ (1 .. k) \ {Max(1 .. k)} = 1 .. k - 1 /\ 1 .. k - 1 \in SUBSET (1 .. L)
         /\ k - 1 \in 0 .. L /\ k \in 0 .. L
<1>1. 1 .. k \in SUBSET (1 .. L) /\ 1 .. k # {} /\ k \in 0 .. L /\ k - 1 \in 0 .. L
  OBVIOUS
<1>2. Max(1 .. k) = k
  <2>1. Max(1 .. k) \in 1 .. k /\ \A x \in 1 .. k : x <= Max(1 .. k)
    BY <1>1, Greatest
  <2> QED BY <2>1
<1>3. (1 .. k) \ {k} = 1 .. k - 1 /\ 1 .. k - 1 \in SUBSET (1 .. L)
  OBVIOUS
<1> QED BY <1>1, <1>2, <1>3

(* The partial results of a fold of L items.                               *)
Partials(p, L, A, b, Step) ==
  p \in [0 .. L -> A] /\ p[0] = b /\ \A k \in 1 .. L : p[k] = Step[<<k, p[k - 1]>>]

(* A fold of L items, over the sets of its indices and in partial results. *)
Runs(f, p, L, A, b, Step) ==
  /\ f \in [SUBSET (1 .. L) -> A] /\ Folds(f, b, Step)
  /\ Partials(p, L, A, b, Step) /\ p[L] = f[1 .. L]

LEMMA FoldRuns ==
  ASSUME NEW L \in Nat, NEW A, NEW b \in A, NEW Step \in [(1 .. L) \X A -> A]
  PROVE  \E f, p : Runs(f, p, L, A, b, Step)
<1>0. PICK f \in [SUBSET (1 .. L) -> A] : Folds(f, b, Step)
  BY FoldExists
<1> DEFINE p == [k \in 0 .. L |-> f[1 .. k]]
<1>1. p \in [0 .. L -> A]
  OBVIOUS
<1>2. p[0] = b
  <2>1. 1 .. 0 = {} /\ {} \in SUBSET (1 .. L) /\ 0 \in 0 .. L
    OBVIOUS
  <2>2. f[{}] = b
    BY <1>0, <2>1 DEF Folds
  <2> QED BY <2>1, <2>2
<1>3. ASSUME NEW k \in 1 .. L PROVE p[k] = Step[<<k, p[k - 1]>>]
  <2>1. f[1 .. k] = Step[<<k, f[1 .. k - 1]>>]
    BY <1>0, FirstItems DEF Folds
  <2> QED BY <2>1, FirstItems
<1>4. p[L] = f[1 .. L]
  OBVIOUS
<1> HIDE DEF p
<1>5. Runs(f, p, L, A, b, Step)
  BY <1>0, <1>1, <1>2, <1>3, <1>4 DEF Partials, Runs
<1> QED BY <1>5

(* A fold that starts the same way and goes on the same way is the same.   *)
LEMMA SameFold ==
  ASSUME NEW L \in Nat, NEW f, NEW g, f[{}] = g[{}],
         \A k \in 1 .. L : f[1 .. k - 1] = g[1 .. k - 1] => f[1 .. k] = g[1 .. k]
  PROVE  f[1 .. L] = g[1 .. L]
<1> DEFINE T == {k \in 0 .. L : f[1 .. k] = g[1 .. k]}
<1>1. 0 \in T
  <2>1. 1 .. 0 = {}
    OBVIOUS
  <2> QED BY <2>1
<1>2. \A k \in 1 .. L : k - 1 \in T => k \in T
  OBVIOUS
<1>3. 0 .. L \subseteq T
  <2> HIDE DEF T
  <2> QED BY <1>1, <1>2, UpTo
<1>4. L \in 0 .. L
  OBVIOUS
<1> QED BY <1>3, <1>4

-----------------------------------------------------------------------------
(* Sequences one after the other.                                          *)
Concats(p, L, V, seqs) ==
  /\ p \in [0 .. L -> Seq(V)] /\ p[0] = <<>> /\ p[L] = Concat(seqs)
  /\ \A k \in 1 .. L : p[k] = p[k - 1] \o seqs[k]

LEMMA ConcatSteps ==
  ASSUME NEW L \in Nat, NEW V, NEW seqs \in [1 .. L -> Seq(V)]
  PROVE  \E p : Concats(p, L, V, seqs)
<1> DEFINE A == Seq(V)
           Step == [s \in (1 .. L) \X A |-> s[2] \o seqs[s[1]]]
           Iter(f) == f = [Q \in SUBSET DOMAIN seqs |->
             IF Q = {} THEN <<>> ELSE f[Q \ {Max(Q)}] \o seqs[Max(Q)]]
           iter == CHOOSE f : Iter(f)
<1>1. DOMAIN seqs = 1 .. L /\ Step \in [(1 .. L) \X A -> A] /\ <<>> \in A
  <2>1. \A s, t \in A : s \o t \in A
    BY ConcatProperties
  <2> QED BY <2>1, EmptySeq
<1>2. \A k \in 1 .. L, a \in A : Step[<<k, a>>] = a \o seqs[k]
  OBVIOUS
<1> HIDE DEF Step
<1>a. PICK f, p : Runs(f, p, L, A, <<>>, Step)
  BY <1>1, FoldRuns
<1>3. /\ f \in [SUBSET (1 .. L) -> A] /\ Folds(f, <<>>, Step)
      /\ Partials(p, L, A, <<>>, Step) /\ p[L] = f[1 .. L]
  BY <1>a DEF Runs
<1>4. Iter(f)
  <2>1. \A Q \in SUBSET (1 .. L) : Q # {} =>
          Max(Q) \in 1 .. L /\ Q \ {Max(Q)} \in SUBSET (1 .. L)
    BY Smaller
  <2>2. \A Q \in SUBSET (1 .. L) : f[Q] =
          IF Q = {} THEN <<>> ELSE f[Q \ {Max(Q)}] \o seqs[Max(Q)]
    BY <1>2, <1>3, <2>1 DEF Folds
  <2> QED BY <1>1, <1>3, <2>2
<1>5. Iter(iter)
  BY <1>4, Zenon
<1>6. Concat(seqs) = iter[DOMAIN seqs]
  BY DEF Concat, FoldLeft, MapThenFoldSet
<1> HIDE DEF iter
<1>7. iter[1 .. L] = f[1 .. L]
  <2>1. iter[{}] = f[{}]
    <3>1. {} \in SUBSET (1 .. L)
      OBVIOUS
    <3> QED BY <1>1, <1>4, <1>5, <3>1
  <2>2. ASSUME NEW k \in 1 .. L, iter[1 .. k - 1] = f[1 .. k - 1]
        PROVE  iter[1 .. k] = f[1 .. k]
    <3>1. /\ 1 .. k \in SUBSET (1 .. L) /\ 1 .. k # {} /\ Max(1 .. k) = k
          /\ (1 .. k) \ {Max(1 .. k)} = 1 .. k - 1
      BY FirstItems
    <3>2. iter[1 .. k] = iter[1 .. k - 1] \o seqs[k]
      BY <1>1, <1>5, <3>1
    <3>3. f[1 .. k] = f[1 .. k - 1] \o seqs[k]
      BY <1>1, <1>4, <3>1
    <3> QED BY <2>2, <3>2, <3>3
  <2> QED BY <2>1, <2>2, SameFold
<1> HIDE DEF Iter, A
<1>9. p[L] = Concat(seqs)
  BY <1>1, <1>3, <1>6, <1>7
<1>10. \A k \in 1 .. L : p[k] = p[k - 1] \o seqs[k]
  <2> SUFFICES ASSUME NEW k \in 1 .. L PROVE p[k] = p[k - 1] \o seqs[k]
    OBVIOUS
  <2>1. k - 1 \in 0 .. L
    OBVIOUS
  <2> QED BY <1>2, <1>3, <2>1 DEF Partials
<1> USE DEF A
<1> QED BY <1>3, <1>9, <1>10 DEF Partials, Concats

(* Two neighbouring parts of a sequence.                                   *)
LEMMA Adjacent ==
  ASSUME NEW V, NEW d \in Seq(V), NEW i \in Nat \ {0}, NEW j \in Nat, NEW k \in Nat,
         i <= j, j <= k, k <= Len(d) + 1
  PROVE  SubSeq(d, i, j - 1) \o SubSeq(d, j, k - 1) = SubSeq(d, i, k - 1)
<1>1. /\ Len(d) \in Nat /\ i \in 1 .. Len(d) + 1 /\ j - 1 \in i - 1 .. Len(d)
      /\ k - 1 \in j - 1 .. Len(d) /\ (j - 1) + 1 = j
  BY LenProperties
<1>2. SubSeq(d, i, j - 1) \o SubSeq(d, (j - 1) + 1, k - 1) = SubSeq(d, i, k - 1)
  BY <1>1, ConcatAdjacentSubSeq, Zenon
<1> QED BY <1>1, <1>2

(* Parts that follow each other, put together.                             *)
Parts(q, seqs, L, d, V) ==
  /\ q \in [0 .. L -> 1 .. Len(d) + 1] /\ seqs \in [1 .. L -> Seq(V)]
  /\ \A k \in 1 .. L : q[k - 1] <= q[k] /\ seqs[k] = SubSeq(d, q[k - 1], q[k] - 1)

LEMMA ConcatParts ==
  ASSUME NEW V, NEW d \in Seq(V), NEW L \in Nat, NEW q, NEW seqs, Parts(q, seqs, L, d, V)
  PROVE  q[0] <= q[L] /\ Concat(seqs) = SubSeq(d, q[0], q[L] - 1)
<1>a. /\ q \in [0 .. L -> 1 .. Len(d) + 1] /\ seqs \in [1 .. L -> Seq(V)]
      /\ \A k \in 1 .. L : q[k - 1] <= q[k] /\ seqs[k] = SubSeq(d, q[k - 1], q[k] - 1)
  BY DEF Parts
<1>1. PICK p : Concats(p, L, V, seqs)
  BY <1>a, ConcatSteps
<1>0. p[0] = <<>> /\ p[L] = Concat(seqs) /\ \A k \in 1 .. L : p[k] = p[k - 1] \o seqs[k]
  BY <1>1 DEF Concats
<1> DEFINE T == {k \in 0 .. L : q[0] <= q[k] /\ p[k] = SubSeq(d, q[0], q[k] - 1)}
<1>2. 0 \in T
  <2>1. 0 \in 0 .. L /\ q[0] \in Int /\ q[0] - 1 \in Int /\ q[0] - 1 < q[0] /\ Len(d) \in Nat
    BY <1>a, LenProperties
  <2>2. SubSeq(d, q[0], q[0] - 1) = <<>>
    BY <2>1, SubSeqEmpty
  <2>3. q[0] <= q[0] /\ p[0] = SubSeq(d, q[0], q[0] - 1)
    BY <1>0, <2>1, <2>2
  <2> QED BY <2>1, <2>3, Zenon
<1>3. ASSUME NEW k \in 1 .. L, k - 1 \in T PROVE k \in T
  <2>1. /\ k \in 0 .. L /\ k - 1 \in 0 .. L /\ 0 \in 0 .. L /\ Len(d) \in Nat
    BY LenProperties
  <2>2. /\ q[0] \in Nat \ {0} /\ q[k - 1] \in Nat /\ q[k] \in Nat /\ q[0] <= q[k - 1]
        /\ q[k - 1] <= q[k] /\ q[k] <= Len(d) + 1
    BY <1>a, <1>3, <2>1
  <2>3. SubSeq(d, q[0], q[k - 1] - 1) \o SubSeq(d, q[k - 1], q[k] - 1)
          = SubSeq(d, q[0], q[k] - 1)
    BY <2>2, Adjacent, Zenon
  <2>4. p[k - 1] = SubSeq(d, q[0], q[k - 1] - 1)
    BY <1>3, Zenon
  <2>5. p[k] = p[k - 1] \o seqs[k] /\ seqs[k] = SubSeq(d, q[k - 1], q[k] - 1)
    BY <1>0, <1>a, Zenon
  <2>6. q[0] <= q[k]
    BY <2>2
  <2>7. p[k] = SubSeq(d, q[0], q[k] - 1)
    BY <2>3, <2>4, <2>5, Zenon
  <2> QED BY <2>1, <2>6, <2>7, Zenon
<1>4. 0 .. L \subseteq T
  <2> HIDE DEF T
  <2> QED BY <1>2, <1>3, UpTo
<1>5. L \in 0 .. L
  OBVIOUS
<1>6. L \in T
  <2> HIDE DEF T
  <2> QED BY <1>4, <1>5
<1> QED BY <1>0, <1>6

-----------------------------------------------------------------------------
(***************************************************************************)
(* What is read is written the same way.  A read of d at i, if it does not *)
(* fail, spells the bytes from i to where it ends.                         *)
(***************************************************************************)
Spells(d, i, r, bytes) ==
  /\ r.at \in 0 .. Len(d) + 1
  /\ r.at # 0 => i \in Nat \ {0} /\ i <= r.at /\ bytes = SubSeq(d, i, r.at - 1)

LEMMA PartOf ==
  ASSUME NEW V, NEW d \in Seq(V), NEW i \in Nat \ {0}, NEW j \in Nat, i <= j, j <= Len(d) + 1
  PROVE  /\ SubSeq(d, i, j - 1) \in Seq(V) /\ Len(SubSeq(d, i, j - 1)) = j - i
         /\ \A k \in 1 .. j - i : SubSeq(d, i, j - 1)[k] = d[i + k - 1]
<1>1. Len(d) \in Nat
  BY LenProperties
<1>2. \A k \in i .. j - 1 : k \in 1 .. Len(d)
  BY <1>1
<1>3. \A k \in i .. j - 1 : d[k] \in V
  BY <1>2, ElementOfSeq
<1>4. /\ SubSeq(d, i, j - 1) \in Seq(V)
      /\ Len(SubSeq(d, i, j - 1)) = IF i <= j - 1 THEN (j - 1) - i + 1 ELSE 0
      /\ \A k \in 1 .. (j - 1) - i + 1 : SubSeq(d, i, j - 1)[k] = d[i + k - 1]
  <2>1. PICK m \in Int : m = j - 1
    OBVIOUS
  <2>2. \A k \in i .. m : d[k] \in V
    BY <1>3, <2>1
  <2>3. /\ SubSeq(d, i, m) \in Seq(V)
        /\ Len(SubSeq(d, i, m)) = IF i <= m THEN m - i + 1 ELSE 0
        /\ \A k \in 1 .. m - i + 1 : SubSeq(d, i, m)[k] = d[i + k - 1]
    BY <2>2, SubSeqProperties
  <2> QED BY <2>1, <2>3
<1> QED BY <1>4

LEMMA ReadSpells ==
  ASSUME NEW V, NEW d \in Seq(V), NEW i \in 0 .. Len(d) + 1, NEW k \in Nat
  PROVE  /\ Spells(d, i, Read(d, i, k), Read(d, i, k).val)
         /\ Read(d, i, k).val \in Seq(V)
         /\ Read(d, i, k).at # 0 => Len(Read(d, i, k).val) = k /\ Read(d, i, k).at = i + k
<1>1. Len(d) \in Nat
  BY LenProperties
<1>2. CASE i = 0 \/ i + k - 1 > Len(d)
  <2>1. Read(d, i, k) = Failed
    BY <1>2 DEF Read
  <2> QED BY <1>1, <2>1, EmptySeq DEF Failed, Spells
<1>3. CASE ~(i = 0 \/ i + k - 1 > Len(d))
  <2>1. Read(d, i, k) = [at |-> i + k, val |-> SubSeq(d, i, i + k - 1)]
    BY <1>3 DEF Read
  <2>2. i \in Nat \ {0} /\ i + k \in Nat /\ i <= i + k /\ i + k <= Len(d) + 1
    BY <1>1, <1>3
  <2>3. /\ SubSeq(d, i, i + k - 1) \in Seq(V) /\ Len(SubSeq(d, i, i + k - 1)) = (i + k) - i
    BY <2>2, PartOf
  <2> QED BY <1>1, <2>1, <2>2, <2>3 DEF Spells
<1> QED BY <1>2, <1>3

(* Sequences of one and of three bytes, and the digits of a size.          *)
LEMMA One ==
  ASSUME NEW V, NEW s \in Seq(V), Len(s) = 1 PROVE s = <<s[1]>>
  OBVIOUS

LEMMA Three ==
  ASSUME NEW V, NEW s \in Seq(V), Len(s) = 3 PROVE s = <<s[1], s[2], s[3]>>
  OBVIOUS

LEMMA Digits ==
  ASSUME NEW a \in Byte, NEW b \in Byte
  PROVE  a + 256 * b \in Nat /\ (a + 256 * b) % 256 = a /\ (a + 256 * b) \div 256 = b
  BY DEF Byte

(* A CompactSize is accepted in its shortest form only.                    *)
LEMMA ReadSizeSpells ==
  ASSUME NEW d \in Seq(Byte), NEW i \in 0 .. Len(d) + 1
  PROVE  /\ Spells(d, i, ReadSize(d, i), EncodeSize(ReadSize(d, i).val))
         /\ ReadSize(d, i).at # 0 => ReadSize(d, i).val \in Nat /\ i < ReadSize(d, i).at
<1>1. Len(d) \in Nat
  BY LenProperties
<1>0. i \in 1 .. Len(d) => d[i] \in Nat
  <2>1. i \in 1 .. Len(d) => d[i] \in Byte
    BY ElementOfSeq
  <2>2. \A x \in Byte : x \in Nat
    BY DEF Byte
  <2> QED BY <2>1, <2>2
<1> DEFINE r == ReadSize(d, i)
<1>2. ASSUME r = Failed PROVE Spells(d, i, r, EncodeSize(r.val)) /\ r.at = 0
  BY <1>1, <1>2 DEF Failed, Spells
<1>3. CASE i \in 1 .. Len(d) /\ d[i] < 253
  <2>1. r = [at |-> i + 1, val |-> d[i]]
    BY <1>1, <1>3 DEF ReadSize
  <2>2. i + 1 \in Nat /\ d[i] \in Nat /\ i \in Nat \ {0} /\ i <= i + 1 /\ i + 1 <= Len(d) + 1
    BY <1>0, <1>1, <1>3
  <2> DEFINE s == SubSeq(d, i, (i + 1) - 1)
  <2>3. /\ s \in Seq(Byte) /\ Len(s) = (i + 1) - i
        /\ \A k \in 1 .. (i + 1) - i : s[k] = d[i + k - 1]
    BY <2>2, PartOf
  <2> HIDE DEF s
  <2>4. Len(s) = 1 /\ s[1] = d[i]
    BY <2>2, <2>3
  <2>5. s = <<d[i]>>
    BY <2>3, <2>4, One
  <2>6. EncodeSize(d[i]) = <<d[i]>>
    BY <1>3 DEF EncodeSize
  <2> QED BY <1>1, <2>1, <2>2, <2>5, <2>6 DEF Spells, s
<1>4. CASE i \in 1 .. Len(d) /\ d[i] = 253 /\ i + 2 <= Len(d)
  <2> DEFINE k == d[i + 1] + 256 * d[i + 2]
             s == SubSeq(d, i, (i + 3) - 1)
  <2>1. /\ i + 1 \in 1 .. Len(d) /\ i + 2 \in 1 .. Len(d) /\ i \in Nat \ {0}
        /\ i + 3 \in Nat /\ i <= i + 3 /\ i + 3 <= Len(d) + 1
    BY <1>1, <1>4
  <2>2. d[i + 1] \in Byte /\ d[i + 2] \in Byte
    BY <2>1, ElementOfSeq
  <2>3. k \in Nat /\ k % 256 = d[i + 1] /\ k \div 256 = d[i + 2]
    <3>1. PICK a \in Byte, b \in Byte : a = d[i + 1] /\ b = d[i + 2]
      BY <2>2
    <3>2. a + 256 * b \in Nat /\ (a + 256 * b) % 256 = a /\ (a + 256 * b) \div 256 = b
      BY Digits
    <3>3. k = a + 256 * b
      BY <3>1
    <3> HIDE DEF k
    <3> QED BY <3>1, <3>2, <3>3
  <2>4. r = IF k < 253 THEN Failed ELSE [at |-> i + 3, val |-> k]
    BY <1>1, <1>4 DEF ReadSize
  <2>5. s \in Seq(Byte) /\ Len(s) = (i + 3) - i /\ \A m \in 1 .. (i + 3) - i : s[m] = d[i + m - 1]
    BY <2>1, PartOf
  <2> HIDE DEF s, k
  <2>6. Len(s) = 3 /\ s[1] = d[i] /\ s[2] = d[i + 1] /\ s[3] = d[i + 2]
    <3>1. /\ 1 \in 1 .. (i + 3) - i /\ 2 \in 1 .. (i + 3) - i /\ 3 \in 1 .. (i + 3) - i
          /\ i + 1 - 1 = i /\ i + 2 - 1 = i + 1 /\ i + 3 - 1 = i + 2 /\ (i + 3) - i = 3
      BY <2>1
    <3> QED BY <2>5, <3>1
  <2>7. s = <<253, d[i + 1], d[i + 2]>>
    <3>1. s = <<s[1], s[2], s[3]>>
      BY <2>5, <2>6, Three
    <3> QED BY <1>4, <2>6, <3>1
  <2>8. CASE k < 253
    BY <1>2, <2>4, <2>8
  <2>9. CASE ~(k < 253)
    <3>1. EncodeSize(k) = s
      BY <2>3, <2>7, <2>9 DEF EncodeSize
    <3>2. r = [at |-> i + 3, val |-> k]
      BY <2>4, <2>9
    <3> QED BY <1>1, <2>1, <2>3, <3>1, <3>2 DEF Spells, s
  <2> QED BY <2>8, <2>9
<1>5. CASE i \in 1 .. Len(d) /\ (d[i] > 253 \/ (d[i] = 253 /\ i + 2 > Len(d)))
  <2>1. r = Failed
    BY <1>0, <1>1, <1>5 DEF ReadSize
  <2> QED BY <1>2, <2>1
<1>6. CASE i = 0 \/ i > Len(d)
  <2>1. r = Failed
    BY <1>6 DEF ReadSize
  <2> QED BY <1>2, <2>1
<1>7. \/ i \in 1 .. Len(d) /\ d[i] < 253
      \/ i \in 1 .. Len(d) /\ d[i] = 253 /\ i + 2 <= Len(d)
      \/ i \in 1 .. Len(d) /\ (d[i] > 253 \/ (d[i] = 253 /\ i + 2 > Len(d)))
      \/ i = 0 \/ i > Len(d)
  BY <1>0, <1>1
<1> QED BY <1>3, <1>4, <1>5, <1>6, <1>7, Zenon

(* One read after the other.                                               *)
LEMMA SpellsBoth ==
  ASSUME NEW V, NEW d \in Seq(V), NEW i \in 0 .. Len(d) + 1, NEW r, NEW s, NEW t,
         NEW x, NEW y, Spells(d, i, r, x), Spells(d, r.at, s, y),
         r.at = 0 => s.at = 0, t.at = s.at
  PROVE  Spells(d, i, t, x \o y)
<1>1. Len(d) \in Nat /\ s.at \in 0 .. Len(d) + 1
  BY LenProperties DEF Spells
<1>2. ASSUME t.at # 0 PROVE i \in Nat \ {0} /\ i <= t.at /\ x \o y = SubSeq(d, i, t.at - 1)
  <2>1. /\ i \in Nat \ {0} /\ i <= r.at /\ x = SubSeq(d, i, r.at - 1) /\ r.at \in Nat
        /\ r.at <= s.at /\ y = SubSeq(d, r.at, s.at - 1) /\ s.at \in Nat /\ s.at <= Len(d) + 1
    BY <1>1, <1>2 DEF Spells
  <2>2. SubSeq(d, i, r.at - 1) \o SubSeq(d, r.at, s.at - 1) = SubSeq(d, i, s.at - 1)
    BY <2>1, Adjacent
  <2>3. x \o y = SubSeq(d, i, t.at - 1)
    BY <2>1, <2>2, Zenon
  <2>4. i \in Nat \ {0} /\ i <= t.at
    BY <2>1
  <2> QED BY <2>3, <2>4, Zenon
<1> QED BY <1>1, <1>2 DEF Spells

LEMMA ReadVarSpells ==
  ASSUME NEW d \in Seq(Byte), NEW i \in 0 .. Len(d) + 1
  PROVE  /\ Spells(d, i, ReadVar(d, i), EncodeVar(ReadVar(d, i).val))
         /\ ReadVar(d, i).val \in Seq(Byte)
<1> DEFINE prefix == ReadSize(d, i)
           r == Read(d, prefix.at, prefix.val)
<1>1. Len(d) \in Nat
  BY LenProperties
<1>2. /\ Spells(d, i, prefix, EncodeSize(prefix.val))
      /\ prefix.at # 0 => prefix.val \in Nat
  BY ReadSizeSpells
<1>3. CASE prefix.at = 0
  <2>1. ReadVar(d, i) = Failed
    BY <1>3 DEF ReadVar
  <2> QED BY <1>1, <2>1, EmptySeq DEF Failed, Spells
<1>4. CASE prefix.at # 0
  <2>1. prefix.at \in 0 .. Len(d) + 1 /\ prefix.val \in Nat
    BY <1>2, <1>4 DEF Spells
  <2> HIDE DEF prefix
  <2>2. /\ Spells(d, prefix.at, r, r.val) /\ r.val \in Seq(Byte)
        /\ r.at # 0 => Len(r.val) = prefix.val
    BY <2>1, ReadSpells
  <2>3. ReadVar(d, i) = r
    BY <1>4 DEF ReadVar, prefix
  <2> HIDE DEF r
  <2>4. Spells(d, i, r, EncodeSize(prefix.val) \o r.val)
    BY <1>2, <1>4, <2>2, SpellsBoth
  <2>5. Spells(d, i, r, EncodeVar(r.val))
    BY <2>2, <2>4 DEF Spells, EncodeVar
  <2> QED BY <2>2, <2>3, <2>5
<1> QED BY <1>3, <1>4

LEMMA ReadInputSpells ==
  ASSUME NEW d \in Seq(Byte), NEW i \in 0 .. Len(d) + 1
  PROVE  /\ Spells(d, i, ReadInput(d, i), EncodeInput(ReadInput(d, i).val))
         /\ ReadInput(d, i).val.witness = <<>>
<1> DEFINE outpoint == Read(d, i, 36)
           script == ReadVar(d, outpoint.at)
           sequence == Read(d, script.at, 4)
           r == ReadInput(d, i)
<1>1. /\ Spells(d, i, outpoint, outpoint.val) /\ outpoint.val \in Seq(Byte)
  BY ReadSpells
<1>2. outpoint.at \in 0 .. Len(d) + 1
  BY <1>1 DEF Spells
<1> HIDE DEF outpoint
<1>3. /\ Spells(d, outpoint.at, script, EncodeVar(script.val)) /\ script.val \in Seq(Byte)
  BY <1>2, ReadVarSpells
<1>4. script.at \in 0 .. Len(d) + 1 /\ (outpoint.at = 0 => script.at = 0)
  BY <1>3 DEF Spells
<1> HIDE DEF script
<1>5. /\ Spells(d, script.at, sequence, sequence.val) /\ sequence.val \in Seq(Byte)
  BY <1>4, ReadSpells
<1>6. script.at = 0 => sequence.at = 0
  BY <1>5 DEF Spells
<1>7. r = [at |-> sequence.at,
           val |-> [outpoint |-> outpoint.val, script |-> script.val,
                    sequence |-> sequence.val, witness |-> <<>>]]
  BY DEF ReadInput, outpoint, script
<1> HIDE DEF sequence, r
<1>8. Spells(d, i, script, outpoint.val \o EncodeVar(script.val))
  BY <1>1, <1>3, <1>4, SpellsBoth
<1>9. Spells(d, i, r, (outpoint.val \o EncodeVar(script.val)) \o sequence.val)
  <2>1. r.at = sequence.at
    BY <1>7
  <2> QED BY <1>5, <1>6, <1>8, <2>1, SpellsBoth
<1>10. EncodeInput(r.val) = (outpoint.val \o EncodeVar(script.val)) \o sequence.val
  BY <1>7 DEF EncodeInput
<1>11. r.val.witness = <<>> /\ Spells(d, i, r, EncodeInput(r.val))
  BY <1>7, <1>9, <1>10
<1> QED BY <1>11 DEF r

LEMMA ReadOutputSpells ==
  ASSUME NEW d \in Seq(Byte), NEW i \in 0 .. Len(d) + 1
  PROVE  Spells(d, i, ReadOutput(d, i), EncodeOutput(ReadOutput(d, i).val))
<1> DEFINE value == Read(d, i, 8)
           script == ReadVar(d, value.at)
           r == ReadOutput(d, i)
<1>1. Spells(d, i, value, value.val)
  BY ReadSpells
<1>2. value.at \in 0 .. Len(d) + 1
  BY <1>1 DEF Spells
<1> HIDE DEF value
<1>3. Spells(d, value.at, script, EncodeVar(script.val))
  BY <1>2, ReadVarSpells
<1>4. value.at = 0 => script.at = 0
  BY <1>3 DEF Spells
<1>5. r = [at |-> script.at, val |-> [value |-> value.val, script |-> script.val]]
  BY DEF ReadOutput, value
<1> HIDE DEF script, r
<1>6. Spells(d, i, r, value.val \o EncodeVar(script.val))
  <2>1. r.at = script.at
    BY <1>5
  <2> QED BY <1>1, <1>3, <1>4, <2>1, SpellsBoth
<1>7. EncodeOutput(r.val) = value.val \o EncodeVar(script.val)
  BY <1>5 DEF EncodeOutput
<1> QED BY <1>6, <1>7 DEF r

-----------------------------------------------------------------------------
(* Items in a row.  Each is read where the one before it ends.             *)
Row(q, found, i, r, count) ==
  /\ q \in [0 .. count -> DOMAIN found] /\ q[0] = i /\ q[count] = r.at
  /\ Len(r.val) = count
  /\ \A k \in 1 .. count : found[q[k - 1]].at = q[k] /\ r.val[k] = found[q[k - 1]].val

ItemAt(read, found) == IF read.at = 0 THEN Failed ELSE found[read.at]
Next1(read, one) ==
  IF one.at = 0 THEN Failed ELSE [at |-> one.at, val |-> Append(read.val, one.val)]

(* What has been read after each item.                                     *)
ReadsOn(p, L, V, i, count, found, r) ==
  /\ p \in [0 .. count -> [at : 0 .. L + 1, val : Seq(V)]]
  /\ p[0] = [at |-> i, val |-> <<>>] /\ p[count] = r
  /\ \A k \in 1 .. count : p[k] = Next1(p[k - 1], ItemAt(p[k - 1], found))

LEMMA ReadManyPartials ==
  ASSUME NEW d, NEW L \in Nat, L = Len(d), NEW V, NEW i \in 1 .. L + 1, NEW count \in 0 .. L,
         NEW found \in [1 .. L + 1 -> [at : 0 .. L + 1, val : V]]
  PROVE  \E p : ReadsOn(p, L, V, i, count, found, ReadMany(d, i, count, found))
<1> DEFINE A == [at : 0 .. L + 1, val : Seq(V)]
           b == [at |-> i, val |-> <<>>]
           Step == [s \in (1 .. count) \X A |-> Next1(s[2], ItemAt(s[2], found))]
           ks == [k \in 1 .. count |-> k]
           Iter(f) == f = [Q \in SUBSET DOMAIN ks |->
             IF Q = {} THEN b ELSE Next1(f[Q \ {Max(Q)}], ItemAt(f[Q \ {Max(Q)}], found))]
           iter == CHOOSE f : Iter(f)
<1>1. b \in A /\ Failed \in A
  BY EmptySeq DEF Failed
<1>2. \A a \in A : Next1(a, ItemAt(a, found)) \in A
  <2> SUFFICES ASSUME NEW a \in A, a.at # 0, found[a.at].at # 0
               PROVE  [at |-> found[a.at].at, val |-> Append(a.val, found[a.at].val)] \in A
    BY <1>1 DEF Next1, ItemAt, Failed
  <2>1. found[a.at] \in [at : 0 .. L + 1, val : V]
    OBVIOUS
  <2> QED BY <2>1
<1>3. /\ Step \in [(1 .. count) \X A -> A] /\ DOMAIN ks = 1 .. count /\ count \in Nat
      /\ \A k \in 1 .. count, a \in A : Step[<<k, a>>] = Next1(a, ItemAt(a, found))
  BY <1>2
<1> HIDE DEF Step, ks
<1>a. PICK f, p : Runs(f, p, count, A, b, Step)
  <2> HIDE DEF A, b
  <2> QED BY <1>1, <1>3, FoldRuns
<1>4. /\ f \in [SUBSET (1 .. count) -> A] /\ Folds(f, b, Step)
      /\ Partials(p, count, A, b, Step) /\ p[count] = f[1 .. count]
  BY <1>a DEF Runs
<1>5. Iter(f)
  <2>1. \A Q \in SUBSET (1 .. count) : Q # {} =>
          Max(Q) \in 1 .. count /\ Q \ {Max(Q)} \in SUBSET (1 .. count)
    BY <1>3, Smaller
  <2> HIDE DEF A, b
  <2>2. \A Q \in SUBSET (1 .. count) : f[Q] =
          IF Q = {} THEN b ELSE Next1(f[Q \ {Max(Q)}], ItemAt(f[Q \ {Max(Q)}], found))
    <3> SUFFICES ASSUME NEW Q \in SUBSET (1 .. count)
                 PROVE  f[Q] = IF Q = {} THEN b
                               ELSE Next1(f[Q \ {Max(Q)}], ItemAt(f[Q \ {Max(Q)}], found))
      OBVIOUS
    <3>1. CASE Q = {}
      BY <1>4, <3>1 DEF Folds
    <3>2. CASE Q # {}
      <4>1. f[Q] = Step[<<Max(Q), f[Q \ {Max(Q)}]>>]
        BY <1>4, <3>2 DEF Folds
      <4>2. f[Q \ {Max(Q)}] \in A /\ Max(Q) \in 1 .. count
        BY <1>4, <2>1, <3>2
      <4>3. Step[<<Max(Q), f[Q \ {Max(Q)}]>>]
              = Next1(f[Q \ {Max(Q)}], ItemAt(f[Q \ {Max(Q)}], found))
        BY <1>3, <4>2, Zenon
      <4> QED BY <3>2, <4>1, <4>3
    <3> QED BY <3>1, <3>2
  <2> QED BY <1>3, <1>4, <2>2
<1>6. Iter(iter)
  <2> HIDE DEF Iter
  <2> QED BY <1>5, Zenon
<1>7. ReadMany(d, i, count, found) = iter[DOMAIN ks]
  <2>1. ~(i = 0 \/ count > Len(d))
    OBVIOUS
  <2>2. \A k \in 1 .. count : ks[k] = k
    BY DEF ks
  <2> QED BY <2>1 DEF ReadMany, FoldLeft, MapThenFoldSet, Next1, ItemAt, ks
<1> HIDE DEF iter, A, b
<1>8. iter[1 .. count] = f[1 .. count]
  <2>1. iter[{}] = f[{}]
    <3>1. {} \in SUBSET (1 .. count)
      OBVIOUS
    <3> QED BY <1>3, <1>5, <1>6, <3>1
  <2>2. ASSUME NEW k \in 1 .. count, iter[1 .. k - 1] = f[1 .. k - 1]
        PROVE  iter[1 .. k] = f[1 .. k]
    <3>1. /\ 1 .. k \in SUBSET (1 .. count) /\ 1 .. k # {} /\ Max(1 .. k) = k
          /\ (1 .. k) \ {Max(1 .. k)} = 1 .. k - 1
      BY <1>3, FirstItems
    <3>2. iter[1 .. k] = Next1(iter[1 .. k - 1], ItemAt(iter[1 .. k - 1], found))
      BY <1>3, <1>6, <3>1
    <3>3. f[1 .. k] = Next1(f[1 .. k - 1], ItemAt(f[1 .. k - 1], found))
      BY <1>3, <1>5, <3>1
    <3> QED BY <2>2, <3>2, <3>3
  <2> QED BY <1>3, <2>1, <2>2, SameFold
<1> HIDE DEF Iter
<1>9. p[count] = ReadMany(d, i, count, found)
  BY <1>3, <1>4, <1>7, <1>8
<1>10. \A k \in 1 .. count : p[k] = Next1(p[k - 1], ItemAt(p[k - 1], found))
  <2> SUFFICES ASSUME NEW k \in 1 .. count
               PROVE  p[k] = Next1(p[k - 1], ItemAt(p[k - 1], found))
    OBVIOUS
  <2>1. k - 1 \in 0 .. count
    BY <1>3
  <2>2. p[k] = Step[<<k, p[k - 1]>>] /\ p[k - 1] \in A
    BY <1>4, <2>1 DEF Partials
  <2>3. Step[<<k, p[k - 1]>>] = Next1(p[k - 1], ItemAt(p[k - 1], found))
    BY <1>3, <2>2, Zenon
  <2> QED BY <2>2, <2>3
<1>11. ReadsOn(p, L, V, i, count, found, ReadMany(d, i, count, found))
  BY <1>4, <1>9, <1>10 DEF Partials, ReadsOn, A, b
<1> QED BY <1>11

LEMMA ReadManyRow ==
  ASSUME NEW d, NEW L \in Nat, L = Len(d), NEW V, NEW i \in 0 .. L + 1, NEW count \in Nat,
         NEW found \in [1 .. L + 1 -> [at : 0 .. L + 1, val : V]]
  PROVE  /\ ReadMany(d, i, count, found) \in [at : 0 .. L + 1, val : Seq(V)]
         /\ ReadMany(d, i, count, found).at # 0 =>
              i # 0 /\ \E q : Row(q, found, i, ReadMany(d, i, count, found), count)
<1> DEFINE r == ReadMany(d, i, count, found)
<1>1. CASE i = 0 \/ count > Len(d)
  <2>1. r = Failed
    BY <1>1 DEF ReadMany
  <2> QED BY <2>1, EmptySeq DEF Failed
<1>2. CASE ~(i = 0 \/ count > Len(d))
  <2>0. i \in 1 .. L + 1 /\ count \in 0 .. L
    BY <1>2
  <2>a. PICK p : ReadsOn(p, L, V, i, count, found, r)
    BY <2>0, ReadManyPartials
  <2>1. /\ p \in [0 .. count -> [at : 0 .. L + 1, val : Seq(V)]]
        /\ p[0] = [at |-> i, val |-> <<>>] /\ p[count] = r
        /\ \A k \in 1 .. count : p[k] = Next1(p[k - 1], ItemAt(p[k - 1], found))
    BY <2>a DEF ReadsOn
  <2> HIDE DEF r
  <2>2. r \in [at : 0 .. L + 1, val : Seq(V)]
    BY <2>1
  <2>3. ASSUME r.at # 0 PROVE \E q : Row(q, found, i, r, count)
    <3> DEFINE B == {k \in 0 .. count : p[count - k].at # 0}
    <3>1. 0 \in B
      BY <2>1, <2>3
    <3>2. ASSUME NEW k \in 1 .. count, k - 1 \in B PROVE k \in B
      <4>1. /\ count - k \in 0 .. count /\ count - (k - 1) \in 1 .. count
            /\ count - (k - 1) - 1 = count - k
        OBVIOUS
      <4>2. p[count - (k - 1)] = Next1(p[count - k], ItemAt(p[count - k], found))
        BY <2>1, <4>1
      <4>3. p[count - (k - 1)].at # 0
        BY <3>2
      <4>4. p[count - k].at # 0
        BY <4>2, <4>3 DEF Next1, ItemAt, Failed
      <4> QED BY <4>4
    <3>3. 0 .. count \subseteq B
      <4> HIDE DEF B
      <4> QED BY <3>1, <3>2, UpTo
    <3>4. ASSUME NEW k \in 0 .. count PROVE p[k].at \in 1 .. L + 1 /\ p[k].val \in Seq(V)
      <4>0. count - k \in 0 .. count /\ count - (count - k) = k
        OBVIOUS
      <4>1. count - k \in B
        BY <3>3, <4>0
      <4>2. p[count - (count - k)].at # 0
        BY <4>1
      <4>3. p[k] \in [at : 0 .. L + 1, val : Seq(V)] /\ p[k].at # 0
        BY <2>1, <4>0, <4>2
      <4> QED BY <4>3
    <3> HIDE DEF B
    <3>5. ASSUME NEW k \in 1 .. count
          PROVE  /\ p[k].at = found[p[k - 1].at].at
                 /\ p[k].val = Append(p[k - 1].val, found[p[k - 1].at].val)
                 /\ found[p[k - 1].at].val \in V
      <4>1. k - 1 \in 0 .. count /\ k \in 0 .. count
        OBVIOUS
      <4>2. p[k - 1].at \in 1 .. L + 1 /\ p[k].at # 0
        BY <3>4, <4>1
      <4>3. p[k] = Next1(p[k - 1], found[p[k - 1].at])
        <5>1. ItemAt(p[k - 1], found) = found[p[k - 1].at]
          BY <4>2 DEF ItemAt
        <5>2. p[k] = Next1(p[k - 1], ItemAt(p[k - 1], found))
          BY <2>1
        <5> QED BY <5>1, <5>2
      <4>4. found[p[k - 1].at].at # 0
        BY <4>2, <4>3 DEF Next1, Failed
      <4>5. found[p[k - 1].at] \in [at : 0 .. L + 1, val : V]
        BY <4>2
      <4>6. p[k] = [at |-> found[p[k - 1].at].at,
                    val |-> Append(p[k - 1].val, found[p[k - 1].at].val)]
        BY <4>3, <4>4, Zenon DEF Next1
      <4> QED BY <4>5, <4>6
    <3> DEFINE S == {k \in 0 .. count :
                       Len(p[k].val) = k /\ \A m \in 1 .. k : p[k].val[m] = found[p[m - 1].at].val}
    <3>6. 0 \in S
      <4>1. 0 \in 0 .. count /\ p[0].val = <<>>
        BY <2>1
      <4> QED BY <4>1
    <3>7. ASSUME NEW k \in 1 .. count, k - 1 \in S PROVE k \in S
      <4> DEFINE s == p[k - 1].val
                 e == found[p[k - 1].at].val
      <4>1. s \in Seq(V) /\ Len(s) = k - 1 /\ \A m \in 1 .. k - 1 : s[m] = found[p[m - 1].at].val
        <5>1. k - 1 \in 0 .. count
          OBVIOUS
        <5> QED BY <3>4, <3>7, <5>1
      <4>2. p[k].val = Append(s, e) /\ e \in V
        BY <3>5
      <4> HIDE DEF s
      <4>3. /\ Len(Append(s, e)) = Len(s) + 1
            /\ \A m \in 1 .. Len(s) : Append(s, e)[m] = s[m]
            /\ Append(s, e)[Len(s) + 1] = e
        BY <4>1, <4>2, AppendProperties
      <4>4. \A m \in 1 .. k : p[k].val[m] = found[p[m - 1].at].val
        BY <4>1, <4>2, <4>3
      <4>5. Len(p[k].val) = k
        BY <4>1, <4>2, <4>3
      <4>6. k \in 0 .. count
        OBVIOUS
      <4> QED BY <4>4, <4>5, <4>6
    <3>8. 0 .. count \subseteq S
      <4> HIDE DEF S
      <4> QED BY <3>6, <3>7, UpTo
    <3>9. Len(r.val) = count /\ \A m \in 1 .. count : r.val[m] = found[p[m - 1].at].val
      <4>1. count \in S
        BY <3>8
      <4> QED BY <2>1, <4>1
    <3> DEFINE q == [k \in 0 .. count |-> p[k].at]
    <3>10. q \in [0 .. count -> DOMAIN found] /\ q[0] = i /\ q[count] = r.at
      <4>1. \A k \in 0 .. count : p[k].at \in DOMAIN found
        BY <3>4
      <4>2. q \in [0 .. count -> DOMAIN found]
        BY <4>1, Zenon
      <4>3. 0 \in 0 .. count /\ count \in 0 .. count
        OBVIOUS
      <4>4. q[0] = p[0].at /\ q[count] = p[count].at
        BY <4>3
      <4>5. p[0].at = i /\ p[count].at = r.at
        BY <2>1
      <4> QED BY <4>2, <4>4, <4>5, Zenon
    <3>11. \A k \in 1 .. count : found[q[k - 1]].at = q[k] /\ r.val[k] = found[q[k - 1]].val
      <4> SUFFICES ASSUME NEW k \in 1 .. count
                   PROVE  found[q[k - 1]].at = q[k] /\ r.val[k] = found[q[k - 1]].val
        OBVIOUS
      <4>1. k - 1 \in 0 .. count /\ k \in 0 .. count
        OBVIOUS
      <4>2. q[k - 1] = p[k - 1].at /\ q[k] = p[k].at
        BY <4>1
      <4> QED BY <3>5, <3>9, <4>2
    <3> HIDE DEF q, S
    <3>12. Row(q, found, i, r, count)
      BY <3>9, <3>10, <3>11 DEF Row
    <3> QED BY <3>12
  <2>4. r.at # 0 => i # 0 /\ \E q : Row(q, found, i, r, count)
    BY <2>0, <2>3
  <2> QED BY <2>2, <2>4 DEF r
<1> QED BY <1>1, <1>2

(* The bytes of a row of values, w[v] those of v.                          *)
Text(w, vals) == Concat([k \in 1 .. Len(vals) |-> w[vals[k]]])

(* found[j] is the item of d at j, its value one of V, spelled by w.       *)
Items(d, V, found, w) ==
  /\ found \in [1 .. Len(d) + 1 -> [at : 0 .. Len(d) + 1, val : V]]
  /\ \A j \in 1 .. Len(d) + 1 : Spells(d, j, found[j], w[found[j].val])

ReadRow(d, V, r) == r \in [at : 0 .. Len(d) + 1, val : Seq(V)]

(* Items in a row spell what each of them spells, w of its value.          *)
LEMMA ManySpell ==
  ASSUME NEW d \in Seq(Byte), NEW i \in 0 .. Len(d) + 1, NEW count \in Nat, NEW V, NEW found,
         NEW w, Items(d, V, found, w),
         NEW r, r = ReadMany(d, i, count, found)
  PROVE  /\ ReadRow(d, V, r) /\ (r.at # 0 => Len(r.val) = count)
         /\ Spells(d, i, r, Text(w, r.val))
<1>1. PICK L \in Nat : L = Len(d)
  BY LenProperties
<1>0. /\ found \in [1 .. Len(d) + 1 -> [at : 0 .. Len(d) + 1, val : V]]
      /\ \A j \in 1 .. Len(d) + 1 : Spells(d, j, found[j], w[found[j].val])
  BY DEF Items
<1>2. /\ r \in [at : 0 .. L + 1, val : Seq(V)]
      /\ r.at # 0 => i # 0 /\ \E q : Row(q, found, i, r, count)
  <2>1. i \in 0 .. L + 1 /\ found \in [1 .. L + 1 -> [at : 0 .. L + 1, val : V]]
    BY <1>0, <1>1
  <2>2. /\ ReadMany(d, i, count, found) \in [at : 0 .. L + 1, val : Seq(V)]
        /\ ReadMany(d, i, count, found).at # 0 =>
             i # 0 /\ \E q : Row(q, found, i, ReadMany(d, i, count, found), count)
    BY <1>1, <2>1, ReadManyRow
  <2> QED BY <2>2
<1>3. ASSUME r.at # 0
      PROVE  /\ Len(r.val) = count /\ i \in Nat \ {0} /\ i <= r.at
             /\ Text(w, r.val) = SubSeq(d, i, r.at - 1)
  <2>1. PICK q : Row(q, found, i, r, count)
    BY <1>2, <1>3
  <2>2. /\ q \in [0 .. count -> 1 .. Len(d) + 1] /\ q[0] = i /\ q[count] = r.at
        /\ Len(r.val) = count
        /\ \A k \in 1 .. count : found[q[k - 1]].at = q[k] /\ r.val[k] = found[q[k - 1]].val
    BY <1>0, <2>1 DEF Row
  <2> DEFINE seqs == [k \in 1 .. count |-> w[r.val[k]]]
  <2>3. ASSUME NEW k \in 1 .. count
        PROVE  /\ seqs[k] \in Seq(Byte) /\ q[k - 1] <= q[k]
               /\ seqs[k] = SubSeq(d, q[k - 1], q[k] - 1)
    <3>1. k - 1 \in 0 .. count /\ k \in 0 .. count
      OBVIOUS
    <3>2. /\ q[k - 1] \in 1 .. Len(d) + 1 /\ q[k] \in 1 .. Len(d) + 1
          /\ q[k] \in Nat /\ q[k] # 0 /\ q[k] <= Len(d) + 1
      BY <1>1, <2>2, <3>1
    <3>3. Spells(d, q[k - 1], found[q[k - 1]], w[found[q[k - 1]].val])
      BY <1>0, <3>2
    <3>4. /\ q[k - 1] \in Nat \ {0} /\ q[k - 1] <= q[k]
          /\ w[r.val[k]] = SubSeq(d, q[k - 1], q[k] - 1)
      BY <2>2, <3>2, <3>3 DEF Spells
    <3>5. SubSeq(d, q[k - 1], q[k] - 1) \in Seq(Byte)
      BY <3>2, <3>4, PartOf
    <3> QED BY <3>4, <3>5
  <2>4. seqs \in [1 .. count -> Seq(Byte)]
    BY <2>3
  <2> HIDE DEF seqs
  <2>5. q[0] <= q[count] /\ Concat(seqs) = SubSeq(d, q[0], q[count] - 1)
    <3>1. \A k \in 1 .. count : q[k - 1] <= q[k] /\ seqs[k] = SubSeq(d, q[k - 1], q[k] - 1)
      BY <2>3
    <3>2. q \in [0 .. count -> 1 .. Len(d) + 1]
      BY <2>2
    <3>3. Parts(q, seqs, count, d, Byte)
      BY <2>4, <3>1, <3>2 DEF Parts
    <3> QED BY <3>3, ConcatParts
  <2>6. i \in Nat \ {0}
    BY <1>1, <1>2, <1>3
  <2> QED BY <2>2, <2>5, <2>6 DEF seqs, Text
<1> QED BY <1>1, <1>2, <1>3 DEF Spells, ReadRow

(* A count, read by c, and that many items, spelled by the text.           *)
Counted(d, i, c, r, text) ==
  /\ Spells(d, i, r, EncodeSize(Len(r.val)) \o text)
  /\ r.at # 0 => /\ c.at # 0 /\ Spells(d, i, c, EncodeSize(Len(r.val)))
                 /\ Spells(d, c.at, r, text)

(* A count and that many items.                                            *)
LEMMA CountedSpell ==
  ASSUME NEW d \in Seq(Byte), NEW i \in 0 .. Len(d) + 1, NEW V, NEW found,
         NEW w, Items(d, V, found, w),
         NEW r, r = ReadCounted(d, i, found)
  PROVE  /\ ReadRow(d, V, r)
         /\ Counted(d, i, ReadSize(d, i), r, Text(w, r.val))
<1> DEFINE count == ReadSize(d, i)
           s == ReadMany(d, count.at, count.val, found)
<1>1. Len(d) \in Nat
  BY LenProperties
<1>2. /\ Spells(d, i, count, EncodeSize(count.val))
      /\ count.at # 0 => count.val \in Nat
  BY ReadSizeSpells
<1>3. CASE count.at = 0
  <2>1. r = Failed
    BY <1>3 DEF ReadCounted
  <2> QED BY <1>1, <2>1, EmptySeq DEF Failed, Spells, ReadRow, Counted
<1>4. CASE count.at # 0
  <2>1. count.at \in 0 .. Len(d) + 1 /\ count.val \in Nat
    BY <1>2, <1>4 DEF Spells
  <2>2. r = s
    BY <1>4 DEF ReadCounted
  <2>a. s = ReadMany(d, count.at, count.val, found)
    OBVIOUS
  <2> HIDE DEF count, s
  <2>3. /\ ReadRow(d, V, s) /\ (s.at # 0 => Len(s.val) = count.val)
        /\ Spells(d, count.at, s, Text(w, s.val))
    BY <2>1, <2>a, ManySpell
  <2>4. Spells(d, i, s, EncodeSize(count.val) \o Text(w, s.val))
    BY <1>2, <1>4, <2>3, SpellsBoth
  <2>5. Spells(d, i, s, EncodeSize(Len(s.val)) \o Text(w, s.val))
    BY <2>3, <2>4 DEF Spells
  <2>6. s.at # 0 => Spells(d, i, count, EncodeSize(Len(s.val)))
    BY <1>2, <2>3
  <2>7. Counted(d, i, count, s, Text(w, s.val))
    BY <1>4, <2>3, <2>5, <2>6 DEF Counted
  <2> QED BY <2>2, <2>3, <2>7 DEF count
<1> QED BY <1>3, <1>4

-----------------------------------------------------------------------------
(* The items of a transaction: inputs, outputs, the pushes of a witness,   *)
(* and witnesses.                                                          *)
Inputs(d) == [j \in Positions(d) |-> ReadInput(d, j)]
Outputs(d) == [j \in Positions(d) |-> ReadOutput(d, j)]
Pushes(d) == [j \in Positions(d) |-> ReadVar(d, j)]
Stacks(d) == [j \in Positions(d) |-> ReadStack(d, j)]

Found(found) == {found[j].val : j \in DOMAIN found}

InputText(V) == [v \in V |-> EncodeInput(v)]
OutputText(V) == [v \in V |-> EncodeOutput(v)]
PushText(V) == [v \in V |-> EncodeVar(v)]
StackText(V) == [v \in V |-> EncodeSize(Len(v)) \o Each(EncodeVar, v)]

LEMMA EachInput ==
  ASSUME NEW V, NEW s \in Seq(V) PROVE Text(InputText(V), s) = Each(EncodeInput, s)
<1>1. \A k \in 1 .. Len(s) : InputText(V)[s[k]] = EncodeInput(s[k])
  BY ElementOfSeq DEF InputText
<1>2. [k \in 1 .. Len(s) |-> InputText(V)[s[k]]] = [k \in 1 .. Len(s) |-> EncodeInput(s[k])]
  BY <1>1
<1> QED BY <1>2 DEF Text, Each

LEMMA EachOutput ==
  ASSUME NEW V, NEW s \in Seq(V) PROVE Text(OutputText(V), s) = Each(EncodeOutput, s)
<1>1. \A k \in 1 .. Len(s) : OutputText(V)[s[k]] = EncodeOutput(s[k])
  BY ElementOfSeq DEF OutputText
<1>2. [k \in 1 .. Len(s) |-> OutputText(V)[s[k]]] = [k \in 1 .. Len(s) |-> EncodeOutput(s[k])]
  BY <1>1
<1> QED BY <1>2 DEF Text, Each

LEMMA EachPush ==
  ASSUME NEW V, NEW s \in Seq(V) PROVE Text(PushText(V), s) = Each(EncodeVar, s)
<1>1. \A k \in 1 .. Len(s) : PushText(V)[s[k]] = EncodeVar(s[k])
  BY ElementOfSeq DEF PushText
<1>2. [k \in 1 .. Len(s) |-> PushText(V)[s[k]]] = [k \in 1 .. Len(s) |-> EncodeVar(s[k])]
  BY <1>1
<1> QED BY <1>2 DEF Text, Each

LEMMA InputItems ==
  ASSUME NEW d \in Seq(Byte)
  PROVE  Items(d, Found(Inputs(d)), Inputs(d), InputText(Found(Inputs(d))))
<1> DEFINE V == Found(Inputs(d))
<1>1. \A j \in 1 .. Len(d) + 1 :
        /\ Inputs(d)[j] = ReadInput(d, j) /\ ReadInput(d, j).val \in V
        /\ j \in 0 .. Len(d) + 1
  BY LenProperties DEF Inputs, Positions, Found
<1>2. ASSUME NEW j \in 1 .. Len(d) + 1
      PROVE  /\ Inputs(d)[j] \in [at : 0 .. Len(d) + 1, val : V]
             /\ Spells(d, j, Inputs(d)[j], InputText(V)[Inputs(d)[j].val])
  <2>1. Spells(d, j, ReadInput(d, j), EncodeInput(ReadInput(d, j).val))
    BY <1>1, ReadInputSpells
  <2>2. \E x, y : ReadInput(d, j) = [at |-> x, val |-> y]
    BY DEF ReadInput
  <2>3. ReadInput(d, j).at \in 0 .. Len(d) + 1
    BY <2>1 DEF Spells
  <2>4. InputText(V)[ReadInput(d, j).val] = EncodeInput(ReadInput(d, j).val)
    BY <1>1 DEF InputText
  <2> HIDE DEF V
  <2>5. ReadInput(d, j) \in [at : 0 .. Len(d) + 1, val : V]
    BY <1>1, <2>2, <2>3
  <2> QED BY <1>1, <2>1, <2>4, <2>5
<1>3. DOMAIN Inputs(d) = 1 .. Len(d) + 1 /\ Inputs(d) = [j \in 1 .. Len(d) + 1 |-> Inputs(d)[j]]
  BY DEF Inputs, Positions
<1> HIDE DEF V
<1>4. Inputs(d) \in [1 .. Len(d) + 1 -> [at : 0 .. Len(d) + 1, val : V]]
  BY <1>2, <1>3
<1> QED BY <1>2, <1>4 DEF Items, V

LEMMA OutputItems ==
  ASSUME NEW d \in Seq(Byte)
  PROVE  Items(d, Found(Outputs(d)), Outputs(d), OutputText(Found(Outputs(d))))
<1> DEFINE V == Found(Outputs(d))
<1>1. \A j \in 1 .. Len(d) + 1 :
        /\ Outputs(d)[j] = ReadOutput(d, j) /\ ReadOutput(d, j).val \in V
        /\ j \in 0 .. Len(d) + 1
  BY LenProperties DEF Outputs, Positions, Found
<1>2. ASSUME NEW j \in 1 .. Len(d) + 1
      PROVE  /\ Outputs(d)[j] \in [at : 0 .. Len(d) + 1, val : V]
             /\ Spells(d, j, Outputs(d)[j], OutputText(V)[Outputs(d)[j].val])
  <2>1. Spells(d, j, ReadOutput(d, j), EncodeOutput(ReadOutput(d, j).val))
    BY <1>1, ReadOutputSpells
  <2>2. \E x, y : ReadOutput(d, j) = [at |-> x, val |-> y]
    BY DEF ReadOutput
  <2>3. ReadOutput(d, j).at \in 0 .. Len(d) + 1
    BY <2>1 DEF Spells
  <2>4. OutputText(V)[ReadOutput(d, j).val] = EncodeOutput(ReadOutput(d, j).val)
    BY <1>1 DEF OutputText
  <2> HIDE DEF V
  <2>5. ReadOutput(d, j) \in [at : 0 .. Len(d) + 1, val : V]
    BY <1>1, <2>2, <2>3
  <2> QED BY <1>1, <2>1, <2>4, <2>5
<1>3. DOMAIN Outputs(d) = 1 .. Len(d) + 1 /\ Outputs(d) = [j \in 1 .. Len(d) + 1 |-> Outputs(d)[j]]
  BY DEF Outputs, Positions
<1> HIDE DEF V
<1>4. Outputs(d) \in [1 .. Len(d) + 1 -> [at : 0 .. Len(d) + 1, val : V]]
  BY <1>2, <1>3
<1> QED BY <1>2, <1>4 DEF Items, V

LEMMA PushItems ==
  ASSUME NEW d \in Seq(Byte)
  PROVE  Items(d, Found(Pushes(d)), Pushes(d), PushText(Found(Pushes(d))))
<1> DEFINE V == Found(Pushes(d))
<1>1. \A j \in 1 .. Len(d) + 1 :
        /\ Pushes(d)[j] = ReadVar(d, j) /\ ReadVar(d, j).val \in V
        /\ j \in 0 .. Len(d) + 1
  BY LenProperties DEF Pushes, Positions, Found
<1>2. ASSUME NEW j \in 1 .. Len(d) + 1
      PROVE  /\ Pushes(d)[j] \in [at : 0 .. Len(d) + 1, val : V]
             /\ Spells(d, j, Pushes(d)[j], PushText(V)[Pushes(d)[j].val])
  <2>1. Spells(d, j, ReadVar(d, j), EncodeVar(ReadVar(d, j).val))
    BY <1>1, ReadVarSpells
  <2>2. \E x, y : ReadVar(d, j) = [at |-> x, val |-> y]
    BY DEF ReadVar, Read, Failed
  <2>3. ReadVar(d, j).at \in 0 .. Len(d) + 1
    BY <2>1 DEF Spells
  <2>4. PushText(V)[ReadVar(d, j).val] = EncodeVar(ReadVar(d, j).val)
    BY <1>1 DEF PushText
  <2> HIDE DEF V
  <2>5. ReadVar(d, j) \in [at : 0 .. Len(d) + 1, val : V]
    BY <1>1, <2>2, <2>3
  <2> QED BY <1>1, <2>1, <2>4, <2>5
<1>3. DOMAIN Pushes(d) = 1 .. Len(d) + 1 /\ Pushes(d) = [j \in 1 .. Len(d) + 1 |-> Pushes(d)[j]]
  BY DEF Pushes, Positions
<1> HIDE DEF V
<1>4. Pushes(d) \in [1 .. Len(d) + 1 -> [at : 0 .. Len(d) + 1, val : V]]
  BY <1>2, <1>3
<1> QED BY <1>2, <1>4 DEF Items, V

LEMMA StackItems ==
  ASSUME NEW d \in Seq(Byte)
  PROVE  Items(d, Found(Stacks(d)), Stacks(d), StackText(Found(Stacks(d))))
<1> DEFINE V == Found(Stacks(d))
           P == Found(Pushes(d))
<1>1. \A j \in 1 .. Len(d) + 1 :
        /\ Stacks(d)[j] = ReadStack(d, j) /\ ReadStack(d, j).val \in V
        /\ j \in 0 .. Len(d) + 1
  BY LenProperties DEF Stacks, Positions, Found
<1>2. ASSUME NEW j \in 1 .. Len(d) + 1
      PROVE  /\ Stacks(d)[j] \in [at : 0 .. Len(d) + 1, val : V]
             /\ Spells(d, j, Stacks(d)[j], StackText(V)[Stacks(d)[j].val])
  <2> DEFINE r == ReadStack(d, j)
  <2>0. StackText(V)[r.val] = EncodeSize(Len(r.val)) \o Each(EncodeVar, r.val) /\ r.val \in V
    BY <1>1 DEF StackText
  <2>1. r = ReadCounted(d, j, Pushes(d)) /\ j \in 0 .. Len(d) + 1
    BY <1>1 DEF ReadStack, Pushes
  <2> HIDE DEF r, V, P
  <2>2. /\ ReadRow(d, P, r)
        /\ Counted(d, j, ReadSize(d, j), r, Text(PushText(P), r.val))
    BY <2>1, PushItems, CountedSpell DEF P
  <2>3. Text(PushText(P), r.val) = Each(EncodeVar, r.val)
    BY <2>2, EachPush DEF ReadRow
  <2>4. Spells(d, j, r, StackText(V)[r.val])
    BY <2>0, <2>2, <2>3 DEF Counted
  <2>5. r \in [at : 0 .. Len(d) + 1, val : V]
    BY <2>0, <2>2 DEF ReadRow
  <2> QED BY <1>1, <2>4, <2>5 DEF r
<1>3. DOMAIN Stacks(d) = 1 .. Len(d) + 1 /\ Stacks(d) = [j \in 1 .. Len(d) + 1 |-> Stacks(d)[j]]
  BY DEF Stacks, Positions
<1> HIDE DEF V
<1>4. Stacks(d) \in [1 .. Len(d) + 1 -> [at : 0 .. Len(d) + 1, val : V]]
  BY <1>2, <1>3
<1> QED BY <1>2, <1>4 DEF Items, V

(* The inputs that were read, their witnesses still empty.                 *)
Bare(in) == in = [outpoint |-> in.outpoint, script |-> in.script,
                  sequence |-> in.sequence, witness |-> <<>>]

LEMMA InputsSpell ==
  ASSUME NEW d \in Seq(Byte), NEW i \in 0 .. Len(d) + 1,
         NEW r, r = ReadCounted(d, i, Inputs(d))
  PROVE  /\ Counted(d, i, ReadSize(d, i), r, Each(EncodeInput, r.val))
         /\ r.val \in Seq(Found(Inputs(d))) /\ \A k \in 1 .. Len(r.val) : Bare(r.val[k])
<1> DEFINE V == Found(Inputs(d))
<1>1. \A v \in V : Bare(v)
  BY DEF Found, Inputs, Positions, ReadInput, Bare
<1> HIDE DEF V
<1>2. /\ ReadRow(d, V, r)
      /\ Counted(d, i, ReadSize(d, i), r, Text(InputText(V), r.val))
  BY InputItems, CountedSpell DEF V
<1>3. r.val \in Seq(V)
  BY <1>2 DEF ReadRow
<1>4. Text(InputText(V), r.val) = Each(EncodeInput, r.val)
  BY <1>3, EachInput
<1>5. \A k \in 1 .. Len(r.val) : Bare(r.val[k])
  BY <1>1, <1>3, ElementOfSeq
<1> QED BY <1>2, <1>3, <1>4, <1>5 DEF V

LEMMA OutputsSpell ==
  ASSUME NEW d \in Seq(Byte), NEW i \in 0 .. Len(d) + 1,
         NEW r, r = ReadCounted(d, i, Outputs(d))
  PROVE  /\ Counted(d, i, ReadSize(d, i), r, Each(EncodeOutput, r.val))
         /\ r.val \in Seq(Found(Outputs(d)))
<1> DEFINE V == Found(Outputs(d))
<1>2. /\ ReadRow(d, V, r)
      /\ Counted(d, i, ReadSize(d, i), r, Text(OutputText(V), r.val))
  BY OutputItems, CountedSpell
<1> HIDE DEF V
<1>3. r.val \in Seq(V)
  BY <1>2 DEF ReadRow
<1>4. Text(OutputText(V), r.val) = Each(EncodeOutput, r.val)
  BY <1>3, EachOutput
<1> QED BY <1>2, <1>3, <1>4 DEF V

LEMMA StacksSpell ==
  ASSUME NEW d \in Seq(Byte), NEW i \in 0 .. Len(d) + 1, NEW count \in Nat,
         NEW r, r = ReadMany(d, i, count, Stacks(d))
  PROVE  /\ Spells(d, i, r, Text(StackText(Found(Stacks(d))), r.val))
         /\ r.val \in Seq(Found(Stacks(d))) /\ (r.at # 0 => Len(r.val) = count)
<1> DEFINE V == Found(Stacks(d))
<1>2. /\ ReadRow(d, V, r)
      /\ (r.at # 0 => Len(r.val) = count)
      /\ Spells(d, i, r, Text(StackText(V), r.val))
  BY StackItems, ManySpell
<1> QED BY <1>2 DEF ReadRow

-----------------------------------------------------------------------------
(* What is spelled from the first byte on, up to m.                        *)
Prefix(d, m, x) == m \in 1 .. Len(d) + 1 /\ x = SubSeq(d, 1, m - 1)

LEMMA PrefixOn ==
  ASSUME NEW d \in Seq(Byte), NEW m, NEW x, Prefix(d, m, x), NEW r, NEW y,
         Spells(d, m, r, y), r.at # 0
  PROVE  Prefix(d, r.at, x \o y) /\ y \in Seq(Byte)
<1>1. Len(d) \in Nat
  BY LenProperties
<1>2. /\ m \in Nat \ {0} /\ m \in Nat /\ 1 <= m /\ r.at \in Nat /\ m <= r.at
      /\ r.at <= Len(d) + 1 /\ x = SubSeq(d, 1, m - 1) /\ y = SubSeq(d, m, r.at - 1)
  BY <1>1 DEF Prefix, Spells
<1>3. SubSeq(d, 1, m - 1) \o SubSeq(d, m, r.at - 1) = SubSeq(d, 1, r.at - 1)
  <2>1. 1 \in Nat \ {0}
    OBVIOUS
  <2> QED BY <1>2, <2>1, Adjacent, Zenon
<1>4. SubSeq(d, m, r.at - 1) \in Seq(Byte)
  BY <1>2, PartOf
<1>5. r.at \in 1 .. Len(d) + 1
  BY <1>1, <1>2
<1> QED BY <1>2, <1>3, <1>4, <1>5 DEF Prefix

LEMMA PrefixSeq ==
  ASSUME NEW d \in Seq(Byte), NEW m, NEW x, Prefix(d, m, x)
  PROVE  x \in Seq(Byte) /\ x \o <<>> = x
<1>1. Len(d) \in Nat /\ 1 \in Nat \ {0}
  BY LenProperties
<1>2. m \in Nat /\ 1 <= m /\ m <= Len(d) + 1 /\ x = SubSeq(d, 1, m - 1)
  BY <1>1 DEF Prefix
<1>3. SubSeq(d, 1, m - 1) \in Seq(Byte)
  BY <1>1, <1>2, PartOf
<1>4. x \in Seq(Byte)
  BY <1>2, <1>3
<1> QED BY <1>4, ConcatEmptySeq

LEMMA PrefixCounted ==
  ASSUME NEW d \in Seq(Byte), NEW m, NEW x, Prefix(d, m, x), NEW r, NEW c, NEW y,
         Counted(d, m, c, r, y), r.at # 0
  PROVE  /\ Prefix(d, r.at, (x \o EncodeSize(Len(r.val))) \o y)
         /\ EncodeSize(Len(r.val)) \in Seq(Byte) /\ y \in Seq(Byte)
<1>1. c.at # 0 /\ Spells(d, m, c, EncodeSize(Len(r.val))) /\ Spells(d, c.at, r, y)
  BY DEF Counted
<1>2. Prefix(d, c.at, x \o EncodeSize(Len(r.val))) /\ EncodeSize(Len(r.val)) \in Seq(Byte)
  BY <1>1, PrefixOn
<1>3. Prefix(d, r.at, (x \o EncodeSize(Len(r.val))) \o y) /\ y \in Seq(Byte)
  BY <1>1, <1>2, PrefixOn
<1> QED BY <1>2, <1>3

LEMMA WholePrefix ==
  ASSUME NEW d \in Seq(Byte), NEW x, Prefix(d, Len(d) + 1, x) PROVE x = d
<1>1. Len(d) \in Nat /\ x = SubSeq(d, 1, Len(d))
  BY LenProperties DEF Prefix
<1> QED BY <1>1

(* A read past the end fails, and one that failed fails the next.          *)
LEMMA FailedOn ==
  ASSUME NEW d \in Seq(Byte), NEW i \in Nat, i = 0 \/ i > Len(d), NEW found
  PROVE  /\ ReadCounted(d, i, found) = Failed
         /\ \A k : Read(d, 0, k) = Failed
<1>1. ReadSize(d, i) = Failed
  BY DEF ReadSize
<1>2. ReadCounted(d, i, found) = Failed
  BY <1>1 DEF ReadCounted, Failed
<1>3. \A k : Read(d, 0, k) = Failed
  BY DEF Read
<1> QED BY <1>2, <1>3

-----------------------------------------------------------------------------
(* The rows of a transaction whose input count is at i.                    *)
InputRow(d, i) == ReadCounted(d, i, Inputs(d))
OutputRow(d, i) == ReadCounted(d, InputRow(d, i).at, Outputs(d))
StackRow(d, i) == ReadMany(d, OutputRow(d, i).at, Len(InputRow(d, i).val), Stacks(d))

(* The first byte of a count is 0 only if nothing follows.                 *)
LEMMA CountZero ==
  ASSUME NEW d \in Seq(Byte), NEW i \in 1 .. Len(d), NEW r, NEW y,
         Counted(d, i, ReadSize(d, i), r, y), r.at # 0
  PROVE  EncodeSize(Len(r.val))[1] = d[i]
<1> DEFINE c == ReadSize(d, i)
<1>1. Len(d) \in Nat /\ i \in 0 .. Len(d) + 1
  BY LenProperties
<1>2. c.at # 0 /\ Spells(d, i, c, EncodeSize(Len(r.val)))
  BY DEF Counted
<1>3. i < c.at
  BY <1>1, <1>2, ReadSizeSpells
<1> HIDE DEF c
<1>4. /\ i \in Nat \ {0} /\ c.at \in Nat /\ i <= c.at /\ c.at <= Len(d) + 1
      /\ EncodeSize(Len(r.val)) = SubSeq(d, i, c.at - 1)
  BY <1>1, <1>2 DEF Spells
<1>5. \A k \in 1 .. c.at - i : SubSeq(d, i, c.at - 1)[k] = d[i + k - 1]
  BY <1>4, PartOf
<1>6. 1 \in 1 .. c.at - i /\ i + 1 - 1 = i
  BY <1>3, <1>4
<1>7. SubSeq(d, i, c.at - 1)[1] = d[i + 1 - 1]
  BY <1>5, <1>6
<1> QED BY <1>4, <1>6, <1>7

(* What a transaction is read from, from the input count to the end.       *)
LEMMA RowsRead ==
  ASSUME NEW d \in Seq(Byte), NEW i \in Nat \ {0}, InputRow(d, i).at # 0
  PROVE  /\ i \in 1 .. Len(d) /\ i \in 0 .. Len(d) + 1
         /\ Counted(d, i, ReadSize(d, i), InputRow(d, i), Each(EncodeInput, InputRow(d, i).val))
         /\ InputRow(d, i).val \in Seq(Found(Inputs(d)))
         /\ \A k \in 1 .. Len(InputRow(d, i).val) : Bare(InputRow(d, i).val[k])
         /\ InputRow(d, i).at \in 0 .. Len(d) + 1
         /\ Counted(d, InputRow(d, i).at, ReadSize(d, InputRow(d, i).at), OutputRow(d, i),
                    Each(EncodeOutput, OutputRow(d, i).val))
         /\ OutputRow(d, i).at \in 0 .. Len(d) + 1
<1> DEFINE r == InputRow(d, i)
           o == OutputRow(d, i)
<1>0. Len(d) \in Nat
  BY LenProperties
<1>1. i \in 1 .. Len(d) /\ i \in 0 .. Len(d) + 1
  <2>1. i > Len(d) => r = Failed
    BY <1>0, FailedOn DEF InputRow
  <2> QED BY <1>0, <2>1 DEF Failed
<1>2. r = ReadCounted(d, i, Inputs(d))
  BY DEF InputRow
<1> HIDE DEF r
<1>3. /\ Counted(d, i, ReadSize(d, i), r, Each(EncodeInput, r.val))
      /\ r.val \in Seq(Found(Inputs(d))) /\ \A k \in 1 .. Len(r.val) : Bare(r.val[k])
  BY <1>1, <1>2, InputsSpell
<1>4. r.at \in 0 .. Len(d) + 1
  BY <1>3 DEF Counted, Spells
<1>5. o = ReadCounted(d, r.at, Outputs(d))
  BY DEF OutputRow, r
<1> HIDE DEF o
<1>6. Counted(d, r.at, ReadSize(d, r.at), o, Each(EncodeOutput, o.val))
  BY <1>4, <1>5, OutputsSpell
<1>7. o.at \in 0 .. Len(d) + 1
  BY <1>6 DEF Counted, Spells
<1> QED BY <1>1, <1>3, <1>4, <1>6, <1>7 DEF r, o

(* A read that did not fail starts where one ended.                        *)
LEMMA RowsBefore ==
  ASSUME NEW d \in Seq(Byte), NEW i \in Nat
  PROVE  /\ OutputRow(d, i).at # 0 => InputRow(d, i).at # 0
         /\ StackRow(d, i).at # 0 => OutputRow(d, i).at # 0
         /\ \A j, k : Read(d, j, k).at # 0 => j # 0
<1>1. InputRow(d, i).at = 0 => OutputRow(d, i).at = 0
  <2> HAVE InputRow(d, i).at = 0
  <2>1. OutputRow(d, i) = ReadCounted(d, 0, Outputs(d))
    BY DEF OutputRow
  <2>2. OutputRow(d, i) = Failed
    BY <2>1, FailedOn
  <2> QED BY <2>2 DEF Failed
<1>2. OutputRow(d, i).at = 0 => StackRow(d, i).at = 0
  <2> HAVE OutputRow(d, i).at = 0
  <2>1. StackRow(d, i) = ReadMany(d, 0, Len(InputRow(d, i).val), Stacks(d))
    BY DEF StackRow
  <2>2. StackRow(d, i) = Failed
    BY <2>1 DEF ReadMany
  <2> QED BY <2>2 DEF Failed
<1>3. \A k : Read(d, 0, k).at = 0
  BY FailedOn DEF Failed
<1> QED BY <1>1, <1>2, <1>3

(* Without a witness, what is read is written the same way.                *)
LEMMA PlainRead ==
  ASSUME NEW d \in Seq(Byte), NEW tx \in ReadFrom(d, 5, FALSE)
  PROVE  /\ EncodeWith(tx, FALSE) = d /\ ~HasWitness(tx)
         /\ Len(tx.inputs) > 0 <=> tx.inputs # <<>>
         /\ 5 \in 1 .. Len(d) /\ (d[5] = 0 => tx.inputs = <<>>)
<1> DEFINE r == InputRow(d, 5)
           o == OutputRow(d, 5)
           end == Read(d, o.at, 4)
<1>0. Len(d) \in Nat
  BY LenProperties
<1>1. /\ tx = [version |-> SubSeq(d, 1, 4), locktime |-> end.val,
               outputs |-> o.val, inputs |-> r.val]
      /\ end.at = Len(d) + 1
  BY DEF ReadFrom, InputRow, OutputRow, Inputs, Outputs
<1>2. r.at # 0 /\ o.at # 0 /\ end.at # 0
  <2>1. end.at # 0
    BY <1>0, <1>1
  <2> HIDE DEF r, end
  <2>2. o.at # 0
    BY <2>1, RowsBefore DEF end
  <2> QED BY <2>1, <2>2, RowsBefore DEF r
<1>3. /\ 5 \in 1 .. Len(d) /\ 5 \in 0 .. Len(d) + 1
      /\ Counted(d, 5, ReadSize(d, 5), r, Each(EncodeInput, r.val))
      /\ r.val \in Seq(Found(Inputs(d))) /\ \A k \in 1 .. Len(r.val) : Bare(r.val[k])
      /\ Counted(d, r.at, ReadSize(d, r.at), o, Each(EncodeOutput, o.val))
      /\ o.at \in 0 .. Len(d) + 1
  BY <1>2, RowsRead
<1> HIDE DEF r, o
<1>4. Spells(d, o.at, end, end.val)
  BY <1>3, ReadSpells
<1> HIDE DEF end
<1> DEFINE version == SubSeq(d, 1, 4)
<1>5. Prefix(d, 5, version) /\ version \o <<>> = version
  <2>1. Prefix(d, 5, version)
    BY <1>0, <1>3 DEF Prefix
  <2> HIDE DEF version
  <2> QED BY <2>1, PrefixSeq
<1> HIDE DEF version
<1> DEFINE x1 == (version \o EncodeSize(Len(r.val))) \o Each(EncodeInput, r.val)
           x2 == (x1 \o EncodeSize(Len(o.val))) \o Each(EncodeOutput, o.val)
<1>6. Prefix(d, r.at, x1)
  BY <1>2, <1>3, <1>5, PrefixCounted
<1> HIDE DEF x1
<1>7. /\ Prefix(d, o.at, x2)
      /\ EncodeSize(Len(o.val)) \in Seq(Byte) /\ Each(EncodeOutput, o.val) \in Seq(Byte)
  BY <1>2, <1>3, <1>6, PrefixCounted
<1> HIDE DEF x2
<1>8. Prefix(d, Len(d) + 1, x2 \o end.val) /\ x2 \o <<>> = x2
  <2>1. Prefix(d, end.at, x2 \o end.val)
    BY <1>2, <1>4, <1>7, PrefixOn
  <2> QED BY <1>1, <1>7, <2>1, PrefixSeq
<1>9. x2 \o end.val = d
  BY <1>8, WholePrefix
<1>10. EncodeWith(tx, FALSE) = x2 \o end.val
  <2>1. EncodeWith(tx, FALSE) =
          (((((version \o <<>>) \o EncodeSize(Len(r.val))) \o Each(EncodeInput, r.val))
            \o EncodeSize(Len(o.val))) \o Each(EncodeOutput, o.val)) \o <<>> \o end.val
    BY <1>1 DEF EncodeWith, version
  <2> QED BY <1>5, <1>8, <2>1 DEF x1, x2
<1>11. ~HasWitness(tx)
  <2>1. \A k \in 1 .. Len(r.val) : r.val[k].witness = <<>>
    <3> SUFFICES ASSUME NEW k \in 1 .. Len(r.val) PROVE r.val[k].witness = <<>>
      OBVIOUS
    <3>1. Bare(r.val[k])
      BY <1>3
    <3> QED BY <3>1 DEF Bare
  <2>2. tx.inputs = r.val
    BY <1>1
  <2> QED BY <2>1, <2>2 DEF HasWitness
<1>12. Len(r.val) \in Nat /\ (Len(r.val) = 0 <=> r.val = <<>>)
  BY <1>3, LenProperties, EmptySeq
<1>13. d[5] = 0 => Len(r.val) = 0
  <2>1. EncodeSize(Len(r.val))[1] = d[5]
    BY <1>2, <1>3, CountZero
  <2> QED BY <1>12, <2>1 DEF EncodeSize
<1>14. tx.inputs = r.val
  BY <1>1
<1>15. Len(tx.inputs) > 0 <=> tx.inputs # <<>>
  BY <1>12, <1>14
<1>16. d[5] = 0 => tx.inputs = <<>>
  BY <1>12, <1>13, <1>14
<1>17. 5 \in 1 .. Len(d)
  BY <1>3
<1> QED BY <1>9, <1>10, <1>11, <1>15, <1>16, <1>17

(* A longer sequence still has its fifth byte.                             *)
LEMMA FifthStays ==
  ASSUME NEW x \in Seq(Byte), NEW y \in Seq(Byte), Len(x) >= 5, NEW b, x[5] = b
  PROVE  x \o y \in Seq(Byte) /\ Len(x \o y) >= 5 /\ (x \o y)[5] = b
  BY ConcatProperties, LenProperties

LEMMA FifthComes ==
  ASSUME NEW x \in Seq(Byte), NEW y \in Seq(Byte), Len(x) = 4, Len(y) >= 1
  PROVE  x \o y \in Seq(Byte) /\ Len(x \o y) >= 5 /\ (x \o y)[5] = y[1]
<1>1. Len(x) \in Nat /\ Len(y) \in Nat
  BY LenProperties
<1>2. x \o y \in Seq(Byte) /\ Len(x \o y) = Len(x) + Len(y)
  BY ConcatProperties
<1>3. 5 \in 1 .. Len(x) + Len(y) /\ 5 > Len(x) /\ 5 - Len(x) = 1
  BY <1>1
<1>4. (x \o y)[5] = IF 5 <= Len(x) THEN x[5] ELSE y[5 - Len(x)]
  BY <1>3, ConcatProperties
<1> QED BY <1>1, <1>2, <1>3, <1>4

LEMMA SizeStarts ==
  ASSUME NEW k \in Nat, k > 0 PROVE Len(EncodeSize(k)) >= 1 /\ EncodeSize(k)[1] # 0
<1>1. CASE k < 253
  <2>1. EncodeSize(k) = <<k>>
    BY <1>1 DEF EncodeSize
  <2> QED BY <2>1
<1>2. CASE ~(k < 253)
  <2>1. EncodeSize(k) = <<253, k % 256, k \div 256>>
    BY <1>2 DEF EncodeSize
  <2> QED BY <2>1
<1> QED BY <1>1, <1>2

(* The inputs of the rows, with their witnesses.                           *)
Joined(inputs, vals, stacks) ==
  /\ Len(stacks) = Len(vals) /\ \A k \in 1 .. Len(vals) : Bare(vals[k])
  /\ inputs = [k \in 1 .. Len(vals) |-> [vals[k] EXCEPT !.witness = stacks[k]]]

LEMMA WithWitnesses ==
  ASSUME NEW V, NEW vals \in Seq(V), NEW W, NEW stacks \in Seq(W), NEW inputs,
         Joined(inputs, vals, stacks)
  PROVE  /\ Len(inputs) = Len(vals) /\ (Len(inputs) > 0 <=> inputs # <<>>)
         /\ Each(EncodeInput, inputs) = Each(EncodeInput, vals)
         /\ Each(EncodeStack, inputs) = Text(StackText(W), stacks)
<1>0. /\ Len(stacks) = Len(vals) /\ \A k \in 1 .. Len(vals) : Bare(vals[k])
      /\ inputs = [k \in 1 .. Len(vals) |-> [vals[k] EXCEPT !.witness = stacks[k]]]
  BY DEF Joined
<1>1. Len(vals) \in Nat /\ Len(stacks) \in Nat
  BY LenProperties
<1>2. Len(inputs) = Len(vals)
  BY <1>0, <1>1
<1>3. Len(inputs) > 0 <=> inputs # <<>>
  BY <1>0, <1>1, <1>2
<1>4. ASSUME NEW k \in 1 .. Len(vals)
      PROVE  /\ EncodeInput(inputs[k]) = EncodeInput(vals[k])
             /\ EncodeStack(inputs[k]) = StackText(W)[stacks[k]]
  <2>1. inputs[k] = [vals[k] EXCEPT !.witness = stacks[k]] /\ Bare(vals[k])
    BY <1>0
  <2>2. inputs[k] = [outpoint |-> vals[k].outpoint, script |-> vals[k].script,
                     sequence |-> vals[k].sequence, witness |-> stacks[k]]
    <3>1. vals[k] = [outpoint |-> vals[k].outpoint, script |-> vals[k].script,
                     sequence |-> vals[k].sequence, witness |-> <<>>]
      BY <2>1 DEF Bare
    <3> QED BY <2>1, <3>1
  <2>3. EncodeInput(inputs[k]) = EncodeInput(vals[k])
    <3>1. /\ inputs[k].outpoint = vals[k].outpoint /\ inputs[k].script = vals[k].script
          /\ inputs[k].sequence = vals[k].sequence
      BY <2>2
    <3> QED BY <3>1, Zenon DEF EncodeInput
  <2>4. stacks[k] \in W
    BY <1>0, <1>1, ElementOfSeq
  <2>5. StackText(W)[stacks[k]] = EncodeSize(Len(stacks[k])) \o Each(EncodeVar, stacks[k])
    BY <2>4 DEF StackText
  <2>6. EncodeStack(inputs[k]) = EncodeSize(Len(stacks[k])) \o Each(EncodeVar, stacks[k])
    BY <2>2 DEF EncodeStack
  <2> QED BY <2>3, <2>5, <2>6
<1>5. [k \in 1 .. Len(inputs) |-> EncodeInput(inputs[k])]
        = [k \in 1 .. Len(vals) |-> EncodeInput(vals[k])]
  BY <1>2, <1>4
<1>6. [k \in 1 .. Len(inputs) |-> EncodeStack(inputs[k])]
        = [k \in 1 .. Len(stacks) |-> StackText(W)[stacks[k]]]
  BY <1>0, <1>2, <1>4
<1>7. Each(EncodeInput, inputs) = Each(EncodeInput, vals)
  BY <1>5 DEF Each
<1>8. Each(EncodeStack, inputs) = Text(StackText(W), stacks)
  BY <1>6 DEF Each, Text
<1> QED BY <1>2, <1>3, <1>7, <1>8

(* Behind a marker, what is read is written the same way with witnesses,   *)
(* and in no way without them: the marker would be an input count.         *)
LEMMA MarkedRead ==
  ASSUME NEW d \in Seq(Byte), Marked(d), NEW tx \in ReadFrom(d, 7, TRUE)
  PROVE  /\ EncodeWith(tx, TRUE) = d
         /\ Len(tx.inputs) > 0 <=> tx.inputs # <<>>
         /\ Len(tx.inputs) > 0 => EncodeWith(tx, FALSE) # d
<1> DEFINE r == InputRow(d, 7)
           o == OutputRow(d, 7)
           s == StackRow(d, 7)
           end == Read(d, s.at, 4)
<1>0. Len(d) \in Nat /\ Len(d) > 5 /\ d[5] = 0 /\ d[6] = 1
  BY LenProperties DEF Marked
<1>1. /\ tx = [version |-> SubSeq(d, 1, 4), locktime |-> end.val, outputs |-> o.val,
               inputs |-> [k \in 1 .. Len(r.val) |-> [r.val[k] EXCEPT !.witness = s.val[k]]]]
      /\ end.at = Len(d) + 1
  BY DEF ReadFrom, InputRow, OutputRow, StackRow, Inputs, Outputs, Stacks
<1>2. r.at # 0 /\ o.at # 0 /\ s.at # 0 /\ end.at # 0
  <2>1. end.at # 0
    BY <1>0, <1>1
  <2> HIDE DEF r, o, end
  <2>2. s.at # 0
    BY <2>1, RowsBefore DEF end
  <2>3. o.at # 0
    BY <2>2, RowsBefore DEF o
  <2> QED BY <2>1, <2>2, <2>3, RowsBefore DEF r, o
<1>3. /\ 7 \in 1 .. Len(d) /\ 7 \in 0 .. Len(d) + 1
      /\ Counted(d, 7, ReadSize(d, 7), r, Each(EncodeInput, r.val))
      /\ r.val \in Seq(Found(Inputs(d))) /\ \A k \in 1 .. Len(r.val) : Bare(r.val[k])
      /\ Counted(d, r.at, ReadSize(d, r.at), o, Each(EncodeOutput, o.val))
      /\ o.at \in 0 .. Len(d) + 1
  BY <1>2, RowsRead
<1>a. s = ReadMany(d, o.at, Len(r.val), Stacks(d))
  BY DEF StackRow
<1> HIDE DEF r, o, s
<1>b. Len(r.val) \in Nat
  BY <1>3, LenProperties
<1>c. /\ Spells(d, o.at, s, Text(StackText(Found(Stacks(d))), s.val))
      /\ s.val \in Seq(Found(Stacks(d))) /\ Len(s.val) = Len(r.val)
  BY <1>2, <1>3, <1>a, <1>b, StacksSpell
<1>d. s.at \in 0 .. Len(d) + 1
  BY <1>c DEF Spells
<1>4. Spells(d, s.at, end, end.val) /\ end.val \in Seq(Byte)
  BY <1>d, ReadSpells
<1> HIDE DEF end
<1>e. /\ Len(tx.inputs) = Len(r.val) /\ (Len(tx.inputs) > 0 <=> tx.inputs # <<>>)
      /\ Each(EncodeInput, tx.inputs) = Each(EncodeInput, r.val)
      /\ Each(EncodeStack, tx.inputs) = Text(StackText(Found(Stacks(d))), s.val)
  <2>1. tx.inputs = [k \in 1 .. Len(r.val) |-> [r.val[k] EXCEPT !.witness = s.val[k]]]
    BY <1>1
  <2>2. \A k \in 1 .. Len(r.val) : Bare(r.val[k])
    BY <1>3
  <2>3. /\ r.val \in Seq(Found(Inputs(d))) /\ s.val \in Seq(Found(Stacks(d)))
        /\ Len(s.val) = Len(r.val)
    BY <1>3, <1>c
  <2>4. Joined(tx.inputs, r.val, s.val)
    BY <2>1, <2>2, <2>3 DEF Joined
  <2> QED BY <2>3, <2>4, WithWitnesses
<1> DEFINE version == SubSeq(d, 1, 4)
<1>5. /\ Prefix(d, 5, version) /\ version \in Seq(Byte) /\ version \o <<>> = version
      /\ Len(version) = 4
  <2>1. Prefix(d, 5, version)
    BY <1>0 DEF Prefix
  <2>2. Len(SubSeq(d, 1, 5 - 1)) = 5 - 1
    BY <1>0, PartOf
  <2>3. Len(version) = 4
    BY <2>2
  <2> HIDE DEF version
  <2> QED BY <2>1, <2>3, PrefixSeq
<1>6. Prefix(d, 7, version \o <<0, 1>>)
  <2> DEFINE m == SubSeq(d, 5, 7 - 1)
  <2>1. 5 \in Nat \ {0} /\ 7 \in Nat /\ 5 <= 7 /\ 7 <= Len(d) + 1
    BY <1>0
  <2>2. m \in Seq(Byte) /\ Len(m) = 7 - 5 /\ \A k \in 1 .. 7 - 5 : m[k] = d[5 + k - 1]
    BY <2>1, PartOf
  <2> HIDE DEF m
  <2>3. Len(m) = 2 /\ m[1] = d[5] /\ m[2] = d[6]
    <3>1. 7 - 5 = 2 /\ 1 \in 1 .. 7 - 5 /\ 2 \in 1 .. 7 - 5 /\ 5 + 1 - 1 = 5 /\ 5 + 2 - 1 = 6
      OBVIOUS
    <3> QED BY <2>2, <3>1
  <2>4. m = <<0, 1>>
    BY <1>0, <2>2, <2>3
  <2>5. Spells(d, 5, [at |-> 7, val |-> 0], m)
    BY <1>0 DEF Spells, m
  <2> QED BY <1>5, <2>4, <2>5, PrefixOn
<1> HIDE DEF version
<1> DEFINE x0 == version \o <<0, 1>>
           x1 == (x0 \o EncodeSize(Len(r.val))) \o Each(EncodeInput, r.val)
           x2 == (x1 \o EncodeSize(Len(o.val))) \o Each(EncodeOutput, o.val)
           x3 == x2 \o Text(StackText(Found(Stacks(d))), s.val)
<1> HIDE DEF x0
<1>7. /\ Prefix(d, r.at, x1)
      /\ EncodeSize(Len(r.val)) \in Seq(Byte) /\ Each(EncodeInput, r.val) \in Seq(Byte)
  BY <1>2, <1>3, <1>6, PrefixCounted DEF x0
<1> HIDE DEF x1
<1>8. /\ Prefix(d, o.at, x2)
      /\ EncodeSize(Len(o.val)) \in Seq(Byte) /\ Each(EncodeOutput, o.val) \in Seq(Byte)
  BY <1>2, <1>3, <1>7, PrefixCounted
<1> HIDE DEF x2
<1>9. Prefix(d, s.at, x3)
  BY <1>2, <1>8, <1>c, PrefixOn
<1> HIDE DEF x3
<1>10. x3 \o end.val = d
  <2>1. Prefix(d, end.at, x3 \o end.val)
    BY <1>2, <1>4, <1>9, PrefixOn
  <2> QED BY <1>1, <2>1, WholePrefix
<1>11. EncodeWith(tx, TRUE) = x3 \o end.val
  <2>1. EncodeWith(tx, TRUE) =
          ((((((version \o <<0, 1>>) \o EncodeSize(Len(tx.inputs))) \o Each(EncodeInput, tx.inputs))
            \o EncodeSize(Len(o.val))) \o Each(EncodeOutput, o.val))
            \o Each(EncodeStack, tx.inputs)) \o end.val
    BY <1>1 DEF EncodeWith, version
  <2> QED BY <1>e, <2>1 DEF x0, x1, x2, x3
<1>12. ASSUME Len(tx.inputs) > 0 PROVE EncodeWith(tx, FALSE) # d
  <2> DEFINE c == EncodeSize(Len(r.val))
             y1 == version \o c
             y2 == y1 \o Each(EncodeInput, r.val)
             y3 == y2 \o EncodeSize(Len(o.val))
             y4 == y3 \o Each(EncodeOutput, o.val)
             y5 == y4 \o <<>>
  <2>1. c \in Seq(Byte) /\ Len(c) >= 1 /\ c[1] # 0
    BY <1>7, <1>b, <1>e, <1>12, SizeStarts
  <2> HIDE DEF c
  <2>2. y1 \in Seq(Byte) /\ Len(y1) >= 5 /\ y1[5] = c[1]
    BY <1>5, <2>1, FifthComes
  <2> HIDE DEF y1
  <2>3. y2 \in Seq(Byte) /\ Len(y2) >= 5 /\ y2[5] = c[1]
    BY <1>7, <2>2, FifthStays
  <2> HIDE DEF y2
  <2>4. y3 \in Seq(Byte) /\ Len(y3) >= 5 /\ y3[5] = c[1]
    BY <1>8, <2>3, FifthStays
  <2> HIDE DEF y3
  <2>5. y4 \in Seq(Byte) /\ Len(y4) >= 5 /\ y4[5] = c[1]
    BY <1>8, <2>4, FifthStays
  <2> HIDE DEF y4
  <2>6. y5 = y4
    BY <2>5, ConcatEmptySeq
  <2> HIDE DEF y5
  <2>7. (y5 \o end.val)[5] = c[1]
    BY <1>4, <2>5, <2>6, FifthStays
  <2>8. EncodeWith(tx, FALSE) = y5 \o end.val
    <3>1. EncodeWith(tx, FALSE) =
            ((((((version \o <<>>) \o EncodeSize(Len(tx.inputs))) \o Each(EncodeInput, tx.inputs))
              \o EncodeSize(Len(o.val))) \o Each(EncodeOutput, o.val)) \o <<>>) \o end.val
      BY <1>1 DEF EncodeWith, version
    <3> QED BY <1>5, <1>e, <3>1 DEF c, y1, y2, y3, y4, y5
  <2> QED BY <1>0, <2>1, <2>7, <2>8
<1> QED BY <1>10, <1>11, <1>12, <1>e

-----------------------------------------------------------------------------
LEMMA EncodeCases ==
  ASSUME NEW tx
  PROVE  /\ HasWitness(tx) => Encode(tx) = EncodeWith(tx, TRUE)
         /\ ~HasWitness(tx) => Encode(tx) = EncodeWith(tx, FALSE)
<1>1. ASSUME HasWitness(tx) PROVE Encode(tx) = EncodeWith(tx, TRUE)
  <2>1. HasWitness(tx) = TRUE
    BY <1>1 DEF HasWitness
  <2> QED BY <2>1, Zenon DEF Encode
<1>2. ASSUME ~HasWitness(tx) PROVE Encode(tx) = EncodeWith(tx, FALSE)
  <2>1. HasWitness(tx) = FALSE
    BY <1>2 DEF HasWitness
  <2> QED BY <2>1, Zenon DEF Encode
<1> QED BY <1>1, <1>2

(* Without a marker the HD codec reads a transaction without witnesses,    *)
(* at the latest when it looks a second time.                              *)
LEMMA DecodePlain ==
  ASSUME NEW d \in Seq(Byte), ~Marked(d) PROVE Decode(d) = ReadFrom(d, 5, FALSE)
<1>1. CASE Len(d) > 5 /\ d[5] = 0
  <2>1. DecodeMarked(d) = {}
    BY <1>1 DEF DecodeMarked, Marked
  <2> QED BY <1>1, <2>1 DEF Decode
<1>2. CASE ~(Len(d) > 5 /\ d[5] = 0)
  BY <1>2 DEF Decode, DecodeMarked
<1> QED BY <1>1, <1>2

(* Behind a marker it reads one with witnesses, or else one without inputs.*)
LEMMA DecodeBehindMarker ==
  ASSUME NEW d \in Seq(Byte), Marked(d)
  PROVE  \/ Decode(d) = {tx \in ReadFrom(d, 7, TRUE) : HasWitness(tx)}
         \/ /\ {tx \in ReadFrom(d, 7, TRUE) : HasWitness(tx)} = {}
            /\ Decode(d) = ReadFrom(d, 5, FALSE)
<1>1. Len(d) > 5 /\ d[5] = 0 /\ d[6] = 1
  BY DEF Marked
<1>2. DecodeMarked(d) = {tx \in ReadFrom(d, 7, TRUE) : HasWitness(tx)}
  BY <1>1, Zenon DEF DecodeMarked
<1>3. CASE DecodeMarked(d) = {}
  <2>1. Decode(d) = ReadFrom(d, 5, FALSE)
    BY <1>1, <1>3, Zenon DEF Decode
  <2> QED BY <1>2, <1>3, <2>1
<1>4. CASE DecodeMarked(d) # {}
  <2>1. Decode(d) = DecodeMarked(d)
    BY <1>4 DEF Decode
  <2> QED BY <1>2, <2>1
<1> QED BY <1>3, <1>4

(* Whatever the bytes, what the HD codec accepts it would write as they    *)
(* are: no transaction has two forms.                                      *)
THEOREM OneFormAlways ==
  ASSUME NEW d \in Seq(Byte), NEW tx \in Decode(d) PROVE Encode(tx) = d
<1>1. CASE tx \in ReadFrom(d, 5, FALSE)
  <2>1. EncodeWith(tx, FALSE) = d /\ ~HasWitness(tx)
    BY <1>1, PlainRead
  <2> QED BY <2>1, EncodeCases
<1>2. CASE Marked(d) /\ tx \in ReadFrom(d, 7, TRUE) /\ HasWitness(tx)
  <2>1. EncodeWith(tx, TRUE) = d
    BY <1>2, MarkedRead
  <2> QED BY <1>2, <2>1, EncodeCases
<1>3. tx \in ReadFrom(d, 5, FALSE) \/ (Marked(d) /\ tx \in ReadFrom(d, 7, TRUE) /\ HasWitness(tx))
  <2>1. CASE Marked(d)
    BY <2>1, DecodeBehindMarker, Zenon
  <2>2. CASE ~Marked(d)
    BY <2>2, DecodePlain, Zenon
  <2> QED BY <2>1, <2>2
<1> QED BY <1>1, <1>2, <1>3

(* Whatever the bytes, the single-key codec accepts what the HD codec does *)
(* as long as there are inputs and the amounts are in range.               *)
THEOREM CodecsAgreeAlways ==
  ASSUME NEW d \in Seq(Byte)
  PROVE  SingleDecode(d) = {tx \in Decode(d) : tx.inputs # <<>> /\ MoneyRange(tx)}
<1>1. CASE ~Marked(d)
  <2>1. SingleDecode(d) =
          {tx \in ReadFrom(d, 5, FALSE) : Len(tx.inputs) > 0 /\ MoneyRange(tx) /\ Encode(tx) = d}
    <3>1. Marked(d) = FALSE
      BY <1>1 DEF Marked
    <3> QED BY <3>1, Zenon DEF SingleDecode
  <2>2. Decode(d) = ReadFrom(d, 5, FALSE)
    BY <1>1, DecodePlain
  <2>3. \A tx \in ReadFrom(d, 5, FALSE) :
          Encode(tx) = d /\ (Len(tx.inputs) > 0 <=> tx.inputs # <<>>)
    <3> SUFFICES ASSUME NEW tx \in ReadFrom(d, 5, FALSE)
                 PROVE  Encode(tx) = d /\ (Len(tx.inputs) > 0 <=> tx.inputs # <<>>)
      OBVIOUS
    <3>1. Encode(tx) = d
      BY <2>2, OneFormAlways
    <3>2. Len(tx.inputs) > 0 <=> tx.inputs # <<>>
      BY PlainRead
    <3> QED BY <3>1, <3>2
  <2> QED BY <2>1, <2>2, <2>3
<1>2. CASE Marked(d)
  <2> DEFINE Full == {tx \in ReadFrom(d, 7, TRUE) : HasWitness(tx)}
  <2>1. SingleDecode(d) =
          {tx \in ReadFrom(d, 7, TRUE) : Len(tx.inputs) > 0 /\ MoneyRange(tx) /\ Encode(tx) = d}
    <3>1. Marked(d) = TRUE
      BY <1>2 DEF Marked
    <3> QED BY <3>1, Zenon DEF SingleDecode
  <2>2. ASSUME NEW tx \in ReadFrom(d, 7, TRUE)
        PROVE  /\ Len(tx.inputs) > 0 <=> tx.inputs # <<>>
               /\ Len(tx.inputs) > 0 => (Encode(tx) = d <=> HasWitness(tx))
    <3>1. /\ EncodeWith(tx, TRUE) = d /\ (Len(tx.inputs) > 0 <=> tx.inputs # <<>>)
          /\ Len(tx.inputs) > 0 => EncodeWith(tx, FALSE) # d
      BY <1>2, MarkedRead
    <3> QED BY <3>1, EncodeCases
  <2>3. SingleDecode(d) = {tx \in Full : tx.inputs # <<>> /\ MoneyRange(tx)}
    BY <2>1, <2>2
  <2>4. CASE Decode(d) = Full
    BY <2>3, <2>4
  <2>5. CASE Full = {} /\ Decode(d) = ReadFrom(d, 5, FALSE)
    <3>1. d[5] = 0
      BY <1>2 DEF Marked
    <3>2. \A tx \in Decode(d) : tx.inputs = <<>>
      BY <2>5, <3>1, PlainRead
    <3>3. SingleDecode(d) = {}
      BY <2>3, <2>5
    <3> QED BY <3>2, <3>3
  <2> QED BY <1>2, <2>4, <2>5, DecodeBehindMarker
<1> QED BY <1>1, <1>2

-----------------------------------------------------------------------------
(***************************************************************************)
(* The sizes of what is written.                                           *)
(***************************************************************************)
(* The length of sequences one after the other, g[k] that of the first k.  *)
Lengths(g, seqs, L, V) ==
  /\ seqs \in [1 .. L -> Seq(V)] /\ g[0] = 0
  /\ \A k \in 1 .. L : g[k] = g[k - 1] + Len(seqs[k])

LEMMA ConcatLength ==
  ASSUME NEW V, NEW L \in Nat, NEW g, NEW seqs, Lengths(g, seqs, L, V)
  PROVE  Concat(seqs) \in Seq(V) /\ Len(Concat(seqs)) = g[L]
<1>0. /\ seqs \in [1 .. L -> Seq(V)] /\ g[0] = 0
      /\ \A k \in 1 .. L : g[k] = g[k - 1] + Len(seqs[k])
  BY DEF Lengths
<1>1. PICK p : Concats(p, L, V, seqs)
  BY <1>0, ConcatSteps
<1>2. /\ p \in [0 .. L -> Seq(V)] /\ p[0] = <<>> /\ p[L] = Concat(seqs)
      /\ \A k \in 1 .. L : p[k] = p[k - 1] \o seqs[k]
  BY <1>1 DEF Concats
<1> DEFINE T == {k \in 0 .. L : Len(p[k]) = g[k]}
<1>3. 0 \in T
  BY <1>0, <1>2
<1>4. ASSUME NEW k \in 1 .. L, k - 1 \in T PROVE k \in T
  <2>1. k \in 0 .. L /\ k - 1 \in 0 .. L
    OBVIOUS
  <2>2. p[k - 1] \in Seq(V) /\ seqs[k] \in Seq(V) /\ Len(p[k - 1]) = g[k - 1]
    BY <1>0, <1>2, <1>4, <2>1
  <2>3. Len(p[k - 1] \o seqs[k]) = Len(p[k - 1]) + Len(seqs[k])
    BY <2>2, ConcatProperties
  <2>4. Len(p[k]) = g[k]
    BY <1>0, <1>2, <2>2, <2>3
  <2> QED BY <2>1, <2>4
<1>5. 0 .. L \subseteq T
  <2> HIDE DEF T
  <2> QED BY <1>3, <1>4, UpTo
<1>6. L \in 0 .. L
  OBVIOUS
<1> QED BY <1>2, <1>5, <1>6

LEMMA SizeBytes ==
  ASSUME NEW k \in Nat, k < 65536
  PROVE  EncodeSize(k) \in Seq(Byte) /\ Len(EncodeSize(k)) = CompactSize(k)
<1>1. CASE k < 253
  <2>1. EncodeSize(k) = <<k>> /\ k \in Byte /\ CompactSize(k) = 1
    BY <1>1 DEF EncodeSize, CompactSize, Byte
  <2> QED BY <2>1
<1>2. CASE ~(k < 253)
  <2>1. EncodeSize(k) = <<253, k % 256, k \div 256>> /\ CompactSize(k) = 3
    BY <1>2 DEF EncodeSize, CompactSize
  <2>2. k % 256 \in 0 .. 255 /\ k \div 256 \in 0 .. 255
    OBVIOUS
  <2>3. 253 \in Byte /\ k % 256 \in Byte /\ k \div 256 \in Byte
    BY <2>2 DEF Byte
  <2> QED BY <2>1, <2>3
<1> QED BY <1>1, <1>2

LEMMA VarBytes ==
  ASSUME NEW b \in Seq(Byte), Len(b) < 253
  PROVE  EncodeVar(b) \in Seq(Byte) /\ Len(EncodeVar(b)) = 1 + Len(b)
<1>1. Len(b) \in Nat
  BY LenProperties
<1>2. EncodeSize(Len(b)) \in Seq(Byte) /\ Len(EncodeSize(Len(b))) = 1
  BY <1>1, SizeBytes DEF CompactSize
<1>3. PICK s \in Seq(Byte) : s = EncodeSize(Len(b)) /\ Len(s) = 1
  BY <1>2
<1>4. s \o b \in Seq(Byte) /\ Len(s \o b) = Len(s) + Len(b)
  BY ConcatProperties
<1> QED BY <1>3, <1>4 DEF EncodeVar

LEMMA DataBytes ==
  ASSUME NEW k \in Nat
  PROVE  Data(k) \in Seq(Byte) /\ Len(Data(k)) = k
<1>1. Fill \in Byte
  BY BytesAssumption DEF Byte
<1>2. Data(k) \in [1 .. k -> Byte]
  BY <1>1 DEF Data
<1> QED BY <1>2

(* The output for a destination: its value, and its script with a length.  *)
LEMMA OutputBytes ==
  ASSUME NEW to \in DOMAIN ScriptLength, NEW low \in Byte
  PROVE  /\ EncodeOutput(Output(to, low)) \in Seq(Byte)
         /\ Len(EncodeOutput(Output(to, low))) = OutputSize[to]
<1> DEFINE value == <<low, 0, 0, 0, 0, 0, 0, 0>>
           script == Data(ScriptLength[to])
<1>1. value \in Seq(Byte) /\ Len(value) = 8
  <2>1. 0 \in Byte
    BY DEF Byte
  <2> QED BY <2>1
<1>2. ScriptLength[to] \in Nat /\ ScriptLength[to] < 253 /\ OutputSize[to] = 9 + ScriptLength[to]
  BY DEF ScriptLength, OutputSize
<1>3. script \in Seq(Byte) /\ Len(script) = ScriptLength[to]
  BY <1>2, DataBytes
<1>4. EncodeVar(script) \in Seq(Byte) /\ Len(EncodeVar(script)) = 1 + ScriptLength[to]
  BY <1>2, <1>3, VarBytes
<1>5. EncodeOutput(Output(to, low)) = value \o EncodeVar(script)
  BY DEF EncodeOutput, Output
<1> HIDE DEF value, script
<1>6. /\ value \o EncodeVar(script) \in Seq(Byte)
      /\ Len(value \o EncodeVar(script)) = Len(value) + Len(EncodeVar(script))
  BY <1>1, <1>4, ConcatProperties
<1>7. Len(value) + Len(EncodeVar(script)) = OutputSize[to]
  BY <1>1, <1>2, <1>4
<1> QED BY <1>5, <1>6, <1>7

(* Two sequences one after the other.                                      *)
LEMMA Joint ==
  ASSUME NEW V, NEW x \in Seq(V), NEW y \in Seq(V)
  PROVE  x \o y \in Seq(V) /\ Len(x \o y) = Len(x) + Len(y) /\ Len(x) \in Nat /\ Len(y) \in Nat
  BY ConcatProperties, LenProperties

LEMMA PairBytes ==
  ASSUME NEW a \in Seq(Byte), NEW b \in Seq(Byte), Len(a) < 253, Len(b) < 253
  PROVE  /\ Each(EncodeVar, <<a, b>>) \in Seq(Byte)
         /\ Len(Each(EncodeVar, <<a, b>>)) = 2 + Len(a) + Len(b)
<1> DEFINE seqs == [k \in 1 .. 2 |-> EncodeVar(<<a, b>>[k])]
           g == [k \in 0 .. 2 |->
                   IF k = 0 THEN 0 ELSE IF k = 1 THEN 1 + Len(a) ELSE 2 + Len(a) + Len(b)]
<1>1. /\ EncodeVar(a) \in Seq(Byte) /\ Len(EncodeVar(a)) = 1 + Len(a)
      /\ EncodeVar(b) \in Seq(Byte) /\ Len(EncodeVar(b)) = 1 + Len(b)
  BY VarBytes
<1>2. Len(a) \in Nat /\ Len(b) \in Nat
  BY LenProperties
<1>3. seqs \in [1 .. 2 -> Seq(Byte)] /\ seqs[1] = EncodeVar(a) /\ seqs[2] = EncodeVar(b)
  <2>1. \A k \in 1 .. 2 : EncodeVar(<<a, b>>[k]) \in Seq(Byte)
    <3> TAKE k \in 1 .. 2
    <3>1. k = 1 \/ k = 2
      OBVIOUS
    <3>2. <<a, b>>[1] = a /\ <<a, b>>[2] = b
      OBVIOUS
    <3>3. CASE k = 1
      BY <1>1, <3>2, <3>3
    <3>4. CASE k = 2
      BY <1>1, <3>2, <3>4
    <3> QED BY <3>1, <3>3, <3>4
  <2>2. <<a, b>>[1] = a /\ <<a, b>>[2] = b
    OBVIOUS
  <2> QED BY <2>1, <2>2
<1>4. Each(EncodeVar, <<a, b>>) = Concat(seqs)
  <2>1. Len(<<a, b>>) = 2
    OBVIOUS
  <2> QED BY <2>1 DEF Each
<1> HIDE DEF seqs
<1>5. Lengths(g, seqs, 2, Byte)
  <2>1. g[0] = 0 /\ g[1] = 1 + Len(a) /\ g[2] = 2 + Len(a) + Len(b)
    OBVIOUS
  <2> HIDE DEF g
  <2>2. \A k \in 1 .. 2 : g[k] = g[k - 1] + Len(seqs[k])
    <3> TAKE k \in 1 .. 2
    <3>1. k = 1 \/ k = 2
      OBVIOUS
    <3> QED BY <1>1, <1>2, <1>3, <2>1, <3>1
  <2> QED BY <1>3, <2>1, <2>2 DEF Lengths
<1>6. g[2] = 2 + Len(a) + Len(b)
  OBVIOUS
<1> HIDE DEF g
<1>7. Concat(seqs) \in Seq(Byte) /\ Len(Concat(seqs)) = g[2]
  BY <1>5, ConcatLength
<1> QED BY <1>4, <1>6, <1>7

(* One signed input, its signature of length l, and its witness.           *)
InputSized(kind, in, l) ==
  /\ EncodeInput(in) \in Seq(Byte) /\ l \in 71 .. 73
  /\ kind = "p2wpkh" => /\ Len(EncodeInput(in)) = 41 /\ in.witness # <<>>
                        /\ EncodeStack(in) \in Seq(Byte) /\ Len(EncodeStack(in)) = 36 + l
  /\ kind # "p2wpkh" => /\ Len(EncodeInput(in)) = InputSize[kind] - 73 + l
                        /\ in.witness = <<>>

LEMMA SignedInputBytes ==
  ASSUME NEW kind \in {"p2pkh", "p2wpkh", "uncompressed"}, NEW i \in 1 .. 255, NEW saved \in Nat
  PROVE  InputSized(kind, SignedInput(kind, i, saved), SignatureLength(i, saved))
<1> DEFINE in == SignedInput(kind, i, saved)
           l == SignatureLength(i, saved)
           k == PublicKeyLength(kind)
           a == Data(l)
           b == Data(k)
           outpoint == <<i>> \o Data(35)
           sequence == <<253, 255, 255, 255>>
           both == Each(EncodeVar, <<a, b>>)
<1>1. l \in 71 .. 73 /\ l \in Nat /\ l < 253
  BY DEF SignatureLength
<1>2. k = (IF kind = "uncompressed" THEN 65 ELSE 33) /\ k \in Nat /\ k < 253
  BY DEF PublicKeyLength
<1> HIDE DEF l, k
<1>3. a \in Seq(Byte) /\ Len(a) = l /\ b \in Seq(Byte) /\ Len(b) = k
  BY <1>1, <1>2, DataBytes
<1>4. outpoint \in Seq(Byte) /\ Len(outpoint) = 36
  <2> DEFINE x == <<i>>
             y == Data(35)
  <2>1. x \in Seq(Byte) /\ Len(x) = 1
    BY DEF Byte
  <2>2. y \in Seq(Byte) /\ Len(y) = 35
    BY DataBytes
  <2> HIDE DEF x, y
  <2>3. x \o y \in Seq(Byte) /\ Len(x \o y) = Len(x) + Len(y)
    BY <2>1, <2>2, Joint
  <2>4. Len(x) + Len(y) = 36
    BY <2>1, <2>2
  <2> QED BY <2>3, <2>4, Zenon DEF x, y
<1>5. sequence \in Seq(Byte) /\ Len(sequence) = 4
  <2>1. 253 \in Byte /\ 255 \in Byte
    BY DEF Byte
  <2> QED BY <2>1
<1>6. in = [outpoint |-> outpoint, sequence |-> sequence,
            script |-> IF kind = "p2wpkh" THEN <<>> ELSE both,
            witness |-> IF kind = "p2wpkh" THEN <<a, b>> ELSE <<>>]
  BY DEF SignedInput, l, k
<1> HIDE DEF a, b
<1>7. both \in Seq(Byte) /\ Len(both) = 2 + l + k
  <2>1. both \in Seq(Byte) /\ Len(both) = 2 + Len(a) + Len(b)
    <3>1. Len(a) < 253 /\ Len(b) < 253
      BY <1>1, <1>2, <1>3
    <3> QED BY <1>1, <1>2, <1>3, <3>1, PairBytes
  <2> HIDE DEF both, in
  <2> QED BY <1>1, <1>2, <1>3, <2>1
<1> HIDE DEF outpoint, sequence, both, in
<1>8. CASE kind = "p2wpkh"
  <2>1. /\ in.script = <<>> /\ in.witness = <<a, b>>
        /\ in.outpoint = outpoint /\ in.sequence = sequence
    BY <1>6, <1>8
  <2> DEFINE e == EncodeVar(<<>>)
  <2>2. e \in Seq(Byte) /\ Len(e) = 1
    <3>1. <<>> \in Seq(Byte) /\ Len(<<>>) = 0 /\ Len(<<>>) < 253
      OBVIOUS
    <3>2. EncodeVar(<<>>) \in Seq(Byte) /\ Len(EncodeVar(<<>>)) = 1 + Len(<<>>)
      BY <3>1, VarBytes
    <3> QED BY <3>1, <3>2
  <2>3. EncodeInput(in) = (outpoint \o e) \o sequence
    BY <2>1 DEF EncodeInput
  <2> HIDE DEF e
  <2>4. outpoint \o e \in Seq(Byte) /\ Len(outpoint \o e) = Len(outpoint) + Len(e)
    BY <1>4, <2>2, Joint
  <2>c. /\ EncodeInput(in) \in Seq(Byte)
        /\ Len(EncodeInput(in)) = (Len(outpoint) + Len(e)) + Len(sequence)
    <3>1. /\ (outpoint \o e) \o sequence \in Seq(Byte)
          /\ Len((outpoint \o e) \o sequence) = Len(outpoint \o e) + Len(sequence)
      BY <1>5, <2>4, Joint
    <3> QED BY <2>3, <2>4, <3>1, Zenon
  <2>a. EncodeInput(in) \in Seq(Byte) /\ Len(EncodeInput(in)) = (36 + 1) + 4
    BY <1>4, <1>5, <2>2, <2>c, Zenon
  <2>b. (36 + 1) + 4 = 41
    OBVIOUS
  <2>5. EncodeInput(in) \in Seq(Byte) /\ Len(EncodeInput(in)) = 41
    BY <2>a, <2>b, Zenon
  <2>6. EncodeStack(in) = EncodeSize(2) \o both
    <3>1. Len(<<a, b>>) = 2
      OBVIOUS
    <3> QED BY <2>1, <3>1 DEF EncodeStack, both
  <2>7. EncodeSize(2) \in Seq(Byte) /\ Len(EncodeSize(2)) = 1
    BY SizeBytes DEF CompactSize
  <2>8. EncodeStack(in) \in Seq(Byte) /\ Len(EncodeStack(in)) = 1 + (2 + l + k)
    BY <1>7, <2>6, <2>7, Joint
  <2>9. Len(EncodeStack(in)) = 36 + l
    BY <1>1, <1>2, <1>8, <2>8
  <2>10. in.witness # <<>>
    BY <2>1
  <2> QED BY <1>1, <1>8, <2>5, <2>8, <2>9, <2>10 DEF in, l, InputSized
<1>9. CASE kind # "p2wpkh"
  <2>1. in.script = both /\ in.witness = <<>> /\ in.outpoint = outpoint /\ in.sequence = sequence
    BY <1>6, <1>9
  <2>2. EncodeVar(both) \in Seq(Byte) /\ Len(EncodeVar(both)) = 1 + (2 + l + k)
    BY <1>1, <1>2, <1>7, VarBytes
  <2>3. EncodeInput(in) = (outpoint \o EncodeVar(both)) \o sequence
    BY <2>1 DEF EncodeInput
  <2>4. /\ outpoint \o EncodeVar(both) \in Seq(Byte)
        /\ Len(outpoint \o EncodeVar(both)) = 36 + (1 + (2 + l + k))
    BY <1>4, <2>2, Joint
  <2>5. EncodeInput(in) \in Seq(Byte) /\ Len(EncodeInput(in)) = (36 + (1 + (2 + l + k))) + 4
    <3>1. /\ EncodeInput(in) \in Seq(Byte)
          /\ Len(EncodeInput(in)) = Len(outpoint \o EncodeVar(both)) + Len(sequence)
      BY <1>5, <2>3, <2>4, Joint
    <3> QED BY <1>5, <2>4, <3>1
  <2>6. Len(EncodeInput(in)) = InputSize[kind] - 73 + l
    BY <1>1, <1>2, <1>9, <2>5 DEF InputSize
  <2> QED BY <1>1, <1>9, <2>1, <2>5, <2>6 DEF in, l, InputSized
<1> QED BY <1>8, <1>9

(* The parts of a transaction put together, without witnesses and with them.*)
PlainJoin(v, a, b, c, e, l) == ((((((v \o <<>>) \o a) \o b) \o c) \o e) \o <<>>) \o l
WitnessJoin(v, m, a, b, c, e, s, l) == ((((((v \o m) \o a) \o b) \o c) \o e) \o s) \o l

PlainBytes(v, a, b, c, e, l) ==
  /\ v \in Seq(Byte) /\ a \in Seq(Byte) /\ b \in Seq(Byte)
  /\ c \in Seq(Byte) /\ e \in Seq(Byte) /\ l \in Seq(Byte)

LEMMA PlainParts ==
  ASSUME NEW v, NEW a, NEW b, NEW c, NEW e, NEW l, PlainBytes(v, a, b, c, e, l)
  PROVE  /\ PlainJoin(v, a, b, c, e, l) \in Seq(Byte)
         /\ Len(PlainJoin(v, a, b, c, e, l)) = Len(v) + Len(a) + Len(b) + Len(c) + Len(e) + Len(l)
<1> DEFINE x1 == v \o a
           x2 == x1 \o b
           x3 == x2 \o c
           x4 == x3 \o e
           x5 == x4 \o l
<1>0. /\ v \in Seq(Byte) /\ a \in Seq(Byte) /\ b \in Seq(Byte)
      /\ c \in Seq(Byte) /\ e \in Seq(Byte) /\ l \in Seq(Byte)
  BY DEF PlainBytes
<1>1. v \o <<>> = v
  BY <1>0, ConcatEmptySeq
<1>2. x1 \in Seq(Byte) /\ Len(x1) = Len(v) + Len(a)
  BY <1>0, Joint
<1> HIDE DEF x1
<1>3. x2 \in Seq(Byte) /\ Len(x2) = Len(x1) + Len(b)
  BY <1>0, <1>2, Joint
<1> HIDE DEF x2
<1>4. x3 \in Seq(Byte) /\ Len(x3) = Len(x2) + Len(c)
  BY <1>0, <1>3, Joint
<1> HIDE DEF x3
<1>5. x4 \in Seq(Byte) /\ Len(x4) = Len(x3) + Len(e)
  BY <1>0, <1>4, Joint
<1> HIDE DEF x4
<1>6. x4 \o <<>> = x4
  BY <1>5, ConcatEmptySeq
<1>7. x5 \in Seq(Byte) /\ Len(x5) = Len(x4) + Len(l)
  BY <1>0, <1>5, Joint
<1> HIDE DEF x5
<1>8. PlainJoin(v, a, b, c, e, l) = x5
  BY <1>1, <1>6, Zenon DEF PlainJoin, x1, x2, x3, x4, x5
<1>9. Len(x5) = Len(v) + Len(a) + Len(b) + Len(c) + Len(e) + Len(l)
  BY <1>2, <1>3, <1>4, <1>5, <1>7, Zenon
<1> QED BY <1>7, <1>8, <1>9, Zenon

AllBytes(v, m, a, b, c, e, s, l) ==
  /\ v \in Seq(Byte) /\ m \in Seq(Byte) /\ a \in Seq(Byte) /\ b \in Seq(Byte)
  /\ c \in Seq(Byte) /\ e \in Seq(Byte) /\ s \in Seq(Byte) /\ l \in Seq(Byte)

LEMMA WitnessParts ==
  ASSUME NEW v, NEW m, NEW a, NEW b, NEW c, NEW e, NEW s, NEW l, AllBytes(v, m, a, b, c, e, s, l)
  PROVE  /\ WitnessJoin(v, m, a, b, c, e, s, l) \in Seq(Byte)
         /\ Len(WitnessJoin(v, m, a, b, c, e, s, l)) =
              Len(v) + Len(m) + Len(a) + Len(b) + Len(c) + Len(e) + Len(s) + Len(l)
<1> DEFINE x0 == v \o m
           x1 == x0 \o a
           x2 == x1 \o b
           x3 == x2 \o c
           x4 == x3 \o e
           x5 == x4 \o s
           x6 == x5 \o l
<1>0. /\ v \in Seq(Byte) /\ m \in Seq(Byte) /\ a \in Seq(Byte) /\ b \in Seq(Byte)
      /\ c \in Seq(Byte) /\ e \in Seq(Byte) /\ s \in Seq(Byte) /\ l \in Seq(Byte)
  BY DEF AllBytes
<1>1. x0 \in Seq(Byte) /\ Len(x0) = Len(v) + Len(m)
  BY <1>0, Joint
<1> HIDE DEF x0
<1>2. x1 \in Seq(Byte) /\ Len(x1) = Len(x0) + Len(a)
  BY <1>0, <1>1, Joint
<1> HIDE DEF x1
<1>3. x2 \in Seq(Byte) /\ Len(x2) = Len(x1) + Len(b)
  BY <1>0, <1>2, Joint
<1> HIDE DEF x2
<1>4. x3 \in Seq(Byte) /\ Len(x3) = Len(x2) + Len(c)
  BY <1>0, <1>3, Joint
<1> HIDE DEF x3
<1>5. x4 \in Seq(Byte) /\ Len(x4) = Len(x3) + Len(e)
  BY <1>0, <1>4, Joint
<1> HIDE DEF x4
<1>6. x5 \in Seq(Byte) /\ Len(x5) = Len(x4) + Len(s)
  BY <1>0, <1>5, Joint
<1> HIDE DEF x5
<1>7. x6 \in Seq(Byte) /\ Len(x6) = Len(x5) + Len(l)
  BY <1>0, <1>6, Joint
<1> HIDE DEF x6
<1>8. WitnessJoin(v, m, a, b, c, e, s, l) = x6
  BY Zenon DEF WitnessJoin, x0, x1, x2, x3, x4, x5, x6
<1>9. Len(x6) = Len(v) + Len(m) + Len(a) + Len(b) + Len(c) + Len(e) + Len(s) + Len(l)
  BY <1>1, <1>2, <1>3, <1>4, <1>5, <1>6, <1>7, Zenon
<1> QED BY <1>7, <1>8, <1>9, Zenon

(* A transaction of bytes, by the lengths of its inputs, outputs and       *)
(* witnesses.                                                              *)
Written(tx, gi, go, gs) ==
  /\ tx.version \in Seq(Byte) /\ Len(tx.version) = 4
  /\ tx.locktime \in Seq(Byte) /\ Len(tx.locktime) = 4
  /\ Len(tx.inputs) \in Nat /\ Len(tx.inputs) < 65536
  /\ Len(tx.outputs) \in Nat /\ Len(tx.outputs) < 65536
  /\ Lengths(gi, [k \in 1 .. Len(tx.inputs) |-> EncodeInput(tx.inputs[k])],
             Len(tx.inputs), Byte)
  /\ Lengths(go, [k \in 1 .. Len(tx.outputs) |-> EncodeOutput(tx.outputs[k])],
             Len(tx.outputs), Byte)
  /\ HasWitness(tx) =>
       Lengths(gs, [k \in 1 .. Len(tx.inputs) |-> EncodeStack(tx.inputs[k])],
               Len(tx.inputs), Byte)

PlainLength(tx, gi, go) ==
  4 + CompactSize(Len(tx.inputs)) + gi[Len(tx.inputs)]
    + CompactSize(Len(tx.outputs)) + go[Len(tx.outputs)] + 4

LEMMA WrittenLength ==
  ASSUME NEW tx, NEW gi, NEW go, NEW gs, Written(tx, gi, go, gs)
  PROVE  /\ EncodeWith(tx, FALSE) \in Seq(Byte)
         /\ Len(EncodeWith(tx, FALSE)) = PlainLength(tx, gi, go)
         /\ HasWitness(tx) =>
              /\ EncodeWith(tx, TRUE) \in Seq(Byte)
              /\ Len(EncodeWith(tx, TRUE)) = PlainLength(tx, gi, go) + 2 + gs[Len(tx.inputs)]
         /\ gi[Len(tx.inputs)] \in Nat /\ go[Len(tx.outputs)] \in Nat
         /\ HasWitness(tx) => gs[Len(tx.inputs)] \in Nat
<1> DEFINE v == tx.version
           l == tx.locktime
           a == EncodeSize(Len(tx.inputs))
           b == Each(EncodeInput, tx.inputs)
           c == EncodeSize(Len(tx.outputs))
           e == Each(EncodeOutput, tx.outputs)
           s == Each(EncodeStack, tx.inputs)
           ni == Len(tx.inputs)
           no == Len(tx.outputs)
<1>1. v \in Seq(Byte) /\ Len(v) = 4 /\ l \in Seq(Byte) /\ Len(l) = 4
  BY DEF Written
<1>2. ni \in Nat /\ ni < 65536 /\ no \in Nat /\ no < 65536
  BY DEF Written
<1>3. a \in Seq(Byte) /\ Len(a) = CompactSize(ni) /\ c \in Seq(Byte) /\ Len(c) = CompactSize(no)
  BY <1>2, SizeBytes
<1>4. b \in Seq(Byte) /\ Len(b) = gi[ni]
  <2>1. Lengths(gi, [k \in 1 .. ni |-> EncodeInput(tx.inputs[k])], ni, Byte)
    BY DEF Written
  <2>2. b = Concat([k \in 1 .. ni |-> EncodeInput(tx.inputs[k])])
    BY DEF Each
  <2> HIDE DEF b, ni
  <2> QED BY <1>2, <2>1, <2>2, ConcatLength
<1>5. e \in Seq(Byte) /\ Len(e) = go[no]
  <2>1. Lengths(go, [k \in 1 .. no |-> EncodeOutput(tx.outputs[k])], no, Byte)
    BY DEF Written
  <2>2. e = Concat([k \in 1 .. no |-> EncodeOutput(tx.outputs[k])])
    BY DEF Each
  <2> HIDE DEF e, no
  <2> QED BY <1>2, <2>1, <2>2, ConcatLength
<1>6. HasWitness(tx) => s \in Seq(Byte) /\ Len(s) = gs[ni]
  <2>1. HasWitness(tx) => Lengths(gs, [k \in 1 .. ni |-> EncodeStack(tx.inputs[k])], ni, Byte)
    BY DEF Written
  <2>2. s = Concat([k \in 1 .. ni |-> EncodeStack(tx.inputs[k])])
    BY DEF Each
  <2> HIDE DEF s, ni
  <2> QED BY <1>2, <2>1, <2>2, ConcatLength
<1>7. EncodeWith(tx, FALSE) = PlainJoin(v, a, b, c, e, l)
  BY DEF EncodeWith, PlainJoin
<1>8. EncodeWith(tx, TRUE) = WitnessJoin(v, <<0, 1>>, a, b, c, e, s, l)
  BY DEF EncodeWith, WitnessJoin
<1> HIDE DEF v, l, a, b, c, e, s, ni, no
<1>9. /\ EncodeWith(tx, FALSE) \in Seq(Byte)
      /\ Len(EncodeWith(tx, FALSE)) = Len(v) + Len(a) + Len(b) + Len(c) + Len(e) + Len(l)
  <2>1. PlainBytes(v, a, b, c, e, l)
    BY <1>1, <1>3, <1>4, <1>5 DEF PlainBytes
  <2>2. /\ PlainJoin(v, a, b, c, e, l) \in Seq(Byte)
        /\ Len(PlainJoin(v, a, b, c, e, l)) = Len(v) + Len(a) + Len(b) + Len(c) + Len(e) + Len(l)
    BY <2>1, PlainParts
  <2> QED BY <1>7, <2>2, Zenon
<1>10. Len(EncodeWith(tx, FALSE)) = PlainLength(tx, gi, go)
  BY <1>1, <1>3, <1>4, <1>5, <1>9, Zenon DEF PlainLength, ni, no
<1>11. gi[ni] \in Nat /\ go[no] \in Nat /\ (HasWitness(tx) => gs[ni] \in Nat)
  BY <1>4, <1>5, <1>6, LenProperties
<1>12. ASSUME HasWitness(tx)
       PROVE  /\ EncodeWith(tx, TRUE) \in Seq(Byte)
              /\ Len(EncodeWith(tx, TRUE)) = PlainLength(tx, gi, go) + 2 + gs[ni]
  <2> DEFINE m == <<0, 1>>
  <2>1. m \in Seq(Byte) /\ Len(m) = 2
    <3>1. 0 \in Byte /\ 1 \in Byte
      BY DEF Byte
    <3> QED BY <3>1
  <2>2. EncodeWith(tx, TRUE) = WitnessJoin(v, m, a, b, c, e, s, l)
    BY <1>8
  <2> HIDE DEF m
  <2>3. /\ EncodeWith(tx, TRUE) \in Seq(Byte)
        /\ Len(EncodeWith(tx, TRUE)) =
             Len(v) + Len(m) + Len(a) + Len(b) + Len(c) + Len(e) + Len(s) + Len(l)
    <3>1. /\ v \in Seq(Byte) /\ m \in Seq(Byte) /\ a \in Seq(Byte) /\ b \in Seq(Byte)
          /\ c \in Seq(Byte) /\ e \in Seq(Byte) /\ s \in Seq(Byte) /\ l \in Seq(Byte)
      BY <1>1, <1>3, <1>4, <1>5, <1>6, <1>12, <2>1
    <3>2. AllBytes(v, m, a, b, c, e, s, l)
      BY <3>1 DEF AllBytes
    <3>3. /\ WitnessJoin(v, m, a, b, c, e, s, l) \in Seq(Byte)
          /\ Len(WitnessJoin(v, m, a, b, c, e, s, l)) =
               Len(v) + Len(m) + Len(a) + Len(b) + Len(c) + Len(e) + Len(s) + Len(l)
      BY <3>2, WitnessParts
    <3> QED BY <2>2, <3>3, Zenon
  <2>4. Len(EncodeWith(tx, TRUE)) =
          4 + 2 + CompactSize(ni) + gi[ni] + CompactSize(no) + go[no] + gs[ni] + 4
    BY <1>1, <1>3, <1>4, <1>5, <1>6, <1>12, <2>1, <2>3, Zenon
  <2>5. CompactSize(ni) \in Nat /\ CompactSize(no) \in Nat
    BY DEF CompactSize
  <2>6. 4 + 2 + CompactSize(ni) + gi[ni] + CompactSize(no) + go[no] + gs[ni] + 4
          = (4 + CompactSize(ni) + gi[ni] + CompactSize(no) + go[no] + 4) + 2 + gs[ni]
    BY <1>11, <1>12, <2>5
  <2> QED BY <2>3, <2>4, <2>6 DEF PlainLength, ni, no
<1> QED BY <1>9, <1>10, <1>11, <1>12 DEF ni, no

-----------------------------------------------------------------------------
(* The lengths of the outputs for one or two scripts.                      *)
OutputLengths(outs) ==
  [k \in 0 .. Len(outs) |->
     IF k = 0 THEN 0 ELSE IF k = 1 THEN OutputSize[outs[1]]
     ELSE OutputSize[outs[1]] + OutputSize[outs[2]]]

Destinations(outs, low) ==
  outs \in Seq(DOMAIN ScriptLength) /\ Len(outs) \in 1 .. 2 /\ low \in Byte
ArePaid(outputs, outs, low) == outputs = [k \in 1 .. Len(outs) |-> Output(outs[k], low)]

LEMMA OutputsLength ==
  ASSUME NEW outs, NEW low, Destinations(outs, low), NEW outputs, ArePaid(outputs, outs, low)
  PROVE  /\ Len(outputs) = Len(outs)
         /\ Lengths(OutputLengths(outs), [k \in 1 .. Len(outputs) |-> EncodeOutput(outputs[k])],
                    Len(outputs), Byte)
<1> DEFINE g == OutputLengths(outs)
           seqs == [k \in 1 .. Len(outputs) |-> EncodeOutput(outputs[k])]
<1>a. /\ outs \in Seq(DOMAIN ScriptLength) /\ Len(outs) \in 1 .. 2 /\ low \in Byte
      /\ outputs = [k \in 1 .. Len(outs) |-> Output(outs[k], low)]
  BY DEF Destinations, ArePaid
<1>0. Len(outs) \in Nat
  BY <1>a, LenProperties
<1>1. Len(outputs) = Len(outs)
  BY <1>0, <1>a
<1>2. ASSUME NEW k \in 1 .. Len(outs)
      PROVE  /\ seqs[k] \in Seq(Byte) /\ Len(seqs[k]) = OutputSize[outs[k]]
             /\ OutputSize[outs[k]] \in Nat
  <2>1. outs[k] \in DOMAIN ScriptLength /\ low \in Byte
    BY <1>a, ElementOfSeq
  <2>2. seqs[k] = EncodeOutput(Output(outs[k], low))
    BY <1>1, <1>a
  <2>3. OutputSize[outs[k]] \in Nat
    BY <2>1 DEF ScriptLength, OutputSize
  <2> QED BY <2>1, <2>2, <2>3, OutputBytes
<1>3. seqs \in [1 .. Len(outs) -> Seq(Byte)]
  BY <1>1, <1>2
<1> HIDE DEF seqs
<1>4. ASSUME NEW k \in 1 .. Len(outs) PROVE g[k] = g[k - 1] + Len(seqs[k])
  <2>1. CASE k = 1
    <3>1. g[1] = OutputSize[outs[1]] /\ g[0] = 0 /\ 1 - 1 = 0
      BY <1>0, <2>1 DEF OutputLengths
    <3>2. Len(seqs[1]) = OutputSize[outs[1]] /\ OutputSize[outs[1]] \in Nat
      BY <1>2, <2>1
    <3> HIDE DEF g
    <3> QED BY <2>1, <3>1, <3>2
  <2>2. CASE k = 2
    <3>1. /\ g[2] = OutputSize[outs[1]] + OutputSize[outs[2]]
          /\ g[1] = OutputSize[outs[1]] /\ 2 - 1 = 1
      BY <1>0, <2>2 DEF OutputLengths
    <3>2. Len(seqs[2]) = OutputSize[outs[2]]
      BY <1>2, <2>2
    <3> HIDE DEF g
    <3> QED BY <2>2, <3>1, <3>2
  <2>3. k = 1 \/ k = 2
    BY <1>a
  <2> QED BY <2>1, <2>2, <2>3
<1>5. g[0] = 0
  BY <1>0 DEF OutputLengths
<1> HIDE DEF g
<1>6. Lengths(g, seqs, Len(outputs), Byte)
  BY <1>1, <1>3, <1>4, <1>5 DEF Lengths
<1> QED BY <1>1, <1>6 DEF g, seqs

LEMMA OutputLength ==
  ASSUME NEW outs \in Seq(DOMAIN ScriptLength)
  PROVE  /\ Len(outs) = 1 => OutputLengths(outs)[Len(outs)] = OutputSize[outs[1]]
         /\ Len(outs) = 2 =>
              OutputLengths(outs)[Len(outs)] = OutputSize[outs[1]] + OutputSize[outs[2]]
  BY DEF OutputLengths

(* What the signatures of the first k inputs save.                         *)
Saved(k, saved) == IF saved <= 2 * k THEN saved ELSE 2 * k

SignedInputLengths(kind, count, saved) ==
  [k \in 0 .. count |->
     IF kind = "p2wpkh" THEN 41 * k
     ELSE IF kind = "p2pkh" THEN 149 * k - Saved(k, saved)
     ELSE 181 * k - Saved(k, saved)]

StackLengths(count, saved) == [k \in 0 .. count |-> 109 * k - Saved(k, saved)]

LEMMA SignatureSaves ==
  ASSUME NEW k \in Nat \ {0}, NEW saved \in Nat
  PROVE  /\ SignatureLength(k, saved) = 73 - (Saved(k, saved) - Saved(k - 1, saved))
         /\ Saved(k, saved) \in Nat /\ Saved(k - 1, saved) \in Nat
  BY DEF SignatureLength, Saved

Witnessed(inputs, count) == \E k \in 1 .. count : inputs[k].witness # <<>>

(* Inputs of given lengths, as many witnesses when there are any.          *)
InputsSized(inputs, count, gi, gs) ==
  /\ Len(inputs) = count
  /\ Lengths(gi, [k \in 1 .. count |-> EncodeInput(inputs[k])], count, Byte)
  /\ Witnessed(inputs, count) =>
       Lengths(gs, [k \in 1 .. count |-> EncodeStack(inputs[k])], count, Byte)

AreSigned(inputs, kind, count, saved) ==
  inputs = [i \in 1 .. count |-> SignedInput(kind, i, saved)]

LEMMA SignedInputsLength ==
  ASSUME NEW kind \in {"p2pkh", "p2wpkh", "uncompressed"}, NEW count \in 0 .. 255,
         NEW saved \in Nat, NEW inputs, AreSigned(inputs, kind, count, saved)
  PROVE  /\ InputsSized(inputs, count, SignedInputLengths(kind, count, saved),
                        StackLengths(count, saved))
         /\ Witnessed(inputs, count) <=> kind = "p2wpkh" /\ count > 0
<1> DEFINE gi == SignedInputLengths(kind, count, saved)
           gs == StackLengths(count, saved)
           ins == [k \in 1 .. count |-> EncodeInput(inputs[k])]
           stacks == [k \in 1 .. count |-> EncodeStack(inputs[k])]
<1>a. inputs = [i \in 1 .. count |-> SignedInput(kind, i, saved)]
  BY DEF AreSigned
<1>0. Len(inputs) = count /\ count \in Nat
  BY <1>a
<1>1. ASSUME NEW k \in 1 .. count
      PROVE  /\ EncodeInput(inputs[k]) \in Seq(Byte)
             /\ kind = "p2wpkh" =>
                  /\ Len(EncodeInput(inputs[k])) = 41 /\ inputs[k].witness # <<>>
                  /\ EncodeStack(inputs[k]) \in Seq(Byte)
                  /\ Len(EncodeStack(inputs[k])) = 36 + SignatureLength(k, saved)
             /\ kind # "p2wpkh" =>
                  /\ Len(EncodeInput(inputs[k])) = InputSize[kind] - 73 + SignatureLength(k, saved)
                  /\ inputs[k].witness = <<>>
  <2>1. inputs[k] = SignedInput(kind, k, saved) /\ k \in 1 .. 255
    BY <1>a
  <2>2. InputSized(kind, inputs[k], SignatureLength(k, saved))
    BY <2>1, SignedInputBytes
  <2> QED BY <2>2 DEF InputSized
<1>2. ASSUME NEW k \in 1 .. count
      PROVE  /\ SignatureLength(k, saved) = 73 - (Saved(k, saved) - Saved(k - 1, saved))
             /\ Saved(k, saved) \in Nat /\ Saved(k - 1, saved) \in Nat
             /\ k - 1 \in 0 .. count /\ k \in 0 .. count
  <2>1. k \in Nat \ {0} /\ k - 1 \in 0 .. count /\ k \in 0 .. count
    OBVIOUS
  <2> QED BY <2>1, SignatureSaves
<1>3. /\ ins \in [1 .. count -> Seq(Byte)]
      /\ \A k \in 1 .. count : ins[k] = EncodeInput(inputs[k])
  BY <1>0, <1>1
<1>4. kind = "p2wpkh" =>
        /\ stacks \in [1 .. count -> Seq(Byte)]
        /\ \A k \in 1 .. count : stacks[k] = EncodeStack(inputs[k])
  BY <1>0, <1>1
<1> HIDE DEF ins, stacks
<1>5. gi[0] = 0 /\ gs[0] = 0
  <2>1. 0 \in 0 .. count /\ Saved(0, saved) = 0
    BY DEF Saved
  <2> QED BY <2>1 DEF SignedInputLengths, StackLengths
<1>6. ASSUME NEW k \in 1 .. count PROVE gi[k] = gi[k - 1] + Len(ins[k])
  <2>0. k \in 0 .. count /\ k - 1 \in 0 .. count
    BY <1>2
  <2>1. CASE kind = "p2wpkh"
    <3>1. gi[k] = 41 * k /\ gi[k - 1] = 41 * (k - 1)
      BY <2>0, <2>1 DEF SignedInputLengths
    <3>2. Len(ins[k]) = 41
      BY <1>1, <1>3, <2>1
    <3> HIDE DEF gi
    <3> QED BY <3>1, <3>2
  <2>2. CASE kind = "p2pkh"
    <3>1. gi[k] = 149 * k - Saved(k, saved) /\ gi[k - 1] = 149 * (k - 1) - Saved(k - 1, saved)
      BY <2>0, <2>2 DEF SignedInputLengths
    <3>2. Len(ins[k]) = 149 - 73 + SignatureLength(k, saved)
      BY <1>1, <1>3, <2>2 DEF InputSize
    <3> HIDE DEF gi
    <3> QED BY <1>2, <3>1, <3>2
  <2>3. CASE kind = "uncompressed"
    <3>1. gi[k] = 181 * k - Saved(k, saved) /\ gi[k - 1] = 181 * (k - 1) - Saved(k - 1, saved)
      BY <2>0, <2>3 DEF SignedInputLengths
    <3>2. Len(ins[k]) = 181 - 73 + SignatureLength(k, saved)
      BY <1>1, <1>3, <2>3 DEF InputSize
    <3> HIDE DEF gi
    <3> QED BY <1>2, <3>1, <3>2
  <2> QED BY <2>1, <2>2, <2>3
<1>7. ASSUME kind = "p2wpkh", NEW k \in 1 .. count PROVE gs[k] = gs[k - 1] + Len(stacks[k])
  <2>1. gs[k] = 109 * k - Saved(k, saved) /\ gs[k - 1] = 109 * (k - 1) - Saved(k - 1, saved)
    BY <1>2 DEF StackLengths
  <2>2. Len(stacks[k]) = 36 + SignatureLength(k, saved)
    BY <1>1, <1>4, <1>7
  <2> HIDE DEF gs
  <2> QED BY <1>2, <2>1, <2>2
<1> HIDE DEF gi, gs
<1>8. Lengths(gi, ins, count, Byte)
  BY <1>0, <1>3, <1>5, <1>6 DEF Lengths
<1>9. kind = "p2wpkh" => Lengths(gs, stacks, count, Byte)
  BY <1>0, <1>4, <1>5, <1>7 DEF Lengths
<1>10. Witnessed(inputs, count) <=> kind = "p2wpkh" /\ count > 0
  <2>1. CASE kind = "p2wpkh" /\ count > 0
    <3>1. 1 \in 1 .. count
      BY <1>0, <2>1
    <3> QED BY <1>0, <1>1, <2>1, <3>1 DEF Witnessed
  <2>2. CASE ~(kind = "p2wpkh" /\ count > 0)
    BY <1>0, <1>1, <2>2 DEF Witnessed
  <2> QED BY <2>1, <2>2
<1>11. InputsSized(inputs, count, gi, gs)
  BY <1>0, <1>8, <1>9, <1>10 DEF InputsSized, ins, stacks
<1> QED BY <1>10, <1>11 DEF gi, gs

-----------------------------------------------------------------------------
(* The signed transaction of a selection.                                  *)
SignedOutputs == IF change > 0 THEN <<req.to, ChangeKind>> ELSE <<req.to>>

(* A template or a signed transaction: versions, lock times and outputs.   *)
LEMMA TransactionWritten ==
  ASSUME NEW inputs, NEW outs, NEW low, Destinations(outs, low),
         NEW L \in 0 .. 255, NEW gi, NEW gs, InputsSized(inputs, L, gi, gs)
  PROVE  /\ Written(Transaction(inputs, outs, low), gi, OutputLengths(outs), gs)
         /\ Len(Transaction(inputs, outs, low).outputs) = Len(outs)
<1> DEFINE tx == Transaction(inputs, outs, low)
           outputs == [k \in 1 .. Len(outs) |-> Output(outs[k], low)]
<1>1. /\ tx.version = <<2, 0, 0, 0>> /\ tx.locktime = <<0, 0, 0, 0>>
      /\ tx.inputs = inputs /\ tx.outputs = outputs
  BY DEF Transaction
<1> HIDE DEF tx
<1>2. <<2, 0, 0, 0>> \in Seq(Byte) /\ <<0, 0, 0, 0>> \in Seq(Byte)
  <2>1. 2 \in Byte /\ 0 \in Byte
    BY DEF Byte
  <2> QED BY <2>1
<1>3. /\ tx.version \in Seq(Byte) /\ Len(tx.version) = 4
      /\ tx.locktime \in Seq(Byte) /\ Len(tx.locktime) = 4
  BY <1>1, <1>2
<1>4. Len(inputs) \in Nat /\ Len(inputs) < 65536
  <2>1. L \in Nat /\ L < 65536
    OBVIOUS
  <2>2. Len(inputs) = L
    BY DEF InputsSized
  <2> QED BY <2>1, <2>2
<1>a. ArePaid(outputs, outs, low)
  BY DEF ArePaid
<1> HIDE DEF outputs
<1>5. /\ Len(outputs) = Len(outs)
      /\ Lengths(OutputLengths(outs), [k \in 1 .. Len(outputs) |-> EncodeOutput(outputs[k])],
                 Len(outputs), Byte)
  BY <1>a, OutputsLength
<1>6. Len(outputs) \in Nat /\ Len(outputs) < 65536
  <2>1. PICK k \in 1 .. 2 : k = Len(outs)
    BY DEF Destinations
  <2>2. k \in Nat /\ k < 65536
    OBVIOUS
  <2> QED BY <1>5, <2>1, <2>2
<1>7. HasWitness(tx) =>
        Lengths(gs, [k \in 1 .. Len(inputs) |-> EncodeStack(inputs[k])], Len(inputs), Byte)
  BY <1>1 DEF HasWitness, InputsSized, Witnessed
<1>b. Lengths(gi, [k \in 1 .. Len(inputs) |-> EncodeInput(inputs[k])], Len(inputs), Byte)
  BY DEF InputsSized
<1>8. Written(tx, gi, OutputLengths(outs), gs)
  BY <1>1, <1>3, <1>4, <1>5, <1>6, <1>7, <1>b DEF Written
<1> QED BY <1>1, <1>5, <1>8 DEF tx

LEMMA SignedWritten ==
  ASSUME req \in Requests, Count \in 1 .. 255, change \in Int, NEW saved \in 0 .. 2 * Count
  PROVE  /\ Written(Signed(saved), SignedInputLengths(req.kind, Count, saved),
                    OutputLengths(SignedOutputs), StackLengths(Count, saved))
         /\ Len(Signed(saved).inputs) = Count
         /\ Len(Signed(saved).outputs) = Len(SignedOutputs)
         /\ HasWitness(Signed(saved)) <=> req.kind = "p2wpkh"
         /\ req.kind \in {"p2pkh", "p2wpkh", "uncompressed"}
         /\ SignedOutputs \in Seq(DOMAIN ScriptLength) /\ Len(SignedOutputs) \in 1 .. 2
<1> DEFINE inputs == [i \in 1 .. Count |-> SignedInput(req.kind, i, saved)]
           outs == SignedOutputs
<1>1. /\ req.kind \in {"p2pkh", "p2wpkh", "uncompressed"}
      /\ req.to \in DOMAIN ScriptLength /\ ChangeKind \in DOMAIN ScriptLength
  <2>1. /\ req.wallet \in {"hd", "single"}
        /\ req.kind \in Kinds[req.wallet] /\ req.to \in PaysTo[req.wallet]
    BY DEF Requests
  <2>2. req.kind \in {"p2pkh", "p2wpkh", "uncompressed"}
    BY <2>1 DEF Kinds
  <2>3. req.to \in {"p2pkh", "p2sh", "p2wpkh", "p2wsh", "p2tr"}
    BY <2>1 DEF PaysTo, Dust
  <2>4. ChangeKind \in {"p2pkh", "p2wpkh"}
    BY <2>2 DEF ChangeKind
  <2> QED BY <2>2, <2>3, <2>4 DEF ScriptLength
<1>2. outs \in Seq(DOMAIN ScriptLength) /\ Len(outs) \in 1 .. 2
  <2> HIDE DEF outs
  <2>1. outs = <<req.to, ChangeKind>> \/ outs = <<req.to>>
    BY DEF outs, SignedOutputs
  <2>2. CASE outs = <<req.to, ChangeKind>>
    BY <1>1, <2>2
  <2>3. CASE outs = <<req.to>>
    BY <1>1, <2>3
  <2> QED BY <2>1, <2>2, <2>3, Zenon
<1>3. Signed(saved) = Transaction(inputs, outs, Fill)
  BY DEF Signed, SignedOutputs
<1>4. AreSigned(inputs, req.kind, Count, saved) /\ saved \in Nat
      /\ Count \in 0 .. 255 /\ Count > 0
  BY DEF AreSigned
<1> HIDE DEF inputs, outs
<1>5. /\ InputsSized(inputs, Count, SignedInputLengths(req.kind, Count, saved),
                     StackLengths(Count, saved))
      /\ Witnessed(inputs, Count) <=> req.kind = "p2wpkh" /\ Count > 0
  <2>1. PICK kind \in {"p2pkh", "p2wpkh", "uncompressed"} : kind = req.kind
    BY <1>1
  <2>2. PICK count \in 0 .. 255 : count = Count
    BY <1>4
  <2>3. AreSigned(inputs, kind, count, saved) /\ saved \in Nat
    BY <1>4, <2>1, <2>2
  <2>4. /\ InputsSized(inputs, count, SignedInputLengths(kind, count, saved),
                      StackLengths(count, saved))
        /\ Witnessed(inputs, count) <=> kind = "p2wpkh" /\ count > 0
    BY <2>3, SignedInputsLength
  <2> QED BY <2>1, <2>2, <2>4
<1>6. Fill \in Byte
  BY BytesAssumption DEF Byte
<1>7. /\ Written(Transaction(inputs, outs, Fill), SignedInputLengths(req.kind, Count, saved),
                 OutputLengths(outs), StackLengths(Count, saved))
      /\ Len(Transaction(inputs, outs, Fill).outputs) = Len(outs)
  <2>1. PICK count \in 0 .. 255, low \in Byte : count = Count /\ low = Fill
    BY <1>4, <1>6
  <2>2. InputsSized(inputs, count, SignedInputLengths(req.kind, Count, saved),
                    StackLengths(Count, saved))
    BY <1>5, <2>1
  <2>3. Destinations(outs, low)
    BY <1>2 DEF Destinations
  <2>4. /\ Written(Transaction(inputs, outs, low), SignedInputLengths(req.kind, Count, saved),
                   OutputLengths(outs), StackLengths(Count, saved))
        /\ Len(Transaction(inputs, outs, low).outputs) = Len(outs)
    <3> DEFINE gi == SignedInputLengths(req.kind, Count, saved)
               gs == StackLengths(Count, saved)
    <3>1. InputsSized(inputs, count, gi, gs)
      BY <2>2
    <3> HIDE DEF gi, gs
    <3>2. Written(Transaction(inputs, outs, low), gi, OutputLengths(outs), gs)
      BY <2>3, <3>1, TransactionWritten
    <3>3. Len(Transaction(inputs, outs, low).outputs) = Len(outs)
      BY <2>3, <3>1, TransactionWritten
    <3> QED BY <3>2, <3>3 DEF gi, gs
  <2> QED BY <2>1, <2>4
<1>8. Transaction(inputs, outs, Fill).inputs = inputs
  BY DEF Transaction
<1>c. Len(inputs) = Count
  BY <1>5 DEF InputsSized
<1>9. HasWitness(Signed(saved)) <=> req.kind = "p2wpkh"
  <2>1. Signed(saved).inputs = inputs
    BY <1>3, <1>8
  <2>2. HasWitness(Signed(saved)) <=> Witnessed(inputs, Count)
    BY <1>c, <2>1, Zenon DEF HasWitness, Witnessed
  <2> QED BY <1>4, <1>5, <2>2, Zenon
<1> QED BY <1>1, <1>2, <1>3, <1>5, <1>7, <1>8, <1>9, <1>c, Zenon DEF outs

(* Its size is the estimate less what the signatures save.                 *)
LEMMA SignedSizeExact ==
  ASSUME req \in Requests, Count \in 1 .. 255, change \in Int, NEW saved \in 0 .. 2 * Count
  PROVE  VSizeOf(Signed(saved)) = SignedVSize(Count, change > 0, saved)
<1> DEFINE tx == Signed(saved)
           kind == req.kind
           outs == SignedOutputs
           gi == SignedInputLengths(kind, Count, saved)
           go == OutputLengths(outs)
           gs == StackLengths(Count, saved)
           P == PlainLength(tx, gi, go)
           B == BaseSize(Count, change > 0)
<1>1. /\ Written(tx, gi, go, gs) /\ Len(tx.inputs) = Count /\ Len(tx.outputs) = Len(outs)
      /\ HasWitness(tx) <=> kind = "p2wpkh"
      /\ kind \in {"p2pkh", "p2wpkh", "uncompressed"}
      /\ outs \in Seq(DOMAIN ScriptLength) /\ Len(outs) \in 1 .. 2
  BY SignedWritten
<1>2. /\ OutputSize[req.to] \in Nat /\ OutputSize[ChangeKind] \in Nat
  BY RequestFacts
<1>3. go[Len(outs)] = OutputSize[req.to] + (IF change > 0 THEN OutputSize[ChangeKind] ELSE 0)
  <2>1. CASE change > 0
    <3>1. Len(outs) = 2 /\ outs[1] = req.to /\ outs[2] = ChangeKind
      BY <2>1 DEF SignedOutputs
    <3> HIDE DEF outs
    <3>2. go[Len(outs)] = OutputSize[outs[1]] + OutputSize[outs[2]]
      BY <1>1, <3>1, OutputLength
    <3> QED BY <2>1, <3>1, <3>2
  <2>2. CASE ~(change > 0)
    <3>1. Len(outs) = 1 /\ outs[1] = req.to
      BY <2>2 DEF SignedOutputs
    <3> HIDE DEF outs
    <3>2. go[Len(outs)] = OutputSize[outs[1]]
      BY <1>1, <3>1, OutputLength
    <3> QED BY <1>2, <2>2, <3>1, <3>2
  <2> QED BY <2>1, <2>2
<1>4. CompactSize(Len(outs)) = 1
  <2>1. \A k \in 1 .. 2 : CompactSize(k) = 1
    BY DEF CompactSize
  <2> QED BY <1>1, <2>1
<1>5. CompactSize(Count) \in Nat /\ Count \in Nat /\ saved \in Nat /\ Count \in 0 .. Count
  BY DEF CompactSize
<1>6. Saved(Count, saved) = saved
  BY DEF Saved
<1>7. gi[Count] = IF kind = "p2wpkh" THEN 41 * Count
                  ELSE IF kind = "p2pkh" THEN 149 * Count - saved ELSE 181 * Count - saved
  BY <1>5, <1>6 DEF SignedInputLengths
<1>8. gs[Count] = 109 * Count - saved
  BY <1>5, <1>6 DEF StackLengths
<1>9. B = 8 + CompactSize(Count) + 1 + OutputSize[req.to]
            + (IF change > 0 THEN OutputSize[ChangeKind] ELSE 0) /\ B \in Int
  BY <1>2, <1>5 DEF BaseSize
<1> HIDE DEF tx, outs, gi, go, gs, B, kind
<1>10. /\ EncodeWith(tx, FALSE) \in Seq(Byte) /\ Len(EncodeWith(tx, FALSE)) = P
       /\ HasWitness(tx) => Len(EncodeWith(tx, TRUE)) = P + 2 + gs[Len(tx.inputs)]
  BY <1>1, WrittenLength
<1>11. P = B + gi[Count]
  <2>1. P = 4 + CompactSize(Count) + gi[Count] + 1 + go[Len(outs)] + 4
    BY <1>1, <1>4, Zenon DEF PlainLength
  <2> DEFINE c == CompactSize(Count)
             y == IF change > 0 THEN OutputSize[ChangeKind] ELSE 0
             x == OutputSize[req.to]
             g == gi[Count]
  <2>2. c \in Int /\ x \in Int /\ g \in Int /\ y \in Int
    BY <1>2, <1>5, <1>7
  <2>3. B = 8 + c + 1 + x + y /\ go[Len(outs)] = x + y
    BY <1>3, <1>9
  <2> HIDE DEF P, c, x, y, g
  <2>4. P = 4 + c + g + 1 + (x + y) + 4
    BY <2>1, <2>3, Zenon DEF c, g
  <2>5. 4 + c + g + 1 + (x + y) + 4 = (8 + c + 1 + x + y) + g
    BY <2>2
  <2> QED BY <2>3, <2>4, <2>5, Zenon DEF g
<1> HIDE DEF P
<1>12. CASE kind = "p2wpkh"
  <2>1. HasWitness(tx) /\ Encode(tx) = EncodeWith(tx, TRUE)
    BY <1>1, <1>12, EncodeCases
  <2>2. Len(Encode(tx)) = P + 2 + (109 * Count - saved)
    BY <1>1, <1>8, <1>10, <2>1, Zenon
  <2>3. P = B + 41 * Count
    BY <1>7, <1>11, <1>12
  <2>4. VSizeOf(tx) = (3 * P + (P + 2 + (109 * Count - saved)) + 3) \div 4
    BY <1>10, <2>2, Zenon DEF VSizeOf
  <2>5. SignedVSize(Count, change > 0, saved) =
          ((B + 41 * Count) * 4 + 2 + 109 * Count - saved + 3) \div 4
    BY <1>12 DEF SignedVSize, kind, B
  <2>6. 3 * P + (P + 2 + (109 * Count - saved)) + 3 =
          (B + 41 * Count) * 4 + 2 + 109 * Count - saved + 3
    BY <1>5, <1>9, <2>3
  <2> QED BY <2>4, <2>5, <2>6 DEF tx
<1>13. CASE kind # "p2wpkh"
  <2>1. Encode(tx) = EncodeWith(tx, FALSE)
    BY <1>1, <1>13, EncodeCases
  <2>2. VSizeOf(tx) = (3 * P + P + 3) \div 4
    BY <1>10, <2>1, Zenon DEF VSizeOf
  <2>3. P \in Int
    BY <1>5, <1>7, <1>9, <1>11
  <2>4. VSizeOf(tx) = P
    BY <2>2, <2>3
  <2>5. CASE kind = "p2pkh"
    <3>1. SignedVSize(Count, change > 0, saved) = B + 149 * Count - saved
      BY <1>13, <2>5 DEF SignedVSize, kind, B, InputSize
    <3>2. P = B + (149 * Count - saved)
      BY <1>7, <1>11, <2>5
    <3> QED BY <1>5, <1>9, <2>4, <3>1, <3>2 DEF tx
  <2>6. CASE kind = "uncompressed"
    <3>1. SignedVSize(Count, change > 0, saved) = B + 181 * Count - saved
      BY <1>13, <2>6 DEF SignedVSize, kind, B, InputSize
    <3>2. P = B + (181 * Count - saved)
      BY <1>7, <1>11, <2>6
    <3> QED BY <1>5, <1>9, <2>4, <3>1, <3>2 DEF tx
  <2> QED BY <1>1, <1>13, <2>5, <2>6
<1> QED BY <1>12, <1>13

-----------------------------------------------------------------------------
(***************************************************************************)
(* The payment and its bytes.                                              *)
(***************************************************************************)
(* While the payment is made: the selection, which has inputs when it is   *)
(* settled, and no more than their bounds allow.                           *)
SelectedInv ==
  /\ IInv /\ included \in 0 .. MaxIncluded
  /\ phase \in {"selected", "signed"} => Count > 0

BytesInv ==
  /\ raw \in Seq(Byte) /\ altered \in 0 .. 2
  /\ phase # "gone" => SelectedInv
  /\ phase = "gone" => Len(raw) + altered >= 10

LEMMA InitSelected == Init => SelectedInv /\ phase # "gone"
<1> SUFFICES ASSUME Init PROVE SelectedInv /\ phase # "gone"
  OBVIOUS
<1>1. IInv
  BY InitIInv
<1>2. included \in 0 .. MaxIncluded
  BY BytesAssumption DEF Init
<1>3. phase \in {"all", "adding"}
  BY DEF Init
<1> QED BY <1>1, <1>2, <1>3 DEF SelectedInv

LEMMA SelectedKept == SelectedInv /\ Next => SelectedInv' /\ phase # "gone" /\ phase' # "gone"
<1> SUFFICES ASSUME SelectedInv, Next PROVE SelectedInv' /\ phase # "gone" /\ phase' # "gone"
  OBVIOUS
<1>1. IInv'
  BY Inductive DEF SelectedInv
<1>2. included \in Nat /\ n \in Nat /\ Count = included + n /\ Count \in Nat
  <2>1. TypeInv
    BY DEF SelectedInv, IInv
  <2>2. included \in Nat /\ n \in 0 .. Len(coins)
    BY <2>1 DEF TypeInv
  <2> QED BY <2>2 DEF Count
<1>3. /\ phase \in {"adding", "all", "selected"}
      /\ phase' \in {phase, "dust", "insufficient", "overlimit", "selected", "signed", "failed"}
  BY DEF Next, RejectDust, Include, AddCoin, GiveUp, Accept, AcceptAll, RejectAll,
         SignEnough, Correct, CannotCorrect, Stop, WantsMore
<1>4. included' \in 0 .. MaxIncluded
  <2>1. CASE Include
    BY <1>2, <2>1, BytesAssumption DEF Include
  <2>2. CASE ~Include
    <3>1. included' = included
      BY <2>2 DEF Next, RejectDust, AddCoin, GiveUp, Accept, AcceptAll, RejectAll,
                  SignEnough, Correct, CannotCorrect, Stop
    <3> QED BY <3>1 DEF SelectedInv
  <2> QED BY <2>1, <2>2
<1>5. ASSUME phase' \in {"selected", "signed"} PROVE (Count > 0)'
  <2>1. CASE phase = "selected"
    <3>1. UNCHANGED <<included, n>>
      BY <2>1 DEF Next, RejectDust, Include, AddCoin, GiveUp, Accept, AcceptAll, RejectAll,
                  SignEnough, Correct, CannotCorrect, Stop, WantsMore
    <3> QED BY <2>1, <3>1 DEF SelectedInv, Count
  <2>2. CASE phase # "selected"
    <3>1. Accept \/ AcceptAll
      BY <1>5, <2>2 DEF Next, RejectDust, Include, AddCoin, GiveUp, RejectAll,
                        SignEnough, Correct, CannotCorrect, Stop, WantsMore
    <3>2. CASE Accept
      BY <3>2 DEF Accept, Feasible, Count
    <3>3. CASE AcceptAll
      BY <1>2, <3>3 DEF AcceptAll, Count
    <3> QED BY <3>1, <3>2, <3>3
  <2> QED BY <2>1, <2>2
<1>6. phase # "gone" /\ phase' # "gone"
  BY <1>3
<1> QED BY <1>1, <1>4, <1>5, <1>6 DEF SelectedInv

(* A selection has no more inputs than one byte tells apart.               *)
LEMMA FewInputs ==
  ASSUME SelectedInv, phase \in {"selected", "signed"}
  PROVE  req \in Requests /\ change \in Int /\ Count \in 1 .. 255
<1>1. /\ TypeInv /\ included \in 0 .. MaxIncluded /\ Count > 0
  BY DEF SelectedInv, IInv
<1>2. PICK m \in 0 .. MaxCoins : coins \in [1 .. m -> Values]
  BY <1>1 DEF TypeInv, BoundedSeq, SeqOf
<1>3. Len(coins) = m
  BY <1>2
<1>4. n \in 0 .. m
  BY <1>1, <1>3 DEF TypeInv
<1>5. Count \in 1 .. 255
  BY <1>1, <1>2, <1>4, BytesAssumption DEF Count
<1> QED BY <1>1, <1>5 DEF TypeInv

(* What is written are bytes, at least the counts between version and lock *)
(* time.                                                                   *)
LEMMA EncodeBytes ==
  ASSUME NEW tx, NEW gi, NEW go, NEW gs, Written(tx, gi, go, gs)
  PROVE  Encode(tx) \in Seq(Byte) /\ Len(Encode(tx)) >= 10
<1> DEFINE P == PlainLength(tx, gi, go)
<1>1. /\ EncodeWith(tx, FALSE) \in Seq(Byte) /\ Len(EncodeWith(tx, FALSE)) = P
      /\ HasWitness(tx) => /\ EncodeWith(tx, TRUE) \in Seq(Byte)
                           /\ Len(EncodeWith(tx, TRUE)) = P + 2 + gs[Len(tx.inputs)]
                           /\ gs[Len(tx.inputs)] \in Nat
      /\ gi[Len(tx.inputs)] \in Nat /\ go[Len(tx.outputs)] \in Nat
  BY WrittenLength
<1>2. P \in Nat /\ P >= 10
  <2> DEFINE a == CompactSize(Len(tx.inputs))
             b == gi[Len(tx.inputs)]
             c == CompactSize(Len(tx.outputs))
             e == go[Len(tx.outputs)]
  <2>1. a \in Nat /\ a >= 1 /\ c \in Nat /\ c >= 1
    BY DEF CompactSize
  <2>2. b \in Nat /\ e \in Nat
    BY <1>1
  <2>3. P = 4 + a + b + c + e + 4
    BY Zenon DEF PlainLength
  <2> HIDE DEF P, a, b, c, e
  <2> QED BY <2>1, <2>2, <2>3
<1> HIDE DEF P
<1>3. CASE HasWitness(tx)
  <2>1. Encode(tx) = EncodeWith(tx, TRUE)
    BY <1>3, EncodeCases
  <2>2. P + 2 + gs[Len(tx.inputs)] >= 10
    BY <1>1, <1>2, <1>3
  <2> QED BY <1>1, <1>3, <2>1, <2>2
<1>4. CASE ~HasWitness(tx)
  <2>1. Encode(tx) = EncodeWith(tx, FALSE)
    BY <1>4, EncodeCases
  <2> QED BY <1>1, <1>2, <2>1
<1> QED BY <1>3, <1>4

(* A template: one or two outputs of an HD wallet, and no inputs.          *)
IsTemplate(tx, outs, low, zero) ==
  /\ tx = Transaction(<<>>, outs, low) /\ Destinations(outs, low)
  /\ \A k \in 1 .. Len(outs) : OutputSize[outs[k]] <= 34
  /\ zero[0] = 0 /\ Written(tx, zero, OutputLengths(outs), zero)

LEMMA TemplateParts ==
  ASSUME NEW tx \in Templates PROVE \E outs, low, zero : IsTemplate(tx, outs, low, zero)
<1>1. PICK outs \in BoundedSeq(PaysTo["hd"], 2) \ {<<>>}, low \in LowBytes :
        tx = Transaction(<<>>, outs, low)
  BY DEF Templates
<1>2. PICK m \in 0 .. 2 : outs \in [1 .. m -> PaysTo["hd"]]
  BY <1>1 DEF BoundedSeq, SeqOf
<1>3. /\ outs \in Seq(DOMAIN ScriptLength) /\ Len(outs) \in 1 .. 2
      /\ \A k \in 1 .. Len(outs) : OutputSize[outs[k]] <= 34
  <2>1. m # 0
    <3>1. m = 0 => outs = <<>>
      BY <1>2
    <3> QED BY <3>1
  <2>2. \A k \in 1 .. m : outs[k] \in DOMAIN ScriptLength /\ OutputSize[outs[k]] <= 34
    BY <1>2 DEF PaysTo, ScriptLength, OutputSize
  <2>3. Len(outs) = m
    BY <1>2
  <2> QED BY <1>2, <2>1, <2>2, <2>3
<1>4. low \in Byte
  BY BytesAssumption DEF Byte
<1> DEFINE none == <<>>
           zero == [k \in 0 .. 0 |-> 0]
<1>5. InputsSized(none, 0, zero, zero) /\ zero[0] = 0
  <2>1. Len(none) = 0
    OBVIOUS
  <2>2. zero[0] = 0
    OBVIOUS
  <2>3. ~Witnessed(none, 0)
    BY DEF Witnessed
  <2> HIDE DEF zero
  <2>4. Lengths(zero, [k \in 1 .. 0 |-> EncodeInput(none[k])], 0, Byte)
    BY <2>2 DEF Lengths
  <2> QED BY <2>1, <2>2, <2>3, <2>4 DEF InputsSized
<1> HIDE DEF none, zero
<1>6. Destinations(outs, low)
  BY <1>3, <1>4 DEF Destinations
<1>7. Written(Transaction(none, outs, low), zero, OutputLengths(outs), zero)
  <2>1. 0 \in 0 .. 255
    OBVIOUS
  <2> QED BY <1>5, <1>6, <2>1, TransactionWritten
<1>8. IsTemplate(tx, outs, low, zero)
  BY <1>1, <1>3, <1>5, <1>6, <1>7 DEF IsTemplate, none
<1> QED BY <1>8

LEMMA TemplateBytes ==
  ASSUME NEW tx \in Templates PROVE Encode(tx) \in Seq(Byte) /\ Len(Encode(tx)) >= 10
<1>1. PICK outs, low, zero : IsTemplate(tx, outs, low, zero)
  BY TemplateParts
<1>2. Written(tx, zero, OutputLengths(outs), zero)
  BY <1>1 DEF IsTemplate
<1> QED BY <1>2, EncodeBytes

-----------------------------------------------------------------------------
(***************************************************************************)
(* From the payment to bytes, and the bytes altered.                       *)
(***************************************************************************)
LEMMA InitBytesKeeps == InitBytes => BytesInv
<1> SUFFICES ASSUME InitBytes PROVE BytesInv
  OBVIOUS
<1>1. altered = 0
  BY DEF InitBytes
<1>2. CASE Init /\ raw = <<>>
  <2>1. raw \in Seq(Byte)
    BY <1>2
  <2> QED BY <1>1, <1>2, <2>1, InitSelected DEF BytesInv
<1>3. CASE Idle /\ \E tx \in Templates : raw = Encode(tx)
  <2>1. raw \in Seq(Byte) /\ Len(raw) >= 10
    BY <1>3, TemplateBytes
  <2>2. phase = "gone"
    BY <1>3 DEF Idle
  <2> QED BY <1>1, <2>1, <2>2 DEF BytesInv
<1> QED BY <1>2, <1>3 DEF InitBytes

(* What leaves the process are the bytes of the signed transaction.        *)
LEMMA PublishKeeps == BytesInv /\ Publish => BytesInv'
<1> SUFFICES ASSUME BytesInv, Publish PROVE BytesInv'
  OBVIOUS
<1>1. phase = "signed" /\ phase' = "gone" /\ altered' = altered /\ altered \in 0 .. 2
  BY DEF Publish, Gone, BytesInv
<1>2. req \in Requests /\ change \in Int /\ Count \in 1 .. 255
  BY <1>1, FewInputs DEF BytesInv
<1>3. PICK saved \in 0 .. 2 * Count : raw' = Encode(Signed(saved))
  BY DEF Publish
<1>4. Encode(Signed(saved)) \in Seq(Byte) /\ Len(Encode(Signed(saved))) >= 10
  <2>1. Written(Signed(saved), SignedInputLengths(req.kind, Count, saved),
                OutputLengths(SignedOutputs), StackLengths(Count, saved))
    BY <1>2, SignedWritten
  <2> QED BY <2>1, EncodeBytes
<1> QED BY <1>1, <1>3, <1>4 DEF BytesInv

(* An alteration writes bytes, and does not cut more than it counts.       *)
Kept(bytes) == bytes \in Seq(Byte) /\ Len(bytes) + altered + 1 >= 10

LEMMA AlterKeeps ==
  ASSUME BytesInv, phase = "gone", altered < 2, NEW bytes, Kept(bytes), Alter(bytes)
  PROVE  BytesInv'
<1>1. raw' = bytes /\ altered' = altered + 1 /\ phase' = "gone"
  BY DEF Alter, vars
<1>2. altered \in 0 .. 2 /\ raw' \in Seq(Byte) /\ Len(raw') \in Nat
  BY <1>1 DEF BytesInv, Kept
<1>3. altered' \in 0 .. 2 /\ Len(raw') + altered' >= 10
  BY <1>1, <1>2 DEF Kept
<1> QED BY <1>1, <1>2, <1>3 DEF BytesInv

LEMMA NewByte == (\A b \in NewBytes : b \in Byte) /\ 0 \in Byte /\ 1 \in Byte /\ 253 \in Byte
<1>1. \A b \in NewBytes : b \in Byte
  BY BytesAssumption DEF Byte
<1>2. 0 \in Byte /\ 1 \in Byte /\ 253 \in Byte
  BY DEF Byte
<1> QED BY <1>1, <1>2

(* A part of a sequence, from a place in it to one that is not before it.  *)
LEMMA PartBytes ==
  ASSUME NEW s \in Seq(Byte), NEW i \in 1 .. Len(s) + 1, NEW j \in i - 1 .. Len(s)
  PROVE  SubSeq(s, i, j) \in Seq(Byte) /\ Len(SubSeq(s, i, j)) = j - i + 1
<1>1. PICK m \in Nat : Len(s) = m
  BY LenProperties
<1>2. i \in 1 .. m + 1 /\ j \in i - 1 .. m
  BY <1>1
<1>3. DOMAIN s = 1 .. m /\ \A k \in 1 .. m : s[k] \in Byte
  BY <1>1, LenProperties, ElementOfSeq
<1>4. \A k \in i .. j : s[k] \in Byte
  BY <1>2, <1>3
<1>5. SubSeq(s, i, j) \in Seq(Byte)
  BY <1>2, <1>4, SubSeqProperties
<1>6. Len(SubSeq(s, i, j)) = j - i + 1
  BY <1>2, <1>4, SubSeqProperties
<1> QED BY <1>5, <1>6

LEMMA OverwriteKept ==
  ASSUME BytesInv, phase = "gone", NEW i \in Structure, NEW b \in NewBytes
  PROVE  Kept(ReplaceAt(raw, i, b))
<1>1. raw \in Seq(Byte) /\ altered \in 0 .. 2 /\ Len(raw) + altered >= 10
  BY DEF BytesInv
<1>2. b \in Byte
  BY NewByte
<1>3. ReplaceAt(raw, i, b) \in Seq(Byte) /\ Len(ReplaceAt(raw, i, b)) = Len(raw)
  BY <1>1, <1>2, ExceptSeq DEF ReplaceAt, Structure
<1> QED BY <1>1, <1>3 DEF Kept

LEMMA WidenKept ==
  ASSUME BytesInv, phase = "gone", NEW i \in Structure
  PROVE  Kept(SubSeq(raw, 1, i - 1) \o <<253, raw[i], 0>> \o SubSeq(raw, i + 1, Len(raw)))
<1> DEFINE a == SubSeq(raw, 1, i - 1)
           c == SubSeq(raw, i + 1, Len(raw))
           w == <<253, raw[i], 0>>
<1>1. raw \in Seq(Byte) /\ altered \in 0 .. 2 /\ Len(raw) + altered >= 10
  BY DEF BytesInv
<1>2. PICK m \in Nat : Len(raw) = m
  BY <1>1, LenProperties
<1>3. i \in 1 .. m
  BY <1>2 DEF Structure
<1>4. raw[i] \in Byte
  BY <1>1, <1>2, <1>3, ElementOfSeq
<1>5. a \in Seq(Byte) /\ Len(a) = i - 1
  <2>1. 1 \in 1 .. m + 1 /\ i - 1 \in 1 - 1 .. m /\ (i - 1) - 1 + 1 = i - 1
    BY <1>3
  <2> QED BY <1>1, <1>2, <2>1, PartBytes
<1>6. c \in Seq(Byte) /\ Len(c) = m - i
  <2>1. i + 1 \in 1 .. m + 1 /\ m \in (i + 1) - 1 .. m /\ m - (i + 1) + 1 = m - i
    BY <1>3
  <2> QED BY <1>1, <1>2, <2>1, PartBytes
<1>7. w \in Seq(Byte) /\ Len(w) = 3
  BY <1>4, NewByte
<1> HIDE DEF a, c, w
<1>8. (a \o w) \o c \in Seq(Byte) /\ Len((a \o w) \o c) = Len(a) + Len(w) + Len(c)
  <2>1. a \o w \in Seq(Byte) /\ Len(a \o w) = Len(a) + Len(w)
    BY <1>5, <1>7, ConcatProperties
  <2>2. c \in Seq(Byte)
    BY <1>6
  <2>3. (a \o w) \o c \in Seq(Byte) /\ Len((a \o w) \o c) = Len(a \o w) + Len(c)
    BY <2>1, <2>2, ConcatProperties
  <2> QED BY <2>1, <2>3
<1>9. Len((a \o w) \o c) = m + 2
  <2>1. (i - 1) + 3 + (m - i) = m + 2
    BY <1>3
  <2> QED BY <1>5, <1>6, <1>7, <1>8, <2>1
<1>10. Kept((a \o w) \o c)
  BY <1>1, <1>2, <1>8, <1>9 DEF Kept
<1> QED BY <1>10 DEF a, c, w

LEMMA MarkKept ==
  ASSUME BytesInv, phase = "gone", altered = 0
  PROVE  Kept(SubSeq(raw, 1, 4) \o <<0, 1>> \o SubSeq(raw, 5, Len(raw) - 4)
                \o [i \in 1 .. raw[5] |-> 0] \o SubSeq(raw, Len(raw) - 3, Len(raw)))
<1> DEFINE a == SubSeq(raw, 1, 4)
           w == <<0, 1>>
           c == SubSeq(raw, 5, Len(raw) - 4)
           z == [i \in 1 .. raw[5] |-> 0]
           e == SubSeq(raw, Len(raw) - 3, Len(raw))
<1>1. raw \in Seq(Byte) /\ Len(raw) + altered >= 10
  BY DEF BytesInv
<1>2. PICK m \in Nat : Len(raw) = m
  BY <1>1, LenProperties
<1>3. m >= 10
  BY <1>1, <1>2
<1>4. raw[5] \in Nat
  <2>1. 5 \in 1 .. m
    BY <1>3
  <2>2. raw[5] \in Byte
    BY <1>1, <1>2, <2>1, ElementOfSeq
  <2> QED BY <2>2 DEF Byte
<1>5. a \in Seq(Byte) /\ Len(a) = 4
  <2>1. 1 \in 1 .. m + 1 /\ 4 \in 1 - 1 .. m /\ 4 - 1 + 1 = 4
    BY <1>3
  <2> QED BY <1>1, <1>2, <2>1, PartBytes
<1>6. c \in Seq(Byte) /\ Len(c) = m - 8
  <2>1. 5 \in 1 .. m + 1 /\ m - 4 \in 5 - 1 .. m /\ (m - 4) - 5 + 1 = m - 8
    BY <1>3
  <2> QED BY <1>1, <1>2, <2>1, PartBytes
<1>7. e \in Seq(Byte) /\ Len(e) = 4
  <2>1. m - 3 \in 1 .. m + 1 /\ m \in (m - 3) - 1 .. m /\ m - (m - 3) + 1 = 4
    BY <1>3
  <2> QED BY <1>1, <1>2, <2>1, PartBytes
<1>8. w \in Seq(Byte) /\ Len(w) = 2
  BY NewByte
<1>9. z \in Seq(Byte) /\ Len(z) = raw[5]
  <2>1. \A k \in 1 .. raw[5] : 0 \in Byte
    BY NewByte
  <2> QED BY <1>4, <2>1
<1> HIDE DEF a, w, c, z, e
<1>10. a \o w \in Seq(Byte) /\ Len(a \o w) = 4 + 2
  <2>1. a \in Seq(Byte) /\ w \in Seq(Byte)
    BY <1>5, <1>8
  <2>2. a \o w \in Seq(Byte) /\ Len(a \o w) = Len(a) + Len(w)
    BY <2>1, ConcatProperties
  <2> QED BY <1>5, <1>8, <2>2
<1>11. (a \o w) \o c \in Seq(Byte) /\ Len((a \o w) \o c) = (4 + 2) + (m - 8)
  BY <1>6, <1>10, ConcatProperties
<1>12. /\ ((a \o w) \o c) \o z \in Seq(Byte)
       /\ Len(((a \o w) \o c) \o z) = ((4 + 2) + (m - 8)) + raw[5]
  BY <1>9, <1>11, ConcatProperties
<1>13. /\ (((a \o w) \o c) \o z) \o e \in Seq(Byte)
       /\ Len((((a \o w) \o c) \o z) \o e) = (((4 + 2) + (m - 8)) + raw[5]) + 4
  <2> DEFINE f == ((a \o w) \o c) \o z
  <2>1. f \in Seq(Byte) /\ e \in Seq(Byte)
    BY <1>7, <1>12
  <2>2. Len(f) = ((4 + 2) + (m - 8)) + raw[5] /\ Len(e) = 4
    BY <1>7, <1>12
  <2> HIDE DEF f
  <2>3. f \o e \in Seq(Byte) /\ Len(f \o e) = Len(f) + Len(e)
    BY <2>1, ConcatProperties
  <2>4. f \o e \in Seq(Byte) /\ Len(f \o e) = (((4 + 2) + (m - 8)) + raw[5]) + 4
    BY <2>2, <2>3
  <2> QED BY <2>4 DEF f
<1>14. Kept((((a \o w) \o c) \o z) \o e)
  <2>1. (((4 + 2) + (m - 8)) + raw[5]) + 4 + 0 + 1 >= 10
    BY <1>3, <1>4
  <2> QED BY <1>13, <2>1 DEF Kept
<1> QED BY <1>14 DEF a, w, c, z, e

LEMMA ExtendKept ==
  ASSUME BytesInv, phase = "gone", NEW b \in NewBytes PROVE Kept(Append(raw, b))
<1>1. raw \in Seq(Byte) /\ altered \in 0 .. 2 /\ Len(raw) + altered >= 10
  BY DEF BytesInv
<1>2. b \in Byte
  BY NewByte
<1>3. Append(raw, b) \in Seq(Byte) /\ Len(Append(raw, b)) = Len(raw) + 1
  BY <1>1, <1>2, AppendProperties
<1> QED BY <1>1, <1>3 DEF Kept

LEMMA CutKept ==
  ASSUME BytesInv, phase = "gone", altered < 2 PROVE Kept(Front(raw))
<1>1. raw \in Seq(Byte) /\ altered \in 0 .. 2 /\ Len(raw) + altered >= 10
  BY DEF BytesInv
<1>2. PICK m \in Nat : Len(raw) = m
  BY <1>1, LenProperties
<1>3. m + altered >= 10 /\ m >= 8
  BY <1>1, <1>2
<1>4. SubSeq(raw, 1, m - 1) \in Seq(Byte) /\ Len(SubSeq(raw, 1, m - 1)) = m - 1
  <2>1. 1 \in 1 .. m + 1 /\ m - 1 \in 1 - 1 .. m /\ (m - 1) - 1 + 1 = m - 1
    BY <1>3
  <2> QED BY <1>1, <1>2, <2>1, PartBytes
<1>5. m - 1 + altered + 1 >= 10
  BY <1>1, <1>3
<1> QED BY <1>2, <1>4, <1>5 DEF Kept, Front

LEMMA BytesKept == BytesInv /\ [NextBytes]_allVars => BytesInv'
<1> SUFFICES ASSUME BytesInv, [NextBytes]_allVars PROVE BytesInv'
  OBVIOUS
<1>1. CASE Inside
  <2>1. phase # "gone" => SelectedInv
    BY DEF BytesInv
  <2>2. raw' = raw /\ altered' = altered /\ Next
    BY <1>1 DEF Inside
  <2>3. phase # "gone"
    BY <2>2 DEF Next, RejectDust, Include, AddCoin, GiveUp, Accept, AcceptAll, RejectAll,
                SignEnough, Correct, CannotCorrect, Stop, WantsMore
  <2>4. SelectedInv' /\ phase' # "gone"
    BY <2>1, <2>2, <2>3, SelectedKept
  <2> QED BY <2>2, <2>4 DEF BytesInv
<1>2. CASE Publish
  BY <1>2, PublishKeeps
<1>3. CASE Overwrite
  <2>1. PICK i \in Structure, b \in NewBytes : Alter(ReplaceAt(raw, i, b))
    BY <1>3 DEF Overwrite
  <2>2. phase = "gone" /\ altered < 2 /\ Kept(ReplaceAt(raw, i, b))
    BY <1>3, OverwriteKept DEF Overwrite
  <2> QED BY <2>1, <2>2, AlterKeeps
<1>4. CASE Widen
  <2>1. PICK i \in Structure :
          Alter(SubSeq(raw, 1, i - 1) \o <<253, raw[i], 0>> \o SubSeq(raw, i + 1, Len(raw)))
    BY <1>4 DEF Widen
  <2>2. phase = "gone" /\ altered < 2
    BY <1>4 DEF Widen
  <2> QED BY <2>1, <2>2, WidenKept, AlterKeeps
<1>5. CASE Mark
  <2>1. phase = "gone" /\ altered = 0 /\ altered < 2
    BY <1>5 DEF Mark
  <2> QED BY <1>5, <2>1, MarkKept, AlterKeeps DEF Mark
<1>6. CASE Extend
  <2>1. PICK b \in NewBytes : Alter(Append(raw, b))
    BY <1>6 DEF Extend
  <2>2. phase = "gone" /\ altered < 2 /\ Kept(Append(raw, b))
    BY <1>6, ExtendKept DEF Extend
  <2> QED BY <2>1, <2>2, AlterKeeps
<1>7. CASE Cut
  <2>1. phase = "gone" /\ altered < 2 /\ Kept(Front(raw))
    BY <1>7, CutKept DEF Cut
  <2> QED BY <1>7, <2>1, AlterKeeps DEF Cut
<1>8. CASE UNCHANGED allVars
  <2>1. UNCHANGED vars /\ UNCHANGED <<raw, altered>>
    BY <1>8 DEF allVars
  <2>2. SelectedInv => SelectedInv'
    <3>1. IInv => IInv'
      BY <2>1, Inductive
    <3>2. included' = included /\ n' = n /\ phase' = phase
      BY <2>1 DEF vars
    <3> QED BY <3>1, <3>2 DEF SelectedInv, Count
  <2> QED BY <2>1, <2>2 DEF BytesInv, vars
<1> QED BY <1>1, <1>2, <1>3, <1>4, <1>5, <1>6, <1>7, <1>8 DEF NextBytes

(* What leaves a wallet, and what becomes of it, are bytes; the payment    *)
(* that is still made has what its selection promises.                     *)
THEOREM BytesCorrect == SpecBytes => []BytesInv
<1> QED BY InitBytesKeeps, BytesKept, PTL DEF SpecBytes

-----------------------------------------------------------------------------
(* However the bytes of a transaction were altered or cut, the codec       *)
(* accepts them only when it would write them the same way                 *)
(* (deserialize_transaction, serialize_transaction).                       *)
THEOREM OneFormHolds == SpecBytes => []OneForm
<1>1. BytesInv => OneForm
  BY OneFormAlways DEF BytesInv, OneForm
<1> QED BY <1>1, BytesCorrect, PTL

(* The two codecs accept the same bytes and read the same transaction, but *)
(* for those without inputs and amounts out of range.                      *)
THEOREM CodecsAgreeHolds == SpecBytes => []CodecsAgree
<1>1. BytesInv => CodecsAgree
  BY CodecsAgreeAlways DEF BytesInv, CodecsAgree
<1> QED BY <1>1, BytesCorrect, PTL

(* The size a payment is funded for is the size in bytes of its largest    *)
(* signed transaction, and every shorter signature makes a size that the   *)
(* fee correction expects.                                                 *)
THEOREM EstimateExact == SpecBytes => []EstimateIsSize
<1>1. BytesInv => EstimateIsSize
  <2> SUFFICES ASSUME BytesInv, phase = "selected"
               PROVE  {VSizeOf(Signed(saved)) : saved \in 0 .. 2 * Count} = SignedSizes
    BY DEF EstimateIsSize
  <2>1. req \in Requests /\ change \in Int /\ Count \in 1 .. 255
    BY FewInputs DEF BytesInv
  <2>2. \A saved \in 0 .. 2 * Count :
          VSizeOf(Signed(saved)) = SignedVSize(Count, change > 0, saved)
    BY <2>1, SignedSizeExact
  <2> QED BY <2>2, Zenon DEF SignedSizes
<1> QED BY <1>1, BytesCorrect, PTL

-----------------------------------------------------------------------------
(***************************************************************************)
(* What is written is read.  x stands in d from i on.                      *)
(***************************************************************************)
Stands(d, i, x) ==
  /\ i \in Nat \ {0} /\ x \in Seq(Byte) /\ i + Len(x) <= Len(d) + 1
  /\ \A k \in 1 .. Len(x) : d[i + k - 1] = x[k]

LEMMA StandsAt ==
  ASSUME NEW d \in Seq(Byte), NEW i, NEW x, Stands(d, i, x)
  PROVE  /\ i \in Nat \ {0} /\ x \in Seq(Byte) /\ i + Len(x) <= Len(d) + 1
         /\ Len(x) \in Nat /\ Len(d) \in Nat
         /\ \A k \in 1 .. Len(x) : d[i + k - 1] = x[k]
  BY LenProperties DEF Stands

(* What stands in a sequence stands there in parts.                        *)
LEMMA StandsParts ==
  ASSUME NEW d \in Seq(Byte), NEW i, NEW x \in Seq(Byte), NEW y \in Seq(Byte),
         Stands(d, i, x \o y)
  PROVE  Stands(d, i, x) /\ Stands(d, i + Len(x), y)
<1>1. /\ Len(x) \in Nat /\ Len(y) \in Nat /\ Len(d) \in Nat /\ i \in Nat \ {0}
      /\ Len(x \o y) = Len(x) + Len(y)
      /\ \A k \in 1 .. Len(x) + Len(y) :
           (x \o y)[k] = IF k <= Len(x) THEN x[k] ELSE y[k - Len(x)]
  BY ConcatProperties, LenProperties DEF Stands
<1>2. /\ i + Len(x) + Len(y) <= Len(d) + 1
      /\ \A k \in 1 .. Len(x) + Len(y) : d[i + k - 1] = (x \o y)[k]
  BY <1>1 DEF Stands
<1>3. \A k \in 1 .. Len(x) : d[i + k - 1] = x[k]
  <2> TAKE k \in 1 .. Len(x)
  <2>1. k \in 1 .. Len(x) + Len(y) /\ k <= Len(x)
    BY <1>1
  <2> QED BY <1>1, <1>2, <2>1
<1>4. \A k \in 1 .. Len(y) : d[i + Len(x) + k - 1] = y[k]
  <2> TAKE k \in 1 .. Len(y)
  <2> DEFINE m == Len(x) + k
  <2>1. /\ m \in 1 .. Len(x) + Len(y) /\ ~(m <= Len(x)) /\ m - Len(x) = k
        /\ i + Len(x) + k - 1 = i + m - 1
    BY <1>1
  <2> HIDE DEF m
  <2> QED BY <1>1, <1>2, <2>1
<1>5. i + Len(x) \in Nat \ {0} /\ i + Len(x) <= Len(d) + 1
      /\ i + Len(x) + Len(y) <= Len(d) + 1
  BY <1>1, <1>2
<1> QED BY <1>1, <1>3, <1>4, <1>5 DEF Stands

(* A sequence stands in itself.                                            *)
LEMMA StandsWhole == ASSUME NEW d \in Seq(Byte) PROVE Stands(d, 1, d)
<1>1. Len(d) \in Nat
  BY LenProperties
<1> QED BY <1>1 DEF Stands

LEMMA ReadBack ==
  ASSUME NEW d \in Seq(Byte), NEW i, NEW x, Stands(d, i, x), NEW k \in Nat, Len(x) = k
  PROVE  Read(d, i, k) = [at |-> i + k, val |-> x]
<1>1. /\ Len(x) \in Nat /\ Len(d) \in Nat /\ i \in Nat \ {0} /\ x \in Seq(Byte)
      /\ i + Len(x) <= Len(d) + 1 /\ \A m \in 1 .. Len(x) : d[i + m - 1] = x[m]
  BY StandsAt
<1> DEFINE j == i + k
           s == SubSeq(d, i, j - 1)
<1>2. j \in Nat /\ i <= j /\ j <= Len(d) + 1 /\ j - i = k
  BY <1>1
<1>3. s \in Seq(Byte) /\ Len(s) = j - i /\ \A m \in 1 .. j - i : s[m] = d[i + m - 1]
  <2> HIDE DEF j
  <2> QED BY <1>1, <1>2, PartOf
<1>4. s = x
  <2> HIDE DEF s, j
  <2>1. Len(s) = Len(x) /\ \A m \in 1 .. Len(s) : s[m] = x[m]
    BY <1>1, <1>2, <1>3
  <2> QED BY <1>1, <1>3, <2>1, SeqEqual
<1> HIDE DEF s
<1>5. ~(i = 0 \/ i + Len(x) - 1 > Len(d))
  BY <1>1
<1>6. Read(d, i, k) = [at |-> i + k, val |-> SubSeq(d, i, i + k - 1)]
  BY <1>1, <1>5 DEF Read
<1>7. SubSeq(d, i, i + k - 1) = s
  BY <1>1 DEF s
<1> QED BY <1>4, <1>6, <1>7

(* A CompactSize in its shortest form.                                     *)
LEMMA SizeBack ==
  ASSUME NEW d \in Seq(Byte), NEW i, NEW k \in Nat, k < 65536, Stands(d, i, EncodeSize(k))
  PROVE  ReadSize(d, i) = [at |-> i + Len(EncodeSize(k)), val |-> k]
<1>1. PICK x : x = EncodeSize(k)
  OBVIOUS
<1>2. Stands(d, i, x)
  BY <1>1
<1>3. /\ i \in Nat \ {0} /\ x \in Seq(Byte) /\ i + Len(x) <= Len(d) + 1
      /\ \A m \in 1 .. Len(x) : d[i + m - 1] = x[m]
      /\ Len(x) \in Nat /\ Len(d) \in Nat
  BY <1>2, StandsAt
<1>4. CASE k < 253
  <2>1. x = <<k>>
    BY <1>1, <1>4 DEF EncodeSize
  <2>2. Len(x) = 1 /\ x[1] = k
    BY <2>1
  <2>3. 1 \in 1 .. Len(x) /\ i + 1 - 1 = i
    BY <1>3, <2>2
  <2>4. d[i] = k
    BY <1>3, <2>2, <2>3
  <2>5. ~(i = 0 \/ i > Len(d)) /\ d[i] < 253
    BY <1>3, <1>4, <2>2, <2>4
  <2>6. ReadSize(d, i) = [at |-> i + 1, val |-> k]
    BY <2>4, <2>5 DEF ReadSize
  <2>7. ReadSize(d, i) = [at |-> i + Len(x), val |-> k]
    BY <2>2, <2>6
  <2> QED BY <1>1, <1>3, <2>7
<1>5. CASE ~(k < 253)
  <2>1. x = <<253, k % 256, k \div 256>>
    BY <1>1, <1>5 DEF EncodeSize
  <2>2. Len(x) = 3 /\ x[1] = 253 /\ x[2] = k % 256 /\ x[3] = k \div 256
    BY <2>1
  <2>3. /\ 1 \in 1 .. Len(x) /\ 2 \in 1 .. Len(x) /\ 3 \in 1 .. Len(x)
        /\ i + 1 - 1 = i /\ i + 2 - 1 = i + 1 /\ i + 3 - 1 = i + 2
    BY <1>3, <2>2
  <2>4. d[i + 1 - 1] = x[1] /\ d[i + 2 - 1] = x[2] /\ d[i + 3 - 1] = x[3]
    BY <1>3, <2>3
  <2>5. d[i] = 253 /\ d[i + 1] = k % 256 /\ d[i + 2] = k \div 256
    BY <2>2, <2>3, <2>4
  <2>6. (k % 256) + 256 * (k \div 256) = k /\ k \in Nat
    OBVIOUS
  <2>7. ~(i = 0 \/ i > Len(d)) /\ ~(d[i] < 253) /\ ~(d[i] > 253 \/ i + 2 > Len(d))
    BY <1>3, <2>2, <2>5
  <2>8. d[i + 1] + 256 * d[i + 2] = k
    BY <2>5, <2>6
  <2>9. ReadSize(d, i) = [at |-> i + 3, val |-> k]
    BY <1>5, <2>7, <2>8 DEF ReadSize
  <2>10. ReadSize(d, i) = [at |-> i + Len(x), val |-> k]
    BY <2>2, <2>9
  <2> QED BY <1>1, <1>3, <2>10
<1> QED BY <1>4, <1>5

(* Bytes with their length before them, none longer than one byte tells.   *)
Short(b) == b \in Seq(Byte) /\ Len(b) < 253

LEMMA VarBack ==
  ASSUME NEW d \in Seq(Byte), NEW i, NEW b, Short(b), Stands(d, i, EncodeVar(b))
  PROVE  ReadVar(d, i) = [at |-> i + Len(EncodeVar(b)), val |-> b]
<1> DEFINE x == EncodeSize(Len(b))
<1>0. b \in Seq(Byte) /\ Len(b) < 253
  BY DEF Short
<1>1. Len(b) \in Nat /\ Len(b) < 65536
  BY <1>0, LenProperties
<1>2. x \in Seq(Byte) /\ Len(x) \in Nat
  BY <1>1, SizeBytes, LenProperties, SMT
<1>3. EncodeVar(b) = x \o b /\ i \in Nat \ {0}
  BY DEF EncodeVar, Stands
<1>4. Stands(d, i, x) /\ Stands(d, i + Len(x), b)
  <2> HIDE DEF x
  <2> QED BY <1>0, <1>2, <1>3, StandsParts
<1>5. ReadSize(d, i) = [at |-> i + Len(x), val |-> Len(b)]
  BY <1>1, <1>4, SizeBack
<1> HIDE DEF x
<1>6. Read(d, i + Len(x), Len(b)) = [at |-> (i + Len(x)) + Len(b), val |-> b]
  BY <1>1, <1>4, ReadBack
<1>7. (i + Len(x)) + Len(b) = i + Len(EncodeVar(b)) /\ i + Len(x) # 0
  <2>1. Len(x \o b) = Len(x) + Len(b)
    BY <1>0, <1>2, Joint
  <2> QED BY <1>1, <1>2, <1>3, <2>1
<1> QED BY <1>5, <1>6, <1>7 DEF ReadVar

(* An input as it is written, and as it is read: without its witness.      *)
IsInput(in) ==
  /\ in = [outpoint |-> in.outpoint, script |-> in.script,
           sequence |-> in.sequence, witness |-> in.witness]
  /\ in.outpoint \in Seq(Byte) /\ Len(in.outpoint) = 36
  /\ in.sequence \in Seq(Byte) /\ Len(in.sequence) = 4 /\ Short(in.script)

BareOf(in) == [outpoint |-> in.outpoint, script |-> in.script,
               sequence |-> in.sequence, witness |-> <<>>]

(* A short sequence of bytes with its length.                              *)
LEMMA ShortBytes ==
  ASSUME NEW b, Short(b)
  PROVE  /\ EncodeVar(b) \in Seq(Byte) /\ Len(EncodeVar(b)) = 1 + Len(b)
         /\ Len(EncodeVar(b)) \in Nat /\ Len(b) \in Nat
<1>1. b \in Seq(Byte) /\ Len(b) < 253
  BY DEF Short
<1>2. EncodeVar(b) \in Seq(Byte) /\ Len(EncodeVar(b)) = 1 + Len(b)
  BY <1>1, VarBytes
<1> QED BY <1>1, <1>2, LenProperties

LEMMA InputBack ==
  ASSUME NEW d \in Seq(Byte), NEW i, NEW in, IsInput(in), Stands(d, i, EncodeInput(in))
  PROVE  ReadInput(d, i) = [at |-> i + Len(EncodeInput(in)), val |-> BareOf(in)]
<1> DEFINE x == in.outpoint
           y == EncodeVar(in.script)
           z == in.sequence
           j == i + 36
           m == j + Len(y)
<1>1. /\ x \in Seq(Byte) /\ Len(x) = 36 /\ z \in Seq(Byte) /\ Len(z) = 4 /\ Short(in.script)
  BY DEF IsInput
<1>2. y \in Seq(Byte) /\ Len(y) \in Nat
  BY <1>1, ShortBytes
<1>3. EncodeInput(in) = (x \o y) \o z
  BY DEF EncodeInput
<1> HIDE DEF x, y, z
<1>4. x \o y \in Seq(Byte) /\ Len(x \o y) = 36 + Len(y)
  BY <1>1, <1>2, Joint
<1>5. Stands(d, i, x \o y) /\ Stands(d, i + Len(x \o y), z)
  BY <1>1, <1>3, <1>4, StandsParts
<1>6. Stands(d, i, x) /\ Stands(d, i + Len(x), y)
  BY <1>1, <1>2, <1>5, StandsParts
<1>7. i \in Nat \ {0}
  BY <1>6 DEF Stands
<1>8. j = i + Len(x) /\ m = i + Len(x \o y) /\ j \in Nat /\ m \in Nat
  BY <1>1, <1>2, <1>4, <1>7
<1>9. Read(d, i, 36) = [at |-> j, val |-> x]
  <2>0. 36 \in Nat
    OBVIOUS
  <2>1. Stands(d, i, x) /\ Len(x) = 36
    BY <1>1, <1>6
  <2>2. Read(d, i, 36) = [at |-> i + 36, val |-> x]
    BY <2>0, <2>1, ReadBack, Zenon
  <2> QED BY <2>2
<1>10. ReadVar(d, j) = [at |-> m, val |-> in.script]
  <2>1. Stands(d, j, EncodeVar(in.script))
    BY <1>6, <1>8 DEF y
  <2> HIDE DEF j
  <2>2. ReadVar(d, j) = [at |-> j + Len(EncodeVar(in.script)), val |-> in.script]
    BY <1>1, <2>1, VarBack
  <2> QED BY <2>2 DEF y
<1>11. Read(d, m, 4) = [at |-> m + 4, val |-> z]
  <2> HIDE DEF m
  <2>1. Stands(d, m, z) /\ Len(z) = 4
    BY <1>1, <1>5, <1>8
  <2>2. 4 \in Nat
    OBVIOUS
  <2> QED BY <2>1, <2>2, ReadBack, Zenon
<1>12. m + 4 = i + Len(EncodeInput(in))
  <2>1. Len((x \o y) \o z) = Len(x \o y) + Len(z)
    BY <1>1, <1>4, Joint
  <2> QED BY <1>1, <1>2, <1>3, <1>4, <1>7, <2>1
<1> HIDE DEF j, m
<1>13. ReadInput(d, i) = [at |-> m + 4, val |-> [outpoint |-> x, script |-> in.script,
                                              sequence |-> z, witness |-> <<>>]]
  BY <1>9, <1>10, <1>11 DEF ReadInput
<1> QED BY <1>12, <1>13 DEF BareOf, x, z

IsOutput(out) ==
  /\ out = [value |-> out.value, script |-> out.script]
  /\ out.value \in Seq(Byte) /\ Len(out.value) = 8 /\ Short(out.script)

LEMMA OutputBack ==
  ASSUME NEW d \in Seq(Byte), NEW i, NEW out, IsOutput(out), Stands(d, i, EncodeOutput(out))
  PROVE  ReadOutput(d, i) = [at |-> i + Len(EncodeOutput(out)), val |-> out]
<1> DEFINE x == out.value
           y == EncodeVar(out.script)
           j == i + 8
<1>1. /\ x \in Seq(Byte) /\ Len(x) = 8 /\ Short(out.script)
      /\ out = [value |-> x, script |-> out.script]
  BY DEF IsOutput
<1>2. y \in Seq(Byte) /\ Len(y) \in Nat
  BY <1>1, ShortBytes
<1>3. EncodeOutput(out) = x \o y
  BY DEF EncodeOutput
<1> HIDE DEF x, y
<1>4. Stands(d, i, x) /\ Stands(d, i + Len(x), y)
  BY <1>1, <1>2, <1>3, StandsParts
<1>5. i \in Nat \ {0} /\ Len(x \o y) = 8 + Len(y)
  <2>1. i \in Nat \ {0}
    BY <1>4 DEF Stands
  <2> QED BY <1>1, <1>2, <2>1, Joint
<1>6. Read(d, i, 8) = [at |-> j, val |-> x]
  <2>1. Stands(d, i, x) /\ Len(x) = 8
    BY <1>1, <1>4
  <2>2. 8 \in Nat
    OBVIOUS
  <2> QED BY <2>1, <2>2, ReadBack, Zenon
<1>7. ReadVar(d, j) = [at |-> j + Len(y), val |-> out.script]
  <2>1. Stands(d, j, EncodeVar(out.script))
    BY <1>1, <1>4 DEF y
  <2> HIDE DEF j
  <2> QED BY <1>1, <2>1, VarBack DEF y
<1>8. j + Len(y) = i + Len(EncodeOutput(out))
  BY <1>2, <1>3, <1>5
<1> HIDE DEF j
<1>9. ReadOutput(d, i) = [at |-> j + Len(y), val |-> [value |-> x, script |-> out.script]]
  BY <1>6, <1>7 DEF ReadOutput
<1> QED BY <1>1, <1>8, <1>9

-----------------------------------------------------------------------------
(* The sequences of a row stand each behind those before it.               *)
StandEach(d, i, L, seqs, p) ==
  /\ Len(p[0]) = 0 /\ \A k \in 0 .. L : Len(p[k]) \in Nat
  /\ \A k \in 1 .. L : /\ Stands(d, i + Len(p[k - 1]), seqs[k])
                       /\ Len(p[k]) = Len(p[k - 1]) + Len(seqs[k])

LEMMA RowStands ==
  ASSUME NEW d \in Seq(Byte), NEW i, NEW L \in Nat, NEW seqs \in [1 .. L -> Seq(Byte)],
         NEW p, Concats(p, L, Byte, seqs), Stands(d, i, Concat(seqs))
  PROVE  StandEach(d, i, L, seqs, p)
<1>1. /\ p \in [0 .. L -> Seq(Byte)] /\ p[0] = <<>> /\ p[L] = Concat(seqs)
      /\ \A k \in 1 .. L : p[k] = p[k - 1] \o seqs[k]
  BY DEF Concats
<1>2. ASSUME NEW k \in 1 .. L
      PROVE  /\ p[k - 1] \in Seq(Byte) /\ seqs[k] \in Seq(Byte) /\ p[k] = p[k - 1] \o seqs[k]
             /\ Len(p[k]) = Len(p[k - 1]) + Len(seqs[k])
  <2>1. k - 1 \in 0 .. L
    OBVIOUS
  <2>2. p[k - 1] \in Seq(Byte) /\ seqs[k] \in Seq(Byte) /\ p[k] = p[k - 1] \o seqs[k]
    BY <1>1, <2>1
  <2> QED BY <2>2, Joint
<1> DEFINE B == {m \in 0 .. L : Stands(d, i, p[L - m])}
<1>3. 0 \in B
  <2>1. L - 0 = L /\ 0 \in 0 .. L
    OBVIOUS
  <2> QED BY <1>1, <2>1
<1>4. ASSUME NEW m \in 1 .. L, m - 1 \in B PROVE m \in B
  <2> DEFINE k == L - (m - 1)
  <2>1. k \in 1 .. L /\ k - 1 = L - m /\ m \in 0 .. L
    OBVIOUS
  <2>2. Stands(d, i, p[k])
    BY <1>4
  <2> HIDE DEF k
  <2>3. Stands(d, i, p[k - 1])
    <3>1. PICK x \in Seq(Byte), y \in Seq(Byte) : x = p[k - 1] /\ y = seqs[k]
      BY <1>2, <2>1
    <3>2. Stands(d, i, x \o y)
      BY <1>2, <2>1, <2>2, <3>1
    <3> QED BY <3>1, <3>2, StandsParts
  <2> QED BY <2>1, <2>3
<1>5. 0 .. L \subseteq B
  <2> HIDE DEF B
  <2> QED BY <1>3, <1>4, UpTo
<1>6. ASSUME NEW k \in 1 .. L PROVE Stands(d, i + Len(p[k - 1]), seqs[k])
  <2>1. L - k \in 0 .. L /\ L - (L - k) = k
    OBVIOUS
  <2>2. Stands(d, i, p[L - (L - k)])
    BY <1>5, <2>1
  <2>3. Stands(d, i, p[k])
    BY <2>1, <2>2
  <2> QED BY <1>2, <2>3, StandsParts
<1>7. \A k \in 0 .. L : Len(p[k]) \in Nat
  <2> TAKE k \in 0 .. L
  <2>1. p[k] \in Seq(Byte)
    BY <1>1
  <2> QED BY <2>1, LenProperties
<1>8. Len(p[0]) = 0
  BY <1>1
<1> HIDE DEF B
<1> QED BY <1>2, <1>6, <1>7, <1>8 DEF StandEach

(* Items of which each is found, with its length, wherever it stands.      *)
Told(d, found, F, v, G, seqs, L) ==
  /\ found \in [1 .. Len(d) + 1 -> [at : 0 .. Len(d) + 1, val : F]]
  /\ seqs \in [1 .. L -> Seq(Byte)] /\ v \in Seq(G) /\ Len(v) = L
  /\ \A k \in 1 .. L :
       /\ Len(seqs[k]) > 0
       /\ \A j \in 1 .. Len(d) + 1 :
            Stands(d, j, seqs[k]) => found[j] = [at |-> j + Len(seqs[k]), val |-> v[k]]

LEMMA ManyBack ==
  ASSUME NEW d \in Seq(Byte), NEW i, NEW L \in Nat, NEW G, NEW v, NEW F, NEW found, NEW seqs,
         Told(d, found, F, v, G, seqs, L), Stands(d, i, Concat(seqs))
  PROVE  ReadMany(d, i, L, found) = [at |-> i + Len(Concat(seqs)), val |-> v]
<1>1. /\ found \in [1 .. Len(d) + 1 -> [at : 0 .. Len(d) + 1, val : F]]
      /\ seqs \in [1 .. L -> Seq(Byte)] /\ v \in Seq(G) /\ Len(v) = L
  BY DEF Told
<1>2. ASSUME NEW k \in 1 .. L, NEW j \in 1 .. Len(d) + 1, Stands(d, j, seqs[k])
      PROVE  found[j] = [at |-> j + Len(seqs[k]), val |-> v[k]]
  BY <1>2 DEF Told
<1>3. \A k \in 1 .. L : Len(seqs[k]) > 0
  BY DEF Told
<1>4. PICK p : Concats(p, L, Byte, seqs)
  BY <1>1, ConcatSteps
<1>5. /\ Len(p[0]) = 0 /\ \A k \in 0 .. L : Len(p[k]) \in Nat
      /\ \A k \in 1 .. L : /\ Stands(d, i + Len(p[k - 1]), seqs[k])
                           /\ Len(p[k]) = Len(p[k - 1]) + Len(seqs[k])
  <2>1. StandEach(d, i, L, seqs, p)
    BY <1>1, <1>4, RowStands
  <2> QED BY <2>1 DEF StandEach
<1>6. p[L] = Concat(seqs) /\ \A k \in 1 .. L : seqs[k] \in Seq(Byte) /\ Len(seqs[k]) \in Nat
  BY <1>1, <1>4, LenProperties DEF Concats
<1>7. /\ i \in Nat \ {0} /\ i + Len(Concat(seqs)) <= Len(d) + 1 /\ Len(Concat(seqs)) \in Nat
      /\ Len(d) \in Nat
  BY StandsAt
<1>8. L <= Len(Concat(seqs))
  <2> DEFINE T == {k \in 0 .. L : k <= Len(p[k])}
  <2>1. 0 \in T
    BY <1>5
  <2>2. ASSUME NEW k \in 1 .. L, k - 1 \in T PROVE k \in T
    <3>1. k - 1 \in 0 .. L /\ k \in 0 .. L
      OBVIOUS
    <3>2. k - 1 <= Len(p[k - 1])
      BY <2>2
    <3>3. Len(p[k - 1]) \in Nat /\ Len(p[k]) = Len(p[k - 1]) + Len(seqs[k])
          /\ Len(seqs[k]) > 0 /\ Len(seqs[k]) \in Nat
      BY <1>3, <1>5, <1>6, <3>1
    <3>4. k <= Len(p[k])
      <4>1. PICK a, b \in Nat : a = Len(p[k - 1]) /\ b = Len(seqs[k])
        BY <3>3
      <4>2. k - 1 <= a /\ b > 0 => k <= a + b
        OBVIOUS
      <4> QED BY <3>2, <3>3, <4>1, <4>2
    <3> QED BY <3>1, <3>4
  <2>3. 0 .. L \subseteq T
    <3> HIDE DEF T
    <3> QED BY <2>1, <2>2, UpTo
  <2>4. L \in 0 .. L
    OBVIOUS
  <2> QED BY <1>6, <2>3, <2>4
<1>9. i \in 1 .. Len(d) + 1 /\ L \in 0 .. Len(d)
  BY <1>7, <1>8
<1> DEFINE V == F \cup G
           r == ReadMany(d, i, L, found)
<1>10. found \in [1 .. Len(d) + 1 -> [at : 0 .. Len(d) + 1, val : V]]
  BY <1>1
<1>11. v \in Seq(V)
  <2>1. v \in [1 .. L -> V]
    BY <1>1
  <2> QED BY <2>1
<1> HIDE DEF V, r
<1>12. PICK q : ReadsOn(q, Len(d), V, i, L, found, r)
  BY <1>7, <1>9, <1>10, ReadManyPartials DEF r
<1>13. /\ q \in [0 .. L -> [at : 0 .. Len(d) + 1, val : Seq(V)]]
       /\ q[0] = [at |-> i, val |-> <<>>] /\ q[L] = r
       /\ \A k \in 1 .. L : q[k] = Next1(q[k - 1], ItemAt(q[k - 1], found))
  BY <1>12 DEF ReadsOn
<1> DEFINE T == {k \in 0 .. L : /\ q[k].at = i + Len(p[k]) /\ Len(q[k].val) = k
                                /\ \A m \in 1 .. k : q[k].val[m] = v[m]}
<1>14. 0 \in T
  <2>1. q[0].at = i /\ q[0].val = <<>>
    BY <1>13
  <2>2. i + Len(p[0]) = i /\ Len(<<>>) = 0 /\ 0 \in 0 .. L
    BY <1>5, <1>7
  <2> QED BY <2>1, <2>2
<1>15. ASSUME NEW k \in 1 .. L, k - 1 \in T PROVE k \in T
  <2>1. k - 1 \in 0 .. L /\ k \in 0 .. L /\ k \in 1 .. Len(v)
    BY <1>1
  <2>2. /\ q[k - 1].at = i + Len(p[k - 1]) /\ Len(q[k - 1].val) = k - 1
        /\ \A m \in 1 .. k - 1 : q[k - 1].val[m] = v[m]
    BY <1>15
  <2> HIDE DEF T
  <2>3. PICK j : j = i + Len(p[k - 1])
    OBVIOUS
  <2>4. Stands(d, j, seqs[k])
    BY <1>5, <2>3
  <2>5. j \in 1 .. Len(d) + 1 /\ j # 0 /\ Len(seqs[k]) \in Nat /\ j \in Nat
    BY <2>4, StandsAt
  <2>6. found[j] = [at |-> j + Len(seqs[k]), val |-> v[k]]
    BY <1>2, <2>4, <2>5
  <2>7. ItemAt(q[k - 1], found) = found[j]
    BY <2>2, <2>3, <2>5 DEF ItemAt
  <2>8. q[k] = [at |-> j + Len(seqs[k]), val |-> Append(q[k - 1].val, v[k])]
    <3>1. PICK one : one = found[j]
      OBVIOUS
    <3>2. one.at = j + Len(seqs[k]) /\ one.val = v[k] /\ one.at # 0
      BY <2>5, <2>6, <3>1
    <3>3. q[k] = Next1(q[k - 1], one)
      BY <1>13, <2>7, <3>1
    <3>4. q[k] = [at |-> one.at, val |-> Append(q[k - 1].val, one.val)]
      BY <3>2, <3>3 DEF Next1
    <3> QED BY <3>2, <3>4
  <2>9. j + Len(seqs[k]) = i + Len(p[k])
    <3>1. Len(p[k]) = Len(p[k - 1]) + Len(seqs[k]) /\ Len(p[k - 1]) \in Nat
      BY <1>5, <2>1
    <3>2. PICK a, b, c \in Nat : a = Len(p[k - 1]) /\ b = Len(seqs[k]) /\ c = i
      BY <1>7, <2>5, <3>1
    <3>3. (c + a) + b = c + (a + b)
      OBVIOUS
    <3> QED BY <2>3, <3>1, <3>2, <3>3
  <2>10. PICK s \in Seq(V), e \in V : s = q[k - 1].val /\ e = v[k]
    BY <1>11, <1>13, <2>1, ElementOfSeq
  <2>11. /\ Len(Append(s, e)) = Len(s) + 1 /\ Append(s, e)[Len(s) + 1] = e
         /\ \A m \in 1 .. Len(s) : Append(s, e)[m] = s[m]
    BY AppendProperties
  <2>12. Len(s) = k - 1 /\ \A m \in 1 .. k - 1 : s[m] = v[m]
    BY <2>2, <2>10
  <2>13. Len(Append(s, e)) = k
    BY <2>11, <2>12
  <2>14. \A m \in 1 .. k : Append(s, e)[m] = v[m]
    BY <2>10, <2>11, <2>12
  <2>15. q[k].at = i + Len(p[k]) /\ q[k].val = Append(s, e)
    BY <2>8, <2>9, <2>10
  <2> QED BY <2>1, <2>13, <2>14, <2>15 DEF T
<1>16. 0 .. L \subseteq T
  <2> HIDE DEF T
  <2> QED BY <1>14, <1>15, UpTo
<1>17. L \in 0 .. L
  OBVIOUS
<1>18. /\ r.at = i + Len(Concat(seqs)) /\ Len(r.val) = L
       /\ \A m \in 1 .. L : r.val[m] = v[m]
  BY <1>6, <1>13, <1>16, <1>17
<1>19. r \in [at : 0 .. Len(d) + 1, val : Seq(V)]
  BY <1>13, <1>17
<1>20. r.val = v
  <2>1. r.val \in Seq(V)
    BY <1>19
  <2> QED BY <1>1, <1>11, <1>18, <2>1, SeqEqual
<1> QED BY <1>18, <1>19, <1>20 DEF r

(* A count and that many items.                                            *)
LEMMA CountedBack ==
  ASSUME NEW d \in Seq(Byte), NEW i, NEW L \in Nat, L < 65536, NEW G, NEW v, NEW F, NEW found,
         NEW seqs, Told(d, found, F, v, G, seqs, L),
         Stands(d, i, EncodeSize(L)), Stands(d, i + Len(EncodeSize(L)), Concat(seqs))
  PROVE  ReadCounted(d, i, found) =
           [at |-> i + Len(EncodeSize(L)) + Len(Concat(seqs)), val |-> v]
<1>1. PICK j : j = i + Len(EncodeSize(L))
  OBVIOUS
<1>2. ReadSize(d, i) = [at |-> j, val |-> L]
  BY <1>1, SizeBack
<1>3. Stands(d, j, Concat(seqs)) /\ j # 0
  BY <1>1 DEF Stands
<1>4. ReadMany(d, j, L, found) = [at |-> j + Len(Concat(seqs)), val |-> v]
  BY <1>3, ManyBack
<1> QED BY <1>1, <1>2, <1>3, <1>4 DEF ReadCounted

-----------------------------------------------------------------------------
(* The rows of a transaction.                                              *)
LEMMA ConcatBytes ==
  ASSUME NEW L \in Nat, NEW seqs \in [1 .. L -> Seq(Byte)]
  PROVE  Concat(seqs) \in Seq(Byte) /\ Len(Concat(seqs)) \in Nat
<1>1. PICK p : Concats(p, L, Byte, seqs)
  BY ConcatSteps
<1>2. p[L] = Concat(seqs) /\ p[L] \in Seq(Byte)
  BY <1>1 DEF Concats
<1> QED BY <1>2, LenProperties

BareInputs(ins) == [k \in 1 .. Len(ins) |-> BareOf(ins[k])]
AreInputs(ins, G) ==
  ins \in Seq(G) /\ Len(ins) < 65536 /\ \A k \in 1 .. Len(ins) : IsInput(ins[k])

LEMMA InputBytes ==
  ASSUME NEW in, IsInput(in)
  PROVE  EncodeInput(in) \in Seq(Byte) /\ Len(EncodeInput(in)) > 0
<1> DEFINE y == EncodeVar(in.script)
<1>1. /\ in.outpoint \in Seq(Byte) /\ Len(in.outpoint) = 36
      /\ in.sequence \in Seq(Byte) /\ Len(in.sequence) = 4
      /\ y \in Seq(Byte) /\ Len(y) \in Nat
  BY ShortBytes DEF IsInput
<1> HIDE DEF y
<1>2. in.outpoint \o y \in Seq(Byte) /\ Len(in.outpoint \o y) = 36 + Len(y)
  BY <1>1, Joint
<1>3. /\ (in.outpoint \o y) \o in.sequence \in Seq(Byte)
      /\ Len((in.outpoint \o y) \o in.sequence) = 36 + Len(y) + 4
  <2>1. PICK x, z \in Seq(Byte) : x = in.outpoint \o y /\ z = in.sequence
    BY <1>1, <1>2
  <2>2. x \o z \in Seq(Byte) /\ Len(x \o z) = Len(x) + Len(z)
    BY Joint
  <2> QED BY <1>1, <1>2, <2>1, <2>2
<1>4. 36 + Len(y) + 4 > 0
  BY <1>1
<1> QED BY <1>3, <1>4 DEF EncodeInput, y

LEMMA InputsBack ==
  ASSUME NEW d \in Seq(Byte), NEW i, NEW G, NEW ins, AreInputs(ins, G),
         Stands(d, i, EncodeSize(Len(ins))),
         Stands(d, i + Len(EncodeSize(Len(ins))), Each(EncodeInput, ins))
  PROVE  ReadCounted(d, i, Inputs(d)) =
           [at |-> i + Len(EncodeSize(Len(ins))) + Len(Each(EncodeInput, ins)),
            val |-> BareInputs(ins)]
<1> DEFINE seqs == [k \in 1 .. Len(ins) |-> EncodeInput(ins[k])]
           F == Found(Inputs(d))
           E == {BareOf(ins[k]) : k \in 1 .. Len(ins)}
           v == BareInputs(ins)
<1>1. ins \in Seq(G) /\ Len(ins) \in Nat /\ Len(ins) < 65536
  BY LenProperties DEF AreInputs
<1>2. \A k \in 1 .. Len(ins) : IsInput(ins[k])
  BY DEF AreInputs
<1>3. ASSUME NEW k \in 1 .. Len(ins)
      PROVE  seqs[k] \in Seq(Byte) /\ Len(seqs[k]) > 0
  <2>1. seqs[k] = EncodeInput(ins[k])
    OBVIOUS
  <2> QED BY <1>2, <2>1, InputBytes
<1>4. seqs \in [1 .. Len(ins) -> Seq(Byte)]
  BY <1>3
<1>5. v \in Seq(E) /\ Len(v) = Len(ins) /\ \A k \in 1 .. Len(ins) : v[k] = BareOf(ins[k])
  <2>1. v \in [1 .. Len(ins) -> E] /\ \A k \in 1 .. Len(ins) : v[k] = BareOf(ins[k])
    BY DEF BareInputs
  <2> HIDE DEF v, E
  <2> QED BY <1>1, <2>1
<1>6. Inputs(d) \in [1 .. Len(d) + 1 -> [at : 0 .. Len(d) + 1, val : F]]
  BY InputItems DEF Items
<1>7. ASSUME NEW k \in 1 .. Len(ins), NEW j \in 1 .. Len(d) + 1, Stands(d, j, seqs[k])
      PROVE  Inputs(d)[j] = [at |-> j + Len(seqs[k]), val |-> v[k]]
  <2>1. Inputs(d)[j] = ReadInput(d, j)
    BY DEF Inputs, Positions
  <2>2. PICK in : in = ins[k]
    OBVIOUS
  <2>3. seqs[k] = EncodeInput(in) /\ IsInput(in) /\ v[k] = BareOf(in)
    BY <1>2, <1>5, <2>2
  <2> HIDE DEF seqs, v
  <2>4. ReadInput(d, j) = [at |-> j + Len(EncodeInput(in)), val |-> BareOf(in)]
    BY <1>7, <2>3, InputBack
  <2> QED BY <2>1, <2>3, <2>4
<1>8. Each(EncodeInput, ins) = Concat(seqs)
  BY DEF Each
<1> HIDE DEF seqs, v, E, F
<1>9. Told(d, Inputs(d), F, v, E, seqs, Len(ins))
  BY <1>3, <1>4, <1>5, <1>6, <1>7 DEF Told
<1> QED BY <1>1, <1>8, <1>9, CountedBack DEF v

AreOutputs(outs, G) ==
  outs \in Seq(G) /\ Len(outs) < 65536 /\ \A k \in 1 .. Len(outs) : IsOutput(outs[k])

LEMMA OutputsBack ==
  ASSUME NEW d \in Seq(Byte), NEW i, NEW G, NEW outs, AreOutputs(outs, G),
         Stands(d, i, EncodeSize(Len(outs))),
         Stands(d, i + Len(EncodeSize(Len(outs))), Each(EncodeOutput, outs))
  PROVE  ReadCounted(d, i, Outputs(d)) =
           [at |-> i + Len(EncodeSize(Len(outs))) + Len(Each(EncodeOutput, outs)), val |-> outs]
<1> DEFINE seqs == [k \in 1 .. Len(outs) |-> EncodeOutput(outs[k])]
           F == Found(Outputs(d))
<1>1. outs \in Seq(G) /\ Len(outs) \in Nat /\ Len(outs) < 65536
  BY LenProperties DEF AreOutputs
<1>2. \A k \in 1 .. Len(outs) : IsOutput(outs[k])
  BY DEF AreOutputs
<1>3. ASSUME NEW k \in 1 .. Len(outs)
      PROVE  seqs[k] \in Seq(Byte) /\ Len(seqs[k]) > 0
  <2>1. PICK out : out = outs[k]
    OBVIOUS
  <2>2. /\ out.value \in Seq(Byte) /\ Len(out.value) = 8
        /\ EncodeVar(out.script) \in Seq(Byte) /\ Len(EncodeVar(out.script)) \in Nat
    BY <1>2, <2>1, ShortBytes DEF IsOutput
  <2>3. /\ EncodeOutput(out) \in Seq(Byte)
        /\ Len(EncodeOutput(out)) = 8 + Len(EncodeVar(out.script))
    BY <2>2, Joint DEF EncodeOutput
  <2>4. Len(EncodeOutput(out)) > 0
    BY <2>2, <2>3
  <2> QED BY <2>1, <2>3, <2>4
<1>4. seqs \in [1 .. Len(outs) -> Seq(Byte)]
  BY <1>3
<1>6. Outputs(d) \in [1 .. Len(d) + 1 -> [at : 0 .. Len(d) + 1, val : F]]
  BY OutputItems DEF Items
<1>7. ASSUME NEW k \in 1 .. Len(outs), NEW j \in 1 .. Len(d) + 1, Stands(d, j, seqs[k])
      PROVE  Outputs(d)[j] = [at |-> j + Len(seqs[k]), val |-> outs[k]]
  <2>1. Outputs(d)[j] = ReadOutput(d, j)
    BY DEF Outputs, Positions
  <2>2. PICK out : out = outs[k]
    OBVIOUS
  <2>3. seqs[k] = EncodeOutput(out) /\ IsOutput(out)
    BY <1>2, <2>2
  <2> HIDE DEF seqs
  <2>4. ReadOutput(d, j) = [at |-> j + Len(EncodeOutput(out)), val |-> out]
    BY <1>7, <2>3, OutputBack
  <2> QED BY <2>1, <2>2, <2>3, <2>4
<1>8. Each(EncodeOutput, outs) = Concat(seqs)
  BY DEF Each
<1> HIDE DEF seqs, F
<1>9. Told(d, Outputs(d), F, outs, G, seqs, Len(outs))
  BY <1>1, <1>3, <1>4, <1>6, <1>7 DEF Told
<1> QED BY <1>1, <1>8, <1>9, CountedBack

(* A witness: short pushes, and not many.                                  *)
IsWitness(w, G) == w \in Seq(G) /\ Len(w) < 65536 /\ \A k \in 1 .. Len(w) : Short(w[k])

LEMMA StackBack ==
  ASSUME NEW d \in Seq(Byte), NEW i, NEW G, NEW in, IsWitness(in.witness, G),
         Stands(d, i, EncodeStack(in))
  PROVE  ReadStack(d, i) = [at |-> i + Len(EncodeStack(in)), val |-> in.witness]
<1> DEFINE w == in.witness
           seqs == [k \in 1 .. Len(w) |-> EncodeVar(w[k])]
           F == Found(Pushes(d))
<1>1. w \in Seq(G) /\ Len(w) \in Nat /\ Len(w) < 65536
  BY LenProperties DEF IsWitness
<1>2. \A k \in 1 .. Len(w) : Short(w[k])
  BY DEF IsWitness
<1>3. ASSUME NEW k \in 1 .. Len(w)
      PROVE  seqs[k] \in Seq(Byte) /\ Len(seqs[k]) > 0
  <2>1. PICK b : b = w[k]
    OBVIOUS
  <2>2. /\ EncodeVar(b) \in Seq(Byte) /\ Len(EncodeVar(b)) = 1 + Len(b) /\ Len(b) \in Nat
    BY <1>2, <2>1, ShortBytes
  <2> QED BY <2>1, <2>2
<1>4. seqs \in [1 .. Len(w) -> Seq(Byte)]
  BY <1>3
<1>6. Pushes(d) \in [1 .. Len(d) + 1 -> [at : 0 .. Len(d) + 1, val : F]]
  BY PushItems DEF Items
<1>7. ASSUME NEW k \in 1 .. Len(w), NEW j \in 1 .. Len(d) + 1, Stands(d, j, seqs[k])
      PROVE  Pushes(d)[j] = [at |-> j + Len(seqs[k]), val |-> w[k]]
  <2>1. Pushes(d)[j] = ReadVar(d, j)
    BY DEF Pushes, Positions
  <2>2. PICK b : b = w[k]
    OBVIOUS
  <2>3. seqs[k] = EncodeVar(b) /\ Short(b)
    BY <1>2, <2>2
  <2> HIDE DEF seqs, w
  <2>4. ReadVar(d, j) = [at |-> j + Len(EncodeVar(b)), val |-> b]
    BY <1>7, <2>3, VarBack
  <2> QED BY <2>1, <2>2, <2>3, <2>4
<1>8. Each(EncodeVar, w) = Concat(seqs)
  BY DEF Each
<1>9. EncodeStack(in) = EncodeSize(Len(w)) \o Concat(seqs)
  BY <1>8 DEF EncodeStack
<1>a. ReadStack(d, i) = ReadCounted(d, i, Pushes(d))
  BY DEF ReadStack, Pushes
<1> HIDE DEF seqs, F, w
<1>10. Told(d, Pushes(d), F, w, G, seqs, Len(w))
  BY <1>1, <1>3, <1>4, <1>6, <1>7 DEF Told
<1>11. PICK x : x = EncodeSize(Len(w))
  OBVIOUS
<1>12. x \in Seq(Byte) /\ Concat(seqs) \in Seq(Byte) /\ EncodeStack(in) = x \o Concat(seqs)
  <2>1. x \in Seq(Byte)
    BY <1>1, <1>11, SizeBytes
  <2>2. Concat(seqs) \in Seq(Byte)
    BY <1>1, <1>4, ConcatBytes
  <2> QED BY <1>9, <1>11, <2>1, <2>2
<1>13. Stands(d, i, x) /\ Stands(d, i + Len(x), Concat(seqs))
  BY <1>12, StandsParts
<1>14. ReadCounted(d, i, Pushes(d)) = [at |-> i + Len(x) + Len(Concat(seqs)), val |-> w]
  BY <1>1, <1>10, <1>11, <1>13, CountedBack
<1>15. i + Len(x) + Len(Concat(seqs)) = i + Len(EncodeStack(in))
  <2>1. PICK a, b \in Nat : a = Len(x) /\ b = Len(Concat(seqs)) /\ Len(EncodeStack(in)) = a + b
    BY <1>12, Joint
  <2>2. PICK c \in Nat : c = i
    BY DEF Stands
  <2>3. (c + a) + b = c + (a + b)
    OBVIOUS
  <2> QED BY <2>1, <2>2, <2>3
<1> QED BY <1>a, <1>14, <1>15 DEF w

(* The witnesses of the inputs, each behind the one before it.             *)
Witnesses(ins) == [k \in 1 .. Len(ins) |-> ins[k].witness]
AreWitnessed(ins, G, W) ==
  ins \in Seq(G) /\ \A k \in 1 .. Len(ins) : IsWitness(ins[k].witness, W)

LEMMA StackBytes ==
  ASSUME NEW in, NEW G, IsWitness(in.witness, G)
  PROVE  EncodeStack(in) \in Seq(Byte) /\ Len(EncodeStack(in)) > 0
<1> DEFINE w == in.witness
           seqs == [k \in 1 .. Len(w) |-> EncodeVar(w[k])]
           x == EncodeSize(Len(w))
<1>1. w \in Seq(G) /\ Len(w) \in Nat /\ Len(w) < 65536 /\ \A k \in 1 .. Len(w) : Short(w[k])
  BY LenProperties DEF IsWitness
<1>2. seqs \in [1 .. Len(w) -> Seq(Byte)]
  <2>1. \A k \in 1 .. Len(w) : EncodeVar(w[k]) \in Seq(Byte)
    BY <1>1, ShortBytes
  <2> QED BY <2>1
<1>3. EncodeStack(in) = x \o Concat(seqs)
  BY DEF EncodeStack, Each
<1>4. x \in Seq(Byte) /\ Len(x) >= 1
  <2>1. x \in Seq(Byte) /\ Len(x) = CompactSize(Len(w))
    BY <1>1, SizeBytes
  <2>2. CompactSize(Len(w)) >= 1
    BY DEF CompactSize
  <2> QED BY <2>1, <2>2
<1> HIDE DEF x, w, seqs
<1>5. Concat(seqs) \in Seq(Byte) /\ Len(Concat(seqs)) \in Nat
  BY <1>1, <1>2, ConcatBytes
<1>6. /\ x \o Concat(seqs) \in Seq(Byte) /\ Len(x) \in Nat
      /\ Len(x \o Concat(seqs)) = Len(x) + Len(Concat(seqs))
  BY <1>4, <1>5, Joint
<1>7. Len(x) + Len(Concat(seqs)) > 0
  BY <1>4, <1>5, <1>6
<1> QED BY <1>3, <1>6, <1>7

LEMMA StacksBack ==
  ASSUME NEW d \in Seq(Byte), NEW i, NEW G, NEW W, NEW ins, AreWitnessed(ins, G, W),
         Stands(d, i, Each(EncodeStack, ins))
  PROVE  ReadMany(d, i, Len(ins), Stacks(d)) =
           [at |-> i + Len(Each(EncodeStack, ins)), val |-> Witnesses(ins)]
<1> DEFINE seqs == [k \in 1 .. Len(ins) |-> EncodeStack(ins[k])]
           F == Found(Stacks(d))
           E == {ins[k].witness : k \in 1 .. Len(ins)}
           v == Witnesses(ins)
<1>1. ins \in Seq(G) /\ Len(ins) \in Nat
  BY LenProperties DEF AreWitnessed
<1>2. \A k \in 1 .. Len(ins) : IsWitness(ins[k].witness, W)
  BY DEF AreWitnessed
<1>3. ASSUME NEW k \in 1 .. Len(ins)
      PROVE  seqs[k] \in Seq(Byte) /\ Len(seqs[k]) > 0
  <2>1. seqs[k] = EncodeStack(ins[k])
    OBVIOUS
  <2> QED BY <1>2, <2>1, StackBytes
<1>4. seqs \in [1 .. Len(ins) -> Seq(Byte)]
  BY <1>3
<1>5. v \in Seq(E) /\ Len(v) = Len(ins) /\ \A k \in 1 .. Len(ins) : v[k] = ins[k].witness
  <2>1. v \in [1 .. Len(ins) -> E] /\ \A k \in 1 .. Len(ins) : v[k] = ins[k].witness
    BY DEF Witnesses
  <2> HIDE DEF v, E
  <2> QED BY <1>1, <2>1
<1>6. Stacks(d) \in [1 .. Len(d) + 1 -> [at : 0 .. Len(d) + 1, val : F]]
  BY StackItems DEF Items
<1>7. ASSUME NEW k \in 1 .. Len(ins), NEW j \in 1 .. Len(d) + 1, Stands(d, j, seqs[k])
      PROVE  Stacks(d)[j] = [at |-> j + Len(seqs[k]), val |-> v[k]]
  <2>1. Stacks(d)[j] = ReadStack(d, j)
    BY DEF Stacks, Positions
  <2>2. PICK in : in = ins[k]
    OBVIOUS
  <2>3. seqs[k] = EncodeStack(in) /\ IsWitness(in.witness, W) /\ v[k] = in.witness
    BY <1>2, <1>5, <2>2
  <2> HIDE DEF seqs, v
  <2>4. ReadStack(d, j) = [at |-> j + Len(EncodeStack(in)), val |-> in.witness]
    BY <1>7, <2>3, StackBack
  <2> QED BY <2>1, <2>3, <2>4
<1>8. Each(EncodeStack, ins) = Concat(seqs)
  BY DEF Each
<1> HIDE DEF seqs, v, E, F
<1>9. Told(d, Stacks(d), F, v, E, seqs, Len(ins))
  BY <1>3, <1>4, <1>5, <1>6, <1>7 DEF Told
<1> QED BY <1>1, <1>8, <1>9, ManyBack DEF v

-----------------------------------------------------------------------------
(* Where the parts of a transaction stand, the next behind each.           *)
LaidOut(d, q, v, m, a, b, c, e, s, l) ==
  /\ q \in [0 .. 8 -> Nat] /\ q[0] = 1 /\ q[8] = Len(d) + 1
  /\ Stands(d, q[0], v) /\ q[1] = q[0] + Len(v)
  /\ Stands(d, q[1], m) /\ q[2] = q[1] + Len(m)
  /\ Stands(d, q[2], a) /\ q[3] = q[2] + Len(a)
  /\ Stands(d, q[3], b) /\ q[4] = q[3] + Len(b)
  /\ Stands(d, q[4], c) /\ q[5] = q[4] + Len(c)
  /\ Stands(d, q[5], e) /\ q[6] = q[5] + Len(e)
  /\ Stands(d, q[6], s) /\ q[7] = q[6] + Len(s)
  /\ Stands(d, q[7], l) /\ q[8] = q[7] + Len(l)

LEMMA JoinLaidOut ==
  ASSUME NEW v, NEW m, NEW a, NEW b, NEW c, NEW e, NEW s, NEW l, AllBytes(v, m, a, b, c, e, s, l),
         NEW d, d = WitnessJoin(v, m, a, b, c, e, s, l)
  PROVE  d \in Seq(Byte) /\ \E q : LaidOut(d, q, v, m, a, b, c, e, s, l)
<1>0. /\ v \in Seq(Byte) /\ m \in Seq(Byte) /\ a \in Seq(Byte) /\ b \in Seq(Byte)
      /\ c \in Seq(Byte) /\ e \in Seq(Byte) /\ s \in Seq(Byte) /\ l \in Seq(Byte)
  BY DEF AllBytes
<1> DEFINE x1 == v \o m
           x2 == x1 \o a
           x3 == x2 \o b
           x4 == x3 \o c
           x5 == x4 \o e
           x6 == x5 \o s
           x7 == x6 \o l
<1>1. x1 \in Seq(Byte) /\ Len(x1) = Len(v) + Len(m) /\ Len(v) \in Nat /\ Len(m) \in Nat
  BY <1>0, Joint
<1> HIDE DEF x1
<1>2. x2 \in Seq(Byte) /\ Len(x2) = Len(x1) + Len(a) /\ Len(x1) \in Nat /\ Len(a) \in Nat
  BY <1>0, <1>1, Joint
<1> HIDE DEF x2
<1>3. x3 \in Seq(Byte) /\ Len(x3) = Len(x2) + Len(b) /\ Len(x2) \in Nat /\ Len(b) \in Nat
  BY <1>0, <1>2, Joint
<1> HIDE DEF x3
<1>4. x4 \in Seq(Byte) /\ Len(x4) = Len(x3) + Len(c) /\ Len(x3) \in Nat /\ Len(c) \in Nat
  BY <1>0, <1>3, Joint
<1> HIDE DEF x4
<1>5. x5 \in Seq(Byte) /\ Len(x5) = Len(x4) + Len(e) /\ Len(x4) \in Nat /\ Len(e) \in Nat
  BY <1>0, <1>4, Joint
<1> HIDE DEF x5
<1>6. x6 \in Seq(Byte) /\ Len(x6) = Len(x5) + Len(s) /\ Len(x5) \in Nat /\ Len(s) \in Nat
  BY <1>0, <1>5, Joint
<1> HIDE DEF x6
<1>7. x7 \in Seq(Byte) /\ Len(x7) = Len(x6) + Len(l) /\ Len(x6) \in Nat /\ Len(l) \in Nat
  BY <1>0, <1>6, Joint
<1> HIDE DEF x7
<1>8. d = x7
  BY Zenon DEF WitnessJoin, x1, x2, x3, x4, x5, x6, x7
<1>9. d \in Seq(Byte) /\ Stands(d, 1, x7)
  <2>1. Stands(x7, 1, x7)
    BY <1>7, StandsWhole
  <2> QED BY <1>7, <1>8, <2>1
<1>10. Stands(d, 1, x6) /\ Stands(d, 1 + Len(x6), l)
  BY <1>0, <1>6, <1>9, StandsParts DEF x7
<1>11. Stands(d, 1, x5) /\ Stands(d, 1 + Len(x5), s)
  BY <1>0, <1>5, <1>9, <1>10, StandsParts DEF x6
<1>12. Stands(d, 1, x4) /\ Stands(d, 1 + Len(x4), e)
  BY <1>0, <1>4, <1>9, <1>11, StandsParts DEF x5
<1>13. Stands(d, 1, x3) /\ Stands(d, 1 + Len(x3), c)
  BY <1>0, <1>3, <1>9, <1>12, StandsParts DEF x4
<1>14. Stands(d, 1, x2) /\ Stands(d, 1 + Len(x2), b)
  BY <1>0, <1>2, <1>9, <1>13, StandsParts DEF x3
<1>15. Stands(d, 1, x1) /\ Stands(d, 1 + Len(x1), a)
  BY <1>0, <1>1, <1>9, <1>14, StandsParts DEF x2
<1>16. Stands(d, 1, v) /\ Stands(d, 1 + Len(v), m)
  BY <1>0, <1>9, <1>15, StandsParts DEF x1
<1> DEFINE q == [k \in 0 .. 8 |->
                   CASE k = 0 -> 1 [] k = 1 -> 1 + Len(v) [] k = 2 -> 1 + Len(x1)
                     [] k = 3 -> 1 + Len(x2) [] k = 4 -> 1 + Len(x3) [] k = 5 -> 1 + Len(x4)
                     [] k = 6 -> 1 + Len(x5) [] k = 7 -> 1 + Len(x6) [] OTHER -> 1 + Len(x7)]
<1>17. /\ q[0] = 1 /\ q[1] = 1 + Len(v) /\ q[2] = 1 + Len(x1) /\ q[3] = 1 + Len(x2)
       /\ q[4] = 1 + Len(x3) /\ q[5] = 1 + Len(x4) /\ q[6] = 1 + Len(x5) /\ q[7] = 1 + Len(x6)
       /\ q[8] = 1 + Len(x7)
  OBVIOUS
<1>18. q \in [0 .. 8 -> Nat]
  <2>1. 1 + Len(v) \in Nat /\ 1 + Len(x1) \in Nat
    BY <1>1, <1>2
  <2>a. 1 + Len(x2) \in Nat /\ 1 + Len(x3) \in Nat
    BY <1>3, <1>4
  <2>b. 1 + Len(x4) \in Nat /\ 1 + Len(x5) \in Nat
    BY <1>5, <1>6
  <2>c. 1 + Len(x6) \in Nat /\ 1 + Len(x7) \in Nat /\ 1 \in Nat
    BY <1>7
  <2>2. \A k \in 0 .. 8 : \/ k = 0 \/ k = 1 \/ k = 2 \/ k = 3 \/ k = 4
                          \/ k = 5 \/ k = 6 \/ k = 7 \/ k = 8
    OBVIOUS
  <2>3. q = [k \in 0 .. 8 |-> q[k]]
    OBVIOUS
  <2> HIDE DEF q
  <2>4. \A k \in 0 .. 8 : q[k] \in Nat
    BY <1>17, <2>1, <2>a, <2>b, <2>c, <2>2, Zenon
  <2> QED BY <2>3, <2>4
<1> HIDE DEF q
<1>19. /\ q[8] = Len(d) + 1 /\ q[1] = q[0] + Len(v) /\ q[2] = q[1] + Len(m)
       /\ q[3] = q[2] + Len(a) /\ q[4] = q[3] + Len(b) /\ q[5] = q[4] + Len(c)
       /\ q[6] = q[5] + Len(e) /\ q[7] = q[6] + Len(s) /\ q[8] = q[7] + Len(l)
  <2>1. q[1] = q[0] + Len(v) /\ q[2] = q[1] + Len(m)
    BY <1>1, <1>17
  <2>2. q[3] = q[2] + Len(a)
    BY <1>2, <1>17
  <2>3. q[4] = q[3] + Len(b)
    BY <1>3, <1>17
  <2>4. q[5] = q[4] + Len(c)
    BY <1>4, <1>17
  <2>5. q[6] = q[5] + Len(e)
    BY <1>5, <1>17
  <2>6. q[7] = q[6] + Len(s)
    BY <1>6, <1>17
  <2>7. q[8] = q[7] + Len(l)
    BY <1>7, <1>17
  <2>8. q[8] = Len(d) + 1
    <3>1. Len(x7) \in Nat
      BY <1>7, LenProperties
    <3> QED BY <1>8, <1>17, <3>1
  <2> QED BY <2>1, <2>2, <2>3, <2>4, <2>5, <2>6, <2>7, <2>8
<1>20. /\ Stands(d, q[0], v) /\ Stands(d, q[1], m) /\ Stands(d, q[2], a) /\ Stands(d, q[3], b)
       /\ Stands(d, q[4], c) /\ Stands(d, q[5], e) /\ Stands(d, q[6], s) /\ Stands(d, q[7], l)
  BY <1>10, <1>11, <1>12, <1>13, <1>14, <1>15, <1>16, <1>17, Zenon
<1>21. LaidOut(d, q, v, m, a, b, c, e, s, l)
  BY <1>17, <1>18, <1>19, <1>20 DEF LaidOut
<1> QED BY <1>9, <1>21

-----------------------------------------------------------------------------
(* A transaction that can be written: its scripts and pushes are short,    *)
(* and its inputs spend different outputs.                                 *)
IsTransaction(tx, G, H, W) ==
  /\ tx = [version |-> tx.version, locktime |-> tx.locktime,
           outputs |-> tx.outputs, inputs |-> tx.inputs]
  /\ tx.version \in Seq(Byte) /\ Len(tx.version) = 4
  /\ tx.locktime \in Seq(Byte) /\ Len(tx.locktime) = 4
  /\ AreInputs(tx.inputs, G) /\ AreWitnessed(tx.inputs, G, W) /\ AreOutputs(tx.outputs, H)
  /\ \A j, k \in 1 .. Len(tx.inputs) :
       tx.inputs[j].outpoint = tx.inputs[k].outpoint => j = k

(* It is laid out in d, with the marker m and the witnesses s.             *)
Laid(d, q, tx, m, s) ==
  LaidOut(d, q, tx.version, m, EncodeSize(Len(tx.inputs)), Each(EncodeInput, tx.inputs),
          EncodeSize(Len(tx.outputs)), Each(EncodeOutput, tx.outputs), s, tx.locktime)

LEMMA RowsBack ==
  ASSUME NEW d \in Seq(Byte), NEW tx, NEW G, NEW H, NEW W, IsTransaction(tx, G, H, W),
         NEW q, NEW m, NEW s, Laid(d, q, tx, m, s)
  PROVE  /\ InputRow(d, q[2]) = [at |-> q[4], val |-> BareInputs(tx.inputs)]
         /\ OutputRow(d, q[2]) = [at |-> q[6], val |-> tx.outputs]
         /\ Read(d, q[7], 4) = [at |-> Len(d) + 1, val |-> tx.locktime]
         /\ SubSeq(d, 1, 4) = tx.version
<1> DEFINE a == EncodeSize(Len(tx.inputs))
           b == Each(EncodeInput, tx.inputs)
           c == EncodeSize(Len(tx.outputs))
           e == Each(EncodeOutput, tx.outputs)
           v == tx.version
           l == tx.locktime
<1>1. LaidOut(d, q, v, m, a, b, c, e, s, l)
  BY DEF Laid
<1>2. /\ AreInputs(tx.inputs, G) /\ AreOutputs(tx.outputs, H)
      /\ v \in Seq(Byte) /\ Len(v) = 4 /\ l \in Seq(Byte) /\ Len(l) = 4
  BY DEF IsTransaction
<1> HIDE DEF a, b, c, e, v, l
<1>3. /\ q[0] = 1 /\ q[8] = Len(d) + 1 /\ Stands(d, q[0], v)
      /\ Stands(d, q[2], a) /\ q[3] = q[2] + Len(a) /\ Stands(d, q[3], b) /\ q[4] = q[3] + Len(b)
      /\ Stands(d, q[4], c) /\ q[5] = q[4] + Len(c) /\ Stands(d, q[5], e) /\ q[6] = q[5] + Len(e)
      /\ Stands(d, q[7], l) /\ q[8] = q[7] + Len(l)
  BY <1>1, Zenon DEF LaidOut
<1>4. InputRow(d, q[2]) = [at |-> q[4], val |-> BareInputs(tx.inputs)]
  <2>1. /\ Stands(d, q[2], EncodeSize(Len(tx.inputs)))
        /\ Stands(d, q[2] + Len(EncodeSize(Len(tx.inputs))), Each(EncodeInput, tx.inputs))
    BY <1>3, Zenon DEF a, b
  <2>2. ReadCounted(d, q[2], Inputs(d)) =
          [at |-> q[2] + Len(EncodeSize(Len(tx.inputs))) + Len(Each(EncodeInput, tx.inputs)),
           val |-> BareInputs(tx.inputs)]
    BY <1>2, <2>1, InputsBack
  <2> QED BY <1>3, <2>2, Zenon DEF InputRow, a, b
<1>5. OutputRow(d, q[2]) = [at |-> q[6], val |-> tx.outputs]
  <2>1. /\ Stands(d, q[4], EncodeSize(Len(tx.outputs)))
        /\ Stands(d, q[4] + Len(EncodeSize(Len(tx.outputs))), Each(EncodeOutput, tx.outputs))
    BY <1>3, Zenon DEF c, e
  <2>2. ReadCounted(d, q[4], Outputs(d)) =
          [at |-> q[4] + Len(EncodeSize(Len(tx.outputs))) + Len(Each(EncodeOutput, tx.outputs)),
           val |-> tx.outputs]
    BY <1>2, <2>1, OutputsBack
  <2>3. InputRow(d, q[2]).at = q[4]
    BY <1>4
  <2> QED BY <1>3, <2>2, <2>3, Zenon DEF OutputRow, c, e
<1>6. Read(d, q[7], 4) = [at |-> Len(d) + 1, val |-> l]
  <2>1. PICK j : j = q[7]
    OBVIOUS
  <2>2. Stands(d, j, l) /\ Len(l) = 4
    BY <1>2, <1>3, <2>1
  <2>3. 4 \in Nat /\ j + 4 = Len(d) + 1
    BY <1>2, <1>3, <2>1
  <2>4. Read(d, j, 4) = [at |-> j + 4, val |-> l]
    BY <2>2, <2>3, ReadBack, Zenon
  <2> QED BY <2>1, <2>3, <2>4
<1>7. SubSeq(d, 1, 4) = v
  <2>0. 4 \in Nat
    OBVIOUS
  <2>1. Stands(d, 1, v) /\ Len(v) = 4
    BY <1>2, <1>3
  <2>2. Read(d, 1, 4) = [at |-> 1 + 4, val |-> v]
    BY <2>0, <2>1, ReadBack, Zenon
  <2>3. Read(d, 1, 4) = Failed \/ Read(d, 1, 4) = [at |-> 1 + 4, val |-> SubSeq(d, 1, 4)]
    BY DEF Read
  <2> QED BY <2>2, <2>3 DEF Failed
<1> QED BY <1>4, <1>5, <1>6, <1>7 DEF v, l

(* Without witnesses it is read back as it was.                            *)
LEMMA PlainBack ==
  ASSUME NEW d \in Seq(Byte), NEW tx, NEW G, NEW H, NEW W, IsTransaction(tx, G, H, W),
         ~HasWitness(tx), NEW q, NEW m, Laid(d, q, tx, m, <<>>)
  PROVE  ReadFrom(d, q[2], FALSE) = {tx}
<1> DEFINE ins == tx.inputs
           r == InputRow(d, q[2])
           o == OutputRow(d, q[2])
           end == Read(d, o.at, 4)
<1>1. /\ r = [at |-> q[4], val |-> BareInputs(ins)] /\ o = [at |-> q[6], val |-> tx.outputs]
      /\ Read(d, q[7], 4) = [at |-> Len(d) + 1, val |-> tx.locktime]
      /\ SubSeq(d, 1, 4) = tx.version
  BY RowsBack
<1>2. q[7] = q[6]
  <2>1. q[7] = q[6] + Len(<<>>) /\ q \in [0 .. 8 -> Nat]
    BY DEF Laid, LaidOut
  <2> QED BY <2>1
<1>3. /\ ins \in Seq(G) /\ \A k \in 1 .. Len(ins) : IsInput(ins[k])
      /\ tx = [version |-> tx.version, locktime |-> tx.locktime,
               outputs |-> tx.outputs, inputs |-> ins]
      /\ \A j, k \in 1 .. Len(ins) : ins[j].outpoint = ins[k].outpoint => j = k
  BY DEF IsTransaction, AreInputs
<1>4. BareInputs(ins) = ins
  <2>1. \A k \in 1 .. Len(ins) : BareOf(ins[k]) = ins[k]
    <3> TAKE k \in 1 .. Len(ins)
    <3>1. ins[k].witness = <<>>
      BY DEF HasWitness
    <3>2. IsInput(ins[k])
      BY <1>3
    <3> QED BY <3>1, <3>2 DEF IsInput, BareOf
  <2>2. ins = [k \in 1 .. Len(ins) |-> ins[k]]
    BY <1>3
  <2> QED BY <2>1, <2>2 DEF BareInputs
<1>5. r.val = ins /\ o.val = tx.outputs /\ end = [at |-> Len(d) + 1, val |-> tx.locktime]
  BY <1>1, <1>2, <1>4
<1> DEFINE rx == [version |-> SubSeq(d, 1, 4), locktime |-> end.val,
                  outputs |-> o.val, inputs |-> r.val]
<1>6. ReadFrom(d, q[2], FALSE) =
        IF end.at = Len(d) + 1
           /\ \A j, k \in 1 .. Len(r.val) : r.val[j].outpoint = r.val[k].outpoint => j = k
        THEN {rx} ELSE {}
  BY DEF ReadFrom, InputRow, OutputRow, Inputs, Outputs
<1>7. rx = tx
  <2>0. /\ SubSeq(d, 1, 4) = tx.version /\ end.val = tx.locktime
        /\ o.val = tx.outputs /\ r.val = ins
    BY <1>1, <1>5
  <2> HIDE DEF r, o, end, ins
  <2>1. rx = [version |-> tx.version, locktime |-> tx.locktime,
              outputs |-> tx.outputs, inputs |-> ins]
    BY <2>0
  <2> QED BY <1>3, <2>1
<1> HIDE DEF rx, r, o, end
<1>8. end.at = Len(d) + 1
  BY <1>5
<1>9. \A j, k \in 1 .. Len(r.val) : r.val[j].outpoint = r.val[k].outpoint => j = k
  BY <1>3, <1>5
<1> QED BY <1>6, <1>7, <1>8, <1>9, Zenon

(* With them as well.                                                      *)
LEMMA MarkedBack ==
  ASSUME NEW d \in Seq(Byte), NEW tx, NEW G, NEW H, NEW W, IsTransaction(tx, G, H, W),
         NEW q, NEW m, Laid(d, q, tx, m, Each(EncodeStack, tx.inputs))
  PROVE  ReadFrom(d, q[2], TRUE) = {tx}
<1> DEFINE ins == tx.inputs
           r == InputRow(d, q[2])
           o == OutputRow(d, q[2])
           s == StackRow(d, q[2])
           end == Read(d, s.at, 4)
<1>1. /\ r = [at |-> q[4], val |-> BareInputs(ins)] /\ o = [at |-> q[6], val |-> tx.outputs]
      /\ Read(d, q[7], 4) = [at |-> Len(d) + 1, val |-> tx.locktime]
      /\ SubSeq(d, 1, 4) = tx.version
  BY RowsBack
<1>2. /\ ins \in Seq(G) /\ \A k \in 1 .. Len(ins) : IsInput(ins[k])
      /\ tx = [version |-> tx.version, locktime |-> tx.locktime,
               outputs |-> tx.outputs, inputs |-> ins]
      /\ AreWitnessed(ins, G, W)
      /\ \A j, k \in 1 .. Len(ins) : ins[j].outpoint = ins[k].outpoint => j = k
  BY DEF IsTransaction, AreInputs
<1>3. Len(ins) \in Nat
  BY <1>2, LenProperties
<1>4. Len(r.val) = Len(ins) /\ \A k \in 1 .. Len(ins) : r.val[k] = BareOf(ins[k])
  <2>1. r.val = [k \in 1 .. Len(ins) |-> BareOf(ins[k])]
    BY <1>1 DEF BareInputs
  <2> HIDE DEF r, ins
  <2> QED BY <1>3, <2>1
<1>5. s = [at |-> q[7], val |-> Witnesses(ins)]
  <2>1. Stands(d, q[6], Each(EncodeStack, ins)) /\ q[7] = q[6] + Len(Each(EncodeStack, ins))
    BY Zenon DEF Laid, LaidOut
  <2>2. ReadMany(d, q[6], Len(ins), Stacks(d)) =
          [at |-> q[6] + Len(Each(EncodeStack, ins)), val |-> Witnesses(ins)]
    BY <1>2, <2>1, StacksBack
  <2>3. s = ReadMany(d, o.at, Len(r.val), Stacks(d))
    BY DEF StackRow
  <2>4. o.at = q[6]
    BY <1>1
  <2> QED BY <1>4, <2>1, <2>2, <2>3, <2>4, Zenon
<1> DEFINE read == [k \in 1 .. Len(r.val) |-> [r.val[k] EXCEPT !.witness = s.val[k]]]
           rx == [version |-> SubSeq(d, 1, 4), locktime |-> end.val,
                  outputs |-> o.val, inputs |-> read]
<1>6. ReadFrom(d, q[2], TRUE) =
        IF end.at = Len(d) + 1
           /\ \A j, k \in 1 .. Len(r.val) : r.val[j].outpoint = r.val[k].outpoint => j = k
        THEN {rx} ELSE {}
  BY DEF ReadFrom, InputRow, OutputRow, StackRow, Inputs, Outputs, Stacks
<1>7. end = [at |-> Len(d) + 1, val |-> tx.locktime] /\ o.val = tx.outputs
  BY <1>1, <1>5
<1>8. s.val = Witnesses(ins)
  BY <1>5
<1> HIDE DEF r, s, o, end
<1>9. read = ins
  <2>1. \A k \in 1 .. Len(ins) : [r.val[k] EXCEPT !.witness = s.val[k]] = ins[k]
    <3> TAKE k \in 1 .. Len(ins)
    <3>1. r.val[k] = BareOf(ins[k]) /\ s.val[k] = ins[k].witness
      BY <1>4, <1>8 DEF Witnesses
    <3>2. PICK in : in = ins[k]
      OBVIOUS
    <3>3. IsInput(in)
      BY <1>2, <3>2
    <3>4. [BareOf(in) EXCEPT !.witness = in.witness] = in
      BY <3>3 DEF IsInput, BareOf
    <3> QED BY <3>1, <3>2, <3>4
  <2>2. ins = [k \in 1 .. Len(ins) |-> ins[k]]
    BY <1>2
  <2>3. read = [k \in 1 .. Len(ins) |-> [r.val[k] EXCEPT !.witness = s.val[k]]]
    BY <1>4
  <2> HIDE DEF ins, read
  <2> QED BY <2>1, <2>2, <2>3
<1> HIDE DEF read
<1>10. rx = tx
  <2>1. rx = [version |-> tx.version, locktime |-> tx.locktime,
              outputs |-> tx.outputs, inputs |-> ins]
    BY <1>1, <1>7, <1>9
  <2> QED BY <1>2, <2>1
<1> HIDE DEF rx
<1>11. end.at = Len(d) + 1
  BY <1>7
<1>12. \A j, k \in 1 .. Len(r.val) : r.val[j].outpoint = r.val[k].outpoint => j = k
  <2>1. \A k \in 1 .. Len(ins) : r.val[k].outpoint = ins[k].outpoint
    <3> TAKE k \in 1 .. Len(ins)
    <3>1. PICK in : in = ins[k]
      OBVIOUS
    <3>2. r.val[k] = BareOf(in)
      BY <1>4, <3>1
    <3> QED BY <3>1, <3>2 DEF BareOf
  <2> QED BY <1>2, <1>4, <2>1
<1> QED BY <1>6, <1>10, <1>11, <1>12, Zenon

-----------------------------------------------------------------------------
(* The bytes of each part.                                                 *)
LEMMA EachBytes ==
  ASSUME NEW tx, NEW G, NEW H, NEW W, IsTransaction(tx, G, H, W)
  PROVE  /\ EncodeSize(Len(tx.inputs)) \in Seq(Byte) /\ Each(EncodeInput, tx.inputs) \in Seq(Byte)
         /\ EncodeSize(Len(tx.outputs)) \in Seq(Byte) /\ Each(EncodeOutput, tx.outputs) \in Seq(Byte)
         /\ Each(EncodeStack, tx.inputs) \in Seq(Byte)
<1> DEFINE ins == tx.inputs
           outs == tx.outputs
<1>1. /\ ins \in Seq(G) /\ Len(ins) \in Nat /\ Len(ins) < 65536
      /\ outs \in Seq(H) /\ Len(outs) \in Nat /\ Len(outs) < 65536
      /\ \A k \in 1 .. Len(ins) : IsInput(ins[k]) /\ IsWitness(ins[k].witness, W)
      /\ \A k \in 1 .. Len(outs) : IsOutput(outs[k])
  BY LenProperties DEF IsTransaction, AreInputs, AreOutputs, AreWitnessed
<1> HIDE DEF ins, outs
<1>2. EncodeSize(Len(ins)) \in Seq(Byte) /\ EncodeSize(Len(outs)) \in Seq(Byte)
  BY <1>1, SizeBytes
<1>3. Each(EncodeInput, ins) \in Seq(Byte)
  <2> DEFINE seqs == [k \in 1 .. Len(ins) |-> EncodeInput(ins[k])]
  <2>1. seqs \in [1 .. Len(ins) -> Seq(Byte)]
    <3>1. \A k \in 1 .. Len(ins) : EncodeInput(ins[k]) \in Seq(Byte)
      BY <1>1, InputBytes
    <3> QED BY <3>1
  <2>2. Each(EncodeInput, ins) = Concat(seqs)
    BY DEF Each
  <2> HIDE DEF seqs
  <2> QED BY <1>1, <2>1, <2>2, ConcatBytes
<1>4. Each(EncodeStack, ins) \in Seq(Byte)
  <2> DEFINE seqs == [k \in 1 .. Len(ins) |-> EncodeStack(ins[k])]
  <2>1. seqs \in [1 .. Len(ins) -> Seq(Byte)]
    <3>1. \A k \in 1 .. Len(ins) : EncodeStack(ins[k]) \in Seq(Byte)
      <4> TAKE k \in 1 .. Len(ins)
      <4>1. PICK in : in = ins[k]
        OBVIOUS
      <4>2. IsWitness(in.witness, W)
        BY <1>1, <4>1
      <4> QED BY <4>1, <4>2, StackBytes
    <3> QED BY <3>1
  <2>2. Each(EncodeStack, ins) = Concat(seqs)
    BY DEF Each
  <2> HIDE DEF seqs
  <2> QED BY <1>1, <2>1, <2>2, ConcatBytes
<1>5. Each(EncodeOutput, outs) \in Seq(Byte)
  <2> DEFINE seqs == [k \in 1 .. Len(outs) |-> EncodeOutput(outs[k])]
  <2>1. \A k \in 1 .. Len(outs) : EncodeOutput(outs[k]) \in Seq(Byte)
    <3> TAKE k \in 1 .. Len(outs)
    <3>1. PICK out : out = outs[k]
      OBVIOUS
    <3>a. IsOutput(out)
      BY <1>1, <3>1
    <3>2. out.value \in Seq(Byte) /\ EncodeVar(out.script) \in Seq(Byte)
      BY <3>a, ShortBytes DEF IsOutput
    <3>3. EncodeOutput(out) \in Seq(Byte)
      BY <3>2, Joint DEF EncodeOutput
    <3> QED BY <3>1, <3>3
  <2>2. seqs \in [1 .. Len(outs) -> Seq(Byte)]
    BY <2>1
  <2>3. Each(EncodeOutput, outs) = Concat(seqs)
    BY DEF Each
  <2> HIDE DEF seqs
  <2> QED BY <1>1, <2>2, <2>3, ConcatBytes
<1> QED BY <1>2, <1>3, <1>4, <1>5 DEF ins, outs

LEMMA EncodedLaid ==
  ASSUME NEW tx, NEW G, NEW H, NEW W, IsTransaction(tx, G, H, W)
  PROVE  /\ EncodeWith(tx, FALSE) \in Seq(Byte)
         /\ \E q : Laid(EncodeWith(tx, FALSE), q, tx, <<>>, <<>>)
         /\ EncodeWith(tx, TRUE) \in Seq(Byte)
         /\ \E q : Laid(EncodeWith(tx, TRUE), q, tx, <<0, 1>>, Each(EncodeStack, tx.inputs))
<1> DEFINE a == EncodeSize(Len(tx.inputs))
           b == Each(EncodeInput, tx.inputs)
           c == EncodeSize(Len(tx.outputs))
           e == Each(EncodeOutput, tx.outputs)
           s == Each(EncodeStack, tx.inputs)
           v == tx.version
           l == tx.locktime
           none == <<>>
           mark == <<0, 1>>
<1>1. /\ EncodeWith(tx, FALSE) = WitnessJoin(v, none, a, b, c, e, none, l)
      /\ EncodeWith(tx, TRUE) = WitnessJoin(v, mark, a, b, c, e, s, l)
  BY DEF EncodeWith, WitnessJoin
<1>2. v \in Seq(Byte) /\ l \in Seq(Byte)
  BY DEF IsTransaction
<1>3. a \in Seq(Byte) /\ b \in Seq(Byte) /\ c \in Seq(Byte) /\ e \in Seq(Byte) /\ s \in Seq(Byte)
  BY EachBytes
<1>4. none \in Seq(Byte) /\ mark \in Seq(Byte)
  BY DEF Byte
<1>5. \A d, q : /\ LaidOut(d, q, v, none, a, b, c, e, none, l) => Laid(d, q, tx, none, none)
                /\ LaidOut(d, q, v, mark, a, b, c, e, s, l) => Laid(d, q, tx, mark, s)
  BY Zenon DEF Laid
<1> HIDE DEF a, b, c, e, s, v, l, none, mark
<1>6. /\ AllBytes(v, none, a, b, c, e, none, l) /\ AllBytes(v, mark, a, b, c, e, s, l)
  BY <1>2, <1>3, <1>4 DEF AllBytes
<1>7. /\ EncodeWith(tx, FALSE) \in Seq(Byte)
      /\ \E q : LaidOut(EncodeWith(tx, FALSE), q, v, none, a, b, c, e, none, l)
  <2>1. PICK d : d = EncodeWith(tx, FALSE)
    OBVIOUS
  <2>2. d = WitnessJoin(v, none, a, b, c, e, none, l)
    BY <1>1, <2>1
  <2> QED BY <1>6, <2>1, <2>2, JoinLaidOut
<1>8. /\ EncodeWith(tx, TRUE) \in Seq(Byte)
      /\ \E q : LaidOut(EncodeWith(tx, TRUE), q, v, mark, a, b, c, e, s, l)
  <2>1. PICK d : d = EncodeWith(tx, TRUE)
    OBVIOUS
  <2>2. d = WitnessJoin(v, mark, a, b, c, e, s, l)
    BY <1>1, <2>1
  <2> QED BY <1>6, <2>1, <2>2, JoinLaidOut
<1>9. \E q : Laid(EncodeWith(tx, FALSE), q, tx, none, none)
  BY <1>5, <1>7, Zenon
<1>10. \E q : Laid(EncodeWith(tx, TRUE), q, tx, mark, s)
  BY <1>5, <1>8, Zenon
<1> QED BY <1>7, <1>8, <1>9, <1>10, Zenon DEF none, mark, s

(* What follows the version starts at the fifth byte.                      *)
LEMMA AtFifth ==
  ASSUME NEW d \in Seq(Byte), NEW tx, NEW G, NEW H, NEW W, IsTransaction(tx, G, H, W),
         NEW q, NEW m, NEW s, Laid(d, q, tx, m, s), m \in Seq(Byte)
  PROVE  /\ Stands(d, 5, m) /\ q[2] = 5 + Len(m) /\ q \in [0 .. 8 -> Nat]
         /\ Stands(d, q[2], EncodeSize(Len(tx.inputs)))
         /\ q[4] = q[2] + Len(EncodeSize(Len(tx.inputs))) + Len(Each(EncodeInput, tx.inputs))
         /\ Stands(d, q[4], EncodeSize(Len(tx.outputs)))
<1> DEFINE a == EncodeSize(Len(tx.inputs))
           b == Each(EncodeInput, tx.inputs)
           c == EncodeSize(Len(tx.outputs))
           e == Each(EncodeOutput, tx.outputs)
           v == tx.version
           l == tx.locktime
<1>1. LaidOut(d, q, v, m, a, b, c, e, s, l) /\ Len(v) = 4
  BY DEF Laid, IsTransaction
<1> HIDE DEF a, b, c, e, v, l
<1>2. /\ q[0] = 1 /\ q[1] = q[0] + Len(v) /\ Stands(d, q[1], m) /\ q[2] = q[1] + Len(m)
      /\ Stands(d, q[2], a) /\ q[3] = q[2] + Len(a) /\ q[4] = q[3] + Len(b) /\ Stands(d, q[4], c)
      /\ q \in [0 .. 8 -> Nat]
  BY <1>1, Zenon DEF LaidOut
<1>3. q[1] = 5
  BY <1>1, <1>2
<1>4. q[4] = q[2] + Len(a) + Len(b)
  BY <1>2
<1> QED BY <1>2, <1>3, <1>4, Zenon DEF a, b, c

(* A byte that stands in a sequence.                                       *)
LEMMA StandsFirst ==
  ASSUME NEW d \in Seq(Byte), NEW i, NEW x, Stands(d, i, x), NEW k \in Nat, k < Len(x)
  PROVE  i + k <= Len(d) /\ d[i + k] = x[k + 1]
<1>1. /\ i \in Nat \ {0} /\ i + Len(x) <= Len(d) + 1 /\ Len(x) \in Nat /\ Len(d) \in Nat
      /\ \A m \in 1 .. Len(x) : d[i + m - 1] = x[m]
  BY StandsAt
<1>2. k + 1 \in 1 .. Len(x) /\ i + (k + 1) - 1 = i + k /\ i + k <= Len(d)
  BY <1>1
<1>3. d[i + (k + 1) - 1] = x[k + 1]
  BY <1>1, <1>2
<1> QED BY <1>2, <1>3

(* The HD codec reads back what was written with inputs.                   *)
LEMMA SignedBack ==
  ASSUME NEW tx, NEW G, NEW H, NEW W, IsTransaction(tx, G, H, W), Len(tx.inputs) > 0
  PROVE  Encode(tx) \in Seq(Byte) /\ Decode(Encode(tx)) = {tx}
<1>0. Len(tx.inputs) \in Nat
  BY LenProperties DEF IsTransaction, AreInputs
<1>1. CASE HasWitness(tx)
  <2>1. PICK d : d = EncodeWith(tx, TRUE) /\ d = Encode(tx)
    BY <1>1, EncodeCases
  <2>2. d \in Seq(Byte) /\ \E q : Laid(d, q, tx, <<0, 1>>, Each(EncodeStack, tx.inputs))
    BY <2>1, EncodedLaid
  <2>3. PICK q : Laid(d, q, tx, <<0, 1>>, Each(EncodeStack, tx.inputs))
    BY <2>2
  <2>4. PICK m \in Seq(Byte) : m = <<0, 1>> /\ Len(m) = 2 /\ m[1] = 0 /\ m[2] = 1
    <3> DEFINE mark == <<0, 1>>
    <3>1. 0 \in Byte /\ 1 \in Byte
      BY DEF Byte
    <3>2. mark \in Seq(Byte) /\ Len(mark) = 2 /\ mark[1] = 0 /\ mark[2] = 1
      BY <3>1
    <3> QED BY <3>2, Zenon
  <2>5. Stands(d, 5, m) /\ q[2] = 5 + Len(m)
    <3>1. Laid(d, q, tx, m, Each(EncodeStack, tx.inputs))
      BY <2>3, <2>4
    <3> QED BY <2>2, <3>1, AtFifth
  <2>6. q[2] = 7
    BY <2>4, <2>5
  <2>7. Len(d) > 5 /\ d[5] = 0 /\ d[6] = 1
    <3>1. /\ 5 + 0 <= Len(d) /\ d[5 + 0] = m[0 + 1] /\ 5 + 1 <= Len(d) /\ d[5 + 1] = m[1 + 1]
      <4>1. 0 \in Nat /\ 1 \in Nat /\ 0 < Len(m) /\ 1 < Len(m)
        BY <2>4
      <4> QED BY <2>2, <2>5, <4>1, StandsFirst
    <3> QED BY <2>2, <2>4, <3>1, LenProperties
  <2>8. ReadFrom(d, q[2], TRUE) = {tx}
    BY <2>2, <2>3, MarkedBack
  <2>9. DecodeMarked(d) = {tx}
    <3>1. DecodeMarked(d) = {t \in ReadFrom(d, 7, TRUE) : HasWitness(t)}
      BY <2>7, Zenon DEF DecodeMarked
    <3> QED BY <1>1, <2>6, <2>8, <3>1
  <2>10. Decode(d) = {tx}
    BY <2>9 DEF Decode
  <2> QED BY <2>1, <2>2, <2>10
<1>2. CASE ~HasWitness(tx)
  <2>1. PICK d : d = EncodeWith(tx, FALSE) /\ d = Encode(tx)
    BY <1>2, EncodeCases
  <2>2. d \in Seq(Byte) /\ \E q : Laid(d, q, tx, <<>>, <<>>)
    BY <2>1, EncodedLaid
  <2>3. PICK q : Laid(d, q, tx, <<>>, <<>>)
    BY <2>2
  <2>4. PICK m \in Seq(Byte) : m = <<>> /\ Len(m) = 0
    <3>1. <<>> \in Seq(Byte) /\ Len(<<>>) = 0
      OBVIOUS
    <3> QED BY <3>1, Zenon
  <2>5. q[2] = 5 + Len(m) /\ Stands(d, q[2], EncodeSize(Len(tx.inputs)))
    <3>1. Laid(d, q, tx, m, m)
      BY <2>3, <2>4
    <3> QED BY <2>2, <3>1, AtFifth
  <2>6. q[2] = 5
    BY <2>4, <2>5
  <2>7. ~Marked(d)
    <3>1. PICK x : x = EncodeSize(Len(tx.inputs))
      OBVIOUS
    <3>2. Len(x) >= 1 /\ x[1] # 0 /\ Stands(d, 5, x)
      BY <1>0, <2>5, <2>6, <3>1, SizeStarts
    <3>3. Len(x) \in Nat
      BY <2>2, <3>2, StandsAt
    <3>4. 0 \in Nat /\ 0 < Len(x)
      BY <3>2, <3>3
    <3>5. d[5 + 0] = x[0 + 1]
      BY <2>2, <3>2, <3>4, StandsFirst
    <3> QED BY <3>2, <3>5 DEF Marked
  <2>8. ReadFrom(d, q[2], FALSE) = {tx}
    BY <1>2, <2>2, <2>3, PlainBack
  <2>9. Decode(d) = {tx}
    BY <2>2, <2>6, <2>7, <2>8, DecodePlain
  <2> QED BY <2>1, <2>2, <2>9
<1> QED BY <1>1, <1>2

-----------------------------------------------------------------------------
(* The transactions a wallet writes.                                       *)
LEMMA OutputIs ==
  ASSUME NEW to \in DOMAIN ScriptLength, NEW low \in Byte
  PROVE  IsOutput(Output(to, low)) /\ Units(Output(to, low)) = 0
<1> DEFINE value == <<low, 0, 0, 0, 0, 0, 0, 0>>
           script == Data(ScriptLength[to])
           out == Output(to, low)
<1>1. /\ value \in Seq(Byte) /\ Len(value) = 8
      /\ value[6] = 0 /\ value[7] = 0 /\ value[8] = 0
  <2>1. 0 \in Byte
    BY DEF Byte
  <2> QED BY <2>1
<1>2. ScriptLength[to] \in Nat /\ ScriptLength[to] < 253
  BY DEF ScriptLength
<1>3. script \in Seq(Byte) /\ Len(script) = ScriptLength[to]
  BY <1>2, DataBytes
<1>4. out = [value |-> value, script |-> script]
  BY DEF Output
<1> HIDE DEF value, script, out
<1>5. out.value = value /\ out.script = script
  BY <1>4
<1>6. Short(script)
  BY <1>2, <1>3 DEF Short
<1>7. IsOutput(out)
  BY <1>1, <1>4, <1>5, <1>6 DEF IsOutput
<1>8. Units(out) = 0
  BY <1>1, <1>5 DEF Units
<1> QED BY <1>7, <1>8 DEF out

LEMMA TransactionIs ==
  ASSUME NEW ins, NEW G, NEW W, AreInputs(ins, G), AreWitnessed(ins, G, W),
         \A j, k \in 1 .. Len(ins) : ins[j].outpoint = ins[k].outpoint => j = k,
         NEW outs, NEW low, Destinations(outs, low)
  PROVE  \E H : IsTransaction(Transaction(ins, outs, low), G, H, W)
<1> DEFINE tx == Transaction(ins, outs, low)
           paid == [k \in 1 .. Len(outs) |-> Output(outs[k], low)]
           version == <<2, 0, 0, 0>>
           locktime == <<0, 0, 0, 0>>
           H == {Output(outs[k], low) : k \in 1 .. Len(outs)}
<1>1. tx = [version |-> version, locktime |-> locktime, outputs |-> paid, inputs |-> ins]
  BY DEF Transaction
<1>2. /\ version \in Seq(Byte) /\ Len(version) = 4
      /\ locktime \in Seq(Byte) /\ Len(locktime) = 4
  <2>1. 2 \in Byte /\ 0 \in Byte
    BY DEF Byte
  <2> QED BY <2>1
<1>3. outs \in Seq(DOMAIN ScriptLength) /\ Len(outs) \in 1 .. 2 /\ low \in Byte
  BY DEF Destinations
<1>4. paid \in Seq(H) /\ Len(paid) = Len(outs) /\ \A k \in 1 .. Len(outs) : IsOutput(paid[k])
  <2>1. \A k \in 1 .. Len(outs) : IsOutput(Output(outs[k], low))
    BY <1>3, OutputIs, ElementOfSeq
  <2>2. paid \in [1 .. Len(outs) -> H] /\ \A k \in 1 .. Len(outs) : paid[k] = Output(outs[k], low)
    OBVIOUS
  <2> HIDE DEF paid, H
  <2>3. Len(outs) \in Nat
    BY <1>3
  <2> QED BY <2>1, <2>2, <2>3
<1> HIDE DEF paid, H, version, locktime, tx
<1>5. AreOutputs(paid, H)
  <2>1. PICK c \in 1 .. 2 : c = Len(paid)
    BY <1>3, <1>4
  <2>2. c < 65536
    OBVIOUS
  <2> QED BY <1>4, <2>1, <2>2 DEF AreOutputs
<1>6. /\ tx.version = version /\ tx.locktime = locktime /\ tx.outputs = paid /\ tx.inputs = ins
  BY <1>1
<1>7. IsTransaction(tx, G, H, W)
  BY <1>1, <1>2, <1>5, <1>6 DEF IsTransaction
<1> QED BY <1>7 DEF tx

(* Amounts whose highest bytes are zero are in range.                      *)
LEMMA NothingAddsUp ==
  ASSUME NEW tx, NEW L \in Nat, DOMAIN tx.outputs = 1 .. L,
         \A k \in 1 .. L : Units(tx.outputs[k]) = 0
  PROVE  MoneyRange(tx)
<1> DEFINE outs == tx.outputs
           Iter(f) == f = [Q \in SUBSET DOMAIN outs |->
             IF Q = {} THEN 0 ELSE f[Q \ {Max(Q)}] + Units(outs[Max(Q)])]
           iter == CHOOSE f : Iter(f)
           zero == [Q \in SUBSET (1 .. L) |-> 0]
<1>1. Iter(zero)
  <2>1. \A Q \in SUBSET (1 .. L) : Q # {} =>
          Max(Q) \in 1 .. L /\ Q \ {Max(Q)} \in SUBSET (1 .. L)
    BY Smaller
  <2>2. \A Q \in SUBSET (1 .. L) : 0 =
          IF Q = {} THEN 0 ELSE zero[Q \ {Max(Q)}] + Units(outs[Max(Q)])
    BY <2>1
  <2> QED BY <2>2
<1>2. Iter(iter)
  BY <1>1, Zenon
<1>3. MoneyRange(tx) <=> iter[DOMAIN outs] <= 1909
  BY DEF MoneyRange, FoldLeft, MapThenFoldSet
<1> HIDE DEF iter
<1>4. iter[1 .. L] = zero[1 .. L]
  <2>1. iter[{}] = zero[{}]
    <3>1. {} \in SUBSET (1 .. L)
      OBVIOUS
    <3> QED BY <1>2, <3>1
  <2>2. ASSUME NEW k \in 1 .. L, iter[1 .. k - 1] = zero[1 .. k - 1]
        PROVE  iter[1 .. k] = zero[1 .. k]
    <3>1. /\ 1 .. k \in SUBSET (1 .. L) /\ 1 .. k # {} /\ Max(1 .. k) = k
          /\ (1 .. k) \ {Max(1 .. k)} = 1 .. k - 1 /\ 1 .. k - 1 \in SUBSET (1 .. L)
      BY FirstItems
    <3>2. iter[1 .. k] = iter[1 .. k - 1] + Units(outs[k])
      BY <1>2, <3>1
    <3>3. zero[1 .. k] = 0 /\ zero[1 .. k - 1] = 0 /\ Units(outs[k]) = 0
      BY <3>1
    <3> QED BY <2>2, <3>2, <3>3
  <2> HIDE DEF zero, Iter
  <2> QED BY <2>1, <2>2, SameFold
<1>5. zero[1 .. L] = 0
  OBVIOUS
<1> QED BY <1>3, <1>4, <1>5

LEMMA InRange ==
  ASSUME NEW ins, NEW outs, NEW low, Destinations(outs, low)
  PROVE  MoneyRange(Transaction(ins, outs, low))
<1> DEFINE paid == [k \in 1 .. Len(outs) |-> Output(outs[k], low)]
<1>1. Transaction(ins, outs, low).outputs = paid
  BY DEF Transaction
<1>2. outs \in Seq(DOMAIN ScriptLength) /\ low \in Byte /\ Len(outs) \in Nat
  BY LenProperties DEF Destinations
<1>3. DOMAIN paid = 1 .. Len(outs) /\ \A k \in 1 .. Len(outs) : Units(paid[k]) = 0
  <2>1. \A k \in 1 .. Len(outs) : paid[k] = Output(outs[k], low)
    OBVIOUS
  <2>2. \A k \in 1 .. Len(outs) : Units(Output(outs[k], low)) = 0
    BY <1>2, OutputIs, ElementOfSeq
  <2> QED BY <2>1, <2>2
<1> HIDE DEF paid
<1> QED BY <1>1, <1>2, <1>3, NothingAddsUp

-----------------------------------------------------------------------------
(* An input, its witness, and the number it starts with.                   *)
Numbered(in, i) == IsInput(in) /\ IsWitness(in.witness, Seq(Byte)) /\ in.outpoint[1] = i

LEMMA SignedInputIs ==
  ASSUME NEW kind \in {"p2pkh", "p2wpkh", "uncompressed"}, NEW i \in 1 .. 255, NEW saved \in Nat
  PROVE  Numbered(SignedInput(kind, i, saved), i)
<1> DEFINE in == SignedInput(kind, i, saved)
           l == SignatureLength(i, saved)
           p == PublicKeyLength(kind)
           a == Data(l)
           b == Data(p)
           x == <<i>>
           y == Data(35)
           outpoint == x \o y
           sequence == <<253, 255, 255, 255>>
           both == Each(EncodeVar, <<a, b>>)
           pushes == <<a, b>>
<1>1. l \in Nat /\ l <= 73
  BY DEF SignatureLength
<1>2. p \in Nat /\ p <= 65
  BY DEF PublicKeyLength
<1> HIDE DEF l, p
<1>3. a \in Seq(Byte) /\ Len(a) = l /\ b \in Seq(Byte) /\ Len(b) = p
  BY <1>1, <1>2, DataBytes
<1>4. x \in Seq(Byte) /\ Len(x) = 1 /\ x[1] = i
  BY DEF Byte
<1>5. y \in Seq(Byte) /\ Len(y) = 35
  BY DataBytes
<1>6. sequence \in Seq(Byte) /\ Len(sequence) = 4
  <2>1. 253 \in Byte /\ 255 \in Byte
    BY DEF Byte
  <2> QED BY <2>1
<1>7. in = [outpoint |-> outpoint, sequence |-> sequence,
            script |-> IF kind = "p2wpkh" THEN <<>> ELSE both,
            witness |-> IF kind = "p2wpkh" THEN pushes ELSE <<>>]
  BY DEF SignedInput, l, p
<1> HIDE DEF a, b, x, y
<1>8. outpoint \in Seq(Byte) /\ Len(outpoint) = 36 /\ outpoint[1] = i
  <2>1. x \o y \in Seq(Byte) /\ Len(x \o y) = Len(x) + Len(y)
    BY <1>4, <1>5, Joint
  <2>2. 1 \in 1 .. Len(x) + Len(y) /\ 1 <= Len(x) /\ Len(x) + Len(y) = 36
    BY <1>4, <1>5
  <2>3. (x \o y)[1] = x[1]
    BY <1>4, <1>5, <2>2, ConcatProperties
  <2> QED BY <1>4, <2>1, <2>2, <2>3
<1>9. both \in Seq(Byte) /\ Len(both) < 253
  <2>1. Len(a) < 253 /\ Len(b) < 253
    BY <1>1, <1>2, <1>3
  <2>2. both \in Seq(Byte) /\ Len(both) = 2 + Len(a) + Len(b)
    BY <1>3, <2>1, PairBytes
  <2>3. 2 + Len(a) + Len(b) < 253
    BY <1>1, <1>2, <1>3
  <2> QED BY <2>2, <2>3
<1>10. pushes \in Seq(Seq(Byte)) /\ Len(pushes) = 2 /\ pushes[1] = a /\ pushes[2] = b
  BY <1>3
<1> HIDE DEF both, pushes, outpoint, sequence, in
<1>11. Short(a) /\ Short(b) /\ Short(both)
  BY <1>1, <1>2, <1>3, <1>9 DEF Short
<1>12. Short(<<>>) /\ IsWitness(<<>>, Seq(Byte))
  BY DEF Short, IsWitness
<1>13. IsWitness(pushes, Seq(Byte))
  <2>1. \A k \in 1 .. Len(pushes) : Short(pushes[k])
    <3> TAKE k \in 1 .. Len(pushes)
    <3>1. k = 1 \/ k = 2
      BY <1>10
    <3> QED BY <1>10, <1>11, <3>1
  <2>2. Len(pushes) < 65536
    BY <1>10
  <2> QED BY <1>10, <2>1, <2>2 DEF IsWitness
<1>14. PICK script, witness : /\ in = [outpoint |-> outpoint, sequence |-> sequence,
                                       script |-> script, witness |-> witness]
                              /\ Short(script) /\ IsWitness(witness, Seq(Byte))
  <2>1. CASE kind = "p2wpkh"
    <3>1. in = [outpoint |-> outpoint, sequence |-> sequence,
                script |-> <<>>, witness |-> pushes]
      BY <1>7, <2>1
    <3> QED BY <1>12, <1>13, <3>1, Zenon
  <2>2. CASE kind # "p2wpkh"
    <3>1. in = [outpoint |-> outpoint, sequence |-> sequence,
                script |-> both, witness |-> <<>>]
      BY <1>7, <2>2
    <3> QED BY <1>11, <1>12, <3>1, Zenon
  <2> QED BY <2>1, <2>2
<1>15. /\ in.outpoint = outpoint /\ in.sequence = sequence /\ in.script = script
       /\ in.witness = witness
  BY <1>14
<1>16. IsInput(in)
  BY <1>6, <1>8, <1>14, <1>15 DEF IsInput
<1>17. Numbered(in, i)
  BY <1>8, <1>14, <1>15, <1>16 DEF Numbered
<1> QED BY <1>17 DEF in

LEMMA SignedIs ==
  ASSUME req \in Requests, Count \in 1 .. 255, change \in Int, NEW saved \in 0 .. 2 * Count
  PROVE  /\ \E G, H, W : IsTransaction(Signed(saved), G, H, W)
         /\ Len(Signed(saved).inputs) > 0 /\ MoneyRange(Signed(saved))
<1> DEFINE ins == [i \in 1 .. Count |-> SignedInput(req.kind, i, saved)]
           G == {SignedInput(req.kind, i, saved) : i \in 1 .. Count}
           outs == SignedOutputs
<1>1. Signed(saved) = Transaction(ins, outs, Fill)
  BY DEF Signed, SignedOutputs
<1>2. /\ req.kind \in {"p2pkh", "p2wpkh", "uncompressed"}
      /\ outs \in Seq(DOMAIN ScriptLength) /\ Len(outs) \in 1 .. 2
  BY SignedWritten
<1>3. Fill \in Byte
  BY BytesAssumption DEF Byte
<1>4. Destinations(outs, Fill)
  BY <1>2, <1>3 DEF Destinations
<1>5. PICK c \in 1 .. 255 : c = Count
  OBVIOUS
<1>6. ASSUME NEW i \in 1 .. Count
      PROVE  /\ ins[i] = SignedInput(req.kind, i, saved) /\ IsInput(ins[i])
             /\ IsWitness(ins[i].witness, Seq(Byte)) /\ ins[i].outpoint[1] = i
  <2>1. i \in 1 .. 255 /\ saved \in Nat
    BY <1>5
  <2>a. PICK kind \in {"p2pkh", "p2wpkh", "uncompressed"} : kind = req.kind
    BY <1>2
  <2>b. PICK j \in 1 .. 255, m \in Nat : j = i /\ m = saved
    BY <2>1
  <2>2. PICK in : in = SignedInput(kind, j, m)
    OBVIOUS
  <2>3. IsInput(in) /\ IsWitness(in.witness, Seq(Byte)) /\ in.outpoint[1] = j
    <3>1. Numbered(SignedInput(kind, j, m), j)
      BY SignedInputIs
    <3> QED BY <2>2, <3>1 DEF Numbered
  <2>4. ins[i] = in /\ in = SignedInput(req.kind, i, saved)
    BY <2>a, <2>b, <2>2
  <2> QED BY <2>b, <2>3, <2>4, Zenon
<1>7. ins \in Seq(G) /\ Len(ins) = Count
  <2>1. ins \in [1 .. c -> G]
    BY <1>5
  <2>2. c \in Nat
    OBVIOUS
  <2> HIDE DEF ins, G
  <2> QED BY <1>5, <2>1, <2>2
<1> HIDE DEF ins, G, outs
<1>8. AreInputs(ins, G) /\ AreWitnessed(ins, G, Seq(Byte))
  <2>1. Len(ins) < 65536
    BY <1>5, <1>7
  <2> QED BY <1>6, <1>7, <2>1 DEF AreInputs, AreWitnessed
<1>9. \A j, k \in 1 .. Len(ins) : ins[j].outpoint = ins[k].outpoint => j = k
  <2> TAKE j, k \in 1 .. Len(ins)
  <2>1. ins[j].outpoint[1] = j /\ ins[k].outpoint[1] = k
    BY <1>6, <1>7
  <2> QED BY <2>1
<1>10. PICK H : IsTransaction(Transaction(ins, outs, Fill), G, H, Seq(Byte))
  BY <1>4, <1>8, <1>9, TransactionIs
<1>11. MoneyRange(Transaction(ins, outs, Fill))
  BY <1>4, InRange
<1>12. Len(Signed(saved).inputs) > 0
  <2>1. Signed(saved).inputs = ins
    BY <1>1 DEF Transaction
  <2> QED BY <1>5, <1>7, <2>1
<1> QED BY <1>1, <1>10, <1>11, <1>12

(* What a wallet signed either wallet reads.                               *)
LEMMA SignedIsRead ==
  ASSUME req \in Requests, Count \in 1 .. 255, change \in Int, NEW saved \in 0 .. 2 * Count
  PROVE  /\ Decode(Encode(Signed(saved))) = {Signed(saved)}
         /\ SingleDecode(Encode(Signed(saved))) = {Signed(saved)}
         /\ Signed(saved).inputs # <<>>
<1>1. PICK tx, G, H, W : tx = Signed(saved) /\ IsTransaction(tx, G, H, W)
  BY SignedIs
<1>2. Len(tx.inputs) > 0 /\ MoneyRange(tx)
  BY <1>1, SignedIs
<1>3. Encode(tx) \in Seq(Byte) /\ Decode(Encode(tx)) = {tx}
  BY <1>1, <1>2, SignedBack
<1>4. tx.inputs # <<>>
  BY <1>2
<1>5. SingleDecode(Encode(tx)) = {t \in Decode(Encode(tx)) : t.inputs # <<>> /\ MoneyRange(t)}
  BY <1>3, CodecsAgreeAlways
<1>6. SingleDecode(Encode(tx)) = {tx}
  BY <1>2, <1>3, <1>4, <1>5, Zenon
<1> QED BY <1>1, <1>3, <1>4, <1>6

-----------------------------------------------------------------------------
(* Behind a marker no input fits in so few bytes.                          *)
LEMMA InputLong ==
  ASSUME NEW d \in Seq(Byte), NEW i \in 0 .. Len(d) + 1, ReadInput(d, i).at # 0
  PROVE  i + 40 <= Len(d) + 1
<1> DEFINE outpoint == Read(d, i, 36)
           script == ReadVar(d, outpoint.at)
           sequence == Read(d, script.at, 4)
<1>0. Len(d) \in Nat
  BY LenProperties
<1>1. ReadInput(d, i).at = sequence.at
  BY DEF ReadInput
<1>2. /\ Spells(d, i, outpoint, outpoint.val)
      /\ outpoint.at # 0 => outpoint.at = i + 36
  BY ReadSpells
<1>3. outpoint.at \in 0 .. Len(d) + 1
  BY <1>2 DEF Spells
<1>4. Spells(d, outpoint.at, script, EncodeVar(script.val))
  BY <1>3, ReadVarSpells
<1>5. /\ script.at \in 0 .. Len(d) + 1
      /\ script.at # 0 => outpoint.at # 0 /\ outpoint.at <= script.at
  <2> HIDE DEF outpoint, script
  <2> QED BY <1>4 DEF Spells
<1>6. /\ Spells(d, script.at, sequence, sequence.val)
      /\ sequence.at # 0 => sequence.at = script.at + 4
  <2> HIDE DEF script
  <2> QED BY <1>5, ReadSpells
<1>7. sequence.at \in 0 .. Len(d) + 1 /\ (sequence.at # 0 => script.at # 0)
  <2> HIDE DEF script, sequence
  <2> QED BY <1>6 DEF Spells
<1> HIDE DEF outpoint, script, sequence
<1> QED BY <1>0, <1>1, <1>2, <1>3, <1>5, <1>6, <1>7

LEMMA NoInput ==
  ASSUME NEW d \in Seq(Byte), Len(d) < 47, InputRow(d, 7).at # 0
  PROVE  Len(InputRow(d, 7).val) = 0
<1> DEFINE r == InputRow(d, 7)
           c == ReadSize(d, 7)
<1>0. Len(d) \in Nat
  BY LenProperties
<1>1. 7 \in 1 .. Len(d) /\ 7 \in 0 .. Len(d) + 1
  BY RowsRead
<1>2. c.at # 0 /\ r = ReadMany(d, c.at, c.val, Inputs(d))
  <2>1. r = IF c.at = 0 THEN Failed ELSE ReadMany(d, c.at, c.val, Inputs(d))
    BY DEF InputRow, ReadCounted
  <2>2. c.at = 0 => r.at = 0
    BY <2>1 DEF Failed
  <2> QED BY <2>1, <2>2
<1>3. c.at \in 0 .. Len(d) + 1 /\ c.val \in Nat /\ 7 < c.at
  BY <1>1, <1>2, ReadSizeSpells DEF Spells
<1> HIDE DEF c
<1>4. Inputs(d) \in [1 .. Len(d) + 1 -> [at : 0 .. Len(d) + 1, val : Found(Inputs(d))]]
  BY InputItems DEF Items
<1>5. PICK q : Row(q, Inputs(d), c.at, r, c.val)
  <2>1. PICK L, V : L \in Nat /\ L = Len(d) /\ V = Found(Inputs(d))
    BY <1>0
  <2> HIDE DEF r
  <2>2. PICK found : found = Inputs(d)
    OBVIOUS
  <2>3. found \in [1 .. L + 1 -> [at : 0 .. L + 1, val : V]] /\ c.at \in 0 .. L + 1
        /\ ReadMany(d, c.at, c.val, found).at # 0
    BY <1>2, <1>3, <1>4, <2>1, <2>2 DEF r
  <2>4. \E q : Row(q, found, c.at, ReadMany(d, c.at, c.val, found), c.val)
    BY <1>3, <2>1, <2>3, ReadManyRow
  <2> QED BY <1>2, <2>2, <2>4
<1> HIDE DEF r
<1>6. /\ q \in [0 .. c.val -> DOMAIN Inputs(d)] /\ q[0] = c.at /\ Len(r.val) = c.val
      /\ \A k \in 1 .. c.val : Inputs(d)[q[k - 1]].at = q[k]
  BY <1>5, Zenon DEF Row
<1>7. c.val = 0
  <2> SUFFICES ASSUME c.val # 0 PROVE FALSE
    OBVIOUS
  <2>1. 1 \in 1 .. c.val /\ 1 \in 0 .. c.val /\ 1 - 1 = 0
    BY <1>3
  <2>2. Inputs(d)[c.at].at = q[1] /\ q[1] \in 1 .. Len(d) + 1
    BY <1>4, <1>6, <2>1
  <2>3. ReadInput(d, c.at).at # 0
    <3>1. Inputs(d)[c.at] = ReadInput(d, c.at)
      BY <1>3 DEF Inputs, Positions
    <3> QED BY <2>2, <3>1
  <2>4. c.at + 40 <= Len(d) + 1
    BY <1>3, <2>3, InputLong
  <2> QED BY <1>0, <1>3, <2>4
<1> QED BY <1>6, <1>7 DEF r

-----------------------------------------------------------------------------
(* So behind a marker nothing with a witness is found in them.             *)
LEMMA NoWitnessFits ==
  ASSUME NEW d \in Seq(Byte), Len(d) < 47
  PROVE  {t \in ReadFrom(d, 7, TRUE) : HasWitness(t)} = {}
<1> SUFFICES ASSUME NEW t \in ReadFrom(d, 7, TRUE) PROVE ~HasWitness(t)
  OBVIOUS
<1> DEFINE r == InputRow(d, 7)
           o == OutputRow(d, 7)
           s == StackRow(d, 7)
           end == Read(d, s.at, 4)
<1>0. Len(d) \in Nat
  BY LenProperties
<1>1. /\ t = [version |-> SubSeq(d, 1, 4), locktime |-> end.val, outputs |-> o.val,
              inputs |-> [k \in 1 .. Len(r.val) |-> [r.val[k] EXCEPT !.witness = s.val[k]]]]
      /\ end.at = Len(d) + 1
  BY DEF ReadFrom, InputRow, OutputRow, StackRow, Inputs, Outputs, Stacks
<1>2. r.at # 0
  <2>1. end.at # 0
    BY <1>0, <1>1
  <2> HIDE DEF r, o, end
  <2>2. s.at # 0
    BY <2>1, RowsBefore DEF end
  <2>3. o.at # 0
    BY <2>2, RowsBefore DEF o
  <2> QED BY <2>3, RowsBefore DEF r, o
<1>3. Len(r.val) = 0
  BY <1>2, NoInput
<1>4. Len(t.inputs) = 0
  <2> HIDE DEF r, o, s, end
  <2>1. t.inputs = [k \in 1 .. Len(r.val) |-> [r.val[k] EXCEPT !.witness = s.val[k]]]
    BY <1>1
  <2> QED BY <1>3, <2>1
<1> QED BY <1>4 DEF HasWitness

LEMMA TemplateIsRead ==
  ASSUME NEW tx \in Templates
  PROVE  /\ Encode(tx) \in Seq(Byte) /\ Decode(Encode(tx)) = {tx} /\ tx.inputs = <<>>
<1>1. PICK outs, low, zero : IsTemplate(tx, outs, low, zero)
  BY TemplateParts
<1>2. /\ tx = Transaction(<<>>, outs, low) /\ Destinations(outs, low)
      /\ \A k \in 1 .. Len(outs) : OutputSize[outs[k]] <= 34
      /\ zero[0] = 0 /\ Written(tx, zero, OutputLengths(outs), zero)
  BY <1>1 DEF IsTemplate
<1>3. outs \in Seq(DOMAIN ScriptLength) /\ Len(outs) \in 1 .. 2
  BY <1>2 DEF Destinations
<1>4. tx.inputs = <<>> /\ Len(tx.inputs) = 0 /\ Len(tx.outputs) = Len(outs)
  <2>1. tx.inputs = <<>>
    BY <1>2 DEF Transaction
  <2>2. tx.outputs = [k \in 1 .. Len(outs) |-> Output(outs[k], low)]
    BY <1>2 DEF Transaction
  <2>3. Len(outs) \in Nat
    BY <1>3
  <2> QED BY <2>1, <2>2, <2>3
<1>5. PICK H : IsTransaction(tx, {}, H, {})
  <2>1. PICK none : none = <<>>
    OBVIOUS
  <2>2. none \in Seq({}) /\ Len(none) = 0
    BY <2>1
  <2>3. AreInputs(none, {}) /\ AreWitnessed(none, {}, {})
    BY <2>2 DEF AreInputs, AreWitnessed
  <2>4. \A j, k \in 1 .. Len(none) : none[j].outpoint = none[k].outpoint => j = k
    BY <2>2
  <2>5. \E H : IsTransaction(Transaction(none, outs, low), {}, H, {})
    BY <1>2, <2>3, <2>4, TransactionIs
  <2> QED BY <1>2, <2>1, <2>5
<1>6. ~HasWitness(tx)
  BY <1>4 DEF HasWitness
<1>7. PICK d : d = EncodeWith(tx, FALSE) /\ d = Encode(tx)
  BY <1>6, EncodeCases
<1>8. d \in Seq(Byte) /\ \E q : Laid(d, q, tx, <<>>, <<>>)
  BY <1>5, <1>7, EncodedLaid
<1>9. PICK q : Laid(d, q, tx, <<>>, <<>>)
  BY <1>8
<1>10. PICK m \in Seq(Byte) : m = <<>> /\ Len(m) = 0
  <2>1. <<>> \in Seq(Byte) /\ Len(<<>>) = 0
    OBVIOUS
  <2> QED BY <2>1, Zenon
<1>11. /\ q[2] = 5 + Len(m) /\ Stands(d, q[2], EncodeSize(Len(tx.inputs)))
       /\ q[4] = q[2] + Len(EncodeSize(Len(tx.inputs))) + Len(Each(EncodeInput, tx.inputs))
       /\ Stands(d, q[4], EncodeSize(Len(tx.outputs)))
  <2>1. Laid(d, q, tx, m, m)
    BY <1>9, <1>10
  <2> QED BY <1>5, <1>8, <2>1, AtFifth
<1>12. Len(Each(EncodeInput, tx.inputs)) = 0
  <2> DEFINE seqs == [k \in 1 .. Len(tx.inputs) |-> EncodeInput(tx.inputs[k])]
  <2>1. Lengths(zero, seqs, Len(tx.inputs), Byte)
    BY <1>2 DEF Written
  <2>2. Each(EncodeInput, tx.inputs) = Concat(seqs)
    BY DEF Each
  <2> HIDE DEF seqs
  <2>3. Lengths(zero, seqs, 0, Byte)
    BY <1>4, <2>1
  <2>4. Len(Concat(seqs)) = zero[0]
    BY <2>3, ConcatLength
  <2> QED BY <1>2, <2>2, <2>4
<1>13. EncodeSize(0) = <<0>> /\ Len(EncodeSize(0)) = 1 /\ EncodeSize(0)[1] = 0
  BY DEF EncodeSize
<1>14. q[2] = 5 /\ q[4] = 6
  <2>1. q[2] = 5
    BY <1>10, <1>11
  <2>2. Len(EncodeSize(Len(tx.inputs))) = 1
    BY <1>4, <1>13
  <2>3. q[4] = 5 + 1 + 0
    BY <1>11, <1>12, <2>1, <2>2, Zenon
  <2> QED BY <2>1, <2>3
<1>15. d[5] = 0 /\ d[6] = Len(outs) /\ Len(d) > 5
  <2>1. PICK x, y : x = EncodeSize(0) /\ y = EncodeSize(Len(outs))
    OBVIOUS
  <2>2. Stands(d, 5, x) /\ Stands(d, 6, y)
    BY <1>4, <1>11, <1>14, <2>1
  <2>3. Len(x) = 1 /\ x[1] = 0
    BY <1>13, <2>1
  <2>4. Len(y) = 1 /\ y[1] = Len(outs)
    <3>1. Len(outs) < 253
      <4>1. PICK c \in 1 .. 2 : c = Len(outs)
        BY <1>3
      <4> QED BY <4>1
    <3>2. y = <<Len(outs)>>
      BY <2>1, <3>1 DEF EncodeSize
    <3> QED BY <3>2
  <2>5. 0 \in Nat /\ 0 < Len(x) /\ 0 < Len(y)
    BY <2>3, <2>4
  <2>6. d[5 + 0] = x[0 + 1]
    BY <1>8, <2>2, <2>5, StandsFirst
  <2>7. 6 + 0 <= Len(d) /\ d[6 + 0] = y[0 + 1]
    BY <1>8, <2>2, <2>5, StandsFirst
  <2>8. Len(d) \in Nat
    BY <1>8, LenProperties
  <2> QED BY <2>3, <2>4, <2>6, <2>7, <2>8
<1>16. ReadFrom(d, 5, FALSE) = {tx}
  <2>1. ReadFrom(d, q[2], FALSE) = {tx}
    BY <1>5, <1>6, <1>8, <1>9, PlainBack
  <2> QED BY <1>14, <2>1
<1>17. Decode(d) = {tx}
  <2>1. CASE Len(outs) # 1
    <3>1. ~Marked(d)
      BY <1>15, <2>1 DEF Marked
    <3> QED BY <1>8, <1>16, <3>1, DecodePlain
  <2>2. CASE Len(outs) = 1
    <3>1. Len(d) < 47
      <4> DEFINE go == OutputLengths(outs)
      <4>1. Len(d) = PlainLength(tx, zero, go)
        BY <1>2, <1>7, WrittenLength
      <4>2. go[1] = OutputSize[outs[1]]
        BY <1>3, <2>2, OutputLength
      <4>3. OutputSize[outs[1]] \in Nat /\ OutputSize[outs[1]] <= 34
        <5>1. outs[1] \in DOMAIN ScriptLength
          <6>1. 1 \in 1 .. Len(outs)
            BY <2>2
          <6> QED BY <1>3, <6>1, ElementOfSeq
        <5> QED BY <1>2, <2>2, <5>1 DEF ScriptLength, OutputSize
      <4> HIDE DEF go
      <4>4. PlainLength(tx, zero, go) = 4 + 1 + 0 + 1 + go[1] + 4
        <5>1. CompactSize(0) = 1 /\ CompactSize(1) = 1
          BY DEF CompactSize
        <5> QED BY <1>2, <1>4, <2>2, <5>1, Zenon DEF PlainLength
      <4> QED BY <4>1, <4>2, <4>3, <4>4
    <3>2. DecodeMarked(d) = {}
      <4>1. DecodeMarked(d) = {t \in ReadFrom(d, 7, TRUE) : HasWitness(t)}
        BY <1>15, <2>2, Zenon DEF DecodeMarked
      <4> QED BY <1>8, <3>1, <4>1, NoWitnessFits
    <3>3. Decode(d) = ReadFrom(d, 5, FALSE)
      BY <1>15, <3>2, Zenon DEF Decode
    <3> QED BY <1>16, <3>3
  <2> QED BY <2>1, <2>2
<1> QED BY <1>4, <1>7, <1>8, <1>17

-----------------------------------------------------------------------------
(* What a wallet wrote it reads back: a signed transaction with the codec  *)
(* of either wallet, and a template with that of the HD wallet, though its *)
(* first bytes look like the marker of a witness                           *)
(* (deserialize_transaction, serialize_transaction).                       *)
THEOREM WrittenReadBack == SpecBytes => []WrittenIsRead
<1>1. InitBytes => WrittenIsRead
  <2> SUFFICES ASSUME InitBytes, phase = "gone" PROVE WrittenIsRead
    BY DEF WrittenIsRead
  <2>1. PICK tx \in Templates : written = {tx} /\ raw = Encode(tx)
    BY InitSelected DEF InitBytes
  <2>2. raw \in Seq(Byte) /\ Decode(raw) = {tx} /\ tx.inputs = <<>>
    BY <2>1, TemplateIsRead
  <2>3. SingleDecode(raw) = {t \in Decode(raw) : t.inputs # <<>> /\ MoneyRange(t)}
    BY <2>2, CodecsAgreeAlways
  <2>4. SingleDecode(raw) = {} /\ {t \in written : t.inputs # <<>>} = {}
    BY <2>1, <2>2, <2>3
  <2> QED BY <2>1, <2>2, <2>4 DEF WrittenIsRead
<1>2. BytesInv /\ WrittenIsRead /\ [NextBytes]_allVars => WrittenIsRead'
  <2> SUFFICES ASSUME BytesInv, WrittenIsRead, [NextBytes]_allVars,
                      phase' = "gone", altered' = 0
               PROVE  WrittenIsRead'
    BY DEF WrittenIsRead
  <2>1. CASE Inside
    <3>1. phase' # "gone"
      <4>1. Next /\ phase # "gone"
        BY <2>1 DEF Inside, Next, RejectDust, Include, AddCoin, GiveUp, Accept, AcceptAll,
                    RejectAll, SignEnough, Correct, CannotCorrect, Stop, WantsMore
      <4> QED BY <4>1, SelectedKept DEF BytesInv
    <3> QED BY <3>1
  <2>2. CASE Publish
    <3>1. phase = "signed"
      BY <2>2 DEF Publish
    <3>2. req \in Requests /\ change \in Int /\ Count \in 1 .. 255
      BY <3>1, FewInputs DEF BytesInv
    <3>3. PICK saved \in 0 .. 2 * Count :
            written' = {Signed(saved)} /\ raw' = Encode(Signed(saved))
      BY <2>2 DEF Publish
    <3>4. PICK tx : tx = Signed(saved)
      OBVIOUS
    <3>5. Decode(Encode(tx)) = {tx} /\ SingleDecode(Encode(tx)) = {tx} /\ tx.inputs # <<>>
      BY <3>2, <3>4, SignedIsRead
    <3>6. {t \in written' : t.inputs # <<>>} = {tx}
      BY <3>3, <3>4, <3>5
    <3> QED BY <3>3, <3>4, <3>5, <3>6 DEF WrittenIsRead
  <2>3. CASE Overwrite \/ Widen \/ Mark \/ Extend \/ Cut
    <3>1. altered' = altered + 1
      BY <2>3 DEF Overwrite, Widen, Mark, Extend, Cut, Alter
    <3>2. altered \in 0 .. 2
      BY DEF BytesInv
    <3> QED BY <3>1, <3>2
  <2>4. CASE UNCHANGED allVars
    <3>1. phase' = phase /\ altered' = altered /\ raw' = raw /\ written' = written
      BY <2>4 DEF allVars, vars
    <3> QED BY <3>1 DEF WrittenIsRead
  <2> QED BY <2>1, <2>2, <2>3, <2>4 DEF NextBytes
<1> QED BY <1>1, <1>2, BytesCorrect, PTL DEF SpecBytes

=============================================================================
