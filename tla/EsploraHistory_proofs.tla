------------------------ MODULE EsploraHistory_proofs ------------------------
(* A history that a faithful backend returned is complete, for any number of *)
(* transactions and any page sizes, however many blocks arrive between two   *)
(* pages.  Positions are counted from the oldest transaction: new blocks do  *)
(* not move those, so the cursor's position divides the chain for good into  *)
(* what is read and what is still below.  Terminates is liveness and stays   *)
(* with the model checker.                                                   *)
EXTENDS EsploraHistory, FiniteSetTheorems, TLAPS

USE HistoryAssumption

(* The minimum of two integers is one of them and at most both.                *)
LEMMA Smaller ==
  ASSUME NEW a \in Int, NEW b \in Int
  PROVE  Min({a, b}) \in {a, b} /\ Min({a, b}) <= a /\ Min({a, b}) <= b
<1>1. \E x \in {a, b} : \A y \in {a, b} : x <= y
  OBVIOUS
<1>2. Min({a, b}) \in {a, b} /\ \A y \in {a, b} : Min({a, b}) <= y
  BY <1>1 DEF Min
<1> QED BY <1>2

(* A page ends within the chain and is empty only at its oldest end.           *)
LEMMA PageEnd ==
  ASSUME NEW k \in Nat, NEW n \in Nat, k <= n
  PROVE  /\ Min({k + PageSize, n}) \in Int
         /\ k <= Min({k + PageSize, n}) /\ Min({k + PageSize, n}) <= n
         /\ k < n => k < Min({k + PageSize, n})
<1> DEFINE a == k + PageSize
           m == Min({a, n})
<1>1. a \in Int /\ k < a
  OBVIOUS
<1>2. m \in {a, n} /\ m <= a /\ m <= n
  <2> HIDE DEF a
  <2> QED BY <1>1, Smaller
<1>3. m = Min({k + PageSize, n})
  OBVIOUS
<1> HIDE DEF m, a
<1> QED BY <1>1, <1>2, <1>3

(* The page after the k newest transactions is empty when there are no more;   *)
(* otherwise it ends at some position j and has all from j up to the k newest. *)
LEMMA PageContents ==
  ASSUME chain \in Seq(Tx), NEW k \in 0 .. Len(chain)
  PROVE  /\ k = Len(chain) => Page(k) = << >>
         /\ k < Len(chain) =>
              /\ Page(k) # << >>
              /\ \E j \in 1 .. Len(chain) - k :
                   /\ Last(Page(k)) = chain[j]
                   /\ \A i \in j .. Len(chain) - k : Contains(Page(k), chain[i])
<1> DEFINE n == Len(chain)
           m == Min({k + PageSize, n})
<1>1. n \in Nat /\ m \in Int /\ k <= m /\ m <= n /\ (k < n => k < m)
  <2>1. n \in Nat /\ k \in Nat /\ k <= n
    OBVIOUS
  <2> HIDE DEF n
  <2> QED BY <2>1, PageEnd
<1>2. /\ Newest \in Seq(Tx) /\ Len(Newest) = n
      /\ \A i \in 1 .. n : Newest[i] = chain[n - i + 1]
  BY <1>1 DEF Newest, Reverse
<1>3. Page(k) = SubSeq(Newest, k + 1, m)
  BY DEF Page
<1> HIDE DEF n, m
<1>4. /\ Len(Page(k)) = m - k
      /\ \A j \in 1 .. m - k : Page(k)[j] = Newest[k + j]
  BY <1>1, <1>2, <1>3
<1>5. \A j \in 1 .. m - k : Page(k)[j] = chain[n - k - j + 1]
  <2> TAKE j \in 1 .. m - k
  <2>1. k + j \in 1 .. n /\ n - (k + j) + 1 = n - k - j + 1
    BY <1>1
  <2> QED BY <1>2, <1>4, <2>1
<1>6. CASE k = n
  BY <1>1, <1>2, <1>3, <1>6 DEF n
<1>7. CASE k < n
  <2>1. m - k \in 1 .. m - k /\ n - k - (m - k) + 1 = n - m + 1
    BY <1>1, <1>7
  <2>2. Last(Page(k)) = chain[n - m + 1]
    BY <1>4, <1>5, <2>1 DEF Last
  <2>3. n - m + 1 \in 1 .. n - k
    BY <1>1, <1>7
  <2>4. ASSUME NEW i \in n - m + 1 .. n - k PROVE Contains(Page(k), chain[i])
    <3>1. n - k - i + 1 \in 1 .. m - k /\ n - k - (n - k - i + 1) + 1 = i
      BY <1>1, <2>3
    <3> QED BY <1>4, <1>5, <3>1 DEF Contains
  <2>5. Page(k) # << >>
    BY <1>1, <1>4, <1>7
  <2> QED BY <1>7, <2>2, <2>3, <2>4, <2>5 DEF n
<1> QED BY <1>1, <1>6, <1>7 DEF n

(* The page below the transaction at position k is the one after those from    *)
(* k on.                                                                       *)
LEMMA BelowIsPage ==
  ASSUME chain \in Seq(Tx), IsInjective(chain), NEW k \in 1 .. Len(chain)
  PROVE  Below(chain[k]) = Page(Len(chain) - k + 1)
<1> DEFINE n == Len(chain)
           I == {i \in 1 .. Len(Newest) : Newest[i] = chain[k]}
<1>1. n \in Nat
  OBVIOUS
<1>2. Len(Newest) = n /\ \A i \in 1 .. n : Newest[i] = chain[n - i + 1]
  BY <1>1 DEF Newest, Reverse
<1>3. I = {n - k + 1}
  <2>1. n - k + 1 \in 1 .. n /\ n - (n - k + 1) + 1 = k
    OBVIOUS
  <2>2. ASSUME NEW i \in 1 .. n, Newest[i] = chain[k] PROVE i = n - k + 1
    <3>1. n - i + 1 \in 1 .. n /\ chain[n - i + 1] = chain[k]
      BY <1>1, <1>2, <2>2
    <3>2. n - i + 1 = k
      BY <3>1 DEF IsInjective
    <3> QED BY <1>1, <3>2
  <2> QED BY <1>2, <2>1, <2>2
<1>4. SelectInSeq(Newest, LAMBDA u : u = chain[k]) = n - k + 1
  <2>1. SelectInSeq(Newest, LAMBDA u : u = chain[k]) = IF I # {} THEN Min(I) ELSE 0
    BY DEF SelectInSeq
  <2>2. n - k + 1 \in Int
    BY <1>1
  <2> HIDE DEF I, n
  <2>3. Min({n - k + 1, n - k + 1}) = n - k + 1
    BY <2>2, Smaller
  <2>4. {n - k + 1, n - k + 1} = {n - k + 1}
    OBVIOUS
  <2> QED BY <1>3, <2>1, <2>3, <2>4
<1> QED BY <1>4 DEF Below

-----------------------------------------------------------------------------

(* A page lists transactions.                                                  *)
LEMMA PageTypes ==
  ASSUME TypeOK, chain \in Seq(Tx), faithful, NEW k \in 0 .. Len(chain)
  PROVE  Page(k) \in Seq(Tx)
<1> DEFINE n == Len(chain)
           m == Min({k + PageSize, n})
<1>1. n \in Nat /\ m \in Int /\ m <= n
  <2>1. n \in Nat /\ k \in Nat /\ k <= n
    OBVIOUS
  <2> HIDE DEF n
  <2> QED BY <2>1, PageEnd
<1>2. Newest \in Seq(Tx) /\ Len(Newest) = n
  BY <1>1 DEF Newest, Reverse
<1> HIDE DEF n, m
<1>3. SubSeq(Newest, k + 1, m) \in Seq(Tx)
  BY <1>1, <1>2
<1> QED BY <1>3 DEF Page, n, m

(* The reader has the transaction as confirmed.                                *)
Read(t) == got[t] = "confirmed"

(* Everything confirmed at the first answer, from position k on, is read.      *)
ReadFrom(k) == \A i \in k .. Len(chain) : chain[i] \in start.chain => Read(chain[i])

(* What was confirmed at the first answer still is.                            *)
StartInv ==
  /\ start \in [chain : SUBSET Tx, pool : SUBSET Tx]
  /\ start.chain \subseteq ToSet(chain)

(* Between two pages the cursor is in the chain, and everything newer is read. *)
PageInv ==
  faithful /\ phase = "next" =>
    \E k \in 1 .. Len(chain) : cursor = chain[k] /\ ReadFrom(k)

(* A mempool that fits on the first page was read, and stays read.             *)
PoolInv ==
  faithful /\ phase \in {"next", "done"} /\ Cardinality(start.pool) <= PoolSize =>
    \A t \in start.pool : got[t] # "absent"

(* A history that is returned has read everything.                             *)
DoneInv == faithful /\ phase = "done" => \A t \in start.chain : Read(t)

(* The inductive invariant.                                                    *)
IInv ==
  /\ TypeOK /\ chain \in Seq(Tx)
  /\ phase = "next" => cursor \in Tx
  /\ StartInv /\ PageInv /\ PoolInv /\ DoneInv

(* Nothing is read of any chain the node may have.                             *)
LEMMA InitIInv == Init => IInv
<1> SUFFICES ASSUME Init PROVE IInv
  OBVIOUS
<1>1. Cardinality(Tx) \in Nat
  BY FS_CardinalityType
<1>2. chain \in Seq(Tx) /\ IsInjective(chain)
  BY <1>1 DEF Init, BoundedSeq, SeqOf
<1>3. ToSet(chain) \subseteq Tx
  BY <1>2 DEF ToSet
<1> QED BY <1>2, <1>3 DEF Init, IInv, TypeOK, Seen, StartInv, PageInv, PoolInv, DoneInv

(* The node's steps keep positions, so they keep what is read and what is not. *)
LEMMA NodeStep == ASSUME IInv, Node PROVE IInv'
<1>1. TypeOK /\ chain \in Seq(Tx)
  BY DEF IInv
<1>2. UNCHANGED readVars /\ faithful' = faithful
  BY DEF Node, Arrive, Confirm, Evict
<1>3. CASE UNCHANGED chain /\ pool' \subseteq Tx \ ToSet(chain)
  BY <1>2, <1>3 DEF readVars, IInv, TypeOK, StartInv, PageInv, PoolInv, DoneInv, ReadFrom, Read
<1>4. ASSUME NEW t \in Tx, Confirm(t) PROVE IInv'
  <2>1. /\ t \in pool /\ t \notin ToSet(chain)
        /\ pool' = pool \ {t} /\ chain' = Append(chain, t)
    BY <1>1, <1>4 DEF Confirm, TypeOK
  <2>2. /\ chain' \in Seq(Tx) /\ Len(chain') = Len(chain) + 1 /\ Len(chain) \in Nat
        /\ chain'[Len(chain) + 1] = t
        /\ \A i \in 1 .. Len(chain) : chain'[i] = chain[i]
    BY <1>1, <2>1
  <2>3. ToSet(chain') = ToSet(chain) \cup {t}
    BY <1>1, <2>2 DEF ToSet
  <2>4. IsInjective(chain')
    <3> SUFFICES ASSUME NEW a \in 1 .. Len(chain) + 1, NEW b \in 1 .. Len(chain) + 1,
                        chain'[a] = chain'[b]
                 PROVE  a = b
      BY <2>2 DEF IsInjective
    <3>1. \A i \in 1 .. Len(chain) : chain[i] # t
      BY <1>1, <2>1 DEF ToSet
    <3>2. \A i, j \in 1 .. Len(chain) : chain[i] = chain[j] => i = j
      BY <1>1 DEF TypeOK, IsInjective
    <3> QED BY <2>2, <3>1, <3>2
  <2>5. TypeOK'
    BY <1>1, <1>2, <2>1, <2>3, <2>4 DEF TypeOK, readVars
  <2>6. StartInv' /\ PoolInv' /\ DoneInv'
    BY <1>2, <2>3 DEF IInv, StartInv, PoolInv, DoneInv, Read, readVars
  <2>7. PageInv'
    <3> SUFFICES ASSUME faithful, phase = "next"
                 PROVE  \E k \in 1 .. Len(chain') : cursor = chain'[k] /\ ReadFrom(k)'
      BY <1>2 DEF PageInv, readVars
    <3>1. PICK k \in 1 .. Len(chain) : cursor = chain[k] /\ ReadFrom(k)
      BY DEF IInv, PageInv
    <3>2. t \notin start.chain
      BY <2>1 DEF IInv, StartInv
    <3>3. start' = start /\ got' = got
      BY <1>2 DEF readVars
    <3>4. ReadFrom(k)'
      BY <2>2, <3>1, <3>2, <3>3 DEF ReadFrom, Read
    <3> QED BY <2>2, <3>1, <3>4
  <2> QED BY <1>2, <2>2, <2>5, <2>6, <2>7 DEF IInv, readVars
<1>5. ASSUME NEW t \in Tx, Arrive(t) \/ Evict(t)
      PROVE  UNCHANGED chain /\ pool' \subseteq Tx \ ToSet(chain)
  BY <1>1, <1>5 DEF Arrive, Evict, TypeOK, Contains, ToSet
<1> QED BY <1>3, <1>4, <1>5 DEF Node
(* add_page reads what the page lists and forgets nothing.                     *)
LEMMA AddPageReads ==
  ASSUME TypeOK, NEW mempool \in SUBSET Tx, NEW page \in Seq(Tx), AddPage(mempool, page)
  PROVE  /\ got' \in [Tx -> Seen] /\ cursor' \in Tx \cup {NoTx}
         /\ cursor' = NoTx <=> page = << >>
         /\ page # << >> => cursor' = Last(page)
         /\ \A t \in Tx : Read(t) \/ Contains(page, t) => Read(t)'
         /\ \A t \in Tx : got[t] # "absent" \/ t \in mempool => got'[t] # "absent"
<1>1. page # << >> => Last(page) \in Tx
  BY DEF Last
<1>2. got \in [Tx -> Seen]
  BY DEF TypeOK
<1> QED BY <1>1, <1>2 DEF AddPage, Seen, Read

(* Whatever an unfaithful backend answers is a sequence of transactions.       *)
LEMMA BoundedAnswer ==
  ASSUME NEW page \in BoundedSeq(Tx, PageSize) PROVE page \in Seq(Tx)
BY DEF BoundedSeq, SeqOf

(* The first answer has the mempool that fits and the newest page.             *)
LEMMA FirstStep == ASSUME IInv, ReadFirst PROVE IInv'
<1>1. TypeOK /\ chain \in Seq(Tx) /\ phase = "first"
  BY DEF IInv, ReadFirst
<1>2. PICK answer \in FirstAnswers : AddPage(answer[1], answer[2])
  BY DEF ReadFirst
<1> DEFINE mempool == answer[1]
           page == answer[2]
<1>3. /\ mempool \in SUBSET Tx /\ page \in Seq(Tx)
      /\ faithful => /\ mempool \subseteq pool /\ page = Page(0)
                     /\ Cardinality(mempool) = Min({PoolSize, Cardinality(pool)})
  <2>1. CASE faithful
    <3>1. 0 \in 0 .. Len(chain)
      BY <1>1
    <3>2. Page(0) \in Seq(Tx)
      BY <1>1, <2>1, <3>1, PageTypes
    <3>3. answer \in {<<S, Page(0)>> : S \in {S \in SUBSET pool :
                         Cardinality(S) = Min({PoolSize, Cardinality(pool)})}}
      BY <2>1 DEF FirstAnswers
    <3>4. PICK S \in SUBSET pool : /\ answer = <<S, Page(0)>>
                                  /\ Cardinality(S) = Min({PoolSize, Cardinality(pool)})
      BY <3>3
    <3>5. mempool = S /\ page = Page(0)
      BY <3>4
    <3> QED BY <1>1, <3>2, <3>4, <3>5 DEF TypeOK
  <2>2. CASE ~faithful
    BY <2>2, BoundedAnswer DEF FirstAnswers
  <2> QED BY <2>1, <2>2
<1>4. /\ AddPage(mempool, page) /\ UNCHANGED <<chain, pool, faithful, seenCursors>>
      /\ phase' = IF cursor' = NoTx THEN "done" ELSE "next"
      /\ pageCount' = 1 /\ start' = [chain |-> ToSet(chain), pool |-> pool]
  BY <1>2 DEF ReadFirst, nodeVars
<1> HIDE DEF mempool, page
<1>5. /\ got' \in [Tx -> Seen] /\ cursor' \in Tx \cup {NoTx}
      /\ cursor' = NoTx <=> page = << >>
      /\ page # << >> => cursor' = Last(page)
      /\ \A t \in Tx : Read(t) \/ Contains(page, t) => Read(t)'
      /\ \A t \in Tx : got[t] # "absent" \/ t \in mempool => got'[t] # "absent"
  BY <1>1, <1>3, <1>4, AddPageReads
<1>6. TypeOK' /\ chain' \in Seq(Tx) /\ (phase' = "next" => cursor' \in Tx)
  BY <1>1, <1>4, <1>5 DEF TypeOK
<1>7. StartInv'
  BY <1>1, <1>4 DEF StartInv, TypeOK
<1>8. ASSUME faithful PROVE PageInv' /\ DoneInv'
  <2>1. 0 \in 0 .. Len(chain) /\ Len(chain) - 0 = Len(chain) /\ Len(chain) \in Nat
    BY <1>1
  <2>2. CASE Len(chain) = 0
    <3>1. page = << >>
      BY <1>1, <1>3, <1>8, <2>1, <2>2, PageContents
    <3>2. ToSet(chain) = {}
      BY <1>1, <2>2 DEF ToSet
    <3> QED BY <1>4, <1>5, <3>1, <3>2 DEF PageInv, DoneInv
  <2>3. CASE 0 < Len(chain)
    <3>1. page # << >> /\ \E j \in 1 .. Len(chain) :
            /\ Last(page) = chain[j]
            /\ \A i \in j .. Len(chain) : Contains(page, chain[i])
      BY <1>1, <1>3, <1>8, <2>1, <2>3, PageContents
    <3>2. PICK j \in 1 .. Len(chain) : /\ Last(page) = chain[j]
                                       /\ \A i \in j .. Len(chain) : Contains(page, chain[i])
      BY <3>1
    <3>3. ReadFrom(j)'
      BY <1>1, <1>4, <1>5, <3>2 DEF ReadFrom
    <3> QED BY <1>4, <1>5, <3>1, <3>2, <3>3 DEF PageInv, DoneInv
  <2> QED BY <2>1, <2>2, <2>3
<1>9. PoolInv'
  <2> SUFFICES ASSUME faithful, Cardinality(pool) <= PoolSize, NEW t \in pool
               PROVE  got'[t] # "absent"
    BY <1>4 DEF PoolInv
  <2>1. IsFiniteSet(pool) /\ pool \subseteq Tx
    BY <1>1, FS_Subset DEF TypeOK
  <2>2. Cardinality(pool) \in Nat
    BY <2>1, FS_CardinalityType
  <2>3. Min({PoolSize, Cardinality(pool)}) = Cardinality(pool)
    <3> DEFINE c == Cardinality(pool)
               m == Min({PoolSize, c})
    <3>1. c \in Int /\ PoolSize \in Int /\ c <= PoolSize
      BY <2>2
    <3>2. m \in {PoolSize, c} /\ m <= PoolSize /\ m <= c
      <4> HIDE DEF c
      <4> QED BY <3>1, Smaller
    <3> HIDE DEF m
    <3> QED BY <3>1, <3>2 DEF m
  <2>4. pool = mempool
    BY <1>3, <2>1, <2>3, FS_Subset
  <2> QED BY <1>5, <2>1, <2>4
<1>10. ~faithful => PageInv' /\ DoneInv'
  BY <1>4 DEF PageInv, DoneInv
<1> QED BY <1>6, <1>7, <1>8, <1>9, <1>10 DEF IInv
(* Each next page continues right below the cursor; an empty one shows that    *)
(* the cursor was the oldest transaction.                                      *)
LEMMA ReadNextStep == ASSUME IInv, ReadNext PROVE IInv'
<1>1. TypeOK /\ chain \in Seq(Tx) /\ phase = "next" /\ cursor \in Tx /\ pageCount < PageLimit
  BY DEF IInv, ReadNext, MayContinue
<1>2. PICK page \in ChainAnswers(cursor) :
        IF page = << >>
        THEN phase' = "done" /\ UNCHANGED <<got, cursor, pageCount>>
        ELSE AddPage({}, page) /\ pageCount' = pageCount + 1 /\ UNCHANGED phase
  BY DEF ReadNext
<1>3. seenCursors' = seenCursors \cup {cursor} /\ UNCHANGED <<chain, pool, faithful, start>>
  BY DEF ReadNext, nodeVars
<1>4. ASSUME faithful
      PROVE  \E k \in 1 .. Len(chain) :
               /\ cursor = chain[k] /\ ReadFrom(k) /\ page = Page(Len(chain) - k + 1)
  <2>1. PICK k \in 1 .. Len(chain) : cursor = chain[k] /\ ReadFrom(k)
    BY <1>1, <1>4 DEF IInv, PageInv
  <2>2. page = Below(cursor)
    BY <1>4 DEF ChainAnswers
  <2>3. Below(cursor) = Page(Len(chain) - k + 1)
    BY <1>1, <2>1, BelowIsPage DEF TypeOK
  <2> QED BY <2>1, <2>2, <2>3
<1>5. page \in Seq(Tx)
  <2>1. CASE faithful
    <3>1. PICK k \in 1 .. Len(chain) : page = Page(Len(chain) - k + 1)
      BY <1>4, <2>1
    <3>2. Len(chain) - k + 1 \in 0 .. Len(chain)
      BY <1>1
    <3> QED BY <1>1, <2>1, <3>1, <3>2, PageTypes
  <2>2. CASE ~faithful
    BY <2>2, BoundedAnswer DEF ChainAnswers
  <2> QED BY <2>1, <2>2
<1>6. StartInv'
  BY <1>3 DEF IInv, StartInv
<1>7. CASE page = << >>
  <2>1. phase' = "done" /\ UNCHANGED <<got, cursor, pageCount>>
    BY <1>2, <1>7
  <2>2. TypeOK' /\ PoolInv'
    BY <1>1, <1>3, <2>1 DEF TypeOK, IInv, PoolInv
  <2>3. DoneInv'
    <3> SUFFICES ASSUME faithful, NEW t \in start.chain PROVE Read(t)
      BY <1>3, <2>1 DEF DoneInv, Read
    <3>1. PICK k \in 1 .. Len(chain) : ReadFrom(k) /\ page = Page(Len(chain) - k + 1)
      BY <1>4
    <3>2. Len(chain) - k + 1 = Len(chain)
      <4>1. Len(chain) - k + 1 \in 0 .. Len(chain) /\ Len(chain) \in Nat
        BY <1>1
      <4> QED BY <1>1, <1>7, <3>1, <4>1, PageContents
    <3>3. k = 1
      BY <1>1, <3>2
    <3>4. PICK i \in 1 .. Len(chain) : t = chain[i]
      BY <1>1 DEF IInv, StartInv, ToSet
    <3> QED BY <3>1, <3>3, <3>4 DEF ReadFrom
  <2> QED BY <1>1, <1>3, <1>6, <2>1, <2>2, <2>3 DEF IInv, PageInv
<1>8. CASE page # << >>
  <2>1. AddPage({}, page) /\ pageCount' = pageCount + 1 /\ phase' = "next"
    BY <1>1, <1>2, <1>8
  <2>2. /\ got' \in [Tx -> Seen] /\ cursor' \in Tx /\ cursor' = Last(page)
        /\ \A t \in Tx : Read(t) \/ Contains(page, t) => Read(t)'
        /\ \A t \in Tx : got[t] # "absent" => got'[t] # "absent"
    BY <1>1, <1>5, <1>8, <2>1, AddPageReads
  <2>3. TypeOK'
    BY <1>1, <1>3, <2>1, <2>2 DEF TypeOK
  <2>4. PoolInv'
    BY <1>1, <1>3, <2>1, <2>2 DEF IInv, PoolInv, StartInv
  <2>5. PageInv'
    <3> SUFFICES ASSUME faithful
                 PROVE  \E j \in 1 .. Len(chain) : cursor' = chain[j] /\ ReadFrom(j)'
      BY <1>3 DEF PageInv
    <3>1. PICK k \in 1 .. Len(chain) : ReadFrom(k) /\ page = Page(Len(chain) - k + 1)
      BY <1>4
    <3>2. Len(chain) - k + 1 \in 0 .. Len(chain) /\ Len(chain) \in Nat
          /\ Len(chain) - (Len(chain) - k + 1) = k - 1
      BY <1>1
    <3>3. Len(chain) - k + 1 < Len(chain)
      <4>1. Len(chain) - k + 1 # Len(chain)
        BY <1>1, <1>8, <3>1, <3>2, PageContents
      <4> QED BY <3>2, <4>1
    <3>4. PICK j \in 1 .. k - 1 : /\ Last(page) = chain[j]
                                  /\ \A i \in j .. k - 1 : Contains(page, chain[i])
      BY <1>1, <3>1, <3>2, <3>3, PageContents
    <3>5. ReadFrom(j)'
      <4> SUFFICES ASSUME NEW i \in j .. Len(chain), chain[i] \in start.chain
                   PROVE  Read(chain[i])'
        BY <1>3 DEF ReadFrom
      <4>1. i \in 1 .. Len(chain) /\ chain[i] \in Tx
        BY <1>1, <3>4
      <4>2. i \in j .. k - 1 \/ i \in k .. Len(chain)
        BY <3>2, <4>1
      <4> QED BY <1>3, <2>2, <3>1, <3>4, <4>1, <4>2 DEF ReadFrom, Read
    <3> QED BY <2>2, <3>2, <3>4, <3>5
  <2> QED BY <1>1, <1>3, <1>6, <2>1, <2>2, <2>3, <2>4, <2>5 DEF IInv, DoneInv
<1> QED BY <1>7, <1>8

(* Giving up returns no history.                                               *)
LEMMA StopStep == ASSUME IInv, StopPaging \/ RequestFails PROVE IInv'
BY DEF StopPaging, RequestFails, nodeVars, IInv, TypeOK, StartInv, PageInv, PoolInv, DoneInv

(* Whatever the node does between two requests, the cursor divides the chain   *)
(* into what is read and what is still below.                                  *)
THEOREM HistoryInductive == Init /\ [][Next]_vars => []IInv
<1>1. IInv /\ [Next]_vars => IInv'
  <2> SUFFICES ASSUME IInv, [Next]_vars PROVE IInv'
    OBVIOUS
  <2>1. CASE UNCHANGED vars
    BY <2>1 DEF vars, nodeVars, readVars, IInv, TypeOK, StartInv, PageInv, PoolInv, DoneInv,
                ReadFrom, Read
  <2>2. CASE Next
    BY <2>2, NodeStep, FirstStep, ReadNextStep, StopStep DEF Next, Reader
  <2> QED BY <2>1, <2>2
<1> QED BY <1>1, InitIInv, PTL

(* The node and the reader of get_all_address_transactions keep their types,   *)
(* and never read more than the page limit.                                    *)
THEOREM HistoryTypes == Spec => []TypeOK
<1>1. IInv => TypeOK
  BY DEF IInv
<1> QED BY <1>1, HistoryInductive, PTL DEF Spec

(* get_all_address_transactions returns everything that was confirmed at its   *)
(* first answer, and the mempool if it fits on one page.                       *)
THEOREM HistoriesComplete == Spec => []HistoryComplete
<1>1. IInv => HistoryComplete
  BY DEF IInv, PoolInv, DoneInv, Read, HistoryComplete
<1> QED BY <1>1, HistoryInductive, PTL DEF Spec
=============================================================================
