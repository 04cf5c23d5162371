------------------------- MODULE WalletSync_proofs -------------------------
(* Proofs about WalletSync, for any number of scanners, any transactions,   *)
(* coins, addresses and modes, and any bound on events.  The cache is        *)
(* written by sections that work on stale reads, so what is proved is what   *)
(* such reads can and cannot be wrong about: a scan may miss what happened   *)
(* since, but it never takes a transaction for confirmed that is not, and    *)
(* never sees a coin at an address it does not also report as used.          *)
(* A scan during which nothing happened is wrong about nothing: then the     *)
(* cached coins are the node's and every pending transaction it knows has    *)
(* been observed, so that the effective balance is exact.                    *)
EXTENDS WalletSync, FiniteSetTheorems, WellFoundedInduction, TLAPS

(***************************************************************************)
(* Sums of satoshis.  ValueOf folds over a set in an order the code leaves  *)
(* to Python; the fold is a recursive function on the subsets of a finite   *)
(* set, found here by building it up from the smaller subsets.              *)
(***************************************************************************)

Pick(S) == CHOOSE x \in S : TRUE

(* f adds up W over the sets it is defined for.                              *)
Adds(f, W) ==
  \A S \in DOMAIN f : f[S] = IF S = {} THEN 0 ELSE W[Pick(S)] + f[S \ {Pick(S)}]

(* A nonempty set of natural numbers has a least one.                        *)
LEMMA Least ==
  ASSUME NEW T, T \subseteq Nat, T # {}
  PROVE  \E n \in T : n \in Nat /\ \A m \in T : n <= m
<1>1. IsWellFoundedOn(OpToRel(<, Nat), Nat)
  BY NatLessThanWellFounded, Zenon
<1>2. PICK R : R = OpToRel(<, Nat)
  OBVIOUS
<1>3. \A x, y \in Nat : y < x => <<y, x>> \in R
  BY <1>2 DEF OpToRel
<1>4. PICK n \in T : \A m \in T : ~ (<<m, n>> \in R)
  BY <1>1, <1>2, WFMin
<1>5. \A m \in T : m \in Nat /\ n \in Nat /\ ~(m < n)
  BY <1>3, <1>4
<1> QED BY <1>4, <1>5

(* Taking one element leaves a smaller set.                                  *)
LEMMA PickOne ==
  ASSUME NEW S, IsFiniteSet(S), NEW Q \in SUBSET S, Q # {}
  PROVE  /\ Pick(Q) \in Q /\ Q \ {Pick(Q)} \in SUBSET S
         /\ Cardinality(Q) \in Nat /\ Cardinality(Q \ {Pick(Q)}) = Cardinality(Q) - 1
<1>1. Pick(Q) \in Q
  BY DEF Pick
<1>2. IsFiniteSet(Q)
  BY FS_Subset
<1>3. Cardinality(Q) \in Nat /\ Cardinality(Q \ {Pick(Q)}) = Cardinality(Q) - 1
  BY <1>1, <1>2, FS_RemoveElement, FS_CardinalityType
<1> QED BY <1>1, <1>3

(* The subsets of S with at most n elements have a function that adds up W.  *)
LEMMA SumExists ==
  ASSUME NEW S, IsFiniteSet(S), NEW W, \A x \in S : W[x] \in Nat
  PROVE  \E f \in [SUBSET S -> Nat] : Adds(f, W)
<1> DEFINE Small(n) == {Q \in SUBSET S : Cardinality(Q) <= n}
           Good == {n \in Nat : \E f \in [Small(n) -> Nat] : Adds(f, W)}
<1>2. Nat \subseteq Good
  <2> SUFFICES ASSUME ~(Nat \subseteq Good) PROVE FALSE
    OBVIOUS
  <2> DEFINE Bad == Nat \ Good
  <2>1. Bad \subseteq Nat /\ Bad # {}
    OBVIOUS
  <2>2. PICK n \in Bad : \A m \in Bad : n <= m
    <3> HIDE DEF Bad
    <3> QED BY <2>1, Least
  <2>3. n \in Nat /\ n \notin Good
    OBVIOUS
  <2>4. ASSUME n = 0 PROVE FALSE
    <3> DEFINE f == [Q \in Small(n) |-> 0]
    <3>1. \A Q \in Small(n) : Q = {}
      BY <2>4, FS_Subset, FS_EmptySet, FS_CardinalityType
    <3>2. f \in [Small(n) -> Nat] /\ Adds(f, W)
      BY <3>1 DEF Adds
    <3> QED BY <2>3, <3>2
  <2>5. n - 1 \in Good
    <3>1. n - 1 \in Nat /\ n - 1 < n
      BY <2>3, <2>4
    <3>2. n - 1 \notin Bad
      <4> HIDE DEF Bad
      <4> QED BY <2>2, <2>3, <3>1
    <3> QED BY <3>1, <3>2
  <2>6. PICK f \in [Small(n - 1) -> Nat] : Adds(f, W)
    BY <2>5
  <2> DEFINE g == [Q \in Small(n) |->
                     IF Q = {} THEN 0 ELSE W[Pick(Q)] + f[Q \ {Pick(Q)}]]
  <2>7. Small(n - 1) \subseteq Small(n)
    BY <2>3, FS_Subset, FS_CardinalityType
  <2>8. \A Q \in Small(n) : Q # {} => Pick(Q) \in S /\ Q \ {Pick(Q)} \in Small(n - 1)
    BY <2>3, PickOne
  <2>9. g \in [Small(n) -> Nat]
    <3> HIDE DEF Small
    <3> QED BY <2>6, <2>8
  <2>10. \A Q \in Small(n - 1) : g[Q] = f[Q]
    <3> HIDE DEF Small
    <3> QED BY <2>6, <2>7 DEF Adds
  <2>11. Adds(g, W)
    <3> HIDE DEF Small
    <3> QED BY <2>8, <2>10 DEF Adds
  <2> QED BY <2>3, <2>9, <2>11
<1>3. Cardinality(S) \in Nat
  BY FS_CardinalityType
<1>4. Small(Cardinality(S)) = SUBSET S
  BY FS_Subset
<1> QED BY <1>2, <1>3, <1>4

(* Whatever adds up natural numbers over the subsets of S gives a number.    *)
LEMMA SumIsNat ==
  ASSUME NEW S, IsFiniteSet(S), NEW W, \A x \in S : W[x] \in Nat,
         NEW f, DOMAIN f = SUBSET S, Adds(f, W)
  PROVE  \A Q \in SUBSET S : f[Q] \in Nat
<1> DEFINE Bad == {Q \in SUBSET S : f[Q] \notin Nat}
<1> SUFFICES ASSUME Bad # {} PROVE FALSE
  OBVIOUS
<1> DEFINE Sizes == {Cardinality(Q) : Q \in Bad}
<1>2. Sizes \subseteq Nat /\ Sizes # {}
  BY FS_Subset, FS_CardinalityType
<1>3. PICK n \in Sizes : \A m \in Sizes : n <= m
  <2> HIDE DEF Sizes, Bad
  <2> QED BY <1>2, Least
<1>4. PICK Q \in Bad : n = Cardinality(Q)
  OBVIOUS
<1>5. f[Q] = IF Q = {} THEN 0 ELSE W[Pick(Q)] + f[Q \ {Pick(Q)}]
  BY <1>4 DEF Adds
<1>6. Q # {}
  BY <1>4, <1>5
<1>7. /\ Pick(Q) \in Q /\ Q \ {Pick(Q)} \in SUBSET S
      /\ Cardinality(Q) \in Nat /\ Cardinality(Q \ {Pick(Q)}) = Cardinality(Q) - 1
  BY <1>4, <1>6, PickOne
<1>8. Q \ {Pick(Q)} \in Bad
  BY <1>4, <1>5, <1>6, <1>7
<1>9. n - 1 \in Sizes /\ n - 1 \in Nat /\ n \in Nat /\ n - 1 < n
  BY <1>2, <1>4, <1>7, <1>8
<1> QED BY <1>3, <1>9

(* The value of a set of coins is a number, and that of no coins is 0.       *)
LEMMA ValueIsNat == ASSUME NEW S \in SUBSET Coin PROVE ValueOf(S) \in Nat
<1> DEFINE Iter(f) == f = [Q \in SUBSET S |->
                             IF Q = {} THEN 0 ELSE Value[Pick(Q)] + f[Q \ {Pick(Q)}]]
           iter == CHOOSE f : Iter(f)
<1>1. IsFiniteSet(S) /\ \A x \in S : Value[x] \in Nat
  BY CoinAssumption, FS_Subset
<1>2. \E f : Iter(f)
  <2>1. PICK f \in [SUBSET S -> Nat] : Adds(f, Value)
    BY <1>1, SumExists
  <2> QED BY <2>1 DEF Adds
<1>3. Iter(iter)
  BY <1>2, Zenon
<1>4. ValueOf(S) = iter[S]
  BY DEF ValueOf, MapThenSumSet, MapThenFoldSet, Pick
<1> HIDE DEF iter
<1>5. DOMAIN iter = SUBSET S /\ Adds(iter, Value)
  BY <1>3 DEF Adds
<1> QED BY <1>1, <1>4, <1>5, SumIsNat

(* The deltas of no transactions add up to 0.                                *)
LEMMA NothingAddsUp == MapThenSumSet(Delta, {}) = 0
<1> DEFINE Iter(f) == f = [Q \in SUBSET {} |->
                             IF Q = {} THEN 0 ELSE Delta(Pick(Q)) + f[Q \ {Pick(Q)}]]
           iter == CHOOSE f : Iter(f)
<1>1. \E f : Iter(f)
  <2>1. SUBSET {} = {{}}
    OBVIOUS
  <2>2. Iter([Q \in SUBSET {} |-> 0])
    BY <2>1
  <2> QED BY <2>2
<1>2. Iter(iter)
  BY <1>1, Zenon
<1>3. MapThenSumSet(Delta, {}) = iter[{}]
  BY DEF MapThenSumSet, MapThenFoldSet, Pick
<1> HIDE DEF iter
<1> QED BY <1>2, <1>3

-----------------------------------------------------------------------------
(* A coin is blocked only by a pending transaction that spends it:           *)
(* record_successful_broadcast writes both, merge_wallet_snapshot drops both.*)
PendingInv ==
  \A x \in Coin : pendSpent[x] # NoTx =>
    pendSpent[x] \in pending /\ x \in Spends[pendSpent[x]]

(* What a scan has gathered is true, however late it is merged: confirmed    *)
(* stays confirmed, coins come with their touched address, and the section   *)
(* that marks addresses used comes before the merge.                         *)
Sound(s) ==
  /\ scan[s].seenConfirmed \subseteq mined
  /\ \A x \in Coin : scan[s].coins[x] # "absent" => At[x] \in scan[s].touched
  /\ scan[s].pc = "merge" => scan[s].touched \subseteq used

(* Every scanner's gathered state is sound.                                  *)
ScanInv == \A s \in Syncer : Sound(s)

(* The inductive invariant: types, the pending block, sound scans, and the   *)
(* two properties that rest on them.                                         *)
IInv == TypeOK /\ PendingInv /\ ScanInv /\ UnminedCoinsBlocked /\ CachedCoinsUsed

USE TxAssumption, CoinAssumption, ScanAssumption DEF Modes

(* A scanner that has gathered nothing is a well-typed, sound scan.          *)
LEMMA IdleScan ==
  /\ Idle \in Scans /\ Idle.seenConfirmed = {} /\ Idle.pc = "idle"
  /\ \A x \in Coin : Idle.coins[x] = "absent"
<1>1. NoCoins \in [Coin -> Status] /\ \A x \in Coin : NoCoins[x] = "absent"
  BY DEF NoCoins, Status
<1>2. << >> = SubSeq(Book, Len(Book) + 1, Len(Book))
  OBVIOUS
<1>3. Len(Book) + 1 \in 1 .. Len(Book) + 1 /\ Len(Book) \in 0 .. Len(Book)
  OBVIOUS
<1>4. << >> \in Pieces
  BY <1>2, <1>3 DEF Pieces
<1> QED BY <1>1, <1>4 DEF Idle, Scans

(* What is left of a prefix of the book from some address on is a piece.     *)
LEMMA PieceOf ==
  ASSUME NEW i \in 1 .. Len(Book) + 1, NEW n \in 0 .. Len(Book),
         NEW q, q = SubSeq(Book, i, n)
  PROVE  q \in Pieces
  BY DEF Pieces

(* Reading the first address of a piece of the book leaves a piece.          *)
LEMMA TailLeft ==
  ASSUME NEW q \in Pieces, q # << >>
  PROVE  Head(q) \in Address /\ Tail(q) \in Pieces
<1>1. PICK i \in 1 .. Len(Book) + 1, n \in 0 .. Len(Book) : q = SubSeq(Book, i, n)
  BY DEF Pieces
<1>2. i \in 1 .. n /\ i \in 1 .. Len(Book)
  BY <1>1
<1>3. Head(q) = Book[i]
  BY <1>1, <1>2
<1>4. Tail(q) = SubSeq(Book, i + 1, n)
  BY <1>1, <1>2
<1>5. Book[i] \in Address
  BY <1>2 DEF Address
<1>6. i + 1 \in 1 .. Len(Book) + 1
  BY <1>2
<1>7. Tail(q) \in Pieces
  BY <1>4, <1>6, PieceOf
<1> QED BY <1>3, <1>5, <1>7

(* An empty cache, an idle scanner and an empty network satisfy IInv.        *)
LEMMA InitIInv == Init => IInv
<1> SUFFICES ASSUME Init PROVE IInv
  OBVIOUS
<1> USE DEF Init
<1>1. TypeOK
  BY IdleScan DEF TypeOK, Status
<1>2. PendingInv /\ UnminedCoinsBlocked /\ CachedCoinsUsed
  BY DEF PendingInv, UnminedCoinsBlocked, CachedCoinsUsed
<1>3. ScanInv
  BY IdleScan DEF ScanInv, Sound
<1> QED BY <1>1, <1>2, <1>3 DEF IInv

-----------------------------------------------------------------------------
(* Steps that leave the files and the scans alone.                         *)

(* The network's steps change no file, and mined transactions stay mined.    *)
LEMMA NetworkStep ==
  ASSUME IInv, NEW t \in Tx, Receive(t) \/ Mine(t) \/ Evict(t) PROVE IInv'
<1>1. /\ TypeOK /\ mined \subseteq mined' /\ events' \in 0 .. EventLimit
      /\ calm' = {} /\ exact' = FALSE
      /\ UNCHANGED <<active, replied, entryVars, bookVars, scan, recVars>>
  BY DEF Receive, Mine, Evict, Enter, Tick, IInv, TypeOK
<1> USE DEF entryVars, bookVars, recVars
<1>2. mempool' \subseteq Tx /\ mined' \subseteq Tx /\ mempool' \cap mined' = {}
  BY DEF Receive, Mine, Evict, Enter, Known, IInv, TypeOK
<1>3. TypeOK'
  BY <1>1, <1>2 DEF TypeOK
<1>4. PendingInv' /\ CachedCoinsUsed'
  BY <1>1 DEF IInv, PendingInv, CachedCoinsUsed
<1>5. ScanInv'
  BY <1>1 DEF IInv, ScanInv, Sound
<1>6. UnminedCoinsBlocked'
  BY <1>1 DEF IInv, UnminedCoinsBlocked, Spent
<1> QED BY <1>3, <1>4, <1>5, <1>6 DEF IInv

(* A new address is no business of the cache.                                *)
LEMMA IssueStep == ASSUME IInv, IssueAddress PROVE IInv'
<1>1. issued' \in FirstIssued .. Len(Book)
  BY DEF IssueAddress, IInv, TypeOK
<1>2. UNCHANGED <<netVars, entryVars, used, scan, histVars>>
  BY DEF IssueAddress
<1> USE DEF netVars, entryVars, histVars, recVars
<1>3. TypeOK'
  BY <1>1, <1>2 DEF IInv, TypeOK
<1>4. PendingInv' /\ CachedCoinsUsed' /\ ScanInv' /\ UnminedCoinsBlocked'
  BY <1>2 DEF IInv, PendingInv, CachedCoinsUsed, ScanInv, Sound, UnminedCoinsBlocked, Spent
<1> QED BY <1>3, <1>4 DEF IInv

(* Preparing, cancelling and posting a payment leave the accounting alone.   *)
LEMMA DraftStep ==
  ASSUME IInv, Cancel \/ \E t \in Local : Draft(t) \/ \E lost \in BOOLEAN : Post(t, lost)
  PROVE  IInv'
<1>1. /\ TypeOK /\ mined' = mined /\ events' \in 0 .. EventLimit
      /\ calm' \in SUBSET calm /\ exact' \in BOOLEAN
      /\ UNCHANGED <<entryVars, bookVars, scan, recVars>>
  <2>1. TypeOK /\ events \in 0 .. EventLimit /\ EventLimit \in Nat /\ exact \in BOOLEAN
    BY DEF IInv, TypeOK
  <2>2. ASSUME \E t \in Local, lost \in BOOLEAN : Post(t, lost)
        PROVE  /\ mined' = mined /\ events' = events + 1 /\ events < EventLimit
               /\ calm' = {} /\ exact' = FALSE
               /\ UNCHANGED <<entryVars, bookVars, scan, recVars>>
    BY <2>2 DEF Post, Tick
  <2>3. ASSUME Cancel \/ \E t \in Local : Draft(t)
        PROVE  mined' = mined /\ UNCHANGED <<entryVars, bookVars, scan, histVars>>
    BY <2>3 DEF Draft, Cancel
  <2>4. CASE Cancel \/ \E t \in Local : Draft(t)
    BY <2>1, <2>3, <2>4 DEF histVars
  <2>5. CASE \E t \in Local, lost \in BOOLEAN : Post(t, lost)
    <3>1. /\ mined' = mined /\ events' = events + 1 /\ events < EventLimit
          /\ calm' = {} /\ exact' = FALSE
          /\ UNCHANGED <<entryVars, bookVars, scan, recVars>>
      BY <2>2, <2>5, Zenon
    <3>2. exact' \in BOOLEAN
      BY <3>1, Zenon
    <3>3. events' \in 0 .. EventLimit
      BY <2>1, <3>1
    <3> QED BY <2>1, <3>1, <3>2, <3>3
  <2> QED BY <2>4, <2>5
<1> USE DEF entryVars, bookVars, recVars
<1>2. /\ mempool' \subseteq Tx /\ mempool' \cap mined = {}
      /\ active' \in Local \cup {NoTx} /\ replied' \subseteq Local
  BY DEF Draft, Cancel, Post, Enter, Known, IInv, TypeOK
<1>3. TypeOK'
  BY <1>1, <1>2 DEF TypeOK
<1>4. PendingInv' /\ CachedCoinsUsed' /\ ScanInv'
  BY <1>1 DEF IInv, PendingInv, CachedCoinsUsed, ScanInv, Sound
<1>5. UnminedCoinsBlocked'
  BY <1>1 DEF IInv, UnminedCoinsBlocked, Spent
<1> QED BY <1>3, <1>4, <1>5 DEF IInv

(* record_successful_broadcast makes the transaction pending and blocks all  *)
(* its coins in one section.                                                 *)
LEMMA RecordStep == ASSUME IInv, NEW t \in Local, Record(t) PROVE IInv'
<1> USE DEF Record, Tick, bookVars
<1>5. pendSpent' \in [Coin -> Local \cup {NoTx}] /\ events' \in 0 .. EventLimit
  BY DEF IInv, TypeOK
<1>6. /\ replied' \subseteq Local /\ recorded' \subseteq Local /\ pending' \subseteq Local
      /\ active' \in Local \cup {NoTx} /\ observed' \subseteq pending' /\ listed' \subseteq Tx
      /\ discarded' \subseteq Local
  BY DEF IInv, TypeOK
<1>1. TypeOK'
  BY <1>5, <1>6 DEF IInv, TypeOK
<1>2. /\ CachedCoinsUsed' /\ ScanInv'
      /\ \A x \in Coin : pendSpent'[x] = IF x \in Spends[t] THEN t ELSE pendSpent[x]
  BY DEF IInv, CachedCoinsUsed, ScanInv, Sound, TypeOK
<1>3. PendingInv'
  BY <1>2 DEF IInv, PendingInv
<1>4. UnminedCoinsBlocked'
  <2> SUFFICES ASSUME NEW u \in recorded' \ discarded'
               PROVE  /\ u \in pending' \cup mined
                      /\ \A x \in Spends[u] : pendSpent'[x] # NoTx \/ x \in Spent(mined)
    BY DEF UnminedCoinsBlocked, Spent
  <2>1. Spends[u] \subseteq Coin
    BY DEF IInv, TypeOK
  <2> QED BY <1>2, <2>1 DEF IInv, UnminedCoinsBlocked
<1> QED BY <1>1, <1>2, <1>3, <1>4 DEF IInv

-----------------------------------------------------------------------------
(* Steps of a scan.                                                        *)

(* A step of one scanner changes that scanner only.                          *)
LEMMA ScanTypes ==
  ASSUME IInv, NEW s \in Syncer, NEW e \in Scans, scan' = [scan EXCEPT ![s] = e]
  PROVE  /\ scan' \in [Syncer -> Scans] /\ scan'[s] = e
         /\ \A r \in Syncer : r # s => scan'[r] = scan[r]
  BY DEF IInv, TypeOK

(* A step that only changes a scan, to a sound one, preserves IInv.          *)
LEMMA ScanOnly ==
  ASSUME IInv, NEW s \in Syncer, NEW e \in Scans, scan' = [scan EXCEPT ![s] = e],
         e.seenConfirmed \subseteq mined,
         \A x \in Coin : e.coins[x] # "absent" => At[x] \in e.touched,
         e.pc # "merge",
         UNCHANGED <<netVars, entryVars, bookVars, recVars, events, exact>>,
         calm' \in SUBSET Syncer
  PROVE  IInv'
<1> USE DEF netVars, entryVars, bookVars, recVars
<1>1. TypeOK'
  BY ScanTypes DEF IInv, TypeOK
<1>2. ScanInv'
  BY ScanTypes DEF IInv, ScanInv, Sound
<1>3. PendingInv' /\ UnminedCoinsBlocked' /\ CachedCoinsUsed'
  BY DEF IInv, PendingInv, UnminedCoinsBlocked, CachedCoinsUsed, Spent
<1> QED BY <1>1, <1>2, <1>3 DEF IInv

(* A scan begins with nothing gathered.                                      *)
LEMMA BeginStep ==
  ASSUME IInv, NEW s \in Syncer, NEW m \in Modes, ScanBegin(s, m) PROVE IInv'
<1> DEFINE e == [Idle EXCEPT !.pc = "coins", !.mode = m, !.book = issued,
                             !.left = SubSeq(Book, 1, issued), !.saved = scan[s].saved]
<1>1. /\ scan' = [scan EXCEPT ![s] = e] /\ calm' = calm \cup {s}
      /\ UNCHANGED <<netVars, entryVars, bookVars, recVars, events, exact>>
  BY DEF ScanBegin
<1>2. issued \in 0 .. Len(Book) /\ scan[s].saved \in SUBSET Tx
  BY DEF IInv, TypeOK, Scans
<1>3. SubSeq(Book, 1, issued) \in Pieces
  BY <1>2 DEF Pieces
<1>4. /\ e \in Scans /\ e.seenConfirmed = Idle.seenConfirmed /\ e.coins = Idle.coins
      /\ e.pc = "coins"
  BY <1>2, <1>3, IdleScan DEF Scans
<1> HIDE DEF e
<1>5. calm' \in SUBSET Syncer
  BY <1>1 DEF IInv, TypeOK
<1>6. e.seenConfirmed \subseteq mined /\ \A x \in Coin : e.coins[x] # "absent" => FALSE
  BY <1>4, IdleScan
<1> QED BY <1>1, <1>4, <1>5, <1>6, ScanOnly

(* A sync of the service reads the addresses before it takes the cache lock. *)
LEMMA IdentityStep == ASSUME IInv, NEW s \in Syncer, ReadIdentity(s) PROVE IInv'
<1> DEFINE e == [Idle EXCEPT !.pc = "identity", !.book = issued]
<1>1. /\ scan' = [scan EXCEPT ![s] = e]
      /\ UNCHANGED <<netVars, entryVars, bookVars, histVars>>
  BY DEF ReadIdentity
<1>2. issued \in 0 .. Len(Book)
  BY DEF IInv, TypeOK
<1>3. /\ e \in Scans /\ e.seenConfirmed = Idle.seenConfirmed /\ e.coins = Idle.coins
      /\ e.pc = "identity"
  BY <1>2, IdleScan DEF Scans
<1> HIDE DEF e
<1>4. e.seenConfirmed \subseteq mined /\ \A x \in Coin : e.coins[x] # "absent" => FALSE
  BY <1>3, IdleScan
<1>5. calm' \in SUBSET Syncer /\ UNCHANGED <<recVars, events, exact>>
  BY <1>1 DEF histVars, IInv, TypeOK
<1> QED BY <1>1, <1>3, <1>4, <1>5, ScanOnly

(* Saving the history changes the scan alone.                                *)
LEMMA SaveStep == ASSUME IInv, NEW s \in Syncer, SaveHistory(s) PROVE IInv'
<1> DEFINE e == IF HasEntry
                THEN [Idle EXCEPT !.pc = "begin", !.mode = "funding", !.saved = listed]
                ELSE [Idle EXCEPT !.pc = "begin", !.mode = "utxo"]
<1>1. /\ scan' = [scan EXCEPT ![s] = e]
      /\ UNCHANGED <<netVars, entryVars, bookVars, histVars>>
  BY DEF SaveHistory
<1>2. /\ e \in Scans /\ e.seenConfirmed = Idle.seenConfirmed /\ e.coins = Idle.coins
      /\ e.pc = "begin"
  BY IdleScan DEF IInv, TypeOK, Scans
<1> HIDE DEF e
<1>3. e.seenConfirmed \subseteq mined /\ \A x \in Coin : e.coins[x] # "absent" => FALSE
  BY <1>2, IdleScan
<1>4. calm' \in SUBSET Syncer /\ UNCHANGED <<recVars, events, exact>>
  BY <1>1 DEF histVars, IInv, TypeOK
<1> QED BY <1>1, <1>2, <1>3, <1>4, ScanOnly

(* A discarded entry takes the pending transactions and their blocks with    *)
(* it, and counts them as discarded; what was recorded and not pending is    *)
(* mined, and so are the coins it spends.                                    *)
LEMMA DiscardStep ==
  ASSUME IInv, NEW s \in Syncer, NEW m \in Modes, DiscardStale(s, m) PROVE IInv'
<1> USE DEF bookVars
<1> DEFINE e == IF m = "funding" THEN [Idle EXCEPT !.pc = "save", !.mode = m] ELSE Idle
<1>1. /\ scan' = [scan EXCEPT ![s] = e]
      /\ UNCHANGED <<mempool, mined, replied, bookVars, recorded, events, calm>>
  BY DEF DiscardStale, IInv, TypeOK
<1>2. /\ e \in Scans /\ e.seenConfirmed = {} /\ e.coins = Idle.coins
      /\ e.pc # "merge"
  BY IdleScan DEF Scans
<1> HIDE DEF e
<1>3. ScanInv'
  BY <1>1, <1>2, IdleScan, ScanTypes DEF IInv, ScanInv, Sound
<1>4. CASE DropEntry
  <2> USE DEF DropEntry
  <2>1. utxos' \in [Coin -> Status] /\ \A x \in Coin : utxos'[x] = "absent"
    BY <1>4 DEF NoCoins, Status
  <2>5. /\ pendSpent' \in [Coin -> Local \cup {NoTx}] /\ discarded' \subseteq Local
        /\ addresses' \in 0 .. Len(Book) /\ observed' \subseteq pending'
        /\ pending' \subseteq Local /\ listed' \subseteq Tx
        /\ active' \in Local \cup {NoTx}
    BY <1>4 DEF IInv, TypeOK
  <2>7. exact' \in BOOLEAN
    BY <1>4, Zenon
  <2>6. scan' \in [Syncer -> Scans]
    BY <1>1, <1>2, ScanTypes
  <2>2. TypeOK'
    BY <1>1, <2>1, <2>5, <2>6, <2>7 DEF IInv, TypeOK
  <2>3. PendingInv' /\ CachedCoinsUsed'
    BY <1>4, <2>1 DEF PendingInv, CachedCoinsUsed
  <2>4. UnminedCoinsBlocked'
    <3> SUFFICES ASSUME NEW t \in recorded \ discarded, t \notin pending
                 PROVE  t \in mined /\ \A x \in Spends[t] : x \in Spent(mined)
      BY <1>1, <1>4 DEF UnminedCoinsBlocked, Spent
    <3>1. t \in mined
      BY DEF IInv, UnminedCoinsBlocked
    <3> QED BY <3>1 DEF Spent
  <2> QED BY <1>3, <2>2, <2>3, <2>4 DEF IInv
<1>5. CASE UNCHANGED <<entryVars, active, discarded, exact>>
  <2> USE DEF entryVars
  <2>1. TypeOK'
    BY <1>1, <1>2, <1>5, ScanTypes DEF IInv, TypeOK
  <2>2. PendingInv' /\ UnminedCoinsBlocked' /\ CachedCoinsUsed'
    BY <1>1, <1>5 DEF IInv, PendingInv, UnminedCoinsBlocked, CachedCoinsUsed, Spent
  <2> QED BY <1>3, <2>1, <2>2 DEF IInv
<1> QED BY <1>4, <1>5 DEF DiscardStale

(* A scan that fails or is killed leaves nothing behind.                     *)
LEMMA AbortStep == ASSUME IInv, NEW s \in Syncer, ScanAbort(s) PROVE IInv'
<1>1. calm' \in SUBSET Syncer
  BY DEF ScanAbort, IInv, TypeOK
<1> QED BY <1>1, IdleScan, ScanOnly DEF ScanAbort

(* The coins of an address and whether it is touched are one answer.         *)
LEMMA CoinsStep == ASSUME IInv, NEW s \in Syncer, ReadCoins(s) PROVE IInv'
<1> DEFINE old == scan[s]
           a == Head(old.left)
           coins == [x \in Coin |-> IF At[x] = a THEN NodeStatus(x) ELSE old.coins[x]]
           touched == IF Touched(a) THEN old.touched \cup {a} ELSE old.touched
           to == IF old.mode = "full" THEN "history" ELSE "coins"
           at == IF old.mode = "full" THEN {a} ELSE {}
           e == [old EXCEPT !.coins = coins, !.touched = touched, !.left = Tail(old.left),
                            !.at = at, !.pc = to]
<1>1. old \in Scans /\ scan \in [Syncer -> Scans] /\ Sound(s)
  BY DEF IInv, TypeOK, ScanInv
<1>2. /\ scan' = [scan EXCEPT ![s] = e] /\ old.left # << >>
      /\ UNCHANGED <<netVars, entryVars, bookVars, histVars>>
  BY <1>1 DEF ReadCoins
<1>3. a \in Address /\ Tail(old.left) \in Pieces
  BY <1>1, <1>2, TailLeft DEF Scans
<1>4. coins \in [Coin -> Status] /\ touched \in SUBSET Address
  BY <1>1, <1>3 DEF Scans, NodeStatus, Status
<1>5. \A x \in Coin : NodeStatus(x) # "absent" => Touched(At[x])
  BY DEF NodeStatus, Unspent, Touched, HistoryOf, Touches, Created
<1>6. \A x \in Coin : coins[x] # "absent" => At[x] \in touched
  BY <1>1, <1>5 DEF Sound
<1> HIDE DEF coins, touched, a
<1>7. e \in Scans
  BY <1>1, <1>3, <1>4 DEF Scans
<1>8. e.coins = coins /\ e.touched = touched /\ e.seenConfirmed = old.seenConfirmed
      /\ e.pc = to
  BY <1>1 DEF Scans
<1> HIDE DEF e
<1> QED BY <1>1, <1>2, <1>6, <1>7, <1>8, ScanOnly DEF Sound, histVars, IInv, TypeOK

(* A history answer adds only transactions that are mined at that moment.    *)
LEMMA HistoryStep == ASSUME IInv, NEW s \in Syncer, ReadHistory(s) PROVE IInv'
<1> DEFINE old == scan[s]
           answer == UNION {HistoryOf(b) : b \in old.at}
           confirmed == old.seenConfirmed \cup ((answer \cap mined) \ old.seen)
           touched == IF answer # {} THEN old.touched \cup old.at ELSE old.touched
           e == [old EXCEPT !.seenConfirmed = confirmed, !.seen = old.seen \cup answer,
                            !.touched = touched, !.at = {}, !.pc = "coins"]
<1>1. old \in Scans /\ scan \in [Syncer -> Scans] /\ Sound(s)
  BY DEF IInv, TypeOK, ScanInv
<1>2. /\ scan' = [scan EXCEPT ![s] = e]
      /\ UNCHANGED <<netVars, entryVars, bookVars, histVars>>
  BY <1>1 DEF ReadHistory
<1>3. answer \subseteq Tx
  BY DEF HistoryOf, Known, IInv, TypeOK
<1> HIDE DEF answer
<1>4. /\ confirmed \in SUBSET Tx /\ touched \in SUBSET Address /\ old.touched \subseteq touched
      /\ confirmed \subseteq mined
  BY <1>1, <1>3 DEF Scans, Sound
<1> HIDE DEF confirmed, touched
<1>5. e \in Scans /\ e.coins = old.coins /\ e.touched = touched
      /\ e.seenConfirmed = confirmed /\ e.pc = "coins"
  BY <1>1, <1>3, <1>4 DEF Scans
<1> HIDE DEF e
<1> QED BY <1>1, <1>2, <1>4, <1>5, ScanOnly DEF Sound, histVars, IInv, TypeOK

(* Restoring the saved history touches neither blocks nor coins.             *)
LEMMA RestoreStep == ASSUME IInv, NEW s \in Syncer, RestoreHistory(s) PROVE IInv'
<1> USE DEF RestoreHistory, netVars, bookVars, recVars, histVars
<1>1. listed' \subseteq Tx
  BY DEF IInv, TypeOK, Scans
<1>2. TypeOK'
  BY <1>1, IdleScan, ScanTypes DEF IInv, TypeOK
<1>3. ScanInv'
  BY IdleScan, ScanTypes DEF IInv, ScanInv, Sound
<1>4. PendingInv' /\ UnminedCoinsBlocked' /\ CachedCoinsUsed'
  BY DEF IInv, PendingInv, UnminedCoinsBlocked, CachedCoinsUsed, Spent
<1> QED BY <1>2, <1>3, <1>4 DEF IInv

(* Marking the touched addresses used is what allows the merge.              *)
LEMMA MarkStep == ASSUME IInv, NEW s \in Syncer, MarkUsed(s) PROVE IInv'
<1> USE DEF MarkUsed, netVars, entryVars, recVars, histVars
<1> DEFINE e == [scan[s] EXCEPT !.pc = "merge"]
<1>1. scan[s] \in Scans /\ Sound(s)
  BY DEF IInv, TypeOK, ScanInv
<1>2. /\ e \in Scans /\ e.coins = scan[s].coins /\ e.touched = scan[s].touched
      /\ e.seenConfirmed = scan[s].seenConfirmed
  BY <1>1 DEF Scans
<1>3. scan' = [scan EXCEPT ![s] = e]
  BY <1>1 DEF IInv, TypeOK
<1> HIDE DEF e
<1>4. used' = used \cup scan[s].touched /\ used' \subseteq Address
  BY <1>1 DEF IInv, TypeOK, Scans
<1>5. TypeOK'
  BY <1>2, <1>3, <1>4, ScanTypes DEF IInv, TypeOK
<1>6. ScanInv'
  BY <1>1, <1>2, <1>3, <1>4, ScanTypes DEF IInv, ScanInv, Sound
<1>7. PendingInv' /\ UnminedCoinsBlocked' /\ CachedCoinsUsed'
  BY <1>4 DEF IInv, PendingInv, UnminedCoinsBlocked, CachedCoinsUsed, Spent
<1> QED BY <1>5, <1>6, <1>7 DEF IInv

(* The merge drops pending only what the scan saw confirmed, so a coin it    *)
(* unblocks is spent on the chain; and its coins are at addresses marked.    *)
LEMMA MergeStep == ASSUME IInv, NEW s \in Syncer, Merge(s) PROVE IInv'
<1> USE DEF netVars, bookVars, recVars
<1> DEFINE old == scan[s]
           keep == pending \ old.seenConfirmed
           after == [Idle EXCEPT !.pc = "restore", !.mode = "funding", !.saved = old.saved]
           e == IF old.mode = "funding" THEN after ELSE Idle
<1>1. old \in Scans /\ Sound(s) /\ TypeOK
  BY DEF IInv, TypeOK, ScanInv
<1>2. /\ old.pc = "merge" /\ utxos' = old.coins /\ addresses' = old.book
      /\ pending' = keep /\ observed' = keep \cap old.seen
      /\ listed' = old.seen \cup (listed \cap (keep \ (keep \cap old.seen)))
      /\ pendSpent' = [x \in Coin |-> IF pendSpent[x] \in keep THEN pendSpent[x] ELSE NoTx]
      /\ calm' = calm \ {s} /\ exact' \in BOOLEAN
      /\ UNCHANGED <<netVars, bookVars, recVars, events>>
  BY DEF Merge, MergeWith
<1>3. scan' = [scan EXCEPT ![s] = e]
  BY <1>1 DEF Merge, MergeWith
<1>4. /\ after \in Scans /\ after.seenConfirmed = {} /\ after.pc = "restore"
      /\ after.coins = Idle.coins
  BY <1>1, IdleScan DEF Scans
<1> HIDE DEF after
<1>5. /\ e \in Scans /\ e.seenConfirmed = {} /\ e.pc # "merge"
      /\ \A x \in Coin : e.coins[x] = "absent"
  BY <1>4, IdleScan
<1> HIDE DEF e
<1>6. /\ pendSpent' \in [Coin -> Local \cup {NoTx}] /\ listed' \subseteq Tx
      /\ utxos' \in [Coin -> Status] /\ keep \subseteq Local
      /\ addresses' \in 0 .. Len(Book)
  BY <1>1, <1>2 DEF TypeOK, Scans
<1>7. scan' \in [Syncer -> Scans]
  BY <1>3, <1>5, ScanTypes
<1>8. TypeOK'
  BY <1>1, <1>2, <1>6, <1>7 DEF TypeOK
<1>9. ScanInv'
  BY <1>2, <1>3, <1>5, ScanTypes DEF IInv, ScanInv, Sound
<1>10. CachedCoinsUsed'
  BY <1>1, <1>2 DEF Sound, CachedCoinsUsed
<1>11. PendingInv'
  BY <1>2 DEF IInv, PendingInv
<1>12. UnminedCoinsBlocked'
  <2> SUFFICES ASSUME NEW t \in recorded \ discarded
               PROVE  /\ t \in pending' \cup mined
                      /\ \A x \in Spends[t] : pendSpent'[x] # NoTx \/ x \in Spent(mined)
    BY <1>2 DEF UnminedCoinsBlocked, Spent
  <2>1. t \in pending' \cup mined
    BY <1>1, <1>2 DEF IInv, UnminedCoinsBlocked, Sound
  <2>2. ASSUME NEW x \in Spends[t], x \notin Spent(mined) PROVE pendSpent'[x] # NoTx
    <3>1. x \in Coin /\ pendSpent[x] # NoTx
      BY <1>1, <2>2 DEF IInv, UnminedCoinsBlocked, TypeOK
    <3>2. pendSpent[x] \in pending /\ pendSpent[x] \notin mined
      BY <2>2, <3>1 DEF IInv, PendingInv, Spent
    <3> QED BY <1>1, <1>2, <3>1, <3>2 DEF Sound
  <2> QED BY <2>1, <2>2
<1> QED BY <1>8, <1>9, <1>10, <1>11, <1>12 DEF IInv

-----------------------------------------------------------------------------
(* Every step of the network, of a payment and of any scanner preserves      *)
(* IInv.                                                                     *)
THEOREM SyncInductive == IInv /\ [Next]_vars => IInv'
<1> SUFFICES ASSUME IInv, [Next]_vars PROVE IInv'
  OBVIOUS
<1>1. CASE UNCHANGED vars
  BY <1>1 DEF vars, netVars, entryVars, bookVars, recVars, histVars, IInv, TypeOK,
              PendingInv, ScanInv, Sound, UnminedCoinsBlocked, CachedCoinsUsed, Spent
<1>2. CASE Network
  BY <1>2, NetworkStep DEF Network
<1>3. CASE Payment
  BY <1>3, DraftStep, RecordStep DEF Payment
<1>4. ASSUME NEW s \in Syncer, Scan(s) PROVE IInv'
  BY <1>4, IdentityStep, DiscardStep, SaveStep, BeginStep, CoinsStep, HistoryStep,
     MarkStep, MergeStep, RestoreStep, AbortStep DEF Scan
<1> QED BY <1>1, <1>2, <1>3, <1>4, IssueStep DEF Next

(* IInv holds in every reachable state.                                      *)
LEMMA Invariant == Spec => []IInv
<1> QED BY InitIInv, SyncInductive, PTL DEF Spec

(* The cache entry and every scan stay well-typed.                           *)
THEOREM SyncTypes == Spec => []TypeOK
<1>1. IInv => TypeOK
  BY DEF IInv
<1> QED BY <1>1, Invariant, PTL

(* A recorded transaction is pending or mined, and its coins stay blocked    *)
(* until a mined transaction spends them, whichever merges overlap it        *)
(* (sync_wallet), unless a sync discards the entry that records it           *)
(* (_discard_stale_cache_entry).                                             *)
THEOREM RecordedStaysBlocked == Spec => []UnminedCoinsBlocked
<1>1. IInv => UnminedCoinsBlocked
  BY DEF IInv
<1> QED BY <1>1, Invariant, PTL

(* No scan leaves a block behind whose transaction is no longer pending.     *)
THEOREM BlocksArePending == Spec => []BlockedByPending
<1>1. IInv => BlockedByPending
  BY DEF IInv, PendingInv, BlockedByPending
<1> QED BY <1>1, Invariant, PTL

(* No cached coin sits at an address that the address book would offer as    *)
(* fresh: used flags are saved before the merge (_sync_wallet).              *)
THEOREM CachedIsUsed == Spec => []CachedCoinsUsed
<1>1. IInv => CachedCoinsUsed
  BY DEF IInv
<1> QED BY <1>1, Invariant, PTL

-----------------------------------------------------------------------------
(***************************************************************************)
(* The balance after an undisturbed full scan.                             *)
(***************************************************************************)

(* The addresses a scan has not asked for yet.                               *)
Left(s) == {scan[s].left[i] : i \in DOMAIN scan[s].left}

(* What is drafted, posted or recorded spends something.                     *)
ActsInv ==
  /\ active # NoTx => Spends[active] # {}
  /\ \A t \in replied \cup pending : Spends[t] # {}

(* As long as nothing happens, what a scan gathered at the addresses it has  *)
(* asked for is what the node knows; a full scan asks twice per address.     *)
CalmScan(s) ==
  /\ scan[s].pc \in {"coins", "history", "merge"}
  /\ scan[s].pc = "merge" => scan[s].left = << >>
  /\ \A x \in Coin : At[x] \in Left(s) \/ scan[s].coins[x] = NodeStatus(x)
  /\ scan[s].mode = "full" =>
       \A a \in Address :
         \/ a \in Left(s) \/ HistoryOf(a) \subseteq scan[s].seen
         \/ scan[s].pc = "history" /\ a \in scan[s].at

CalmInv == \A s \in calm : CalmScan(s)

(* While the cached full scan is exact, the cache holds the node's coins and *)
(* has observed every pending transaction the node knows.                    *)
ExactInv ==
  exact => /\ \A x \in Coin : utxos[x] = NodeStatus(x)
           /\ pending \cap Known \subseteq observed

(* What the node knows touches addresses that were issued, and no others.    *)
IssuedInv == \A t \in Known : \A x \in Spends[t] \cup Makes[t] : At[x] \in IssuedUpTo(issued)

BalanceInv == ActsInv /\ CalmInv /\ ExactInv /\ IssuedInv

(* What the node answers depends on its transactions only.                   *)
LEMMA SameAnswers ==
  ASSUME UNCHANGED <<mempool, mined>>
  PROVE  /\ Known' = Known /\ \A x : NodeStatus(x)' = NodeStatus(x)
         /\ \A a : HistoryOf(a)' = HistoryOf(a)
  BY DEF Known, NodeStatus, Unspent, Created, Spent, HistoryOf

LEMMA InitBalance == Init => BalanceInv
<1> SUFFICES ASSUME Init PROVE BalanceInv
  OBVIOUS
<1>1. ActsInv /\ CalmInv
  BY DEF Init, ActsInv, CalmInv
<1>2. ExactInv
  BY DEF Init, ExactInv, NodeStatus, Unspent, Created, Spent, Known
<1>3. IssuedInv
  BY DEF Init, IssuedInv, Known
<1> QED BY <1>1, <1>2, <1>3 DEF BalanceInv

(* The wallet's unspent coins are at issued addresses.                       *)
LEMMA UnspentIssued ==
  ASSUME IInv, IssuedInv PROVE \A x \in Unspent : At[x] \in IssuedUpTo(issued)
<1>1. FirstIssued \in Nat /\ issued \in Nat /\ FirstIssued <= issued
  BY DEF IInv, TypeOK
<1>2. ASSUME NEW x \in Genesis PROVE At[x] \in IssuedUpTo(issued)
  <2>1. PICK i \in 1 .. FirstIssued : At[x] = Book[i]
    OBVIOUS
  <2>2. i \in 1 .. issued
    BY <1>1, <2>1
  <2> QED BY <2>1, <2>2 DEF IssuedUpTo
<1> QED BY <1>2 DEF Unspent, Created, IssuedInv

(* A transaction enters the mempool with coins of issued addresses.          *)
LEMMA EnterIssued ==
  ASSUME IInv, IssuedInv, NEW t \in Tx, Enter(t), UNCHANGED <<mined, issued>>
  PROVE  IssuedInv'
<1>1. Known' = Known \cup {t}
  BY DEF Enter, Known
<1>2. \A x \in Spends[t] \cup Makes[t] : At[x] \in IssuedUpTo(issued)
  BY UnspentIssued DEF Enter, PaysIssued
<1> QED BY <1>1, <1>2 DEF IssuedInv, IssuedUpTo

(* What happens in the network or to a payment ends every calm, and only a   *)
(* draft that spends something gets that far.                                *)
LEMMA HappensStep ==
  ASSUME IInv, BalanceInv,
         \/ \E t \in Tx : Receive(t) \/ Mine(t) \/ Evict(t)
         \/ \E t \in Local : Record(t) \/ \E lost \in BOOLEAN : Post(t, lost)
  PROVE  BalanceInv'
<1>1. calm' = {} /\ exact' = FALSE
  BY DEF Receive, Mine, Evict, Record, Post, Tick
<1>2. CalmInv' /\ ExactInv'
  BY <1>1 DEF CalmInv, ExactInv
<1>3. ActsInv'
  <2>1. ASSUME NEW t \in Tx, Receive(t) \/ Mine(t) \/ Evict(t) PROVE ActsInv'
    BY <2>1 DEF BalanceInv, ActsInv, Receive, Mine, Evict, entryVars
  <2>2. ASSUME NEW t \in Local, Record(t) PROVE ActsInv'
    BY <2>2 DEF BalanceInv, ActsInv, Record
  <2>3. ASSUME NEW t \in Local, NEW lost \in BOOLEAN, Post(t, lost) PROVE ActsInv'
    <3>1. /\ active = t /\ active' = active /\ pending' = pending
          /\ replied' \subseteq replied \cup {t}
      BY <2>3 DEF Post, entryVars
    <3>2. t # NoTx
      BY DEF IInv
    <3> QED BY <3>1, <3>2 DEF BalanceInv, ActsInv
  <2> QED BY <2>1, <2>2, <2>3
<1>4. IssuedInv'
  <2>1. ASSUME NEW t \in Tx, Mine(t) \/ Evict(t) \/ Record(t) PROVE IssuedInv'
    BY <2>1 DEF BalanceInv, IssuedInv, Mine, Evict, Record, Known, bookVars
  <2>2. ASSUME NEW t \in Tx, Receive(t) \/ \E lost \in BOOLEAN : Post(t, lost)
        PROVE  IssuedInv'
    BY <2>2, EnterIssued DEF BalanceInv, Receive, Post, bookVars
  <2> QED BY <2>1, <2>2
<1> QED BY <1>2, <1>3, <1>4 DEF BalanceInv

(* Drafts and cancellations are not seen by the node.                        *)
LEMMA QuietStep ==
  ASSUME BalanceInv, Cancel \/ \E t \in Local : Draft(t) PROVE BalanceInv'
<1>1. UNCHANGED <<mempool, mined, replied, entryVars, bookVars, scan, histVars>>
  BY DEF Cancel, Draft
<1>2. active' # NoTx => Spends[active'] # {}
  BY DEF Cancel, Draft
<1> USE DEF entryVars, histVars, recVars
<1>3. ActsInv'
  BY <1>1, <1>2 DEF BalanceInv, ActsInv
<1>4. CalmInv' /\ ExactInv' /\ IssuedInv'
  BY <1>1, SameAnswers
     DEF BalanceInv, CalmInv, CalmScan, Left, ExactInv, IssuedInv, bookVars
<1> QED BY <1>3, <1>4 DEF BalanceInv

(* A new address holds no coin yet.                                          *)
LEMMA IssueCalm == ASSUME IInv, BalanceInv, IssueAddress PROVE BalanceInv'
<1>1. UNCHANGED <<netVars, entryVars, used, scan, histVars>> /\ issued' = issued + 1
  BY DEF IssueAddress
<1> USE DEF netVars, entryVars, histVars
<1>2. ActsInv' /\ CalmInv' /\ ExactInv'
  BY <1>1, SameAnswers DEF BalanceInv, ActsInv, CalmInv, CalmScan, Left, ExactInv
<1>3. IssuedUpTo(issued) \subseteq IssuedUpTo(issued')
  BY <1>1 DEF IInv, TypeOK, IssuedUpTo
<1>4. IssuedInv'
  <2>1. Known' = Known
    BY <1>1 DEF Known
  <2> QED BY <1>3, <2>1 DEF BalanceInv, IssuedInv, IssuedUpTo
<1> QED BY <1>2, <1>4 DEF BalanceInv

(* A step of one scanner that only changes its scan.                         *)
LEMMA CalmOnly ==
  ASSUME IInv, BalanceInv, NEW s \in Syncer,
         \A r \in Syncer : r # s => scan'[r] = scan[r],
         calm' \subseteq calm \cup {s},
         s \in calm' => CalmScan(s)',
         UNCHANGED <<netVars, entryVars, issued, exact>>
  PROVE  BalanceInv'
<1> USE DEF netVars, entryVars, bookVars, recVars
<1>1. ActsInv' /\ ExactInv' /\ IssuedInv'
  BY SameAnswers DEF BalanceInv, ActsInv, ExactInv, IssuedInv
<1>2. ASSUME NEW r \in calm' PROVE CalmScan(r)'
  <2>1. CASE r = s
    BY <2>1, <1>2
  <2>2. CASE r # s
    <3>1. r \in Syncer /\ r \in calm /\ scan'[r] = scan[r]
      BY <1>2, <2>2 DEF IInv, TypeOK
    <3> QED BY <3>1, SameAnswers DEF BalanceInv, CalmInv, CalmScan, Left
  <2> QED BY <2>1, <2>2
<1> QED BY <1>1, <1>2 DEF BalanceInv, CalmInv

(* A scan starts with every issued address left to ask for.                  *)
LEMMA BeginCalm ==
  ASSUME IInv, BalanceInv, NEW s \in Syncer, NEW m \in Modes, ScanBegin(s, m)
  PROVE  BalanceInv'
<1>1. /\ scan'[s].pc = "coins" /\ scan'[s].left = SubSeq(Book, 1, issued)
      /\ scan'[s].coins = NoCoins
      /\ \A r \in Syncer : r # s => scan'[r] = scan[r]
      /\ UNCHANGED <<netVars, entryVars, bookVars, exact>>
  BY DEF ScanBegin, Idle, IInv, TypeOK
<1>2. Left(s)' = IssuedUpTo(issued)
  <2>1. issued \in 1 .. Len(Book)
    BY DEF IInv, TypeOK
  <2>2. /\ DOMAIN SubSeq(Book, 1, issued) = 1 .. issued
        /\ \A i \in 1 .. issued : SubSeq(Book, 1, issued)[i] = Book[i]
    BY <2>1
  <2> DEFINE q == SubSeq(Book, 1, issued)
  <2>3. q = scan'[s].left
    BY <1>1
  <2> HIDE DEF q
  <2>4. Left(s)' = {q[i] : i \in DOMAIN q}
    BY <2>3 DEF Left
  <2>5. DOMAIN q = 1 .. issued /\ \A i \in 1 .. issued : q[i] = Book[i]
    BY <2>2 DEF q
  <2> QED BY <2>4, <2>5 DEF IssuedUpTo
<1>3. \A x \in Coin : At[x] \in Left(s)' \/ scan'[s].coins[x] = NodeStatus(x)
  BY <1>1, <1>2, UnspentIssued DEF BalanceInv, NodeStatus, NoCoins
<1>4. \A a \in Address : a \in Left(s)' \/ HistoryOf(a) = {}
  BY <1>2 DEF BalanceInv, IssuedInv, HistoryOf, Touches
<1>5. UNCHANGED <<mempool, mined>>
  BY <1>1 DEF netVars
<1>6. CalmScan(s)'
  BY <1>1, <1>3, <1>4, <1>5, SameAnswers DEF CalmScan
<1> QED BY <1>1, <1>6, CalmOnly DEF ScanBegin, bookVars

(* The sections before a scan begins are no part of it.                      *)
LEMMA BeforeCalm ==
  ASSUME IInv, BalanceInv, NEW s \in Syncer,
         SaveHistory(s) \/ ReadIdentity(s)
  PROVE  BalanceInv'
<1>1. /\ scan[s].pc \in {"idle", "save"}
      /\ \A r \in Syncer : r # s => scan'[r] = scan[r]
      /\ UNCHANGED <<netVars, entryVars, bookVars, calm, exact>>
  BY DEF SaveHistory, ReadIdentity, IInv, TypeOK, histVars
<1>2. s \notin calm'
  BY <1>1 DEF BalanceInv, CalmInv, CalmScan
<1> QED BY <1>1, <1>2, CalmOnly DEF bookVars

(* Nothing is pending once the entry is gone; the scans of others go on.     *)
LEMMA DiscardCalm ==
  ASSUME IInv, BalanceInv, NEW s \in Syncer, NEW m \in Modes, DiscardStale(s, m)
  PROVE  BalanceInv'
<1>1. /\ scan[s].pc = "identity"
      /\ \A r \in Syncer : r # s => scan'[r] = scan[r]
      /\ UNCHANGED <<mempool, mined, replied, bookVars, calm>>
  BY DEF DiscardStale, IInv, TypeOK
<1>2. \A r \in calm : r \in Syncer /\ r # s
  BY <1>1 DEF IInv, TypeOK, BalanceInv, CalmInv, CalmScan
<1>6. IssuedInv'
  BY <1>1, SameAnswers DEF BalanceInv, IssuedInv, bookVars
<1>7. ASSUME NEW r \in calm PROVE CalmScan(r)'
  <2>1. scan'[r] = scan[r] /\ CalmScan(r)
    BY <1>1, <1>2 DEF BalanceInv, CalmInv
  <2>2. Left(r)' = Left(r)
    BY <2>1 DEF Left
  <2>3. UNCHANGED <<mempool, mined>>
    BY <1>1
  <2> QED BY <2>1, <2>2, <2>3, SameAnswers DEF CalmScan
<1>3. CalmInv' /\ IssuedInv'
  BY <1>1, <1>6, <1>7 DEF CalmInv
<1>4. CASE DropEntry
  BY <1>1, <1>3, <1>4 DEF DropEntry, BalanceInv, ActsInv, ExactInv
<1>5. CASE UNCHANGED <<entryVars, active, discarded, exact>>
  BY <1>1, <1>3, <1>5, SameAnswers DEF entryVars, BalanceInv, ActsInv, ExactInv
<1> QED BY <1>4, <1>5 DEF DiscardStale

(* What is left after the first address.                                     *)
LEMMA LeftAfter ==
  ASSUME NEW q \in Seq(Address), q # << >>, NEW a \in {q[i] : i \in DOMAIN q}, a # Head(q)
  PROVE  a \in {Tail(q)[i] : i \in DOMAIN Tail(q)}
<1>1. PICK i \in 1 .. Len(q) : a = q[i]
  OBVIOUS
<1>2. i # 1
  BY <1>1
<1>3. i - 1 \in 1 .. Len(Tail(q)) /\ Tail(q)[i - 1] = q[i]
  BY <1>1, <1>2
<1>4. DOMAIN Tail(q) = 1 .. Len(Tail(q))
  OBVIOUS
<1> QED BY <1>1, <1>3, <1>4

(* The answer about an address's coins is the node's state of them.          *)
LEMMA CoinsCalm ==
  ASSUME IInv, BalanceInv, NEW s \in Syncer, ReadCoins(s) PROVE BalanceInv'
<1> DEFINE old == scan[s]
           a == Head(old.left)
<1>1. old \in Scans /\ scan \in [Syncer -> Scans]
  BY DEF IInv, TypeOK
<1>2. /\ old.pc = "coins" /\ old.left # << >>
      /\ scan'[s].coins = [x \in Coin |-> IF At[x] = a THEN NodeStatus(x) ELSE old.coins[x]]
      /\ scan'[s].left = Tail(old.left) /\ scan'[s].seen = old.seen
      /\ scan'[s].at = IF old.mode = "full" THEN {a} ELSE {}
      /\ scan'[s].mode = old.mode
      /\ scan'[s].pc = IF old.mode = "full" THEN "history" ELSE "coins"
      /\ \A r \in Syncer : r # s => scan'[r] = scan[r]
      /\ UNCHANGED <<netVars, entryVars, bookVars, histVars>>
  BY <1>1 DEF ReadCoins, Scans
<1>3. old.left \in Seq(Address)
  <2>1. PICK i \in 1 .. Len(Book) + 1, n \in 0 .. Len(Book) :
               old.left = SubSeq(Book, i, n)
    BY <1>1 DEF Scans, Pieces
  <2>2. \A j \in i .. n : Book[j] \in Address
    BY DEF Address
  <2> QED BY <2>1, <2>2
<1>4. ASSUME NEW b \in Left(s), b # a PROVE b \in Left(s)'
  <2>1. b \in {old.left[i] : i \in DOMAIN old.left}
    BY <1>4 DEF Left
  <2>2. b \in {Tail(old.left)[i] : i \in DOMAIN Tail(old.left)}
    BY <1>2, <1>3, <1>4, <2>1, LeftAfter
  <2>3. Left(s)' = {Tail(old.left)[i] : i \in DOMAIN Tail(old.left)}
    BY <1>2 DEF Left
  <2> QED BY <2>2, <2>3
<1>5. ASSUME s \in calm PROVE CalmScan(s)'
  <2>1. CalmScan(s)
    BY <1>5 DEF BalanceInv, CalmInv
  <2>2. UNCHANGED <<mempool, mined>>
    BY <1>2 DEF netVars
  <2>3. \A x \in Coin : At[x] \in Left(s)' \/ scan'[s].coins[x] = NodeStatus(x)'
    BY <1>2, <1>4, <2>1, <2>2, SameAnswers DEF CalmScan
  <2>4. ASSUME old.mode = "full", NEW b \in Address
        PROVE  \/ b \in Left(s)' \/ HistoryOf(b)' \subseteq scan'[s].seen
               \/ scan'[s].pc = "history" /\ b \in scan'[s].at
    BY <1>2, <1>4, <2>1, <2>2, <2>4, SameAnswers DEF CalmScan
  <2> QED BY <1>2, <2>3, <2>4 DEF CalmScan
<1> QED BY <1>2, <1>5, CalmOnly DEF histVars, bookVars

(* The answer about its history is all the node knows of it.                 *)
LEMMA HistoryCalm ==
  ASSUME IInv, BalanceInv, NEW s \in Syncer, ReadHistory(s) PROVE BalanceInv'
<1> DEFINE old == scan[s]
           answer == UNION {HistoryOf(a) : a \in old.at}
<1>1. old \in Scans /\ scan \in [Syncer -> Scans]
  BY DEF IInv, TypeOK
<1>2. /\ scan'[s].coins = old.coins /\ scan'[s].left = old.left
      /\ scan'[s].seen = old.seen \cup answer
      /\ scan'[s].mode = old.mode /\ scan'[s].pc = "coins"
      /\ \A r \in Syncer : r # s => scan'[r] = scan[r]
      /\ UNCHANGED <<netVars, entryVars, bookVars, histVars>>
  BY <1>1 DEF ReadHistory, Scans
<1>3. \A a \in old.at : HistoryOf(a) \subseteq answer
  OBVIOUS
<1> HIDE DEF answer
<1>4. ASSUME s \in calm PROVE CalmScan(s)'
  <2>1. CalmScan(s)
    BY <1>4 DEF BalanceInv, CalmInv
  <2>2. UNCHANGED <<mempool, mined>> /\ Left(s)' = Left(s)
    BY <1>2 DEF netVars, Left
  <2> QED BY <1>2, <1>3, <2>1, <2>2, SameAnswers DEF CalmScan
<1> QED BY <1>2, <1>4, CalmOnly DEF histVars, bookVars

(* Addresses are marked once none is left to ask for.                        *)
LEMMA MarkCalm ==
  ASSUME IInv, BalanceInv, NEW s \in Syncer, MarkUsed(s) PROVE BalanceInv'
<1>1. scan[s] \in Scans /\ scan \in [Syncer -> Scans]
  BY DEF IInv, TypeOK
<1>2. /\ scan[s].pc = "coins" /\ scan[s].left = << >>
      /\ scan'[s].coins = scan[s].coins /\ scan'[s].left = scan[s].left
      /\ scan'[s].seen = scan[s].seen /\ scan'[s].mode = scan[s].mode
      /\ scan'[s].pc = "merge"
      /\ \A r \in Syncer : r # s => scan'[r] = scan[r]
      /\ UNCHANGED <<netVars, entryVars, issued, histVars>>
  BY <1>1 DEF MarkUsed, Scans
<1>3. ASSUME s \in calm PROVE CalmScan(s)'
  <2>1. CalmScan(s)
    BY <1>3 DEF BalanceInv, CalmInv
  <2>2. UNCHANGED <<mempool, mined>> /\ Left(s)' = Left(s)
    BY <1>2 DEF netVars, Left
  <2>3. \A x \in Coin : At[x] \in Left(s)' \/ scan'[s].coins[x] = NodeStatus(x)'
    BY <1>2, <2>1, <2>2, SameAnswers DEF CalmScan
  <2>4. ASSUME scan'[s].mode = "full", NEW a \in Address
        PROVE  a \in Left(s)' \/ HistoryOf(a)' \subseteq scan'[s].seen
    BY <1>2, <2>1, <2>2, <2>4, SameAnswers DEF CalmScan
  <2>5. scan'[s].pc = "merge" /\ scan'[s].left = << >>
    BY <1>2
  <2> QED BY <2>3, <2>4, <2>5 DEF CalmScan
<1> QED BY <1>2, <1>3, CalmOnly DEF histVars

(* A calm full scan has seen every transaction the node knows, so what it    *)
(* leaves pending and unobserved is what the node does not know.             *)
LEMMA MergeCalm ==
  ASSUME IInv, BalanceInv, NEW s \in Syncer, Merge(s) PROVE BalanceInv'
<1> DEFINE old == scan[s]
           keep == pending \ old.seenConfirmed
<1>1. old \in Scans /\ scan \in [Syncer -> Scans] /\ TypeOK
  BY DEF IInv, TypeOK
<1>2. /\ old.pc = "merge" /\ utxos' = old.coins
      /\ pending' = keep /\ observed' = keep \cap old.seen
      /\ calm' = calm \ {s} /\ exact' = (old.mode = "full" /\ s \in calm)
      /\ UNCHANGED <<mempool, mined, active, replied, issued>>
  BY DEF Merge, MergeWith, netVars, bookVars
<1>3. \A r \in Syncer : r # s => scan'[r] = scan[r]
  BY <1>1 DEF Merge, MergeWith
<1>4. ActsInv'
  BY <1>2 DEF BalanceInv, ActsInv
<1>5. CalmInv'
  <2> SUFFICES ASSUME NEW r \in calm, r # s PROVE CalmScan(r)'
    BY <1>2 DEF CalmInv
  <2>1. scan'[r] = scan[r] /\ CalmScan(r)
    BY <1>1, <1>3 DEF TypeOK, BalanceInv, CalmInv
  <2> QED BY <1>2, <2>1, SameAnswers DEF CalmScan, Left
<1>6. ExactInv'
  <2> SUFFICES ASSUME old.mode = "full", s \in calm
               PROVE  /\ \A x \in Coin : utxos'[x] = NodeStatus(x)'
                      /\ pending' \cap Known' \subseteq observed'
    BY <1>2 DEF ExactInv
  <2>1. CalmScan(s)
    BY DEF BalanceInv, CalmInv
  <2>5. old.left = << >>
    BY <1>2, <2>1 DEF CalmScan
  <2>6. Left(s) = {}
    BY <2>5 DEF Left
  <2>2. \A x \in Coin : utxos'[x] = NodeStatus(x)'
    BY <1>2, <2>1, <2>6, SameAnswers DEF CalmScan
  <2>3. \A a \in Address : HistoryOf(a) \subseteq old.seen
    BY <1>2, <2>1, <2>6 DEF CalmScan
  <2>4. ASSUME NEW t \in pending, t \in Known PROVE t \in old.seen
    <3>1. t \in Tx
      BY <1>1 DEF TypeOK
    <3>2. PICK x \in Spends[t] : TRUE
      BY DEF BalanceInv, ActsInv
    <3>3. x \in Coin /\ At[x] \in Address
      BY <3>1, <3>2
    <3>4. t \in HistoryOf(At[x])
      BY <2>4, <3>2 DEF HistoryOf, Touches
    <3> QED BY <2>3, <3>3, <3>4
  <2> QED BY <1>2, <2>2, <2>4, SameAnswers
<1>7. IssuedInv'
  BY <1>2 DEF BalanceInv, IssuedInv, Known
<1> QED BY <1>4, <1>5, <1>6, <1>7 DEF BalanceInv

(* A scan that ended, or restores the history, is not calm any more.         *)
LEMMA EndCalm ==
  ASSUME IInv, BalanceInv, NEW s \in Syncer, ScanAbort(s) \/ RestoreHistory(s)
  PROVE  BalanceInv'
<1>1. scan \in [Syncer -> Scans]
  BY DEF IInv, TypeOK
<1>2. CASE ScanAbort(s)
  BY <1>1, <1>2, CalmOnly DEF ScanAbort, bookVars
<1>3. CASE RestoreHistory(s)
  <2>1. /\ \A r \in Syncer : r # s => scan'[r] = scan[r]
        /\ UNCHANGED <<netVars, utxos, pending, observed, issued, calm, exact>>
    BY <1>1, <1>3 DEF RestoreHistory, histVars, bookVars
  <2>2. s \notin calm
    BY <1>3 DEF RestoreHistory, BalanceInv, CalmInv, CalmScan
  <2> USE DEF netVars
  <2>3. ActsInv' /\ ExactInv' /\ IssuedInv'
    BY <2>1, SameAnswers DEF BalanceInv, ActsInv, ExactInv, IssuedInv
  <2>4. \A r \in calm : r \in Syncer /\ r # s
    BY <2>2 DEF IInv, TypeOK
  <2>5. CalmInv'
    BY <2>1, <2>4, SameAnswers DEF BalanceInv, CalmInv, CalmScan, Left
  <2> QED BY <2>3, <2>5 DEF BalanceInv
<1> QED BY <1>2, <1>3

(* Every step preserves what is known of calm scans and an exact cache.      *)
LEMMA BalanceStep == IInv /\ BalanceInv /\ [Next]_vars => BalanceInv'
<1> SUFFICES ASSUME IInv, BalanceInv, [Next]_vars PROVE BalanceInv'
  OBVIOUS
<1>1. CASE UNCHANGED vars
  BY <1>1, SameAnswers DEF vars, netVars, entryVars, bookVars, histVars, BalanceInv, ActsInv,
                           CalmInv, CalmScan, Left, ExactInv, IssuedInv
<1>2. CASE Network
  BY <1>2, HappensStep DEF Network
<1>3. CASE Payment
  BY <1>3, HappensStep, QuietStep DEF Payment
<1>4. ASSUME NEW s \in Syncer, Scan(s) PROVE BalanceInv'
  BY <1>4, BeforeCalm, DiscardCalm, BeginCalm, CoinsCalm, HistoryCalm, MarkCalm, MergeCalm,
     EndCalm DEF Scan
<1> QED BY <1>1, <1>2, <1>3, <1>4, IssueCalm DEF Next

(* Nothing pending counts, so the balance is what the cached coins are worth. *)
LEMMA ExactBalance == IInv /\ BalanceInv => FullScanExact
<1> SUFFICES ASSUME IInv, BalanceInv, exact, pending \subseteq Known PROVE FullScanExact
  BY DEF FullScanExact
<1>1. \A x \in Coin : utxos[x] = NodeStatus(x)
  BY DEF BalanceInv, ExactInv
<1>2. Unspent \subseteq Coin
  BY DEF Unspent, Created, Known, IInv, TypeOK
<1>3. \A x \in Coin : utxos[x] # "absent" <=> x \in Unspent
  BY <1>1 DEF NodeStatus
<1>4. {x \in Coin : utxos[x] # "absent"} = Unspent
  BY <1>2, <1>3
<1>5. {t \in pending \ observed : t \notin Sweeps} = {}
  BY DEF BalanceInv, ExactInv
<1>6. PendingDelta = 0
  BY <1>5, NothingAddsUp DEF PendingDelta
<1>7. Effective = ValueOf(Unspent)
  <2>1. Authoritative = ValueOf(Unspent)
    BY <1>4 DEF Authoritative
  <2>2. ValueOf(Unspent) \in Nat
    BY <1>2, ValueIsNat
  <2> QED BY <1>6, <2>1, <2>2 DEF Effective
<1>8. Available \subseteq Unspent
  BY <1>3 DEF Available
<1> QED BY <1>7, <1>8 DEF FullScanExact

(* After a full scan that nothing disturbed, and while nothing has happened  *)
(* since, the effective balance is the value of the unspent coins and what   *)
(* is available is unspent (calculate_wallet_balance).                       *)
THEOREM BalanceExact == Spec => []FullScanExact
<1>1. Init => IInv /\ BalanceInv
  BY InitIInv, InitBalance
<1>2. IInv /\ BalanceInv /\ [Next]_vars => IInv' /\ BalanceInv'
  BY SyncInductive, BalanceStep
<1> QED BY <1>1, <1>2, ExactBalance, PTL DEF Spec
=============================================================================
