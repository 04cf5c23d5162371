------------------------ MODULE PaymentDraft_proofs ------------------------
(***************************************************************************)
(* Proofs about PaymentDraft, for any number of processes, drafts, coins   *)
(* and change indexes.  IInv is inductive: one lemma per action, with one  *)
(* step per part of IInv.  The safety invariants the runs check follow     *)
(* from it, and so does the refinement of ChangeLifecycle.                 *)
(***************************************************************************)
EXTENDS PaymentDraft, TLAPS

(* The files are empty or fresh, and every process is idle.                *)
LEMMA InitInv == Init => IInv
<1> SUFFICES ASSUME Init PROVE IInv
  OBVIOUS
<1> USE IndexAssumption, SentinelAssumption
<1>1. TypeOK
  BY DEF Init, TypeOK, Index, Position, NoReservation, NoIndex, Book
<1>2. LockInv /\ ClientInv
  BY DEF Init, LockInv, ClientInv, Preparing
<1>3. DocInv
  BY DEF Init, DocInv, Released, Used
<1>4. ReserveInv /\ CoinInv /\ PendingInv
  BY DEF Init, ReserveInv, CoinInv, PendingInv, Released, HoldsInputs,
         NoReservation
<1>5. ChangeInv
  BY DEF Init, ChangeInv, ChangeExclusive, Released, Index, NoReservation,
         NoIndex
<1>6. ScanInv
  BY DEF Init, ScanInv
<1>7. EntryInv
  BY DEF Init, EntryInv, HasEntry, Book
<1> QED BY <1>1, <1>2, <1>3, <1>4, <1>5, <1>6, <1>7 DEF IInv

(* The first section of a prepare reserves coins nobody else holds.        *)
LEMMA FundSelectStep ==
  ASSUME IInv, NEW c \in Client,
         NEW d \in Draft, NEW S \in SUBSET Coin, NEW n \in BOOLEAN,
         FundSelect(c, d, S, n)
  PROVE  IInv'
<1>1. TypeOK'
  BY DEF TypeOK, IInv, FundSelect, walletVars, netVars, histVars, Position,
         scanVars
<1>2. LockInv'
  BY DEF LockInv, IInv, FundSelect
<1>3. DocInv'
  BY DEF DocInv, IInv, FundSelect, netVars, histVars, Used, Released
<1>4. ClientInv'
  BY DEF ClientInv, IInv, FundSelect, walletVars, TypeOK, DocInv, Used,
         Preparing
<1>5. ReserveInv'
  BY DEF ReserveInv, IInv, FundSelect, NoActiveDraft, histVars, TypeOK,
         DocInv, HoldsInputs, Released
<1>6. ChangeInv'
  BY DEF ChangeInv, IInv, FundSelect, walletVars, netVars, histVars,
         ChangeExclusive, Released
<1>7. CoinInv'
  <2>1. \A e \in Draft \ {d} : ins'[e] = ins[e]
    BY DEF IInv, TypeOK, FundSelect
  <2>2. ins'[d] = S /\ ins[d] = {}
    BY DEF IInv, TypeOK, FundSelect, Used
  <2>3. SpentOnChain' = SpentOnChain
    <3>1. d \notin mined
      BY <2>2 DEF IInv, DocInv, Used
    <3> QED BY <2>1, <3>1 DEF IInv, TypeOK, FundSelect, netVars, SpentOnChain
  <2>4. \A e \in Draft \ (Released \cup discarded) : \A x \in ins[e] \cap S : x \in SpentOnChain
    BY SentinelAssumption
       DEF IInv, TypeOK, CoinInv, FundSelect, NoActiveDraft
  <2> QED
    BY <2>1, <2>2, <2>3, <2>4
       DEF IInv, CoinInv, FundSelect, histVars, TypeOK, Released
<1>8. ScanInv'
  BY DEF ScanInv, IInv, FundSelect, netVars, scanVars, TypeOK, SpentByPosted,
         Used, HasEntry
<1>9. PendingInv'
  BY DEF PendingInv, IInv, FundSelect, TypeOK, Used
<1>10. EntryInv'
  BY DEF EntryInv, IInv, FundSelect, walletVars, scanVars, TypeOK, HasEntry,
         Book, NoActiveDraft
<1> QED BY <1>1, <1>2, <1>3, <1>4, <1>5, <1>6, <1>7, <1>8, <1>9, <1>10
        DEF IInv

(* The second section reserves the current change index.                   *)
LEMMA FundChangeStep ==
  ASSUME IInv, NEW c \in Client, FundChange(c)
  PROVE  IInv'
<1>1. TypeOK'
  <2>1. cur[c] \in Draft
    BY DEF IInv, FundChange, Step, ClientInv, Used
  <2>2. nextChange \in Index
    BY IndexAssumption DEF IInv, TypeOK, FundChange, Index
  <2> QED
    BY <2>1, <2>2
       DEF TypeOK, IInv, FundChange, Step, walletVars, netVars, histVars,
           Position, scanVars
<1>2. LockInv'
  BY DEF LockInv, IInv, FundChange, Step
<1>3. DocInv'
  BY DEF DocInv, IInv, FundChange, Step, netVars, histVars, ClientInv, Used,
         Released
<1>4. ClientInv'
  BY DEF ClientInv, IInv, FundChange, Step, walletVars, TypeOK, DocInv,
         ChangeInv, Used, Preparing, NoReservation
<1>5. ReserveInv'
  BY DEF ReserveInv, IInv, FundChange, histVars, HoldsInputs, Released
<1>6. ChangeInv'
  <2> DEFINE f == cur[c]
  <2>1. f \in Draft /\ f \notin funded /\ change[f] = NoIndex
    BY DEF IInv, ClientInv, Used, Preparing, FundChange, Step
  <2>2. /\ nextChange \in Index
        /\ resChange.draft = NoDraft /\ resChange' = [draft |-> f, index |-> nextChange]
        /\ change' = [change EXCEPT ![f] = nextChange]
        /\ UNCHANGED <<nextChange, issuedTo, signed, posted, histVars>>
    BY IndexAssumption
       DEF IInv, TypeOK, FundChange, walletVars, netVars, histVars, Index
  <2>3. f \notin signed /\ f \notin posted
    BY <2>1 DEF IInv, DocInv
  <2>4. change \in [Draft -> Index \cup {NoIndex}]
    BY DEF IInv, TypeOK
  <2>5. ChangeInv
    BY DEF IInv
  <2>6. ChangeExclusive'
    BY <2>2, <2>3, <2>4, <2>5 DEF ChangeInv, ChangeExclusive
  <2> QED
    BY <2>1, <2>2, <2>3, <2>4, <2>5, <2>6, SentinelAssumption
       DEF ChangeInv, Released, histVars
<1>7. CoinInv'
  BY DEF CoinInv, IInv, FundChange, histVars, Released, netVars,
         SpentOnChain
<1>8. ScanInv'
  BY DEF ScanInv, IInv, FundChange, netVars, scanVars, Step, TypeOK,
         SpentByPosted, HasEntry
<1>9. PendingInv'
  BY DEF PendingInv, IInv, FundChange
<1>10. EntryInv'
  <2>1. HasEntry
    BY SentinelAssumption
       DEF IInv, EntryInv, ClientInv, FundChange, Step, Used, NoActiveDraft,
           HoldsInputs
  <2> QED
    BY <2>1 DEF EntryInv, IInv, FundChange, walletVars, scanVars, Step, TypeOK,
           HasEntry, Book
<1> QED BY <1>1, <1>2, <1>3, <1>4, <1>5, <1>6, <1>7, <1>8, <1>9, <1>10
        DEF IInv

(* The funded document exists, and its reservations are in place.          *)
LEMMA FundDoneStep ==
  ASSUME IInv, NEW c \in Client, FundDone(c)
  PROVE  IInv'
<1>1. TypeOK'
  BY DEF TypeOK, IInv, FundDone, Finish, walletVars, cacheVars, netVars,
         histVars, ClientInv, Used, Position, scanVars
<1>2. LockInv'
  BY DEF LockInv, IInv, FundDone, Finish
<1>3. DocInv'
  BY DEF DocInv, IInv, FundDone, netVars, histVars, ClientInv, Used, Released
<1>4. ClientInv'
  BY DEF ClientInv, IInv, FundDone, Finish, walletVars, cacheVars, TypeOK,
         Used, Preparing
<1>5. ReserveInv'
  BY DEF ReserveInv, IInv, FundDone, cacheVars, histVars, HoldsInputs,
         Released
<1>6. ChangeInv'
  BY DEF ChangeInv, IInv, FundDone, walletVars, cacheVars, netVars, histVars,
         ChangeExclusive, Released
<1>7. CoinInv'
  BY DEF CoinInv, IInv, FundDone, cacheVars, histVars, Released, netVars,
         SpentOnChain
<1>8. ScanInv'
  BY DEF ScanInv, IInv, FundDone, cacheVars, netVars, scanVars, Finish,
         TypeOK, SpentByPosted, HasEntry
<1>9. PendingInv'
  BY DEF PendingInv, IInv, FundDone, cacheVars
<1>10. EntryInv'
  BY DEF EntryInv, IInv, FundDone, walletVars, cacheVars, scanVars, Finish,
         TypeOK, HasEntry, Book, NoActiveDraft
<1> QED BY <1>1, <1>2, <1>3, <1>4, <1>5, <1>6, <1>7, <1>8, <1>9, <1>10
        DEF IInv

(* A prepare that fails takes its reservations with it.                    *)
LEMMA FundFailStep ==
  ASSUME IInv, NEW c \in Client, FundFail(c)
  PROVE  IInv'
<1>1. TypeOK'
  BY DEF TypeOK, IInv, FundFail, Drop, Release, Finish, walletVars, docVars,
         netVars, ClientInv, Used, NoReservation, Position, scanVars
<1>2. LockInv'
  BY DEF LockInv, IInv, FundFail, Finish
<1>3. DocInv'
  BY DEF DocInv, IInv, FundFail, Drop, docVars, netVars, ClientInv, Used,
         Released
<1>4. ClientInv'
  BY DEF ClientInv, IInv, FundFail, Drop, Release, Finish, walletVars,
         docVars, TypeOK, Used, Preparing
<1>5. ReserveInv'
  BY SentinelAssumption
     DEF ReserveInv, IInv, FundFail, Drop, Release, docVars, TypeOK,
         ClientInv, HoldsInputs, Released, Used, NoReservation
<1>6. ChangeInv'
  BY DEF ChangeInv, IInv, FundFail, Drop, Release, walletVars, docVars,
         netVars, ChangeExclusive, Active, Released, NoReservation
<1>7. CoinInv'
  BY DEF CoinInv, IInv, FundFail, Drop, Release, docVars, TypeOK,
         HoldsInputs, Active, Released, netVars, SpentOnChain
<1>8. ScanInv'
  BY DEF ScanInv, IInv, FundFail, docVars, netVars, scanVars, Finish, TypeOK,
         SpentByPosted, HasEntry
<1>9. PendingInv'
  BY DEF PendingInv, IInv, FundFail, docVars
<1>10. EntryInv'
  BY DEF EntryInv, IInv, FundFail, walletVars, scanVars, docVars, Finish,
         Drop, Release, TypeOK, HasEntry, Book, NoActiveDraft, NoReservation
<1> QED BY <1>1, <1>2, <1>3, <1>4, <1>5, <1>6, <1>7, <1>8, <1>9, <1>10
        DEF IInv

(* A signer remembers the draft it has validated.                          *)
LEMMA SignBeginStep ==
  ASSUME IInv, NEW c \in Client, NEW d \in Draft, SignBegin(c, d)
  PROVE  IInv'
<1>1. TypeOK'
  BY DEF TypeOK, IInv, SignBegin, walletVars, cacheVars, docVars, netVars,
         histVars, Position, scanVars
<1>2. LockInv'
  BY DEF LockInv, IInv, SignBegin
<1>3. DocInv'
  BY DEF DocInv, IInv, SignBegin, docVars, netVars, histVars, Used, Released
<1>4. ClientInv'
  BY DEF ClientInv, IInv, SignBegin, walletVars, cacheVars, docVars, TypeOK,
         DocInv, Used, Preparing
<1>5. ReserveInv'
  BY DEF ReserveInv, IInv, SignBegin, cacheVars, docVars, histVars,
         HoldsInputs, Released
<1>6. ChangeInv'
  BY DEF ChangeInv, IInv, SignBegin, walletVars, cacheVars, docVars, netVars,
         histVars, ChangeExclusive, Released
<1>7. CoinInv'
  BY DEF CoinInv, IInv, SignBegin, cacheVars, docVars, histVars, Released,
         netVars, SpentOnChain
<1>8. ScanInv'
  BY DEF ScanInv, IInv, SignBegin, cacheVars, docVars, netVars, scanVars,
         TypeOK, SpentByPosted, HasEntry
<1>9. PendingInv'
  BY DEF PendingInv, IInv, SignBegin, cacheVars, docVars
<1>10. EntryInv'
  BY DEF EntryInv, IInv, SignBegin, walletVars, cacheVars, scanVars, docVars,
         TypeOK, HasEntry, Book, NoActiveDraft
<1> QED BY <1>1, <1>2, <1>3, <1>4, <1>5, <1>6, <1>7, <1>8, <1>9, <1>10
        DEF IInv

(* A funded document that is no longer valid is released.                  *)
LEMMA SignRefuseStep ==
  ASSUME IInv, NEW c \in Client, NEW d \in Draft, SignRefuse(c, d)
  PROVE  IInv'
<1>1. TypeOK'
  BY DEF TypeOK, IInv, SignRefuse, Drop, Release, walletVars, docVars,
         netVars, procVars, NoReservation, scanVars
<1>2. LockInv'
  BY DEF LockInv, IInv, SignRefuse, procVars
<1>3. DocInv'
  BY DEF DocInv, IInv, SignRefuse, Drop, docVars, netVars, Used, Released
<1>4. ClientInv'
  BY SentinelAssumption
     DEF ClientInv, IInv, SignRefuse, Free, walletVars, docVars, procVars,
         LockInv, Used, Preparing
<1>5. ReserveInv'
  BY SentinelAssumption
     DEF ReserveInv, IInv, SignRefuse, Drop, Release, docVars, TypeOK,
         HoldsInputs, Released, NoReservation
<1>6. ChangeInv'
  BY DEF ChangeInv, IInv, SignRefuse, Drop, Release, walletVars, docVars,
         netVars, ChangeExclusive, Active, Released, NoReservation
<1>7. CoinInv'
  BY DEF CoinInv, IInv, SignRefuse, Drop, Release, docVars, TypeOK,
         HoldsInputs, Active, Released, netVars, SpentOnChain
<1>8. ScanInv'
  BY DEF ScanInv, IInv, SignRefuse, docVars, netVars, procVars, scanVars,
         TypeOK, SpentByPosted, HasEntry
<1>9. PendingInv'
  BY DEF PendingInv, IInv, SignRefuse, docVars
<1>10. EntryInv'
  BY DEF EntryInv, IInv, SignRefuse, walletVars, scanVars, procVars, docVars,
         Drop, Release, TypeOK, HasEntry, Book, NoActiveDraft, NoReservation
<1> QED BY <1>1, <1>2, <1>3, <1>4, <1>5, <1>6, <1>7, <1>8, <1>9, <1>10
        DEF IInv

(* A signature that fails before the index is issued releases the draft.   *)
LEMMA SignFailStep ==
  ASSUME IInv, NEW c \in Client, SignFail(c)
  PROVE  IInv'
<1>1. TypeOK'
  BY DEF TypeOK, IInv, SignFail, Drop, Release, Finish, walletVars, docVars,
         netVars, ClientInv, NoReservation, Position, scanVars
<1>2. LockInv'
  BY DEF LockInv, IInv, SignFail, Finish
<1>3. DocInv'
  BY DEF DocInv, IInv, SignFail, Drop, docVars, netVars, ClientInv, Used,
         Released
<1>4. ClientInv'
  BY SentinelAssumption
     DEF ClientInv, IInv, SignFail, Free, Finish, walletVars, docVars, TypeOK,
         LockInv, Used, Preparing
<1>5. ReserveInv'
  BY SentinelAssumption
     DEF ReserveInv, IInv, SignFail, Drop, Release, docVars, TypeOK,
         ClientInv, HoldsInputs, Released, NoReservation
<1>6. ChangeInv'
  BY DEF ChangeInv, IInv, SignFail, Drop, Release, walletVars, docVars,
         netVars, ChangeExclusive, Active, Released, NoReservation
<1>7. CoinInv'
  BY DEF CoinInv, IInv, SignFail, Drop, Release, docVars, TypeOK,
         HoldsInputs, Active, Released, netVars, SpentOnChain
<1>8. ScanInv'
  BY DEF ScanInv, IInv, SignFail, docVars, netVars, scanVars, Finish, TypeOK,
         SpentByPosted, HasEntry
<1>9. PendingInv'
  BY DEF PendingInv, IInv, SignFail, docVars
<1>10. EntryInv'
  BY DEF EntryInv, IInv, SignFail, walletVars, scanVars, docVars, Finish,
         Drop, Release, TypeOK, HasEntry, Book, NoActiveDraft, NoReservation
<1> QED BY <1>1, <1>2, <1>3, <1>4, <1>5, <1>6, <1>7, <1>8, <1>9, <1>10
        DEF IInv

(* A draft without change is signed at once.                               *)
LEMMA SignWithoutChangeStep ==
  ASSUME IInv, NEW c \in Client, SignWithoutChange(c)
  PROVE  IInv'
<1>1. TypeOK'
  BY DEF TypeOK, IInv, SignWithoutChange, Finish, walletVars, cacheVars,
         netVars, histVars, ClientInv, Position, scanVars
<1>2. LockInv'
  BY DEF LockInv, IInv, SignWithoutChange, Finish
<1>3. DocInv'
  BY DEF DocInv, IInv, SignWithoutChange, netVars, histVars, ClientInv, Used,
         Released
<1>4. ClientInv'
  BY DEF ClientInv, IInv, SignWithoutChange, Finish, walletVars, cacheVars,
         TypeOK, Used, Preparing
<1>5. ReserveInv'
  BY DEF ReserveInv, IInv, SignWithoutChange, cacheVars, histVars,
         HoldsInputs, Released
<1>6. ChangeInv'
  BY DEF ChangeInv, IInv, SignWithoutChange, walletVars, cacheVars, netVars,
         histVars, ChangeExclusive, Released, NoIndex, Index
<1>7. CoinInv'
  BY DEF CoinInv, IInv, SignWithoutChange, cacheVars, histVars, Released,
         netVars, SpentOnChain
<1>8. ScanInv'
  BY DEF ScanInv, IInv, SignWithoutChange, cacheVars, netVars, scanVars,
         Finish, TypeOK, SpentByPosted, HasEntry
<1>9. PendingInv'
  BY DEF PendingInv, IInv, SignWithoutChange, cacheVars
<1>10. EntryInv'
  BY DEF EntryInv, IInv, SignWithoutChange, walletVars, cacheVars, scanVars,
         Finish, TypeOK, HasEntry, Book, NoActiveDraft
<1> QED BY <1>1, <1>2, <1>3, <1>4, <1>5, <1>6, <1>7, <1>8, <1>9, <1>10
        DEF IInv

(* A draft signed before still owns the index that was issued for it.      *)
LEMMA SignAgainStep ==
  ASSUME IInv, NEW c \in Client, SignAgain(c)
  PROVE  IInv'
<1>1. TypeOK'
  BY DEF TypeOK, IInv, SignAgain, Finish, walletVars, cacheVars, netVars,
         histVars, ClientInv, Position, scanVars
<1>2. LockInv'
  BY DEF LockInv, IInv, SignAgain, Finish
<1>3. DocInv'
  BY DEF DocInv, IInv, SignAgain, netVars, histVars, ClientInv, Used, Released
<1>4. ClientInv'
  BY DEF ClientInv, IInv, SignAgain, Finish, walletVars, cacheVars, TypeOK,
         Used, Preparing
<1>5. ReserveInv'
  BY DEF ReserveInv, IInv, SignAgain, cacheVars, histVars, HoldsInputs,
         Released
<1>6. ChangeInv'
  BY DEF ChangeInv, IInv, SignAgain, walletVars, cacheVars, netVars, histVars,
         ChangeExclusive, Released
<1>7. CoinInv'
  BY DEF CoinInv, IInv, SignAgain, cacheVars, histVars, Released, netVars,
         SpentOnChain
<1>8. ScanInv'
  BY DEF ScanInv, IInv, SignAgain, cacheVars, netVars, scanVars, Finish,
         TypeOK, SpentByPosted, HasEntry
<1>9. PendingInv'
  BY DEF PendingInv, IInv, SignAgain, cacheVars
<1>10. EntryInv'
  BY DEF EntryInv, IInv, SignAgain, walletVars, cacheVars, scanVars, Finish,
         TypeOK, HasEntry, Book, NoActiveDraft
<1> QED BY <1>1, <1>2, <1>3, <1>4, <1>5, <1>6, <1>7, <1>8, <1>9, <1>10
        DEF IInv

(* The change index is issued for the draft that reserved it.              *)
LEMMA SignIssueStep ==
  ASSUME IInv, NEW c \in Client, SignIssue(c)
  PROVE  IInv'
<1>1. TypeOK'
  <2>1. TypeOK /\ cur[c] \in Draft /\ change[cur[c]] \in Index
    BY DEF IInv, ClientInv, Used, SignIssue, Step, TypeOK
  <2>2. nextChange' \in 0 .. IndexLimit
        /\ issuedTo' \in [Index -> Draft \cup {NoDraft, Manual}]
    BY <2>1, IndexAssumption
       DEF TypeOK, SignIssue, IssueChange, walletVars, Index
  <2>3. pc' \in [Client -> Position] /\ lock' \in Client \cup {NoClient}
    BY <2>1 DEF TypeOK, SignIssue, Step, Position
  <2> QED
    BY <2>1, <2>2, <2>3
       DEF TypeOK, SignIssue, cacheVars, docVars, netVars, histVars, scanVars
<1>2. LockInv'
  BY SentinelAssumption DEF LockInv, IInv, SignIssue, Free, Step, TypeOK
<1>3. DocInv'
  BY DEF DocInv, IInv, SignIssue, docVars, netVars, histVars, Used, Released
<1>4. ClientInv'
  BY IndexAssumption, SentinelAssumption
     DEF ClientInv, IInv, SignIssue, IssueChange, Step, walletVars, cacheVars,
         docVars, TypeOK, ChangeInv, Used, Preparing
<1>5. ReserveInv'
  BY DEF ReserveInv, IInv, SignIssue, cacheVars, docVars, histVars,
         HoldsInputs, Released
<1>6. ChangeInv'
  BY IndexAssumption, SentinelAssumption
     DEF ChangeInv, IInv, SignIssue, IssueChange, Step, walletVars, cacheVars,
         docVars, netVars, histVars, ChangeExclusive, TypeOK, DocInv,
         ReserveInv, LockInv, HoldsInputs, Released, Used, NoReservation,
         NoIndex, Index
<1>7. CoinInv'
  BY DEF CoinInv, IInv, SignIssue, cacheVars, docVars, histVars, Released,
         netVars, SpentOnChain
<1>8. ScanInv'
  BY DEF ScanInv, IInv, SignIssue, cacheVars, docVars, netVars, scanVars,
         Step, TypeOK, SpentByPosted, HasEntry
<1>9. PendingInv'
  BY DEF PendingInv, IInv, SignIssue, cacheVars, docVars
<1>10. EntryInv'
  <2>1. nextChange \in Int /\ receive \in Int /\ UNCHANGED receive
    BY IndexAssumption DEF IInv, TypeOK, SignIssue
  <2>2. Book' >= Book /\ Book' \in Int /\ Book \in Int
    BY <2>1 DEF SignIssue, IssueChange, Book
  <2>3. UNCHANGED cacheVars /\ UNCHANGED view
    BY DEF SignIssue, scanVars
  <2>4. \A b \in Client : view'[b] <= Book'
    BY <2>2, <2>3, IndexAssumption DEF IInv, TypeOK, EntryInv
  <2>5. listed' <= Book'
    BY <2>2, <2>3, IndexAssumption DEF IInv, TypeOK, EntryInv, cacheVars
  <2>6. \A b \in Client : pc'[b] \in {"identity", "scanning"} => pc'[b] = pc[b]
    BY DEF IInv, TypeOK, SignIssue, Step
  <2> QED
    BY <2>3, <2>4, <2>5, <2>6
       DEF EntryInv, IInv, cacheVars, HasEntry, NoActiveDraft
<1> QED BY <1>1, <1>2, <1>3, <1>4, <1>5, <1>6, <1>7, <1>8, <1>9, <1>10
        DEF IInv

(* The reservation goes once the index is issued.                          *)
LEMMA SignSaveStep ==
  ASSUME IInv, NEW c \in Client, SignSave(c)
  PROVE  IInv'
<1>1. TypeOK'
  BY DEF TypeOK, IInv, SignSave, Finish, walletVars, netVars, histVars,
         ClientInv, NoReservation, Position, scanVars
<1>2. LockInv'
  BY SentinelAssumption DEF LockInv, IInv, SignSave, Finish, TypeOK
<1>3. DocInv'
  BY DEF DocInv, IInv, SignSave, netVars, histVars, ClientInv, Used, Released
<1>4. ClientInv'
  BY DEF ClientInv, IInv, SignSave, Finish, walletVars, TypeOK, LockInv, Used,
         Preparing
<1>5. ReserveInv'
  BY DEF ReserveInv, IInv, SignSave, histVars, HoldsInputs, Released,
         NoReservation
<1>6. ChangeInv'
  BY DEF ChangeInv, IInv, SignSave, walletVars, netVars, histVars,
         ChangeExclusive, ClientInv, Released, NoReservation
<1>7. CoinInv'
  BY DEF CoinInv, IInv, SignSave, histVars, Released, netVars, SpentOnChain
<1>8. ScanInv'
  BY DEF ScanInv, IInv, SignSave, netVars, scanVars, Finish, TypeOK,
         SpentByPosted, HasEntry
<1>9. PendingInv'
  BY DEF PendingInv, IInv, SignSave
<1>10. EntryInv'
  BY DEF EntryInv, IInv, SignSave, walletVars, scanVars, Finish, TypeOK,
         HasEntry, Book, NoActiveDraft, NoReservation
<1> QED BY <1>1, <1>2, <1>3, <1>4, <1>5, <1>6, <1>7, <1>8, <1>9, <1>10
        DEF IInv

(* An index issued without saving the cache keeps its owner.               *)
LEMMA SignSaveFailStep ==
  ASSUME IInv, NEW c \in Client, NEW r \in BOOLEAN, SignSaveFail(c, r)
  PROVE  IInv'
<1>1. TypeOK'
  BY DEF TypeOK, IInv, SignSaveFail, Drop, Release, Finish, walletVars,
         docVars, netVars, histVars, ClientInv, NoReservation, Position,
         scanVars
<1>2. LockInv'
  BY SentinelAssumption DEF LockInv, IInv, SignSaveFail, Finish, TypeOK
<1>3. DocInv'
  BY DEF DocInv, IInv, SignSaveFail, Drop, docVars, netVars, histVars,
         ClientInv, Used, Released
<1>4. ClientInv'
  BY DEF ClientInv, IInv, SignSaveFail, Finish, walletVars, docVars, TypeOK,
         LockInv, Used, Preparing
<1>5. ReserveInv'
  BY SentinelAssumption
     DEF ReserveInv, IInv, SignSaveFail, Drop, Release, docVars, histVars,
         TypeOK, ClientInv, HoldsInputs, Released, NoReservation
<1>6. ChangeInv'
  BY DEF ChangeInv, IInv, SignSaveFail, Drop, Release, walletVars, docVars,
         netVars, histVars, ChangeExclusive, ClientInv, Released,
         NoReservation
<1>7. CoinInv'
  BY DEF CoinInv, IInv, SignSaveFail, Drop, Release, docVars, histVars,
         TypeOK, ClientInv, Active, Released, netVars, SpentOnChain
<1>8. ScanInv'
  BY DEF ScanInv, IInv, SignSaveFail, docVars, netVars, scanVars, Finish,
         TypeOK, SpentByPosted, HasEntry
<1>9. PendingInv'
  BY DEF PendingInv, IInv, SignSaveFail, docVars
<1>10. EntryInv'
  BY DEF EntryInv, IInv, SignSaveFail, walletVars, scanVars, docVars, Finish,
         Drop, Release, TypeOK, HasEntry, Book, NoActiveDraft, NoReservation
<1> QED BY <1>1, <1>2, <1>3, <1>4, <1>5, <1>6, <1>7, <1>8, <1>9, <1>10
        DEF IInv

(* A broadcast starts from a signed draft that owns its change.            *)
LEMMA BroadcastCheckStep ==
  ASSUME IInv, NEW c \in Client, NEW d \in Draft, BroadcastCheck(c, d)
  PROVE  IInv'
<1>1. TypeOK'
  BY DEF TypeOK, IInv, BroadcastCheck, walletVars, cacheVars, docVars,
         netVars, histVars, Position, scanVars
<1>2. LockInv'
  BY DEF LockInv, IInv, BroadcastCheck
<1>3. DocInv'
  BY DEF DocInv, IInv, BroadcastCheck, docVars, netVars, histVars, Used,
         Released
<1>4. ClientInv'
  BY SentinelAssumption
     DEF ClientInv, IInv, BroadcastCheck, walletVars, docVars, TypeOK, DocInv,
         ReserveInv, ChangeInv, Used, Preparing, HoldsInputs
<1>5. ReserveInv'
  BY DEF ReserveInv, IInv, BroadcastCheck, cacheVars, docVars, histVars,
         HoldsInputs, Released
<1>6. ChangeInv'
  BY DEF ChangeInv, IInv, BroadcastCheck, walletVars, cacheVars, docVars,
         netVars, histVars, ChangeExclusive, Released
<1>7. CoinInv'
  BY DEF CoinInv, IInv, BroadcastCheck, cacheVars, docVars, histVars,
         Released, netVars, SpentOnChain
<1>8. ScanInv'
  BY DEF ScanInv, IInv, BroadcastCheck, cacheVars, docVars, netVars, scanVars,
         TypeOK, SpentByPosted, HasEntry
<1>9. PendingInv'
  BY DEF PendingInv, IInv, BroadcastCheck, cacheVars, docVars
<1>10. EntryInv'
  BY DEF EntryInv, IInv, BroadcastCheck, walletVars, cacheVars, scanVars,
         docVars, TypeOK, HasEntry, Book, NoActiveDraft
<1> QED BY <1>1, <1>2, <1>3, <1>4, <1>5, <1>6, <1>7, <1>8, <1>9, <1>10
        DEF IInv

(* A transaction the node accepts was signed, and owns its change.         *)
LEMMA PostAcceptedStep ==
  ASSUME IInv, NEW c \in Client, PostAccepted(c)
  PROVE  IInv'
<1>1. TypeOK'
  BY DEF TypeOK, IInv, PostAccepted, Step, walletVars, cacheVars, docVars,
         histVars, ClientInv, Position, scanVars
<1>2. LockInv'
  BY DEF LockInv, IInv, PostAccepted, Step
<1>3. DocInv'
  BY DEF DocInv, IInv, PostAccepted, Step, docVars, histVars, ClientInv, Used,
         Released
<1>4. ClientInv'
  BY DEF ClientInv, IInv, PostAccepted, Step, walletVars, cacheVars, docVars,
         Used, Preparing
<1>5. ReserveInv'
  BY DEF ReserveInv, IInv, PostAccepted, cacheVars, docVars, histVars,
         HoldsInputs, Released
<1>6. ChangeInv'
  BY DEF ChangeInv, IInv, PostAccepted, Step, walletVars, cacheVars, docVars,
         histVars, ChangeExclusive, ClientInv, Released
<1>7. CoinInv'
  BY DEF CoinInv, IInv, PostAccepted, cacheVars, docVars, histVars,
         Released, SpentOnChain
<1>8. ScanInv'
  BY DEF ScanInv, IInv, PostAccepted, cacheVars, docVars, scanVars, Step,
         TypeOK, SpentByPosted, HasEntry
<1>9. PendingInv'
  BY DEF PendingInv, IInv, PostAccepted, cacheVars, docVars
<1>10. EntryInv'
  BY DEF EntryInv, IInv, PostAccepted, walletVars, cacheVars, scanVars,
         docVars, Step, TypeOK, HasEntry, Book, NoActiveDraft
<1> QED BY <1>1, <1>2, <1>3, <1>4, <1>5, <1>6, <1>7, <1>8, <1>9, <1>10
        DEF IInv

(* The same, when no reply arrives.                                        *)
LEMMA PostReplyLostStep ==
  ASSUME IInv, NEW c \in Client, PostReplyLost(c)
  PROVE  IInv'
<1>1. TypeOK'
  BY DEF TypeOK, IInv, PostReplyLost, Finish, walletVars, cacheVars,
         docVars, histVars, ClientInv, Position, scanVars
<1>2. LockInv'
  BY DEF LockInv, IInv, PostReplyLost, Finish
<1>3. DocInv'
  BY DEF DocInv, IInv, PostReplyLost, docVars, histVars, ClientInv, Used,
         Released
<1>4. ClientInv'
  BY DEF ClientInv, IInv, PostReplyLost, Finish, walletVars, cacheVars,
         docVars, TypeOK, Used, Preparing
<1>5. ReserveInv'
  BY DEF ReserveInv, IInv, PostReplyLost, cacheVars, docVars, histVars,
         HoldsInputs, Released
<1>6. ChangeInv'
  BY DEF ChangeInv, IInv, PostReplyLost, walletVars, cacheVars, docVars,
         histVars, ChangeExclusive, ClientInv, Released
<1>7. CoinInv'
  BY DEF CoinInv, IInv, PostReplyLost, cacheVars, docVars, histVars,
         Released, SpentOnChain
<1>8. ScanInv'
  BY DEF ScanInv, IInv, PostReplyLost, cacheVars, docVars, scanVars, Finish,
         TypeOK, SpentByPosted, HasEntry
<1>9. PendingInv'
  BY DEF PendingInv, IInv, PostReplyLost, cacheVars, docVars
<1>10. EntryInv'
  BY DEF EntryInv, IInv, PostReplyLost, walletVars, cacheVars, scanVars,
         docVars, Finish, TypeOK, HasEntry, Book, NoActiveDraft
<1> QED BY <1>1, <1>2, <1>3, <1>4, <1>5, <1>6, <1>7, <1>8, <1>9, <1>10
        DEF IInv

(* The same, when the node refuses.                                        *)
LEMMA PostRefusedStep ==
  ASSUME IInv, NEW c \in Client, PostRefused(c)
  PROVE  IInv'
<1>1. TypeOK'
  BY DEF TypeOK, IInv, PostRefused, Finish, walletVars, cacheVars, docVars,
         histVars, ClientInv, Position, scanVars
<1>2. LockInv'
  BY DEF LockInv, IInv, PostRefused, Finish
<1>3. DocInv'
  BY DEF DocInv, IInv, PostRefused, docVars, histVars, ClientInv, Used,
         Released
<1>4. ClientInv'
  BY DEF ClientInv, IInv, PostRefused, Finish, walletVars, cacheVars, docVars,
         TypeOK, Used, Preparing
<1>5. ReserveInv'
  BY DEF ReserveInv, IInv, PostRefused, cacheVars, docVars, histVars,
         HoldsInputs, Released
<1>6. ChangeInv'
  BY DEF ChangeInv, IInv, PostRefused, walletVars, cacheVars, docVars,
         histVars, ChangeExclusive, ClientInv, Released
<1>7. CoinInv'
  BY DEF CoinInv, IInv, PostRefused, cacheVars, docVars, histVars, Released,
         SpentOnChain
<1>8. ScanInv'
  BY DEF ScanInv, IInv, PostRefused, cacheVars, docVars, scanVars, Finish,
         TypeOK, SpentByPosted, HasEntry
<1>9. PendingInv'
  BY DEF PendingInv, IInv, PostRefused, cacheVars, docVars
<1>10. EntryInv'
  BY DEF EntryInv, IInv, PostRefused, walletVars, cacheVars, scanVars,
         docVars, Finish, TypeOK, HasEntry, Book, NoActiveDraft
<1> QED BY <1>1, <1>2, <1>3, <1>4, <1>5, <1>6, <1>7, <1>8, <1>9, <1>10
        DEF IInv

(* Recording a broadcast turns reserved coins into spent ones.             *)
LEMMA RecordStep ==
  ASSUME IInv, NEW c \in Client, Record(c)
  PROVE  IInv'
<1>1. TypeOK'
  BY DEF TypeOK, IInv, Record, Finish, walletVars, docVars, netVars,
         histVars, ClientInv, Position, scanVars
<1>2. LockInv'
  BY DEF LockInv, IInv, Record, Finish
<1>3. DocInv'
  BY DEF DocInv, IInv, Record, docVars, netVars, histVars, Used, Released
<1>4. ClientInv'
  BY DEF ClientInv, IInv, Record, Finish, walletVars, docVars, TypeOK, Used,
         Preparing
<1>5. ReserveInv'
  BY SentinelAssumption
     DEF ReserveInv, IInv, Record, docVars, histVars, TypeOK, ClientInv,
         ChangeInv, HoldsInputs, Released
<1>6. ChangeInv'
  BY DEF ChangeInv, IInv, Record, walletVars, docVars, netVars, histVars,
         ChangeExclusive, Released
<1>7. CoinInv'
  BY SentinelAssumption
     DEF CoinInv, IInv, Record, docVars, histVars, TypeOK, ClientInv,
         Released, netVars, SpentOnChain
<1>8. ScanInv'
  BY DEF ScanInv, IInv, Record, docVars, netVars, scanVars, Finish, TypeOK,
         SpentByPosted, HasEntry
<1>9. PendingInv'
  BY DEF PendingInv, IInv, Record, docVars, ClientInv, TypeOK
<1>10. EntryInv'
  BY DEF EntryInv, IInv, Record, walletVars, scanVars, docVars, Finish,
         TypeOK, HasEntry, Book, NoActiveDraft
<1> QED BY <1>1, <1>2, <1>3, <1>4, <1>5, <1>6, <1>7, <1>8, <1>9, <1>10
        DEF IInv

(* A sync reads the address book before it takes the cache lock.           *)
LEMMA ReadIdentityStep ==
  ASSUME IInv, NEW c \in Client, ReadIdentity(c)
  PROVE  IInv'
<1>1. TypeOK'
  BY IndexAssumption
     DEF TypeOK, IInv, ReadIdentity, Step, walletVars, cacheVars, docVars,
         netVars, histVars, Position, Book
<1>2. LockInv'
  BY DEF LockInv, IInv, ReadIdentity, Step, TypeOK
<1>3. DocInv'
  BY DEF DocInv, IInv, ReadIdentity, docVars, netVars, histVars, Used, Released
<1>4. ClientInv'
  BY DEF ClientInv, IInv, ReadIdentity, Step, walletVars, cacheVars, docVars,
         TypeOK, Used, Preparing
<1>5. ReserveInv'
  BY DEF ReserveInv, IInv, ReadIdentity, cacheVars, docVars, histVars,
         HoldsInputs, Released
<1>6. ChangeInv'
  BY DEF ChangeInv, IInv, ReadIdentity, walletVars, cacheVars, docVars,
         netVars, histVars, ChangeExclusive, Released
<1>7. CoinInv'
  BY DEF CoinInv, IInv, ReadIdentity, cacheVars, docVars, netVars, histVars,
         Released, SpentOnChain
<1>8. ScanInv'
  BY DEF ScanInv, IInv, ReadIdentity, Step, cacheVars, docVars, netVars,
         TypeOK, SpentByPosted, HasEntry
<1>9. PendingInv'
  BY DEF PendingInv, IInv, ReadIdentity, cacheVars, docVars
<1>10. EntryInv'
  BY IndexAssumption
     DEF EntryInv, IInv, ReadIdentity, Step, walletVars, cacheVars, TypeOK,
         HasEntry, Book, NoActiveDraft
<1> QED BY <1>1, <1>2, <1>3, <1>4, <1>5, <1>6, <1>7, <1>8, <1>9, <1>10
        DEF IInv

(* An entry that is discarded goes with every claim in it, and the drafts  *)
(* that made the claims are counted as discarded.                          *)
LEMMA DiscardStaleStep ==
  ASSUME IInv, NEW c \in Client, DiscardStale(c)
  PROVE  IInv'
<1>1. TypeOK'
  BY IndexAssumption
     DEF TypeOK, IInv, DiscardStale, DropEntry, Step, walletVars, cacheVars,
         docVars, netVars, NoReservation, Position
<1>2. LockInv'
  BY DEF LockInv, IInv, DiscardStale, Step, TypeOK
<1>3. DocInv'
  BY SentinelAssumption
     DEF DocInv, IInv, DiscardStale, docVars, netVars, Used, Released,
         PendingInv, ReserveInv, Active, HoldsInputs, TypeOK
<1>4. ClientInv'
  <2>1. \A b \in Client : pc[b] # "issued"
    BY SentinelAssumption DEF IInv, DiscardStale, Free, LockInv
  <2> QED
    BY <2>1 DEF ClientInv, IInv, DiscardStale, Step, walletVars, docVars, TypeOK,
           Used, Preparing
<1>5. ReserveInv'
  <2>1. CASE UNCHANGED <<cacheVars, discarded>>
    BY <2>1 DEF ReserveInv, IInv, DiscardStale, cacheVars, docVars, HoldsInputs,
           Released
  <2>2. CASE DropEntry
    <3>1. (Released \cup discarded)' \subseteq Draft
      BY <1>1 DEF TypeOK, Released
    <3> QED
      BY <2>2, <3>1, SentinelAssumption
         DEF ReserveInv, DropEntry, HoldsInputs, NoReservation
  <2> QED BY <2>1, <2>2 DEF DiscardStale
<1>6. ChangeInv'
  BY DEF ChangeInv, IInv, DiscardStale, DropEntry, walletVars, cacheVars,
         docVars, netVars, ChangeExclusive, Released, Active, NoReservation
<1>7. CoinInv'
  <2>1. CASE UNCHANGED <<cacheVars, discarded>>
    BY <2>1 DEF CoinInv, IInv, DiscardStale, cacheVars, docVars, netVars,
           Released, SpentOnChain
  <2>2. CASE /\ DropEntry
             /\ discarded' = discarded \cup pending \cup {d \in Draft : Active(d)}
    <3>1. \A d \in Draft \ (Released \cup discarded)' :
            d \in Draft \ (Released \cup discarded) /\ d \notin pending /\ ~Active(d)
      BY <2>2 DEF DiscardStale, Released
    <3> QED
      BY <3>1 DEF CoinInv, IInv, TypeOK, DiscardStale, docVars, netVars,
             SpentOnChain, Active, HoldsInputs
  <2> QED BY <2>1, <2>2 DEF DiscardStale
<1>8. ScanInv'
  BY DEF ScanInv, IInv, DiscardStale, DropEntry, Step, cacheVars, docVars,
         netVars, TypeOK, SpentByPosted, HasEntry
<1>9. PendingInv'
  BY DEF PendingInv, IInv, DiscardStale, DropEntry, cacheVars, docVars
<1>10. EntryInv'
  BY IndexAssumption
     DEF EntryInv, IInv, DiscardStale, DropEntry, Step, walletVars, cacheVars,
         TypeOK, HasEntry, Book, NoActiveDraft, NoReservation
<1> QED BY <1>1, <1>2, <1>3, <1>4, <1>5, <1>6, <1>7, <1>8, <1>9, <1>10
        DEF IInv

(* A scan starts with every coin still to be asked for.                      *)
LEMMA ScanBeginStep ==
  ASSUME IInv, NEW c \in Client, ScanBegin(c)
  PROVE  IInv'
<1>1. TypeOK'
  BY IndexAssumption
     DEF TypeOK, IInv, ScanBegin, walletVars, cacheVars, docVars, netVars,
         histVars, Position, Step, Book
<1>2. LockInv'
  BY DEF LockInv, IInv, ScanBegin, Step, TypeOK
<1>3. DocInv'
  BY DEF DocInv, IInv, ScanBegin, docVars, netVars, histVars, Used, Released
<1>4. ClientInv'
  BY DEF ClientInv, IInv, ScanBegin, Step, walletVars, cacheVars, docVars,
         TypeOK, Used, Preparing
<1>5. ReserveInv'
  BY DEF ReserveInv, IInv, ScanBegin, cacheVars, docVars, histVars,
         HoldsInputs, Released
<1>6. ChangeInv'
  BY DEF ChangeInv, IInv, ScanBegin, walletVars, cacheVars, docVars, netVars,
         histVars, ChangeExclusive, Released
<1>7. CoinInv'
  BY DEF CoinInv, IInv, ScanBegin, cacheVars, docVars, netVars, histVars,
         Released, SpentOnChain
<1>8. ScanInv'
  BY DEF ScanInv, IInv, ScanBegin, Step, cacheVars, docVars, netVars, TypeOK,
         SpentByPosted, HasEntry
<1>9. PendingInv'
  BY DEF PendingInv, IInv, ScanBegin, cacheVars, docVars
<1>10. EntryInv'
  BY DEF EntryInv, IInv, ScanBegin, walletVars, cacheVars, docVars, Step,
         TypeOK, HasEntry, Book, NoActiveDraft
<1> QED BY <1>1, <1>2, <1>3, <1>4, <1>5, <1>6, <1>7, <1>8, <1>9, <1>10
        DEF IInv

(* A coin the backend does not report is spent by what it was sent.         *)
LEMMA ScanReadStep ==
  ASSUME IInv, NEW c \in Client, NEW x \in Coin, ScanRead(c, x)
  PROVE  IInv'
<1>1. TypeOK'
  BY DEF TypeOK, IInv, ScanRead, walletVars, cacheVars, docVars, netVars,
         histVars, procVars, Position
<1>2. LockInv'
  BY DEF LockInv, IInv, ScanRead, procVars, TypeOK
<1>3. DocInv'
  BY DEF DocInv, IInv, ScanRead, docVars, netVars, histVars, Used, Released
<1>4. ClientInv'
  BY DEF ClientInv, IInv, ScanRead, walletVars, cacheVars, docVars,
         procVars, TypeOK, Used, Preparing
<1>5. ReserveInv'
  BY DEF ReserveInv, IInv, ScanRead, cacheVars, docVars, histVars,
         HoldsInputs, Released
<1>6. ChangeInv'
  BY DEF ChangeInv, IInv, ScanRead, walletVars, cacheVars, docVars, netVars,
         histVars, ChangeExclusive, Released
<1>7. CoinInv'
  BY DEF CoinInv, IInv, ScanRead, cacheVars, docVars, netVars, histVars,
         Released, SpentOnChain
<1>8. ScanInv'
  BY DEF ScanInv, IInv, ScanRead, cacheVars, docVars, netVars, procVars,
         TypeOK, SpentByPosted, Unspent, DocInv, HasEntry
<1>9. PendingInv'
  BY DEF PendingInv, IInv, ScanRead, cacheVars, docVars
<1>10. EntryInv'
  BY DEF EntryInv, IInv, ScanRead, walletVars, cacheVars, procVars, docVars,
         TypeOK, HasEntry, Book, NoActiveDraft
<1> QED BY <1>1, <1>2, <1>3, <1>4, <1>5, <1>6, <1>7, <1>8, <1>9, <1>10
        DEF IInv

(* The rewritten entry keeps the reservations and drops the blocks of      *)
(* transactions a block contains.                                          *)
LEMMA ScanMergeStep ==
  ASSUME IInv, NEW c \in Client, NEW seen \in SUBSET mined,
         ScanMerge(c, seen)
  PROVE  IInv'
<1>1. TypeOK'
  BY IndexAssumption
     DEF TypeOK, IInv, ScanMerge, Finish, ScanOver, walletVars, docVars,
         netVars, histVars, Position
<1>2. LockInv'
  BY DEF LockInv, IInv, ScanMerge, Finish, TypeOK
<1>3. DocInv'
  BY DEF DocInv, IInv, ScanMerge, docVars, netVars, histVars, Used, Released
<1>4. ClientInv'
  BY DEF ClientInv, IInv, ScanMerge, Finish, walletVars, docVars, TypeOK,
         Used, Preparing
<1>5. ReserveInv'
  BY DEF ReserveInv, IInv, ScanMerge, docVars, histVars, HoldsInputs, Released
<1>6. ChangeInv'
  BY DEF ChangeInv, IInv, ScanMerge, walletVars, docVars, netVars, histVars,
         ChangeExclusive, Released
<1>7. CoinInv'
  BY DEF CoinInv, IInv, ScanMerge, docVars, netVars, histVars, TypeOK,
         PendingInv, Released, SpentOnChain
<1>8. ScanInv'
  BY DEF ScanInv, IInv, ScanMerge, Finish, ScanOver, docVars, netVars, TypeOK,
         SpentByPosted, HasEntry
<1>9. PendingInv'
  BY DEF PendingInv, IInv, ScanMerge, docVars
<1>10. EntryInv'
  BY DEF EntryInv, IInv, ScanMerge, walletVars, docVars, Finish, ScanOver,
         TypeOK, HasEntry, Book, NoActiveDraft
<1> QED BY <1>1, <1>2, <1>3, <1>4, <1>5, <1>6, <1>7, <1>8, <1>9, <1>10
        DEF IInv

(* A block contains only what a node had accepted.                          *)
LEMMA MineStep ==
  ASSUME IInv, NEW d \in Draft, Mine(d)
  PROVE  IInv'
<1>1. TypeOK'
  BY DEF TypeOK, IInv, Mine, walletVars, cacheVars, docVars, histVars,
         procVars, scanVars
<1>2. LockInv'
  BY DEF LockInv, IInv, Mine, procVars
<1>3. DocInv'
  BY DEF DocInv, IInv, Mine, docVars, histVars, Used, Released
<1>4. ClientInv'
  BY DEF ClientInv, IInv, Mine, walletVars, cacheVars, docVars, procVars,
         Used, Preparing
<1>5. ReserveInv'
  BY DEF ReserveInv, IInv, Mine, cacheVars, docVars, histVars, HoldsInputs,
         Released
<1>6. ChangeInv'
  BY DEF ChangeInv, IInv, Mine, walletVars, cacheVars, docVars, histVars,
         ChangeExclusive, Released
<1>7. CoinInv'
  BY DEF CoinInv, IInv, Mine, cacheVars, docVars, histVars, Released,
         SpentOnChain
<1>8. ScanInv'
  BY DEF ScanInv, IInv, Mine, cacheVars, docVars, procVars, scanVars,
         SpentByPosted, HasEntry
<1>9. PendingInv'
  BY DEF PendingInv, IInv, Mine, cacheVars, docVars
<1>10. EntryInv'
  BY DEF EntryInv, IInv, Mine, walletVars, cacheVars, scanVars, procVars,
         docVars, TypeOK, HasEntry, Book, NoActiveDraft
<1> QED BY <1>1, <1>2, <1>3, <1>4, <1>5, <1>6, <1>7, <1>8, <1>9, <1>10
        DEF IInv

(* A mempool forgets a transaction, the wallet does not.                    *)
LEMMA EvictStep ==
  ASSUME IInv, NEW d \in Draft, Evict(d)
  PROVE  IInv'
<1>1. TypeOK'
  BY DEF TypeOK, IInv, Evict, walletVars, cacheVars, docVars, histVars,
         procVars, scanVars
<1>2. LockInv'
  BY DEF LockInv, IInv, Evict, procVars
<1>3. DocInv'
  BY DEF DocInv, IInv, Evict, docVars, histVars, Used, Released
<1>4. ClientInv'
  BY DEF ClientInv, IInv, Evict, walletVars, cacheVars, docVars, procVars,
         Used, Preparing
<1>5. ReserveInv'
  BY DEF ReserveInv, IInv, Evict, cacheVars, docVars, histVars, HoldsInputs,
         Released
<1>6. ChangeInv'
  BY DEF ChangeInv, IInv, Evict, walletVars, cacheVars, docVars, histVars,
         ChangeExclusive, Released
<1>7. CoinInv'
  BY DEF CoinInv, IInv, Evict, cacheVars, docVars, histVars, Released,
         SpentOnChain
<1>8. ScanInv'
  BY DEF ScanInv, IInv, Evict, cacheVars, docVars, procVars, scanVars,
         SpentByPosted, HasEntry
<1>9. PendingInv'
  BY DEF PendingInv, IInv, Evict, cacheVars, docVars
<1>10. EntryInv'
  BY DEF EntryInv, IInv, Evict, walletVars, cacheVars, scanVars, procVars,
         docVars, TypeOK, HasEntry, Book, NoActiveDraft
<1> QED BY <1>1, <1>2, <1>3, <1>4, <1>5, <1>6, <1>7, <1>8, <1>9, <1>10
        DEF IInv

(* What comes back to the mempool was sent before.                          *)
LEMMA RelayStep ==
  ASSUME IInv, NEW d \in Draft, Relay(d)
  PROVE  IInv'
<1>1. TypeOK'
  BY DEF TypeOK, IInv, Relay, walletVars, cacheVars, docVars, histVars,
         procVars, scanVars
<1>2. LockInv'
  BY DEF LockInv, IInv, Relay, procVars
<1>3. DocInv'
  BY DEF DocInv, IInv, Relay, docVars, histVars, Used, Released
<1>4. ClientInv'
  BY DEF ClientInv, IInv, Relay, walletVars, cacheVars, docVars, procVars,
         Used, Preparing
<1>5. ReserveInv'
  BY DEF ReserveInv, IInv, Relay, cacheVars, docVars, histVars, HoldsInputs,
         Released
<1>6. ChangeInv'
  BY DEF ChangeInv, IInv, Relay, walletVars, cacheVars, docVars, histVars,
         ChangeExclusive, Released
<1>7. CoinInv'
  BY DEF CoinInv, IInv, Relay, cacheVars, docVars, histVars, Released,
         SpentOnChain
<1>8. ScanInv'
  BY DEF ScanInv, IInv, Relay, cacheVars, docVars, procVars, scanVars,
         SpentByPosted, HasEntry
<1>9. PendingInv'
  BY DEF PendingInv, IInv, Relay, cacheVars, docVars
<1>10. EntryInv'
  BY DEF EntryInv, IInv, Relay, walletVars, cacheVars, scanVars, procVars,
         docVars, TypeOK, HasEntry, Book, NoActiveDraft
<1> QED BY <1>1, <1>2, <1>3, <1>4, <1>5, <1>6, <1>7, <1>8, <1>9, <1>10
        DEF IInv

(* A cancel releases all reservations of one draft and no others.          *)
LEMMA CancelStep ==
  ASSUME IInv, NEW c \in Client, NEW d \in Draft, Cancel(c, d)
  PROVE  IInv'
<1>1. TypeOK'
  BY DEF TypeOK, IInv, Cancel, Release, walletVars, docVars, netVars,
         procVars, NoReservation, scanVars
<1>2. LockInv'
  BY DEF LockInv, IInv, Cancel, procVars
<1>3. DocInv'
  BY SentinelAssumption
     DEF DocInv, IInv, Cancel, docVars, netVars, Used, ReserveInv,
         HoldsInputs, Active, Released
<1>4. ClientInv'
  BY SentinelAssumption
     DEF ClientInv, IInv, Cancel, Free, walletVars, docVars, procVars,
         LockInv, Used, Preparing
<1>5. ReserveInv'
  BY SentinelAssumption
     DEF ReserveInv, IInv, Cancel, Release, docVars, TypeOK, HoldsInputs,
         Released, NoReservation
<1>6. ChangeInv'
  BY DEF ChangeInv, IInv, Cancel, Release, walletVars, docVars, netVars,
         ChangeExclusive, Released, NoReservation
<1>7. CoinInv'
  BY DEF CoinInv, IInv, Cancel, Release, docVars, TypeOK, Released, netVars,
         SpentOnChain
<1>8. ScanInv'
  BY DEF ScanInv, IInv, Cancel, docVars, netVars, procVars, scanVars, TypeOK,
         SpentByPosted, HasEntry
<1>9. PendingInv'
  BY DEF PendingInv, IInv, Cancel, docVars
<1>10. EntryInv'
  BY DEF EntryInv, IInv, Cancel, walletVars, scanVars, procVars, docVars,
         Release, TypeOK, HasEntry, Book, NoActiveDraft, NoReservation
<1> QED BY <1>1, <1>2, <1>3, <1>4, <1>5, <1>6, <1>7, <1>8, <1>9, <1>10
        DEF IInv

(* A manual change address never takes a reserved index.                   *)
LEMMA NewChangeAddressStep ==
  ASSUME IInv, NEW c \in Client, NewChangeAddress(c)
  PROVE  IInv'
<1>1. TypeOK'
  BY IndexAssumption
     DEF TypeOK, IInv, NewChangeAddress, cacheVars, docVars, netVars,
         histVars, procVars, Index, scanVars
<1>2. LockInv'
  BY DEF LockInv, IInv, NewChangeAddress, procVars
<1>3. DocInv'
  BY DEF DocInv, IInv, NewChangeAddress, docVars, netVars, histVars, Used,
         Released
<1>4. ClientInv'
  BY SentinelAssumption
     DEF ClientInv, IInv, NewChangeAddress, docVars, procVars, TypeOK,
         ChangeInv, Used, Preparing
<1>5. ReserveInv'
  BY DEF ReserveInv, IInv, NewChangeAddress, cacheVars, docVars, histVars,
         HoldsInputs, Released
<1>6. ChangeInv'
  BY SentinelAssumption
     DEF ChangeInv, IInv, NewChangeAddress, cacheVars, docVars, netVars,
         histVars, ChangeExclusive, TypeOK, Released, Index
<1>7. CoinInv'
  BY DEF CoinInv, IInv, NewChangeAddress, cacheVars, docVars, histVars,
         Released, netVars, SpentOnChain
<1>8. ScanInv'
  BY DEF ScanInv, IInv, NewChangeAddress, cacheVars, docVars, netVars,
         procVars, scanVars, TypeOK, SpentByPosted, HasEntry
<1>9. PendingInv'
  BY DEF PendingInv, IInv, NewChangeAddress, cacheVars, docVars
<1>10. EntryInv'
  BY DEF EntryInv, IInv, NewChangeAddress, cacheVars, scanVars, procVars,
         docVars, TypeOK, HasEntry, Book, NoActiveDraft
<1> QED BY <1>1, <1>2, <1>3, <1>4, <1>5, <1>6, <1>7, <1>8, <1>9, <1>10
        DEF IInv

(* A receive address is issued beside the payments, without the cache lock. *)
LEMMA NewReceiveAddressStep ==
  ASSUME IInv, NEW c \in Client, NewReceiveAddress(c)
  PROVE  IInv'
<1>1. TypeOK'
  BY IndexAssumption
     DEF TypeOK, IInv, NewReceiveAddress, cacheVars, docVars, netVars,
         histVars, procVars, scanVars
<1>2. LockInv'
  BY DEF LockInv, IInv, NewReceiveAddress, procVars
<1>3. DocInv'
  BY DEF DocInv, IInv, NewReceiveAddress, docVars, netVars, histVars, Used,
         Released
<1>4. ClientInv'
  BY DEF ClientInv, IInv, NewReceiveAddress, cacheVars, docVars, procVars,
         Used, Preparing
<1>5. ReserveInv'
  BY DEF ReserveInv, IInv, NewReceiveAddress, cacheVars, docVars, histVars,
         HoldsInputs, Released
<1>6. ChangeInv'
  BY DEF ChangeInv, IInv, NewReceiveAddress, cacheVars, docVars, netVars,
         histVars, ChangeExclusive, Released
<1>7. CoinInv'
  BY DEF CoinInv, IInv, NewReceiveAddress, cacheVars, docVars, histVars,
         Released, netVars, SpentOnChain
<1>8. ScanInv'
  BY DEF ScanInv, IInv, NewReceiveAddress, cacheVars, docVars, netVars,
         procVars, scanVars, SpentByPosted, HasEntry
<1>9. PendingInv'
  BY DEF PendingInv, IInv, NewReceiveAddress, cacheVars, docVars
<1>10. EntryInv'
  BY IndexAssumption
     DEF EntryInv, IInv, NewReceiveAddress, cacheVars, procVars, scanVars,
         TypeOK, HasEntry, Book, NoActiveDraft
<1> QED BY <1>1, <1>2, <1>3, <1>4, <1>5, <1>6, <1>7, <1>8, <1>9, <1>10
        DEF IInv

(* A process that stops leaves the files as they are.                      *)
LEMMA CrashStep ==
  ASSUME IInv, NEW c \in Client, Crash(c)
  PROVE  IInv'
<1>1. TypeOK'
  BY IndexAssumption
     DEF TypeOK, IInv, Crash, Finish, ScanOver, walletVars, cacheVars,
         docVars, netVars, histVars, Position
<1>2. LockInv'
  BY SentinelAssumption DEF LockInv, IInv, Crash, Finish, TypeOK
<1>3. DocInv'
  BY DEF DocInv, IInv, Crash, docVars, netVars, histVars, Used, Released
<1>4. ClientInv'
  BY DEF ClientInv, IInv, Crash, Finish, walletVars, cacheVars, docVars,
         TypeOK, Used, Preparing
<1>5. ReserveInv'
  BY DEF ReserveInv, IInv, Crash, cacheVars, docVars, histVars, HoldsInputs,
         Released
<1>6. ChangeInv'
  BY DEF ChangeInv, IInv, Crash, walletVars, cacheVars, docVars, netVars,
         histVars, ChangeExclusive, Released
<1>7. CoinInv'
  BY DEF CoinInv, IInv, Crash, cacheVars, docVars, histVars, Released,
         netVars, SpentOnChain
<1>8. ScanInv'
  BY DEF ScanInv, IInv, Crash, cacheVars, docVars, netVars, Finish, ScanOver,
         TypeOK, SpentByPosted, HasEntry
<1>9. PendingInv'
  BY DEF PendingInv, IInv, Crash, cacheVars, docVars
<1>10. EntryInv'
  BY DEF EntryInv, IInv, Crash, walletVars, cacheVars, docVars, Finish,
         ScanOver, TypeOK, HasEntry, Book, NoActiveDraft
<1> QED BY <1>1, <1>2, <1>3, <1>4, <1>5, <1>6, <1>7, <1>8, <1>9, <1>10
        DEF IInv

(* A step of nobody.                                                       *)
LEMMA StutterStep == IInv /\ UNCHANGED vars => IInv'
<1> SUFFICES ASSUME IInv, UNCHANGED vars PROVE IInv'
  OBVIOUS
<1> USE DEF IInv, vars, walletVars, cacheVars, docVars, netVars, histVars,
            procVars, scanVars
<1>1. TypeOK'
  BY DEF TypeOK
<1>2. LockInv'
  BY DEF LockInv
<1>3. DocInv'
  BY DEF DocInv, Released, Used
<1>4. ClientInv'
  BY DEF ClientInv, Preparing, Used
<1>5. ReserveInv'
  BY DEF ReserveInv, HoldsInputs, Released
<1>6. ChangeInv'
  BY DEF ChangeInv, ChangeExclusive, Released
<1>7. CoinInv'
  BY DEF CoinInv, Released, SpentOnChain
<1>8. ScanInv'
  BY DEF ScanInv, SpentByPosted, HasEntry
<1>9. PendingInv'
  BY DEF PendingInv
<1>10. EntryInv'
  BY DEF EntryInv, HasEntry, Book, NoActiveDraft
<1> QED BY <1>1, <1>2, <1>3, <1>4, <1>5, <1>6, <1>7, <1>8, <1>9, <1>10

(* Every step of every process and of the network preserves the invariant. *)
LEMMA NextStep == IInv /\ [Next]_vars => IInv'
<1> SUFFICES ASSUME IInv, [Next]_vars PROVE IInv'
  OBVIOUS
<1>1. CASE UNCHANGED vars
  BY <1>1, StutterStep
<1>2. CASE \E c \in Client : Process(c)
  <2> PICK c \in Client :
         \/ Prepare(c) \/ Sign(c) \/ Broadcast(c) \/ Scan(c)
         \/ (\E d \in Draft : Cancel(c, d))
         \/ NewChangeAddress(c) \/ NewReceiveAddress(c) \/ Crash(c)
    BY <1>2 DEF Process
  <2>1. CASE Prepare(c)
    BY <2>1, FundSelectStep, FundChangeStep, FundDoneStep, FundFailStep DEF Prepare
  <2>2. CASE Sign(c)
    BY <2>2, SignBeginStep, SignRefuseStep, SignFailStep,
       SignWithoutChangeStep, SignAgainStep, SignIssueStep, SignSaveStep,
       SignSaveFailStep DEF Sign
  <2>3. CASE Broadcast(c)
    BY <2>3, BroadcastCheckStep, PostAcceptedStep, PostReplyLostStep,
       PostRefusedStep, RecordStep DEF Broadcast
  <2>4. CASE \E d \in Draft : Cancel(c, d)
    BY <2>4, CancelStep
  <2>5. CASE NewChangeAddress(c) \/ NewReceiveAddress(c) \/ Crash(c)
    BY <2>5, NewChangeAddressStep, NewReceiveAddressStep, CrashStep
  <2>6. CASE Scan(c)
    BY <2>6, ReadIdentityStep, DiscardStaleStep, ScanBeginStep, ScanReadStep,
       ScanMergeStep DEF Scan
  <2> QED BY <2>1, <2>2, <2>3, <2>4, <2>5, <2>6
<1>3. CASE Network
  BY <1>3, MineStep, EvictStep, RelayStep DEF Network
<1> QED BY <1>1, <1>2, <1>3 DEF Next

(* The inductive invariant holds in every reachable state.                 *)
THEOREM Inductive == Spec => []IInv
  BY InitInv, NextStep, PTL DEF Spec

(* Files, documents and processes are always of their types.               *)
THEOREM TypeCorrect == Spec => []TypeOK
<1>1. IInv => TypeOK
  BY DEF IInv
<1> QED BY <1>1, Inductive, PTL

(* The reservations of a wallet name at most one draft, however many       *)
(* processes prepare, sign, cancel, broadcast and stop at once.            *)
THEOREM AtMostOneActiveDraft == Spec => []OneActiveDraft
<1>1. IInv => OneActiveDraft
  BY SentinelAssumption DEF IInv, ReserveInv, OneActiveDraft, Active,
     HoldsInputs
<1> QED BY <1>1, Inductive, PTL

(* The change address of a transaction that was sent was issued for it     *)
(* alone.                                                                  *)
THEOREM ChangeIsExclusive == Spec => []ChangeExclusive
<1>1. IInv => ChangeExclusive
  BY DEF IInv, ChangeInv
<1> QED BY <1>1, Inductive, PTL

(* Two transactions that were sent share a coin only if one of them was    *)
(* released, its claims went with an entry that a sync discarded, or a     *)
(* block had spent the coin: no crash, lost reply, refusal, retry,         *)
(* eviction or late merge suffices.                                        *)
THEOREM ConflictsAreForced == Spec => []NoUnforcedConflict
<1>1. IInv => NoUnforcedConflict
  BY DEF IInv, TypeOK, CoinInv, NoUnforcedConflict
<1> QED BY <1>1, Inductive, PTL

OneScanner == \A a, b \in Scanner : a = b

\* While one process scans, the entry lists nothing that its sync did not read.
LoneScanInv ==
  /\ discarded = {}
  /\ \A c \in Client : pc[c] = "identity" => listed <= view[c]

(* Nobody merges between the two sections of a lone scanner's sync.        *)
LEMMA LoneScanStep ==
  ASSUME OneScanner, IInv, LoneScanInv, [Next]_vars
  PROVE  LoneScanInv'
<1>1. ASSUME UNCHANGED <<listed, view, discarded>>,
             \A c \in Client : pc'[c] = "identity" => pc[c] = "identity"
      PROVE  LoneScanInv'
  BY <1>1 DEF LoneScanInv
<1>2. CASE UNCHANGED vars
  BY <1>1, <1>2 DEF vars, procVars, cacheVars, scanVars, histVars
<1>3. CASE Network
  BY <1>1, <1>3
     DEF Network, Mine, Evict, Relay, procVars, cacheVars, scanVars, histVars
<1>4. ASSUME NEW b \in Client, Process(b)
      PROVE  LoneScanInv'
  <2>1. CASE Prepare(b)
    BY <1>1, <2>1
       DEF Prepare, FundSelect, FundChange, FundDone, FundFail, Drop, Step,
           Finish, IInv, TypeOK, cacheVars, scanVars, histVars
  <2>2. CASE Sign(b)
    BY <1>1, <2>2
       DEF Sign, SignBegin, SignRefuse, SignFail, SignWithoutChange, SignAgain,
           SignIssue, SignSave, SignSaveFail, Drop, Step, Finish, IInv, TypeOK,
           procVars, cacheVars, scanVars, histVars
  <2>3. CASE Broadcast(b)
    BY <1>1, <2>3
       DEF Broadcast, BroadcastCheck, PostAccepted, PostReplyLost, PostRefused,
           Record, Step, Finish, IInv, TypeOK, cacheVars, scanVars, histVars
  <2>4. CASE \/ \E d \in Draft : Cancel(b, d)
             \/ NewChangeAddress(b) \/ NewReceiveAddress(b)
    BY <1>1, <2>4
       DEF Cancel, NewChangeAddress, NewReceiveAddress, procVars, cacheVars,
           scanVars, histVars
  <2>5. CASE ReadIdentity(b) \/ ScanBegin(b) \/ Crash(b)
    BY <2>5
       DEF LoneScanInv, IInv, TypeOK, EntryInv, ReadIdentity, ScanBegin, Crash,
           ScanOver, Step, Finish, cacheVars, histVars
  <2>6. CASE DiscardStale(b)
    <3>1. UNCHANGED <<listed, discarded>>
      BY <2>6, IndexAssumption
         DEF LoneScanInv, IInv, TypeOK, DiscardStale, Step, cacheVars
    <3> QED
      BY <2>6, <3>1 DEF LoneScanInv, IInv, TypeOK, DiscardStale, Step
  <2>7. CASE \E x \in Coin : ScanRead(b, x)
    BY <1>1, <2>7 DEF ScanRead, procVars, cacheVars, histVars
  <2>8. CASE \E seen \in SUBSET mined : ScanMerge(b, seen)
    <3>1. \A c \in Client \ {b} : pc[c] # "identity"
      BY <2>8 DEF OneScanner, IInv, EntryInv, ScanMerge
    <3> QED
      BY <2>8, <3>1 DEF LoneScanInv, IInv, TypeOK, ScanMerge, Finish, histVars
  <2> QED
    BY <1>4, <2>1, <2>2, <2>3, <2>4, <2>5, <2>6, <2>7, <2>8 DEF Process, Scan
<1> QED BY <1>2, <1>3, <1>4 DEF Next

(* While one process scans, no sync takes the wallet's own entry for a     *)
(* foreign one: what two transactions that were sent have in common was    *)
(* released, or spent by a block.                                          *)
THEOREM LoneScanKeepsClaims ==
  ASSUME OneScanner
  PROVE  Spec => []ConflictsNeedRelease
<1>1. Init => LoneScanInv
  BY DEF Init, LoneScanInv
<1>2. IInv /\ LoneScanInv /\ [Next]_vars => LoneScanInv'
  BY LoneScanStep
<1>3. IInv /\ LoneScanInv => ConflictsNeedRelease
  BY DEF IInv, TypeOK, CoinInv, LoneScanInv, ConflictsNeedRelease
<1> QED BY <1>1, <1>2, <1>3, Inductive, PTL DEF Spec

(* An active draft with a document holds every one of its coins and its    *)
(* change.  Validation of signing then refuses it only for a coin that is  *)
(* missing from utxos, and such a coin is spent by a transaction that was  *)
(* sent.                                                                   *)
THEOREM ActiveDraftsAreSignable == Spec => []ActiveDraftSignable
<1>1. IInv => ActiveDraftSignable
  BY SentinelAssumption DEF IInv, TypeOK, DocInv, ReserveInv, ChangeInv,
     ScanInv, EntryInv, NoActiveDraft, ActiveDraftSignable, Active,
     HoldsInputs, OwnsChange, Issued,
     Used, Released, SpentByPosted
<1> QED BY <1>1, Inductive, PTL

(* The coins of an accepted transaction are not offered to another one     *)
(* until a block spends them, the transaction is released, or its claims   *)
(* go with an entry that a sync discards.                                  *)
THEOREM AcceptedCoinsStayBlocked == Spec => []AcceptedCoinsBlocked
<1>1. IInv => AcceptedCoinsBlocked
  BY SentinelAssumption DEF IInv, TypeOK, CoinInv, AcceptedCoinsBlocked
<1> QED BY <1>1, Inductive, PTL

(* A reservation of the current index is made by FundChange alone.         *)
LEMMA FundChangeReserves ==
  ASSUME IInv, NEW c \in Client, FundChange(c)
  PROVE  Life!Reserve(cur[c]) /\ cur[c] \in Draft
<1>1. Holder = NoDraft /\ Holder' = cur[c]
  BY DEF IInv, TypeOK, ChangeInv, FundChange, Step, walletVars, Holder,
     NoReservation, NoIndex
<1>2. cur[c] \in Draft
  BY DEF IInv, ClientInv, FundChange, Step, Used
<1> QED
  BY <1>1, <1>2 DEF FundChange, walletVars, Life!Reserve

(* Whoever is released, the current index is kept or given back.           *)
LEMMA ReleaseGivesBack ==
  ASSUME IInv, NEW d \in Draft, Release(d), UNCHANGED walletVars
  PROVE  Life!GiveBack \/ UNCHANGED Life!lifeVars
<1>1. CASE resChange.draft = d /\ resChange.index = nextChange
  <2>1. Holder = d /\ Holder' = NoDraft
    BY <1>1 DEF IInv, TypeOK, Release, Holder, NoReservation, NoIndex,
       walletVars
  <2> QED BY <2>1, SentinelAssumption DEF Life!GiveBack, walletVars
<1>2. CASE ~(resChange.draft = d /\ resChange.index = nextChange)
  <2>1. Holder' = Holder
    BY <1>2 DEF IInv, TypeOK, Release, Holder, NoReservation, NoIndex,
       walletVars
  <2> QED BY <2>1 DEF Life!lifeVars, walletVars
<1> QED BY <1>1, <1>2

(* Signing issues the index to its holder, or accepts one issued before.   *)
LEMMA SignIssueIssues ==
  ASSUME IInv, NEW c \in Client, SignIssue(c)
  PROVE  Life!IssueReserved \/ UNCHANGED Life!lifeVars
<1> DEFINE k == change[cur[c]]
<1>1. resChange = [draft |-> cur[c], index |-> k] /\ UNCHANGED resChange
  BY DEF SignIssue, cacheVars
<1>2. cur[c] \in Draft /\ k \in Index /\ nextChange \in Nat
  <2>1. cur[c] \in Draft
    BY DEF IInv, ClientInv, SignIssue, Step, Used
  <2>2. k \in Index
    BY <2>1 DEF IInv, TypeOK, SignIssue
  <2> QED BY <2>1, <2>2, IndexAssumption DEF IInv, TypeOK
<1>3. CASE k = nextChange /\ issuedTo' = [issuedTo EXCEPT ![k] = cur[c]]
           /\ nextChange' = k + 1
  <2>1. Holder = cur[c] /\ Holder' = NoDraft
    BY <1>1, <1>2, <1>3 DEF Holder
  <2> QED
    BY <1>2, <1>3, <2>1, SentinelAssumption, IndexAssumption
    DEF Index, Life!IssueReserved, Life!IssueTo
<1>4. CASE k < nextChange /\ UNCHANGED <<nextChange, issuedTo>>
  BY <1>1, <1>4 DEF Holder, Life!lifeVars
<1> QED BY <1>3, <1>4 DEF SignIssue, IssueChange

(* Saving the cache after an issue gives up an index that is no longer     *)
(* the current one.                                                        *)
LEMMA SignSaveKeeps ==
  ASSUME IInv, NEW c \in Client, SignSave(c)
  PROVE  UNCHANGED Life!lifeVars
<1>1. resChange.index \in Index /\ resChange.index < nextChange
  BY SentinelAssumption DEF IInv, TypeOK, ClientInv, ChangeInv, SignSave, Used
<1>2. Holder = NoDraft /\ Holder' = NoDraft
  BY <1>1, IndexAssumption
  DEF IInv, TypeOK, SignSave, Holder, NoReservation, NoIndex, walletVars, Index
<1> QED BY <1>2 DEF SignSave, walletVars, Life!lifeVars

(* A manual change address is issued only while nobody holds the index.    *)
LEMMA NewChangeIssues ==
  ASSUME IInv, NEW c \in Client, NewChangeAddress(c)
  PROVE  Life!IssueManual
<1>1. Holder = NoDraft /\ Holder' = NoDraft
  BY IndexAssumption DEF IInv, TypeOK, ChangeInv, NewChangeAddress, cacheVars,
     Holder, NoReservation, NoIndex
<1> QED BY <1>1 DEF NewChangeAddress, Life!IssueManual, Life!IssueTo

(* Every other step leaves the change branch alone.                        *)
LEMMA OthersKeep ==
  ASSUME UNCHANGED <<nextChange, issuedTo, resChange>>
  PROVE  UNCHANGED Life!lifeVars
  BY DEF Holder, Life!lifeVars

(* A discarded entry gives the current index back, if it was reserved.     *)
LEMMA DiscardGivesBack ==
  ASSUME IInv, NEW c \in Client, DiscardStale(c)
  PROVE  Life!GiveBack \/ UNCHANGED Life!lifeVars
<1>1. CASE UNCHANGED resChange
  BY <1>1, OthersKeep DEF DiscardStale, walletVars
<1>2. CASE resChange' = NoReservation
  <2>1. Holder' = NoDraft /\ UNCHANGED <<nextChange, issuedTo>>
    BY <1>2 DEF IInv, TypeOK, DiscardStale, walletVars, Holder, NoReservation,
       NoIndex
  <2>2. Holder = NoDraft => UNCHANGED Life!lifeVars
    BY <2>1 DEF Life!lifeVars
  <2> QED BY <2>1, <2>2 DEF Life!GiveBack
<1> QED BY <1>1, <1>2 DEF DiscardStale, DropEntry, cacheVars

(* Every step of the workflow is a step of ChangeLifecycle, or none.       *)
LEMMA LifeStep == IInv /\ [Next]_vars => [Life!LifeNext]_(Life!lifeVars)
<1> SUFFICES ASSUME IInv, [Next]_vars
             PROVE  Life!LifeNext \/ UNCHANGED Life!lifeVars
  OBVIOUS
<1>1. CASE UNCHANGED vars
  BY <1>1, OthersKeep DEF vars, walletVars, cacheVars
<1>2. CASE \E c \in Client : Process(c)
  <2> PICK c \in Client :
         \/ Prepare(c) \/ Sign(c) \/ Broadcast(c) \/ Scan(c)
         \/ (\E d \in Draft : Cancel(c, d))
         \/ NewChangeAddress(c) \/ NewReceiveAddress(c) \/ Crash(c)
    BY <1>2 DEF Process
  <2>1. ASSUME NEW d \in Draft, Release(d), UNCHANGED walletVars
        PROVE  Life!LifeNext \/ UNCHANGED Life!lifeVars
    BY <2>1, ReleaseGivesBack DEF Life!LifeNext
  <2>2. pc[c] \notin {"idle", "identity", "scanning"} => cur[c] \in Draft
    BY DEF IInv, ClientInv, Used
  <2>3. CASE Prepare(c)
    <3>1. CASE \E d \in Draft, S \in SUBSET Coin, n \in BOOLEAN :
                 FundSelect(c, d, S, n)
      BY <3>1, OthersKeep DEF FundSelect, walletVars
    <3>2. CASE FundChange(c)
      BY <3>2, FundChangeReserves DEF Life!LifeNext
    <3>3. CASE FundDone(c)
      BY <3>3, OthersKeep DEF FundDone, walletVars, cacheVars
    <3>4. CASE FundFail(c)
      BY <2>1, <2>2, <3>4 DEF FundFail, Drop
    <3> QED BY <2>3, <3>1, <3>2, <3>3, <3>4 DEF Prepare
  <2>4. CASE Sign(c)
    <3>1. CASE \E d \in Draft : SignBegin(c, d) \/ SignRefuse(c, d)
      BY <2>1, <3>1, OthersKeep DEF SignBegin, SignRefuse, Drop, walletVars,
         cacheVars
    <3>2. CASE SignFail(c)
      BY <2>1, <2>2, <3>2 DEF SignFail, Drop
    <3>3. CASE SignWithoutChange(c) \/ SignAgain(c)
      BY <3>3, OthersKeep DEF SignWithoutChange, SignAgain, walletVars,
         cacheVars
    <3>4. CASE SignIssue(c)
      BY <3>4, SignIssueIssues DEF Life!LifeNext
    <3>5. CASE SignSave(c)
      BY <3>5, SignSaveKeeps
    <3>6. ASSUME NEW r \in BOOLEAN, SignSaveFail(c, r)
          PROVE  Life!LifeNext \/ UNCHANGED Life!lifeVars
      BY <2>1, <2>2, <3>6, OthersKeep DEF SignSaveFail, Drop, walletVars
    <3> QED BY <2>4, <3>1, <3>2, <3>3, <3>4, <3>5, <3>6 DEF Sign
  <2>5. CASE Broadcast(c)
    BY <2>5, OthersKeep DEF Broadcast, BroadcastCheck, PostAccepted,
       PostReplyLost, PostRefused, Record, walletVars, cacheVars
  <2>6. CASE \E d \in Draft : Cancel(c, d)
    BY <2>1, <2>6 DEF Cancel
  <2>7. CASE NewChangeAddress(c)
    BY <2>7, NewChangeIssues DEF Life!LifeNext
  <2>8. CASE Crash(c)
    BY <2>8, OthersKeep DEF Crash, walletVars, cacheVars
  <2>9. CASE Scan(c)
    <3>1. CASE DiscardStale(c)
      BY <3>1, DiscardGivesBack DEF Life!LifeNext
    <3>2. CASE \/ ReadIdentity(c) \/ ScanBegin(c)
               \/ \E x \in Coin : ScanRead(c, x)
               \/ \E seen \in SUBSET mined : ScanMerge(c, seen)
      BY <3>2, OthersKeep DEF ReadIdentity, ScanBegin, ScanRead, ScanMerge,
         walletVars, cacheVars
    <3> QED BY <2>9, <3>1, <3>2 DEF Scan
  <2>10. CASE NewReceiveAddress(c)
    BY <2>10, OthersKeep DEF NewReceiveAddress, cacheVars
  <2> QED BY <2>3, <2>4, <2>5, <2>6, <2>7, <2>8, <2>9, <2>10
<1>3. CASE Network
  BY <1>3, OthersKeep DEF Network, Mine, Evict, Relay, walletVars, cacheVars
<1> QED BY <1>1, <1>2, <1>3 DEF Next

(* The workflow implements ChangeLifecycle: every change index is, in      *)
(* order, available, reserved for one draft and issued once and for all.   *)
THEOREM Refinement == Spec => ChangeLifecycleHolds
<1>1. Init => Life!LifeInit
  BY DEF Init, Life!LifeInit, Holder, Index, NoReservation, NoIndex
<1> QED
  BY <1>1, LifeStep, Inductive, PTL DEF Spec, ChangeLifecycleHolds, Life!LifeSpec

=============================================================================
