---------------------- MODULE SingleKeyPayment_proofs ----------------------
(***************************************************************************)
(* Proofs that the payments of the single-key wallets keep every safety    *)
(* property that the run checks, for any number of processes, names,       *)
(* imports of the key, operations, coins and blocks.                       *)
(*                                                                         *)
(* The argument.  A reservation or a pending spend belongs to the wallet   *)
(* whose entry holds it (ClaimInv), and a coin is held for one operation   *)
(* whatever the entry (OnceInv): select looks at every entry, and all that *)
(* replaces a claim is the operation that has it already.  What was sent   *)
(* or is about to be holds all of its coins until a scan has found it      *)
(* (SentInv): the intent marks them before the POST, the wallet cannot be  *)
(* removed while they are marked, and a scan unmarks what it has seen.     *)
(***************************************************************************)
EXTENDS SingleKeyPayment, TLAPS

\* Operation d has coin x in the entry of name n.
Holds(n, x, d) == entry[n].res[x] = d \/ entry[n].spent[x] = d

\* Process c has written the intent of d and has not finished.
Sending(c, d) == pc[c] \in {"intent", "replied"} /\ cur[c] = d

\* What was sent, or is about to be.
Sent(d) == d \in posted \/ \E c \in Client : Sending(c, d)

\* A record and an entry carry the id of a wallet of their name.
RecordInv ==
  \A n \in Name :
    /\ record[n] # NoWallet => NameOf[record[n]] = n
    /\ entry[n].id # NoWallet => NameOf[entry[n].id] = n

\* What holds a coin is an operation of the wallet of the entry, and the coin
\* is an input of it.
ClaimInv ==
  \A n \in Name, x \in Coin, d \in Op :
    Holds(n, x, d) => entry[n].id # NoWallet /\ of[d] = entry[n].id /\ x \in ins[d]

\* A coin is held for one operation, in all of the entries.
OnceInv ==
  \A n, m \in Name, x \in Coin, d, e \in Op :
    Holds(n, x, d) /\ Holds(m, x, e) => d = e

\* A pending transaction was signed, an unknown outcome keeps its reservations
\* marked as attempted, and a pending spend has its pending transaction.
StatusInv ==
  \A n \in Name, d \in Op :
    /\ entry[n].status[d] # "none" => d \in signed
    /\ entry[n].status[d] = "broadcast_unknown" => d \in entry[n].attempted
    /\ \A x \in Coin : entry[n].spent[x] = d => entry[n].status[d] # "none"

\* What the node and the scans know of was sent; what was signed or cancelled
\* has inputs and a wallet.
NetInv ==
  /\ Known \subseteq posted /\ signed \subseteq Used /\ cancelled \subseteq Used
  /\ \A d \in Used : of[d] # NoWallet
  /\ \A c \in Client : scan[c].seen \subseteq posted

\* What a process knows of its record and its operation.  A wallet whose
\* operation is being broadcast is recorded while a reservation of it is there.
Working(c) ==
  /\ pc[c] # "idle" => rec[c] # NoWallet
  /\ pc[c] = "reserved" => cur[c] \in Used \ signed
  /\ pc[c] = "loaded" /\ cur[c] # NoOp =>
       /\ cur[c] \in signed /\ of[cur[c]] = rec[c]
       /\ \A x \in Coin : EntryAt(c).res[x] = cur[c] => record[NameAt(c)] = rec[c]
  /\ pc[c] \in {"intent", "replied"} => cur[c] \in signed /\ of[cur[c]] = rec[c]

\* No two processes prepare one operation.
ClientInv ==
  /\ \A c \in Client : Working(c)
  /\ \A c, k \in Client :
       pc[c] = "reserved" /\ pc[k] = "reserved" /\ cur[c] = cur[k] => c = k

\* A cancelled operation reserves nothing, and the reservations of one that was
\* sent, or is about to be, cannot be cancelled.
CancelInv ==
  \A d \in Op :
    /\ d \in cancelled => \A n \in Name, x \in Coin : entry[n].res[x] # d
    /\ Sent(d) =>
         /\ d \notin cancelled
         /\ \A n \in Name, x \in Coin : entry[n].res[x] = d => d \in entry[n].attempted

\* The wallet of d is recorded, its entry is its own and blocks every input.
Blocked(d) ==
  /\ record[NameOf[of[d]]] = of[d] /\ entry[NameOf[of[d]]].id = of[d]
  /\ \A x \in ins[d] : entry[NameOf[of[d]]].spent[x] = d

\* What was sent, or is about to be, is blocked until a scan has found it.
SentInv == \A d \in Op : Sent(d) /\ d \notin reconciled => Blocked(d)

\* The inductive invariant.
IInv ==
  /\ TypeOK /\ RecordInv /\ ClaimInv /\ OnceInv /\ StatusInv /\ NetInv /\ ClientInv
  /\ CancelInv /\ SentInv /\ UnknownStaysBlocked

USE OpAssumption, WalletAssumption, TipAssumption

(* It holds of empty files.                                                *)
LEMMA InitIInv == Init => IInv
<1> SUFFICES ASSUME Init PROVE IInv
  OBVIOUS
<1> USE DEF Init, NoEntry, NoScan, NoClaims
<1>1. NoClaims \in Claims /\ NoEntry \in Entries /\ NoScan \in Scans
  BY DEF Claims, Entries, Scans, Statuses
<1>2. TypeOK
  BY <1>1 DEF TypeOK
<1>3. RecordInv /\ ClaimInv /\ OnceInv /\ StatusInv
  BY DEF RecordInv, ClaimInv, OnceInv, StatusInv, Holds
<1>4. NetInv /\ ClientInv
  BY DEF NetInv, ClientInv, Working, Known, Used
<1>5. CancelInv /\ SentInv /\ UnknownStaysBlocked
  BY DEF CancelInv, SentInv, UnknownStaysBlocked, Sent, Sending
<1> QED BY <1>2, <1>3, <1>4, <1>5 DEF IInv

-----------------------------------------------------------------------------
(* An operation that was sent was signed, for a wallet with a name.        *)
LEMMA OfSent ==
  ASSUME IInv, NEW d \in Op, Sent(d)
  PROVE  d \in signed /\ of[d] \in Wallet /\ NameOf[of[d]] \in Name
<1>1. d \in signed
  BY DEF IInv, TypeOK, ClientInv, Working, Sent, Sending
<1>2. of[d] \in Wallet
  BY <1>1 DEF IInv, TypeOK, NetInv
<1> QED BY <1>1, <1>2

(* A process inside an operation has the record of a wallet.               *)
LEMMA AtWork ==
  ASSUME IInv, NEW c \in Client, ~At(c, "idle")
  PROVE  rec[c] \in Wallet /\ NameAt(c) \in Name /\ EntryAt(c) \in Entries
<1>1. rec[c] \in Wallet
  BY DEF IInv, TypeOK, ClientInv, Working, At
<1> QED BY <1>1 DEF IInv, TypeOK, NameAt, EntryAt

(* A lock section writes one entry and leaves the others alone.            *)
LEMMA Written ==
  ASSUME IInv, NEW c \in Client, ~At(c, "idle"), NEW e \in Entries, Write(c, e)
  PROVE  /\ entry' \in [Name -> Entries] /\ entry'[NameAt(c)] = e
         /\ \A m \in Name : m # NameAt(c) => entry'[m] = entry[m]
  BY AtWork DEF IInv, TypeOK, Write

(* A process that finishes is idle, and the others stay where they are.    *)
LEMMA IdleStep ==
  ASSUME TypeOK, NEW c \in Client, Finish(c)
  PROVE  /\ pc'[c] = "idle"
         /\ \A k \in Client : k # c => /\ pc'[k] = pc[k] /\ rec'[k] = rec[k]
                                      /\ cur'[k] = cur[k] /\ scan'[k] = scan[k]
         /\ scan'[c].seen = {}
         /\ pc' \in [Client -> {"idle", "loaded", "reserved", "intent", "replied",
                               "scan", "merge"}]
         /\ rec' \in [Client -> Wallet \cup {NoWallet}]
         /\ cur' \in [Client -> Op \cup {NoOp}]
         /\ scan' \in [Client -> Scans]
<1>1. NoScan \in Scans /\ NoScan.seen = {}
  BY DEF NoScan, Scans
<1> QED BY <1>1 DEF Finish, TypeOK

(* import_wallet records a wallet under a free name: every record that was *)
(* there stays.                                                            *)
LEMMA ImportStep == ASSUME IInv, NEW w \in Wallet, Import(w) PROVE IInv'
<1> USE DEF Import, docVars, netVars, procVars
<1>1. TypeOK /\ RecordInv /\ ClientInv /\ SentInv
  BY DEF IInv
<1>2. TypeOK'
  BY <1>1 DEF TypeOK
<1>3. RecordInv'
  BY <1>1 DEF RecordInv, TypeOK
<1>4. ClaimInv' /\ OnceInv' /\ StatusInv' /\ NetInv' /\ CancelInv' /\ UnknownStaysBlocked'
  BY DEF IInv, ClaimInv, OnceInv, StatusInv, NetInv, CancelInv, UnknownStaysBlocked, Holds,
         Known, Used, Sent, Sending
<1>5. \A n \in Name : record[n] # NoWallet => record'[n] = record[n]
  BY <1>1 DEF TypeOK
<1>6. ClientInv'
  <2>1. ASSUME NEW c \in Client PROVE Working(c)'
    <3>1. CASE pc[c] = "idle"
      BY <3>1 DEF Working
    <3>2. CASE pc[c] # "idle"
      <4>1. Working(c) /\ rec[c] # NoWallet /\ NameAt(c) \in Name
        BY <1>1, <3>2, AtWork DEF ClientInv, Working, At
      <4> QED BY <1>5, <4>1 DEF Working, EntryAt, NameAt, Used
    <3> QED BY <3>1, <3>2
  <2> QED BY <1>1, <2>1 DEF ClientInv
<1>7. SentInv'
  <2> SUFFICES ASSUME NEW d \in Op, Sent(d)', d \notin reconciled' PROVE Blocked(d)'
    BY DEF SentInv
  <2>1. Sent(d) /\ Blocked(d)
    BY <1>1 DEF SentInv, Sent, Sending
  <2>2. of[d] # NoWallet /\ NameOf[of[d]] \in Name
    BY <2>1, OfSent
  <2> QED BY <1>5, <2>1, <2>2 DEF Blocked
<1> QED BY <1>2, <1>3, <1>4, <1>6, <1>7 DEF IInv

(* remove_wallet, stopped between its two writes or not: the entry it drops *)
(* holds no coin, so nothing that was sent and not reconciled was in it.   *)
LEMMA RemoveStep ==
  ASSUME IInv, NEW n \in Name, NEW done \in BOOLEAN, RemoveWallet(n, done) PROVE IInv'
<1> USE DEF RemoveWallet, docVars, netVars, histVars, procVars
<1>1. TypeOK /\ NoEntry \in Entries /\ NoEntry.res = NoClaims /\ NoEntry.spent = NoClaims
  BY DEF IInv, NoEntry, NoClaims, Claims, Entries, Statuses
<1>2. /\ record' \in [Name -> Wallet \cup {NoWallet}] /\ record'[n] = NoWallet
      /\ entry' \in [Name -> Entries] /\ entry'[n] \in {entry[n], NoEntry}
      /\ \A m \in Name : m # n => record'[m] = record[m] /\ entry'[m] = entry[m]
  BY <1>1 DEF TypeOK
<1>3. TypeOK'
  BY <1>1, <1>2 DEF TypeOK
<1>4. RecordInv'
  BY <1>1, <1>2 DEF IInv, RecordInv, NoEntry
<1>5. /\ entry[n].res = NoClaims /\ entry[n].spent = NoClaims
      /\ entry'[n].res = NoClaims /\ entry'[n].spent = NoClaims
  BY <1>1, <1>2
<1>6. \A m \in Name, x \in Coin, d \in Op : Holds(m, x, d)' => Holds(m, x, d) /\ m # n
  BY <1>2, <1>5 DEF Holds, NoClaims
<1>7. ClaimInv' /\ OnceInv'
  BY <1>2, <1>6 DEF IInv, ClaimInv, OnceInv
<1>8. StatusInv'
  BY <1>2, <1>5 DEF IInv, StatusInv, NoEntry, NoClaims
<1>9. NetInv'
  BY DEF IInv, NetInv, Known, Used
<1>10. ClientInv'
  <2>1. ASSUME NEW c \in Client PROVE Working(c)'
    <3>1. CASE pc[c] = "idle"
      BY <3>1 DEF Working
    <3>2. CASE pc[c] # "idle"
      <4>1. Working(c) /\ NameAt(c) \in Name /\ cur[c] \in Op \cup {NoOp}
        BY <1>1, <3>2, AtWork DEF IInv, ClientInv, At, TypeOK
      <4> QED BY <1>2, <1>5, <4>1 DEF Working, EntryAt, NameAt, NoClaims, Used
    <3> QED BY <3>1, <3>2
  <2> QED BY <2>1 DEF IInv, ClientInv
<1>11. CancelInv'
  BY <1>2, <1>5 DEF IInv, CancelInv, Sent, Sending, NoClaims
<1>12. SentInv'
  <2> SUFFICES ASSUME NEW d \in Op, Sent(d)', d \notin reconciled' PROVE Blocked(d)'
    BY DEF SentInv
  <2>1. Sent(d) /\ Blocked(d)
    BY DEF IInv, SentInv, Sent, Sending
  <2>2. d \in signed /\ of[d] # NoWallet /\ NameOf[of[d]] \in Name
    BY <2>1, OfSent
  <2>3. PICK x \in Coin : x \in ins[d]
    BY <1>1, <2>2 DEF IInv, NetInv, Used, TypeOK
  <2>4. NameOf[of[d]] # n
    BY <1>5, <2>1, <2>3 DEF Blocked, NoClaims
  <2> QED BY <1>2, <2>1, <2>2, <2>4 DEF Blocked
<1>13. UnknownStaysBlocked'
  BY <1>2, <1>5 DEF IInv, UnknownStaysBlocked, StatusInv, NetInv, Used, NoEntry, NoClaims, TypeOK
<1> QED BY <1>3, <1>4, <1>7, <1>8, <1>9, <1>10, <1>11, <1>12, <1>13 DEF IInv

-----------------------------------------------------------------------------
(* A step that leaves the files alone, and sends nothing that was not being *)
(* sent, preserves every part of the invariant that is about the files.    *)
LEMMA FilesStay ==
  ASSUME IInv, UNCHANGED <<record, entry, ins, of, cancelled, reconciled>>,
         signed \subseteq signed', \A d \in Op : Sent(d)' => Sent(d)
  PROVE  /\ RecordInv' /\ ClaimInv' /\ OnceInv' /\ StatusInv' /\ CancelInv' /\ SentInv'
         /\ UnknownStaysBlocked'
<1>1. RecordInv' /\ ClaimInv' /\ OnceInv' /\ StatusInv' /\ UnknownStaysBlocked'
  BY DEF IInv, RecordInv, ClaimInv, OnceInv, StatusInv, UnknownStaysBlocked, Holds
<1>2. CancelInv'
  BY DEF IInv, CancelInv
<1>3. SentInv'
  BY DEF IInv, SentInv, Blocked
<1> QED BY <1>1, <1>2, <1>3

(* A step of one process that leaves the files alone concerns its own position. *)
LEMMA OneMoves ==
  ASSUME IInv, NEW c \in Client, UNCHANGED <<record, entry, ins, of, signed>>,
         \A k \in Client : k # c => pc'[k] = pc[k] /\ rec'[k] = rec[k] /\ cur'[k] = cur[k],
         pc'[c] # "reserved", Working(c)'
  PROVE  ClientInv'
<1>1. ASSUME NEW k \in Client, k # c PROVE Working(k)'
  <2>1. Working(k)
    BY DEF IInv, ClientInv
  <2> QED BY <1>1, <2>1 DEF Working, EntryAt, NameAt, Used
<1> QED BY <1>1 DEF IInv, ClientInv

(* A process stops anywhere.                                               *)
LEMMA CrashStep == ASSUME IInv, NEW c \in Client, Crash(c) PROVE IInv'
<1> USE DEF Crash, fileVars, docVars, netVars, histVars
<1>1. TypeOK'
  BY IdleStep DEF IInv, TypeOK
<1>2. \A d \in Op : Sent(d)' => Sent(d)
  BY IdleStep DEF IInv, Sent, Sending
<1>3. NetInv'
  BY IdleStep DEF IInv, NetInv, Known, Used
<1>4. ClientInv'
  BY IdleStep, OneMoves DEF IInv, Working
<1> QED BY <1>1, <1>2, <1>3, <1>4, FilesStay DEF IInv

(* The node mines or evicts a transaction.                                 *)
LEMMA NetStep == ASSUME IInv, NEW d \in Op, Mine(d) \/ Evict(d) PROVE IInv'
<1> USE DEF Mine, Evict, fileVars, docVars, histVars, procVars
<1>1. TypeOK'
  BY DEF IInv, TypeOK
<1>2. \A e \in Op : Sent(e)' => Sent(e)
  BY DEF Sent, Sending
<1>3. NetInv' /\ ClientInv'
  BY DEF IInv, NetInv, ClientInv, Working, EntryAt, NameAt, Known, Used
<1> QED BY <1>1, <1>2, <1>3, FilesStay DEF IInv

(* An operation reads its record; broadcast has validated its document.    *)
LEMMA LoadStep ==
  ASSUME IInv, NEW c \in Client, NEW w \in Wallet, NEW d \in Op \cup {NoOp}, Load(c, w, d)
  PROVE  IInv'
<1> USE DEF Load, fileVars, docVars, netVars, histVars
<1>1. TypeOK
  BY DEF IInv
<1>2. /\ pc'[c] = "loaded" /\ rec'[c] = w /\ cur'[c] = d
      /\ \A k \in Client : k # c => pc'[k] = pc[k] /\ rec'[k] = rec[k] /\ cur'[k] = cur[k]
  BY <1>1 DEF TypeOK
<1>3. TypeOK'
  BY <1>1 DEF TypeOK
<1>4. \A e \in Op : Sent(e)' => Sent(e)
  BY <1>2 DEF Sent, Sending
<1>5. NetInv'
  BY DEF IInv, NetInv, Known, Used
<1>6. ClientInv'
  BY <1>2, OneMoves DEF Working, Valid, EntryAt, NameAt
<1> QED BY <1>3, <1>4, <1>5, <1>6, FilesStay DEF IInv

(* A scan reads the node: everything it finds there was sent.              *)
LEMMA ScanStep ==
  ASSUME IInv, NEW c \in Client, ScanHistory(c) \/ \E w \in Wallet : ScanBegin(c, w)
  PROVE  IInv'
<1> USE DEF ScanBegin, ScanHistory, fileVars, docVars, netVars, histVars
<1>1. TypeOK /\ Known \subseteq Op /\ Known \subseteq posted
  BY DEF IInv, TypeOK, NetInv, Known
<1>2. /\ pc'[c] \in {"scan", "merge"} /\ rec'[c] # NoWallet
      /\ \A k \in Client : k # c => pc'[k] = pc[k] /\ rec'[k] = rec[k] /\ cur'[k] = cur[k]
  BY <1>1, AtWork DEF TypeOK, At
<1>3. scan'[c] \in Scans /\ scan'[c].seen \subseteq posted
  <2>1. scan[c] \in Scans /\ scan[c].seen \subseteq posted
    BY <1>1 DEF IInv, NetInv, TypeOK
  <2>2. ASSUME NEW w \in Wallet, ScanBegin(c, w)
        PROVE  scan'[c] = [scan[c] EXCEPT !.tip = tip, !.coins = Coin \ SpentBy(Known)]
    BY <1>1, <2>2 DEF TypeOK
  <2>3. CASE \E w \in Wallet : ScanBegin(c, w)
    BY <1>1, <2>1, <2>2, <2>3 DEF TypeOK, Scans
  <2>4. CASE ScanHistory(c)
    BY <1>1, <2>1, <2>4 DEF TypeOK, Scans
  <2> QED BY <2>3, <2>4
<1>7. scan' \in [Client -> Scans] /\ \A k \in Client : k # c => scan'[k] = scan[k]
  <2>1. \E e : scan' = [scan EXCEPT ![c] = e]
    BY <1>1 DEF TypeOK
  <2> QED BY <1>1, <1>3, <2>1 DEF TypeOK
<1>8. TypeOK'
  BY <1>1, <1>7 DEF TypeOK
<1>4. \A e \in Op : Sent(e)' => Sent(e)
  BY <1>2 DEF Sent, Sending
<1>5. NetInv'
  BY <1>1, <1>3, <1>7 DEF IInv, NetInv, Known, Used
<1>6. ClientInv'
  BY <1>2, OneMoves DEF Working
<1> QED BY <1>4, <1>5, <1>6, <1>8, FilesStay DEF IInv

(* The POST, whatever its outcome: it was covered by the intent.           *)
LEMMA PostStep ==
  ASSUME IInv, NEW c \in Client, PostAccepted(c) \/ \E taken \in BOOLEAN : PostUnknown(c, taken)
  PROVE  IInv'
<1> USE DEF PostAccepted, PostUnknown, fileVars, docVars
<1>1. TypeOK /\ cur[c] \in signed /\ of[cur[c]] = rec[c] /\ rec[c] # NoWallet
      /\ pc[c] = "intent"
  BY DEF IInv, ClientInv, Working, At
<1>2. /\ \/ pc'[c] = "idle"
         \/ pc'[c] = "replied" /\ rec'[c] = rec[c] /\ cur'[c] = cur[c]
      /\ \A k \in Client : k # c => pc'[k] = pc[k] /\ rec'[k] = rec[k] /\ cur'[k] = cur[k]
      /\ scan'[c].seen \subseteq posted
      /\ \A k \in Client : k # c => scan'[k] = scan[k]
  BY <1>1, IdleStep DEF TypeOK, IInv, NetInv
<1>3. TypeOK'
  BY <1>1, IdleStep DEF TypeOK
<1>4. \A e \in Op : Sent(e)' => Sent(e)
  BY <1>1, <1>2 DEF Sent, Sending
<1>5. NetInv'
  BY <1>2 DEF IInv, NetInv, Known, Used
<1>6. ClientInv'
  BY <1>1, <1>2, OneMoves DEF Working
<1> QED BY <1>3, <1>4, <1>5, <1>6, FilesStay DEF IInv

(* prepare_send signs what it has reserved.                                *)
LEMMA SignStep == ASSUME IInv, NEW c \in Client, Sign(c) PROVE IInv'
<1> USE DEF Sign, fileVars, netVars, histVars
<1>1. TypeOK /\ cur[c] \in Used /\ cur[c] \notin signed /\ pc[c] = "reserved"
  BY DEF IInv, ClientInv, Working, At
<1>2. TypeOK'
  BY <1>1, IdleStep DEF TypeOK, Used
<1>3. \A e \in Op : Sent(e)' => Sent(e)
  BY <1>1, IdleStep DEF Sent, Sending
<1>4. NetInv'
  BY <1>1, IdleStep DEF IInv, NetInv, Known, Used
<1>5. ClientInv'
  <2>1. ASSUME NEW k \in Client PROVE Working(k)'
    <3>1. CASE k = c
      BY <1>1, <3>1, IdleStep DEF Working
    <3>2. CASE k # c
      <4>1. Working(k) /\ (pc[k] = "reserved" => cur[k] # cur[c])
        BY <1>1, <3>2 DEF IInv, ClientInv
      <4> QED BY <1>1, <3>2, <4>1, IdleStep DEF Working, EntryAt, NameAt, Used
    <3> QED BY <3>1, <3>2
  <2> QED BY <1>1, <2>1, IdleStep DEF IInv, ClientInv
<1> QED BY <1>2, <1>3, <1>4, <1>5, FilesStay DEF IInv

-----------------------------------------------------------------------------
(* Releasing reservations changes no other field of an entry.              *)
LEMMA WithoutSome ==
  ASSUME NEW e \in Entries, NEW S \in SUBSET Op
  PROVE  /\ Without(e, S) \in Entries
         /\ Without(e, S).id = e.id /\ Without(e, S).spent = e.spent
         /\ Without(e, S).utxos = e.utxos /\ Without(e, S).status = e.status
         /\ Without(e, S).attempted = e.attempted \ S
         /\ \A x \in Coin :
              Without(e, S).res[x] = IF e.res[x] \in S THEN NoOp ELSE e.res[x]
<1> DEFINE r == [x \in Coin |-> IF e.res[x] \in S THEN NoOp ELSE e.res[x]]
<1>1. r \in Claims
  BY DEF Entries, Claims
<1>2. Without(e, S) = [e EXCEPT !.res = r, !.attempted = e.attempted \ S]
  BY DEF Without, Entries
<1>3. \A x \in Coin : r[x] = IF e.res[x] \in S THEN NoOp ELSE e.res[x]
  OBVIOUS
<1> HIDE DEF r
<1> QED BY <1>1, <1>2, <1>3 DEF Entries

(* Claims that are only given up still belong to their wallets, and are held *)
(* for one operation each.                                                 *)
LEMMA ClaimsShrink ==
  ASSUME IInv, UNCHANGED <<ins, of>>,
         \A m \in Name, x \in Coin, d \in Op :
           Holds(m, x, d)' => Holds(m, x, d) /\ entry'[m].id = entry[m].id
  PROVE  ClaimInv' /\ OnceInv'
  BY DEF IInv, ClaimInv, OnceInv

(* A process releases the reservations of an operation whose outcome is not *)
(* unknown, as a failed prepare_send and cancel_draft do.                  *)
LEMMA ReleaseStep ==
  ASSUME IInv, NEW c \in Client, ~At(c, "idle"), NEW d \in Op,
         Write(c, Without(EntryAt(c), {d})), Finish(c),
         EntryAt(c).status[d] # "broadcast_unknown",
         UNCHANGED <<record, docVars, netVars, made, posted, reconciled>>
  PROVE  /\ entry' \in [Name -> Entries]
         /\ RecordInv' /\ ClaimInv' /\ OnceInv' /\ StatusInv' /\ ClientInv' /\ SentInv'
         /\ UnknownStaysBlocked'
         /\ \A e \in Op : Sent(e)' => Sent(e)
         /\ \A n \in Name, x \in Coin, e \in Op : entry'[n].res[x] = e =>
              /\ entry[n].res[x] = e /\ (n = NameAt(c) => e # d)
              /\ (e \in entry[n].attempted => e \in entry'[n].attempted)
<1> USE DEF docVars, netVars
<1> DEFINE n == NameAt(c)
<1>1. TypeOK /\ n \in Name /\ EntryAt(c) = entry[n] /\ EntryAt(c) \in Entries
  BY AtWork DEF IInv, EntryAt
<1>2. /\ entry' \in [Name -> Entries]
      /\ entry'[n] = Without(entry[n], {d})
      /\ \A m \in Name : m # n => entry'[m] = entry[m]
  BY <1>1, Written, WithoutSome
<1>3. /\ entry'[n].id = entry[n].id /\ entry'[n].spent = entry[n].spent
      /\ entry'[n].status = entry[n].status /\ entry'[n].attempted = entry[n].attempted \ {d}
      /\ \A x \in Coin : entry'[n].res[x] = IF entry[n].res[x] = d THEN NoOp ELSE entry[n].res[x]
  BY <1>1, <1>2, WithoutSome
<1> HIDE DEF n
<1>4. \A m \in Name, x \in Coin, e \in Op : entry'[m].res[x] = e =>
        /\ entry[m].res[x] = e /\ (m = n => e # d)
        /\ (e \in entry[m].attempted => e \in entry'[m].attempted)
  BY <1>2, <1>3
<1>5. \A m \in Name : entry'[m].id = entry[m].id /\ entry'[m].spent = entry[m].spent
                      /\ entry'[m].status = entry[m].status
  BY <1>2, <1>3
<1>6. RecordInv'
  BY <1>5 DEF IInv, RecordInv
<1>7. ClaimInv' /\ OnceInv'
  BY <1>4, <1>5, ClaimsShrink DEF Holds
<1>8. \A m \in Name, e \in Op : entry[m].status[e] = "broadcast_unknown" =>
        /\ e \in entry'[m].attempted /\ \A x \in Coin : entry[m].res[x] = e => entry'[m].res[x] = e
  BY <1>1, <1>2, <1>3 DEF IInv, StatusInv
<1>9. StatusInv'
  BY <1>5, <1>8 DEF IInv, StatusInv
<1>10. UnknownStaysBlocked'
  BY <1>1, <1>5, <1>8 DEF IInv, UnknownStaysBlocked, TypeOK
<1>11. ClientInv'
  <2>1. Working(c)' /\ pc'[c] # "reserved"
    BY <1>1, IdleStep DEF Working
  <2>2. ASSUME NEW k \in Client, k # c PROVE Working(k)'
    <3>1. pc'[k] = pc[k] /\ rec'[k] = rec[k] /\ cur'[k] = cur[k] /\ Working(k)
      BY <1>1, <2>2, IdleStep DEF IInv, ClientInv
    <3>2. pc[k] # "idle" => NameAt(k) \in Name
      BY AtWork DEF At
    <3>3. cur[k] \in Op \cup {NoOp}
      BY <1>1 DEF TypeOK
    <3> QED BY <1>4, <3>1, <3>2, <3>3 DEF Working, EntryAt, NameAt, Used
  <2> QED BY <1>1, <2>1, <2>2, IdleStep DEF IInv, ClientInv
<1>12. \A e \in Op : Sent(e)' => Sent(e)
  BY <1>1, IdleStep DEF Sent, Sending
<1>13. SentInv'
  BY <1>5, <1>12, OfSent DEF IInv, SentInv, Blocked
<1> QED BY <1>2, <1>4, <1>6, <1>7, <1>9, <1>10, <1>11, <1>12, <1>13 DEF n

(* prepare_send fails after its reservation: it was never signed, so never sent. *)
LEMMA PrepareFailStep == ASSUME IInv, NEW c \in Client, PrepareFail(c) PROVE IInv'
<1> USE DEF PrepareFail, docVars, netVars, histVars
<1>1. TypeOK /\ ~At(c, "idle") /\ cur[c] \in Op /\ cur[c] \notin signed
  BY DEF IInv, ClientInv, Working, Used, At
<1>2. EntryAt(c).status[cur[c]] # "broadcast_unknown"
  BY <1>1, AtWork DEF IInv, StatusInv, EntryAt
<1>3. /\ entry' \in [Name -> Entries]
      /\ RecordInv' /\ ClaimInv' /\ OnceInv' /\ StatusInv' /\ ClientInv' /\ SentInv'
      /\ UnknownStaysBlocked'
      /\ \A e \in Op : Sent(e)' => Sent(e)
      /\ \A n \in Name, x \in Coin, e \in Op : entry'[n].res[x] = e =>
           /\ entry[n].res[x] = e
           /\ (e \in entry[n].attempted => e \in entry'[n].attempted)
  BY <1>1, <1>2, ReleaseStep
<1>4. TypeOK'
  BY <1>1, <1>3, IdleStep DEF TypeOK
<1>5. NetInv'
  BY <1>1, IdleStep DEF IInv, NetInv, Known, Used
<1>6. CancelInv'
  BY <1>3 DEF IInv, CancelInv
<1> QED BY <1>3, <1>4, <1>5, <1>6 DEF IInv

(* cancel_draft: the entry holds a reservation of the operation that no intent *)
(* has marked, so no process is sending it, and none ever will.            *)
LEMMA CancelStep == ASSUME IInv, NEW c \in Client, NEW d \in Op, Cancel(c, d) PROVE IInv'
<1> USE DEF Cancel, docVars, netVars, histVars
<1>1. TypeOK /\ ~At(c, "idle") /\ NameAt(c) \in Name /\ EntryAt(c) = entry[NameAt(c)]
  BY AtWork DEF IInv, At, EntryAt
<1>2. EntryAt(c).status[d] # "broadcast_unknown"
  BY <1>1 DEF IInv, StatusInv
<1>3. /\ entry' \in [Name -> Entries]
      /\ RecordInv' /\ ClaimInv' /\ OnceInv' /\ StatusInv' /\ ClientInv' /\ SentInv'
      /\ UnknownStaysBlocked'
      /\ \A e \in Op : Sent(e)' => Sent(e)
      /\ \A n \in Name, x \in Coin, e \in Op : entry'[n].res[x] = e =>
           /\ entry[n].res[x] = e /\ (n = NameAt(c) => e # d)
           /\ (e \in entry[n].attempted => e \in entry'[n].attempted)
  BY <1>1, <1>2, ReleaseStep
<1>4. PICK x \in Coin : entry[NameAt(c)].res[x] = d
  BY <1>1
<1>5. d \in Used
  BY <1>1, <1>4 DEF IInv, ClaimInv, Holds, Used
<1>6. ~Sent(d)
  BY <1>1, <1>4 DEF IInv, CancelInv
<1>7. \A n \in Name, y \in Coin : entry'[n].res[y] # d
  <2> SUFFICES ASSUME NEW n \in Name, NEW y \in Coin, entry'[n].res[y] = d PROVE FALSE
    OBVIOUS
  <2>1. Holds(n, y, d) /\ Holds(NameAt(c), x, d) /\ n # NameAt(c)
    BY <1>3, <1>4 DEF Holds
  <2> QED BY <1>1, <2>1 DEF IInv, ClaimInv, RecordInv
<1>8. TypeOK'
  BY <1>1, <1>3, IdleStep DEF TypeOK
<1>9. NetInv'
  BY <1>1, <1>5, IdleStep DEF IInv, NetInv, Known, Used
<1>10. CancelInv'
  BY <1>3, <1>6, <1>7 DEF IInv, CancelInv
<1> QED BY <1>3, <1>8, <1>9, <1>10 DEF IInv

-----------------------------------------------------------------------------
(* Changing the reservations changes no other field of an entry.           *)
LEMMA Reclaimed ==
  ASSUME NEW e \in Entries, NEW r \in Claims
  PROVE  /\ [e EXCEPT !.res = r] \in Entries /\ [e EXCEPT !.res = r].res = r
         /\ [e EXCEPT !.res = r].id = e.id /\ [e EXCEPT !.res = r].spent = e.spent
         /\ [e EXCEPT !.res = r].status = e.status
         /\ [e EXCEPT !.res = r].attempted = e.attempted
  BY DEF Entries

(* prepare_send reserves coins that no entry holds, for a new operation.   *)
LEMMA ReserveStep ==
  ASSUME IInv, NEW c \in Client, NEW d \in Op, NEW S \in SUBSET Coin, Reserve(c, d, S)
  PROVE  IInv'
<1> USE DEF Reserve, netVars, histVars
<1> DEFINE n == NameAt(c)
           r == [x \in Coin |-> IF x \in S THEN d ELSE EntryAt(c).res[x]]
           new == [EntryAt(c) EXCEPT !.res = r]
<1>1. /\ TypeOK /\ ~At(c, "idle") /\ n \in Name /\ EntryAt(c) = entry[n]
      /\ EntryAt(c) \in Entries /\ rec[c] \in Wallet /\ d \notin Used
  BY AtWork DEF IInv, At, EntryAt
<1>2. r \in Claims /\ \A x \in Coin : r[x] = IF x \in S THEN d ELSE entry[n].res[x]
  BY <1>1 DEF Claims, Entries
<1>3. Write(c, new)
  OBVIOUS
<1> HIDE DEF r
<1>4. /\ new \in Entries /\ new.res = r /\ new.id = entry[n].id
      /\ new.spent = entry[n].spent /\ new.status = entry[n].status
      /\ new.attempted = entry[n].attempted
  BY <1>1, <1>2, Reclaimed
<1> HIDE DEF new
<1>5. /\ entry' \in [Name -> Entries]
      /\ \A m \in Name : m # n => entry'[m] = entry[m]
      /\ entry'[n].id = entry[n].id /\ entry'[n].spent = entry[n].spent
      /\ entry'[n].status = entry[n].status /\ entry'[n].attempted = entry[n].attempted
      /\ \A x \in Coin : entry'[n].res[x] = IF x \in S THEN d ELSE entry[n].res[x]
  BY <1>1, <1>2, <1>3, <1>4, Written
<1>6. /\ ins' = [ins EXCEPT ![d] = S] /\ of' = [of EXCEPT ![d] = rec[c]]
      /\ ins' \in [Op -> SUBSET Coin] /\ of' \in [Op -> Wallet \cup {NoWallet}]
      /\ ins'[d] = S /\ of'[d] = rec[c] /\ S # {}
      /\ \A e \in Op : e # d => ins'[e] = ins[e] /\ of'[e] = of[e]
      /\ Used' = Used \cup {d}
  BY <1>1 DEF TypeOK, Used
<1>7. /\ pc'[c] = "reserved" /\ cur'[c] = d /\ rec' = rec
      /\ \A k \in Client : k # c => pc'[k] = pc[k] /\ cur'[k] = cur[k]
  BY <1>1 DEF TypeOK
<1>8. /\ entry[n].id = rec[c] /\ \A x \in S, m \in Name, e \in Op : ~Holds(m, x, e)
  <2>1. entry[n].id = rec[c]
    BY <1>1 DEF Matching
  <2>2. ASSUME NEW x \in S, NEW m \in Name PROVE entry[m].res[x] = NoOp /\ entry[m].spent[x] = NoOp
    BY DEF Available
  <2> QED BY <2>1, <2>2 DEF Holds
<1> HIDE DEF n
<1>9. \A m \in Name, x \in Coin, e \in Op :
        /\ ~Holds(m, x, d)
        /\ Holds(m, x, e)' => \/ Holds(m, x, e) /\ e # d
                              \/ m = n /\ x \in S /\ e = d
  BY <1>1, <1>5 DEF IInv, ClaimInv, Holds, Used
<1>10. \A m \in Name : /\ entry'[m].id = entry[m].id /\ entry'[m].spent = entry[m].spent
                       /\ entry'[m].status = entry[m].status
                       /\ entry'[m].attempted = entry[m].attempted
  BY <1>5
<1>11. TypeOK'
  BY <1>1, <1>5, <1>6 DEF TypeOK
<1>12. RecordInv' /\ StatusInv'
  BY <1>10 DEF IInv, RecordInv, StatusInv
<1>13. ClaimInv'
  BY <1>1, <1>6, <1>8, <1>9, <1>10 DEF IInv, ClaimInv
<1>14. OnceInv'
  BY <1>8, <1>9 DEF IInv, OnceInv
<1>15. NetInv'
  BY <1>1, <1>6 DEF IInv, NetInv, Known, Used
<1>16. d \notin signed /\ d \notin cancelled /\ d \notin posted
  BY <1>1 DEF IInv, NetInv, TypeOK
<1>17. ClientInv'
  <2>1. ASSUME NEW k \in Client PROVE Working(k)'
    <3>1. CASE k = c
      BY <1>1, <1>6, <1>7, <1>16, <3>1 DEF Working
    <3>2. CASE k # c
      <4>1. Working(k) /\ (pc[k] # "idle" => NameAt(k) \in Name) /\ cur[k] \in Op \cup {NoOp}
        BY <1>1, AtWork DEF IInv, ClientInv, At, TypeOK
      <4>2. pc[k] = "loaded" /\ cur[k] # NoOp =>
              \A x \in Coin : entry'[NameAt(k)].res[x] = cur[k] => entry[NameAt(k)].res[x] = cur[k]
        BY <1>5, <1>16, <4>1 DEF Working
      <4> QED BY <1>6, <1>7, <1>16, <3>2, <4>1, <4>2 DEF Working, EntryAt, NameAt
    <3> QED BY <3>1, <3>2
  <2>2. ASSUME NEW k \in Client, k # c, pc[k] = "reserved" PROVE cur[k] # d
    BY <1>1, <2>2 DEF IInv, ClientInv, Working
  <2> QED BY <1>7, <2>1, <2>2 DEF IInv, ClientInv
<1>18. \A e \in Op : Sent(e)' => Sent(e) /\ e # d
  <2>1. \A e \in Op : Sent(e)' => Sent(e)
    BY <1>7 DEF Sent, Sending
  <2> QED BY <1>16, <2>1, OfSent
<1>19. CancelInv'
  <2>1. \A m \in Name, x \in Coin, e \in Op :
          e # d /\ entry'[m].res[x] = e => entry[m].res[x] = e
    BY <1>5
  <2> QED BY <1>10, <1>16, <1>18, <2>1 DEF IInv, CancelInv
<1>20. SentInv'
  BY <1>6, <1>10, <1>18, OfSent DEF IInv, SentInv, Blocked
<1>21. UnknownStaysBlocked'
  <2> SUFFICES ASSUME NEW m \in Name, NEW e \in Op, entry[m].status[e] = "broadcast_unknown",
                      NEW x \in ins'[e]
               PROVE  entry'[m].res[x] = e /\ entry'[m].spent[x] = e
    BY <1>10 DEF UnknownStaysBlocked
  <2>1. e # d
    BY <1>16 DEF IInv, StatusInv
  <2>2. x \in Coin /\ entry[m].res[x] = e /\ entry[m].spent[x] = e
    BY <1>1, <1>6, <2>1 DEF IInv, UnknownStaysBlocked, TypeOK
  <2> QED BY <1>5, <1>8, <1>10, <2>2 DEF Holds
<1> QED BY <1>11, <1>12, <1>13, <1>14, <1>15, <1>17, <1>19, <1>20, <1>21 DEF IInv

-----------------------------------------------------------------------------
(* The intent marks coins its own operation has reserved, in a wallet that is *)
(* still recorded; from here on they are blocked.                          *)
LEMMA IntentStep == ASSUME IInv, NEW c \in Client, Intent(c) PROVE IInv'
<1> USE DEF Intent, docVars, netVars, histVars
<1> DEFINE n == NameAt(c)
           d == cur[c]
           s == [x \in Coin |-> IF x \in ins[d] THEN d ELSE EntryAt(c).spent[x]]
           t == [EntryAt(c).status EXCEPT ![d] = "broadcast_unknown"]
           new == [EntryAt(c) EXCEPT !.attempted = EntryAt(c).attempted \cup {d},
                                     !.spent = s, !.status = t]
<1>1. /\ TypeOK /\ ~At(c, "idle") /\ n \in Name /\ EntryAt(c) = entry[n]
      /\ EntryAt(c) \in Entries /\ rec[c] \in Wallet /\ d \in Op
      /\ pc[c] = "loaded" /\ entry[n].id = rec[c]
  BY AtWork DEF IInv, At, EntryAt, TypeOK, Matching
<1>2. /\ d \in signed /\ of[d] = rec[c] /\ NameOf[of[d]] = n
      /\ ins[d] \in SUBSET Coin /\ ins[d] # {}
  BY <1>1 DEF IInv, ClientInv, Working, NetInv, Used, TypeOK, NameAt
<1>3. \A x \in ins[d] : entry[n].res[x] = d
  BY <1>1 DEF Reserved
<1>4. record[n] = rec[c]
  BY <1>1, <1>2, <1>3 DEF IInv, ClientInv, Working
<1>5. /\ s \in Claims /\ \A x \in Coin : s[x] = IF x \in ins[d] THEN d ELSE entry[n].spent[x]
      /\ t \in [Op -> Statuses] /\ t[d] = "broadcast_unknown"
      /\ \A e \in Op : e # d => t[e] = entry[n].status[e]
  BY <1>1 DEF Claims, Entries, Statuses
<1>6. Write(c, new)
  BY <1>1 DEF Entries
<1> HIDE DEF s, t
<1>7. /\ new \in Entries /\ new.id = entry[n].id /\ new.res = entry[n].res
      /\ new.attempted = entry[n].attempted \cup {d} /\ new.spent = s /\ new.status = t
  BY <1>1, <1>5 DEF Entries
<1> HIDE DEF new
<1>8. /\ entry' \in [Name -> Entries] /\ entry'[n] = new
      /\ \A m \in Name : m # n => entry'[m] = entry[m]
  BY <1>1, <1>6, <1>7, Written
<1>9. /\ pc'[c] = "intent" /\ \A k \in Client : k # c => pc'[k] = pc[k]
      /\ rec' = rec /\ cur' = cur
  BY <1>1 DEF TypeOK
<1> HIDE DEF n, d
<1>10. \A m \in Name :
         /\ entry'[m].res = entry[m].res /\ entry'[m].id = entry[m].id
         /\ \A e \in Op :
              /\ entry'[m].status[e] = IF m = n /\ e = d THEN "broadcast_unknown"
                                                       ELSE entry[m].status[e]
              /\ e \in entry[m].attempted => e \in entry'[m].attempted
              /\ \A x \in Coin : entry'[m].spent[x] = e =>
                   entry[m].spent[x] = e \/ (m = n /\ x \in ins[d] /\ e = d)
  BY <1>5, <1>7, <1>8
<1>11. \A m \in Name, x \in Coin, e \in Op : Holds(m, x, e)' => Holds(m, x, e)
  BY <1>3, <1>10 DEF Holds
<1>12. TypeOK'
  BY <1>1, <1>8 DEF TypeOK
<1>13. RecordInv'
  BY <1>10 DEF IInv, RecordInv
<1>14. ClaimInv' /\ OnceInv'
  BY <1>10, <1>11, ClaimsShrink
<1>15. StatusInv'
  BY <1>1, <1>2, <1>7, <1>8, <1>10 DEF IInv, StatusInv
<1>16. NetInv'
  BY DEF IInv, NetInv, Known, Used
<1>17. ClientInv'
  <2>1. ASSUME NEW k \in Client PROVE Working(k)'
    <3>1. Working(k) /\ (pc[k] # "idle" => NameAt(k) \in Name) /\ cur[k] \in Op \cup {NoOp}
      BY <1>1, AtWork DEF IInv, ClientInv, At, TypeOK
    <3>2. CASE k = c
      BY <1>1, <1>2, <1>9, <3>2 DEF Working, d
    <3>3. CASE k # c
      <4>1. pc'[k] = pc[k] /\ rec'[k] = rec[k] /\ cur'[k] = cur[k]
        BY <1>9, <3>3
      <4>2. pc[k] # "idle" => EntryAt(k)'.res = EntryAt(k).res /\ NameAt(k)' = NameAt(k)
        BY <1>10, <3>1, <4>1 DEF EntryAt, NameAt
      <4> QED BY <3>1, <4>1, <4>2 DEF Working, Used
    <3> QED BY <3>2, <3>3
  <2> QED BY <1>9, <2>1 DEF IInv, ClientInv
<1>18. \A e \in Op : Sent(e)' => Sent(e) \/ e = d
  BY <1>9 DEF Sent, Sending, d
<1>19. CancelInv'
  <2>1. d \notin cancelled
    BY <1>1, <1>2, <1>3 DEF IInv, CancelInv
  <2>2. ASSUME NEW m \in Name, NEW x \in Coin, entry[m].res[x] = d PROVE m = n
    BY <1>1, <1>2, <2>2 DEF IInv, ClaimInv, RecordInv, Holds
  <2>3. \A m \in Name, x \in Coin : entry'[m].res[x] = d => d \in entry'[m].attempted
    BY <1>7, <1>8, <1>10, <2>2
  <2> QED BY <1>10, <1>18, <2>1, <2>3 DEF IInv, CancelInv
<1>20. SentInv'
  <2> SUFFICES ASSUME NEW e \in Op, Sent(e)', e \notin reconciled PROVE Blocked(e)'
    BY DEF SentInv
  <2>1. CASE e = d
    BY <1>1, <1>2, <1>4, <1>5, <1>7, <1>8, <2>1 DEF Blocked
  <2>2. CASE e # d
    <3>1. Blocked(e) /\ NameOf[of[e]] \in Name /\ ins[e] \subseteq Coin
      BY <1>1, <1>18, <2>2, OfSent DEF IInv, SentInv, TypeOK
    <3>2. \A x \in ins[e] : ~(NameOf[of[e]] = n /\ x \in ins[d])
      BY <1>1, <1>3, <2>2, <3>1 DEF IInv, OnceInv, Holds, Blocked
    <3> QED BY <1>5, <1>7, <1>8, <3>1, <3>2 DEF Blocked
  <2> QED BY <2>1, <2>2
<1>21. UnknownStaysBlocked'
  <2> SUFFICES ASSUME NEW m \in Name, NEW e \in Op, entry'[m].status[e] = "broadcast_unknown",
                      NEW x \in ins[e]
               PROVE  entry'[m].res[x] = e /\ entry'[m].spent[x] = e
    BY DEF UnknownStaysBlocked
  <2>1. CASE m = n /\ e = d
    BY <1>2, <1>3, <1>5, <1>7, <1>8, <2>1
  <2>2. CASE ~(m = n /\ e = d)
    <3>1. entry[m].res[x] = e /\ entry[m].spent[x] = e /\ x \in Coin
      BY <1>1, <1>10, <2>2 DEF IInv, UnknownStaysBlocked, TypeOK
    <3>2. ~(m = n /\ x \in ins[d])
      BY <1>3, <2>2, <3>1
    <3> QED BY <1>5, <1>7, <1>8, <3>1, <3>2
  <2> QED BY <2>1, <2>2
<1> QED BY <1>12, <1>13, <1>14, <1>15, <1>16, <1>17, <1>19, <1>20, <1>21 DEF IInv

(* The final update of broadcast: its coins lose their reservations and stay *)
(* marked as spent.                                                        *)
LEMMA FinalUpdateStep == ASSUME IInv, NEW c \in Client, FinalUpdate(c) PROVE IInv'
<1> USE DEF FinalUpdate, docVars, netVars, histVars
<1> DEFINE n == NameAt(c)
           d == cur[c]
           less == Without(EntryAt(c), {d})
           t == [less.status EXCEPT ![d] = "known"]
           new == [less EXCEPT !.status = t]
<1>1. /\ TypeOK /\ ~At(c, "idle") /\ n \in Name /\ EntryAt(c) = entry[n]
      /\ entry[n] \in Entries /\ rec[c] \in Wallet /\ d \in signed /\ d \in Op
      /\ pc[c] = "replied" /\ of[d] = rec[c] /\ NameOf[of[d]] = n
  BY AtWork DEF IInv, At, EntryAt, NameAt, TypeOK, ClientInv, Working
<1>2. /\ less \in Entries /\ less.id = entry[n].id /\ less.spent = entry[n].spent
      /\ less.status = entry[n].status /\ less.attempted = entry[n].attempted \ {d}
      /\ \A x \in Coin : less.res[x] = IF entry[n].res[x] = d THEN NoOp ELSE entry[n].res[x]
  BY <1>1, WithoutSome
<1>3. Write(c, new)
  OBVIOUS
<1> HIDE DEF less
<1>4. /\ t \in [Op -> Statuses] /\ t[d] = "known"
      /\ \A e \in Op : e # d => t[e] = entry[n].status[e]
  BY <1>1, <1>2 DEF Entries, Statuses
<1> HIDE DEF t
<1>5. /\ new \in Entries /\ new.id = entry[n].id /\ new.spent = entry[n].spent
      /\ new.res = less.res /\ new.attempted = less.attempted /\ new.status = t
  BY <1>2, <1>4 DEF Entries
<1> HIDE DEF new
<1>6. /\ entry' \in [Name -> Entries] /\ entry'[n] = new
      /\ \A m \in Name : m # n => entry'[m] = entry[m]
  BY <1>1, <1>3, <1>5, Written
<1> HIDE DEF n, d
<1>7. \A m \in Name :
        /\ entry'[m].id = entry[m].id /\ entry'[m].spent = entry[m].spent
        /\ \A e \in Op :
             /\ entry'[m].status[e] = IF m = n /\ e = d THEN "known" ELSE entry[m].status[e]
             /\ e # d => (e \in entry[m].attempted <=> e \in entry'[m].attempted)
             /\ \A x \in Coin :
                  /\ entry'[m].res[x] = e => entry[m].res[x] = e /\ ~(m = n /\ e = d)
                  /\ entry[m].res[x] = e /\ e # d => entry'[m].res[x] = e
  BY <1>2, <1>4, <1>5, <1>6
<1>8. TypeOK'
  BY <1>1, <1>6, IdleStep DEF TypeOK
<1>9. RecordInv'
  BY <1>7 DEF IInv, RecordInv
<1>10. ClaimInv' /\ OnceInv'
  BY <1>7, ClaimsShrink DEF Holds
<1>11. \A m \in Name : entry[m].status[d] = "broadcast_unknown" => m = n
  <2> SUFFICES ASSUME NEW m \in Name, entry[m].status[d] = "broadcast_unknown" PROVE m = n
    OBVIOUS
  <2>1. PICK x \in Coin : x \in ins[d]
    BY <1>1 DEF IInv, NetInv, Used, TypeOK
  <2> QED BY <1>1, <2>1 DEF IInv, UnknownStaysBlocked, ClaimInv, RecordInv, Holds
<1>12. StatusInv'
  BY <1>1, <1>7, <1>11 DEF IInv, StatusInv
<1>13. NetInv'
  BY <1>1, IdleStep DEF IInv, NetInv, Known, Used
<1>14. ClientInv'
  <2>1. Working(c)' /\ pc'[c] # "reserved"
    BY <1>1, IdleStep DEF Working
  <2>2. ASSUME NEW k \in Client, k # c PROVE Working(k)'
    <3>1. pc'[k] = pc[k] /\ rec'[k] = rec[k] /\ cur'[k] = cur[k] /\ Working(k)
      BY <1>1, <2>2, IdleStep DEF IInv, ClientInv
    <3>2. (pc[k] # "idle" => NameAt(k) \in Name) /\ cur[k] \in Op \cup {NoOp}
      BY <1>1, AtWork DEF At, TypeOK
    <3> QED BY <1>7, <3>1, <3>2 DEF Working, EntryAt, NameAt, Used
  <2> QED BY <1>1, <2>1, <2>2, IdleStep DEF IInv, ClientInv
<1>15. \A e \in Op : Sent(e)' => Sent(e)
  BY <1>1, IdleStep DEF Sent, Sending
<1>16. CancelInv'
  <2>1. ASSUME NEW m \in Name, NEW x \in Coin, entry[m].res[x] = d PROVE m = n
    BY <1>1, <2>1 DEF IInv, ClaimInv, RecordInv, Holds
  <2> QED BY <1>7, <1>15, <2>1 DEF IInv, CancelInv
<1>17. SentInv'
  BY <1>7, <1>15, OfSent DEF IInv, SentInv, Blocked
<1>18. UnknownStaysBlocked'
  <2> SUFFICES ASSUME NEW m \in Name, NEW e \in Op, entry'[m].status[e] = "broadcast_unknown",
                      NEW x \in ins[e]
               PROVE  entry'[m].res[x] = e /\ entry'[m].spent[x] = e
    BY DEF UnknownStaysBlocked
  <2>1. entry[m].status[e] = "broadcast_unknown" /\ e # d
    BY <1>7, <1>11
  <2>2. entry[m].res[x] = e /\ entry[m].spent[x] = e /\ x \in Coin
    BY <1>1, <2>1 DEF IInv, UnknownStaysBlocked, TypeOK
  <2> QED BY <1>7, <2>1, <2>2
<1> QED BY <1>8, <1>9, <1>10, <1>12, <1>13, <1>14, <1>16, <1>17, <1>18 DEF IInv

-----------------------------------------------------------------------------
(* The merge of a scan gives up the claims of operations it has found, and an *)
(* entry under its name that belongs to another wallet: nothing in that one *)
(* waits for an outcome, since its wallet is no longer recorded.           *)
LEMMA MergeStep == ASSUME IInv, NEW c \in Client, Merge(c) PROVE IInv'
<1> DEFINE n == NameAt(c)
           prev == IF Matching(c) THEN EntryAt(c) ELSE NoEntry
           unblock == {x \in Coin \ scan[c].coins : EntryAt(c).spent[x] \in scan[c].seen}
           settled == {d \in scan[c].seen : prev.status[d] # "none"}
           less == Without(prev, settled)
           t == [d \in Op |-> IF d \in settled THEN "known" ELSE less.status[d]]
           s == [x \in Coin |-> IF x \in unblock THEN NoOp ELSE less.spent[x]]
           new == [less EXCEPT !.id = rec[c], !.utxos = scan[c].coins, !.status = t, !.spent = s]
<1>3. /\ At(c, "merge") /\ record[n] = rec[c] /\ Write(c, new) /\ Finish(c)
      /\ reconciled' = reconciled \cup settled
      /\ UNCHANGED <<record, ins, of, signed, mempool, mined, tip, made, posted, cancelled>>
  BY Zenon DEF Merge, MergeWith, docVars, netVars
<1> HIDE DEF less, new
<1>1. /\ TypeOK /\ ~At(c, "idle") /\ n \in Name /\ EntryAt(c) = entry[n]
      /\ entry[n] \in Entries /\ rec[c] \in Wallet /\ NameOf[rec[c]] = n
      /\ record[n] = rec[c] /\ scan[c] \in Scans
  BY <1>3, AtWork DEF IInv, At, EntryAt, NameAt, TypeOK
<1>2. /\ prev \in Entries /\ settled \subseteq scan[c].seen /\ settled \subseteq Op
      /\ Matching(c) => prev = entry[n] /\ entry[n].id = rec[c]
      /\ ~Matching(c) => prev = NoEntry /\ settled = {}
  BY <1>1 DEF NoEntry, NoClaims, Claims, Entries, Statuses, Scans, Matching
<1> HIDE DEF prev
<1>4. /\ less \in Entries /\ less.spent = prev.spent
      /\ less.status = prev.status /\ less.attempted = prev.attempted \ settled
      /\ \A x \in Coin : less.res[x] = IF prev.res[x] \in settled THEN NoOp ELSE prev.res[x]
  BY <1>2, WithoutSome DEF less
<1>5. /\ t \in [Op -> Statuses] /\ s \in Claims
      /\ \A d \in Op : t[d] = IF d \in settled THEN "known" ELSE prev.status[d]
      /\ \A x \in Coin : s[x] = IF x \in unblock THEN NoOp ELSE prev.spent[x]
  BY <1>4 DEF Entries, Statuses, Claims
<1> HIDE DEF t, s
<1>6. /\ new \in Entries /\ new.id = rec[c] /\ new.res = less.res /\ new.spent = s
      /\ new.status = t /\ new.attempted = less.attempted
  BY <1>1, <1>4, <1>5 DEF Entries, Scans, new
<1>7. /\ entry' \in [Name -> Entries] /\ entry'[n] = new
      /\ \A m \in Name : m # n => entry'[m] = entry[m]
  BY <1>1, <1>3, <1>6, Written
<1>8. settled \subseteq posted /\ scan[c].seen \subseteq posted
  BY <1>2 DEF IInv, NetInv
<1>9. \A m \in Name, x \in Coin, d \in Op :
        /\ entry'[m].res[x] = d => entry[m].res[x] = d
        /\ entry'[m].spent[x] = d => entry[m].spent[x] = d
        /\ entry'[m].res[x] = d \/ entry'[m].spent[x] = d => m # n \/ Matching(c)
        /\ m = n /\ entry'[m].res[x] = d => d \notin settled
  BY <1>2, <1>4, <1>5, <1>6, <1>7 DEF NoEntry, NoClaims
<1>10. \A m \in Name : entry'[m].id = IF m = n THEN rec[c] ELSE entry[m].id
  BY <1>6, <1>7
<1>11. \A m \in Name, d \in Op : m # n \/ Matching(c) =>
         /\ entry'[m].status[d] = IF m = n /\ d \in settled THEN "known" ELSE entry[m].status[d]
         /\ (m # n \/ d \notin settled) /\ d \in entry[m].attempted => d \in entry'[m].attempted
  BY <1>2, <1>4, <1>5, <1>6, <1>7
<1>12. ~Matching(c) => \A d \in Op : entry'[n].status[d] = "none"
  BY <1>2, <1>5, <1>6, <1>7 DEF NoEntry
<1>13. Matching(c) => \A x \in Coin, d \in Op \ settled :
         /\ entry[n].res[x] = d => entry'[n].res[x] = d
         /\ entry[n].spent[x] = d => entry'[n].spent[x] = d
  <2> SUFFICES ASSUME Matching(c), NEW x \in Coin, NEW d \in Op \ settled
               PROVE  /\ entry[n].res[x] = d => entry'[n].res[x] = d
                      /\ entry[n].spent[x] = d => entry'[n].spent[x] = d
    OBVIOUS
  <2>1. entry[n].spent[x] = d => d \notin scan[c].seen
    BY <1>1, <1>2 DEF IInv, StatusInv
  <2> QED BY <1>1, <1>2, <1>4, <1>5, <1>6, <1>7, <2>1
<1> HIDE DEF n, settled
<1>14. TypeOK'
  BY <1>1, <1>3, <1>7, <1>8, IdleStep DEF TypeOK
<1>15. RecordInv'
  BY <1>1, <1>3, <1>10 DEF IInv, RecordInv
<1>16. \A m \in Name, x \in Coin, d \in Op :
         Holds(m, x, d)' => Holds(m, x, d) /\ entry'[m].id = entry[m].id
  BY <1>2, <1>9, <1>10 DEF Holds
<1>17. ClaimInv' /\ OnceInv'
  BY <1>3, <1>16, ClaimsShrink
<1>18. StatusInv'
  <2> SUFFICES ASSUME NEW m \in Name, NEW d \in Op
               PROVE  /\ entry'[m].status[d] # "none" => d \in signed
                      /\ entry'[m].status[d] = "broadcast_unknown" => d \in entry'[m].attempted
                      /\ \A x \in Coin : entry'[m].spent[x] = d => entry'[m].status[d] # "none"
    BY <1>3 DEF StatusInv
  <2>1. CASE m # n \/ Matching(c)
    BY <1>1, <1>8, <1>9, <1>11, <2>1 DEF IInv, StatusInv, TypeOK
  <2>2. CASE m = n /\ ~Matching(c)
    BY <1>9, <1>12, <2>2
  <2> QED BY <2>1, <2>2
<1>19. NetInv'
  BY <1>1, <1>3, IdleStep DEF IInv, NetInv, Known, Used
<1>20. ClientInv'
  <2>1. Working(c)' /\ pc'[c] # "reserved"
    BY <1>1, <1>3, IdleStep DEF Working
  <2>2. ASSUME NEW k \in Client, k # c PROVE Working(k)'
    <3>1. pc'[k] = pc[k] /\ rec'[k] = rec[k] /\ cur'[k] = cur[k] /\ Working(k)
      BY <1>1, <1>3, <2>2, IdleStep DEF IInv, ClientInv
    <3>2. (pc[k] # "idle" => NameAt(k) \in Name) /\ cur[k] \in Op \cup {NoOp}
      BY <1>1, AtWork DEF At, TypeOK
    <3> QED BY <1>3, <1>9, <3>1, <3>2 DEF Working, EntryAt, NameAt, Used
  <2> QED BY <1>1, <1>3, <2>1, <2>2, IdleStep DEF IInv, ClientInv
<1>21. \A d \in Op : Sent(d)' => Sent(d)
  BY <1>1, <1>3, IdleStep DEF Sent, Sending
<1>22. CancelInv'
  BY <1>3, <1>9, <1>11, <1>21 DEF IInv, CancelInv
<1>23. SentInv'
  <2> SUFFICES ASSUME NEW d \in Op, Sent(d)', d \notin reconciled' PROVE Blocked(d)'
    BY DEF SentInv
  <2>1. Sent(d) /\ Blocked(d) /\ d \notin settled
    BY <1>3, <1>21 DEF IInv, SentInv
  <2>2. NameOf[of[d]] \in Name /\ ins[d] \subseteq Coin
    BY <1>1, <2>1, OfSent DEF TypeOK
  <2>3. NameOf[of[d]] = n => Matching(c) /\ of[d] = rec[c]
    BY <1>1, <2>1 DEF Blocked, Matching
  <2>4. \A x \in ins[d] : entry'[NameOf[of[d]]].spent[x] = d
    BY <1>7, <1>13, <2>1, <2>2, <2>3 DEF Blocked
  <2> QED BY <1>3, <1>10, <2>1, <2>2, <2>3, <2>4 DEF Blocked
<1>24. UnknownStaysBlocked'
  <2> SUFFICES ASSUME NEW m \in Name, NEW d \in Op, entry'[m].status[d] = "broadcast_unknown",
                      NEW x \in ins[d]
               PROVE  entry'[m].res[x] = d /\ entry'[m].spent[x] = d
    BY <1>3 DEF UnknownStaysBlocked
  <2>1. m # n \/ Matching(c)
    BY <1>12
  <2>2. entry[m].status[d] = "broadcast_unknown" /\ (m = n => d \notin settled)
    BY <1>11, <2>1
  <2>3. entry[m].res[x] = d /\ entry[m].spent[x] = d /\ x \in Coin
    BY <1>1, <2>2 DEF IInv, UnknownStaysBlocked, TypeOK
  <2> QED BY <1>7, <1>13, <2>1, <2>2, <2>3
<1> QED BY <1>14, <1>15, <1>17, <1>18, <1>19, <1>20, <1>22, <1>23, <1>24 DEF IInv

-----------------------------------------------------------------------------
(* Every step of every operation, and every failure, preserves the invariant. *)
THEOREM SingleKeyInductive == IInv /\ [Next]_vars => IInv'
<1> SUFFICES ASSUME IInv, [Next]_vars PROVE IInv'
  OBVIOUS
<1>1. CASE UNCHANGED vars
  <2>1. UNCHANGED <<record, entry, ins, of, signed, mempool, mined, tip, made, posted,
                    cancelled, reconciled, pc, rec, cur, scan>>
    BY <1>1 DEF vars, fileVars, docVars, netVars, histVars, procVars
  <2>2. TypeOK' /\ NetInv' /\ ClientInv'
    BY <2>1 DEF IInv, TypeOK, NetInv, ClientInv, Working, EntryAt, NameAt, Known, Used
  <2> QED BY <2>1, <2>2, FilesStay DEF IInv, Sent, Sending
<1>2. ASSUME NEW c \in Client, NEW w \in Wallet, NEW d \in Op \cup {NoOp}, Load(c, w, d)
      PROVE  IInv'
  BY <1>2, LoadStep
<1>3. ASSUME NEW c \in Client, Pay(c) PROVE IInv'
  BY <1>3, ReserveStep, SignStep, PrepareFailStep, CancelStep, IntentStep, PostStep,
     FinalUpdateStep DEF Pay
<1>4. ASSUME NEW c \in Client, Scan(c) PROVE IInv'
  BY <1>4, ScanStep, MergeStep DEF Scan
<1>5. ASSUME NEW c \in Client, Crash(c) PROVE IInv'
  BY <1>5, CrashStep
<1>6. ASSUME NEW d \in Op, Mine(d) \/ Evict(d) PROVE IInv'
  BY <1>6, NetStep
<1>7. ASSUME NEW w \in Wallet, Import(w) PROVE IInv'
  BY <1>7, ImportStep
<1>8. ASSUME NEW n \in Name, NEW done \in BOOLEAN, RemoveWallet(n, done) PROVE IInv'
  BY <1>8, RemoveStep
<1> QED BY <1>1, <1>2, <1>3, <1>4, <1>5, <1>6, <1>7, <1>8 DEF Next

(* The invariant holds throughout.                                         *)
LEMMA Invariant == Spec => []IInv
<1> QED BY InitIInv, SingleKeyInductive, PTL DEF Spec

(* The two files, the documents and the processes keep their types.        *)
THEOREM SingleKeyTypes == Spec => []TypeOK
<1>1. IInv => TypeOK
  BY DEF IInv
<1> QED BY <1>1, Invariant, PTL

(* cancel_draft and broadcast may race over one signed document: what was  *)
(* cancelled was never sent, and never will be.                            *)
THEOREM CancelledStaysUnposted == Spec => []CancelledNeverPosted
<1>1. IInv => CancelledNeverPosted
  BY DEF IInv, CancelInv, Sent, CancelledNeverPosted, TypeOK
<1> QED BY <1>1, Invariant, PTL

(* While the outcome of a broadcast is unknown, reservations and pending   *)
(* spends block its coins, whatever crashes, cancels, retries and scans do. *)
THEOREM UnknownBlocks == Spec => []UnknownStaysBlocked
<1>1. IInv => UnknownStaysBlocked
  BY DEF IInv
<1> QED BY <1>1, Invariant, PTL

(* Of two transactions sent for the key that share a coin, a scan has found one *)
(* in the history, whichever wallets of the key they were prepared for.    *)
THEOREM ConflictsReconciled == Spec => []ConflictOnlyReconciled
<1>1. IInv => ConflictOnlyReconciled
  <2> SUFFICES ASSUME IInv, NEW d \in posted, NEW e \in posted, NEW x \in Coin,
                      x \in ins[d], x \in ins[e], d \notin reconciled, e \notin reconciled
               PROVE  d = e
    BY DEF ConflictOnlyReconciled, IInv, TypeOK
  <2>1. d \in Op /\ e \in Op /\ Sent(d) /\ Sent(e)
    BY DEF IInv, TypeOK, Sent
  <2>2. Blocked(d) /\ Blocked(e) /\ NameOf[of[d]] \in Name /\ NameOf[of[e]] \in Name
    BY <2>1, OfSent DEF IInv, SentInv
  <2> QED BY <2>1, <2>2 DEF IInv, OnceInv, Holds, Blocked
<1> QED BY <1>1, Invariant, PTL

(* remove_wallet loses no broadcast whose outcome is open, although the    *)
(* operations under way keep the record they have read.                    *)
THEOREM RemovalSettled == Spec => []RemovedWhenSettled
<1>1. IInv => RemovedWhenSettled
  BY DEF IInv, SentInv, Sent, Blocked, RemovedWhenSettled, TypeOK
<1> QED BY <1>1, Invariant, PTL
=============================================================================
