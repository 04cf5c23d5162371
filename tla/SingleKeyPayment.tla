-------------------------- MODULE SingleKeyPayment --------------------------
(***************************************************************************)
(* Payments of the single-key wallets (src/single_key_wallet) that hold    *)
(* one private key: the key may have been imported under several names,    *)
(* removed, and imported again.  prepare_send signs at once, broadcast     *)
(* persists its intent before the POST, sync_wallet reconciles the intent  *)
(* with the history, cancel_draft and remove_wallet refuse while an        *)
(* outcome is open.  Processes share the wallet file and the cache file;   *)
(* one lock section is one action, network requests are made with no lock  *)
(* held.  Every operation reads the wallet record first, in a section of   *)
(* its own, and works with what it has read.                               *)
(***************************************************************************)
EXTENDS Integers

CONSTANTS
  Client,    \* processes that operate on the wallets
  Name,      \* wallet names
  Wallet,    \* wallet ids (uuid4().hex), one for each import of the key
  NameOf,    \* the name each of them is imported under
  Op,        \* operation ids (uuid4().hex), one signed transaction each
  Coin,      \* the key's confirmed outpoints
  TipLimit,  \* bound on the blocks that may be found
  NoOp, NoWallet

ASSUME OpAssumption == NoOp \notin Op
ASSUME WalletAssumption == NoWallet \notin Wallet /\ NameOf \in [Wallet -> Name]
ASSUME TipAssumption == TipLimit \in Nat

VARIABLES
  record,      \* wallet file: name -> wallet id, or NoWallet
  entry,       \* cache file: name -> the wallet's entry
  ins, of,     \* inputs of each operation, and the wallet it was prepared for
  signed,      \* operations whose signed document exists
  mempool, mined, tip,  \* the backend's node
  made,        \* history: wallet ids given out
  posted,      \* history: operations sent to the backend
  cancelled,   \* history: operations released by cancel_draft
  reconciled,  \* history: operations a merged scan found in the history
  pc, rec, cur,  \* position of each client, the record it has read, its operation
  scan         \* what each client's scan has read

fileVars == <<record, entry>>
docVars  == <<ins, of, signed>>
netVars  == <<mempool, mined, tip>>
histVars == <<made, posted, cancelled, reconciled>>
procVars == <<pc, rec, cur, scan>>
vars == <<fileVars, docVars, netVars, histVars, procVars>>

\* "broadcast", "mempool" and "confirmed" are displayed, no decision tells
\* them apart: all are "known".
Statuses == {"none", "broadcast_unknown", "known"}
Claims == [Coin -> Op \cup {NoOp}]
Entries ==
  [id : Wallet \cup {NoWallet},
   utxos : SUBSET Coin,      \* outpoints in "utxos"
   res : Claims,             \* "reservations"
   attempted : SUBSET Op,    \* operations whose reservations say broadcast_attempted
   spent : Claims,           \* "pending_spent_outpoints"
   status : [Op -> Statuses]]  \* "pending_transactions"
Scans == [tip : 0 .. TipLimit, coins : SUBSET Coin, seen : SUBSET Op]

NoClaims == [x \in Coin |-> NoOp]
NoEntry == [id |-> NoWallet, utxos |-> {}, res |-> NoClaims, attempted |-> {},
            spent |-> NoClaims, status |-> [d \in Op |-> "none"]]
NoScan == [tip |-> 0, coins |-> {}, seen |-> {}]

(* Types of the two files, the documents, the network and the processes.   *)
TypeOK ==
  /\ record \in [Name -> Wallet \cup {NoWallet}]
  /\ entry \in [Name -> Entries]
  /\ ins \in [Op -> SUBSET Coin] /\ of \in [Op -> Wallet \cup {NoWallet}]
  /\ signed \subseteq Op
  /\ mempool \subseteq Op /\ mined \subseteq Op /\ tip \in 0 .. TipLimit
  /\ made \subseteq Wallet
  /\ posted \subseteq signed /\ cancelled \subseteq Op /\ reconciled \subseteq posted
  /\ pc \in [Client -> {"idle", "loaded", "reserved", "intent", "replied",
                        "scan", "merge"}]
  /\ rec \in [Client -> Wallet \cup {NoWallet}]
  /\ cur \in [Client -> Op \cup {NoOp}]
  /\ scan \in [Client -> Scans]

-----------------------------------------------------------------------------
(* The node behind the backend (external).                                 *)
Known == mempool \cup mined
SpentBy(S) == UNION {ins[d] : d \in S}
NodeAccepts(d) == d \notin Known /\ ins[d] \cap SpentBy(Known) = {}

Mine(d) ==
  /\ d \in mempool /\ tip < TipLimit
  /\ mempool' = mempool \ {d}
  /\ mined' = mined \cup {d}
  /\ tip' = tip + 1
  /\ UNCHANGED <<fileVars, docVars, histVars, procVars>>

Evict(d) ==
  /\ d \in mempool
  /\ mempool' = mempool \ {d}
  /\ UNCHANGED <<fileVars, docVars, mined, tip, histVars, procVars>>

-----------------------------------------------------------------------------
Used == {d \in Op : ins[d] # {}}

\* Mutant: a wallet looks at its own entry only.
AvailableOwn(n) ==
  {x \in entry[n].utxos : entry[n].res[x] = NoOp /\ entry[n].spent[x] = NoOp}

Available(n) ==
  {x \in entry[n].utxos :
     \A m \in Name : entry[m].res[x] = NoOp /\ entry[m].spent[x] = NoOp}

\* An entry without the reservations of the operations in S.
Without(e, S) ==
  [e EXCEPT !.res = [x \in Coin |-> IF e.res[x] \in S THEN NoOp ELSE e.res[x]],
            !.attempted = @ \ S]

At(c, from) == pc[c] = from
NameAt(c) == NameOf[rec[c]]
EntryAt(c) == entry[NameAt(c)]
Matching(c) == EntryAt(c).id = rec[c]
Write(c, e) == entry' = [entry EXCEPT ![NameAt(c)] = e]

Finish(c) ==
  /\ pc' = [pc EXCEPT ![c] = "idle"]
  /\ rec' = [rec EXCEPT ![c] = NoWallet]
  /\ cur' = [cur EXCEPT ![c] = NoOp]
  /\ scan' = [scan EXCEPT ![c] = NoScan]

Init ==
  /\ record = [n \in Name |-> NoWallet] /\ entry = [n \in Name |-> NoEntry]
  /\ ins = [d \in Op |-> {}] /\ of = [d \in Op |-> NoWallet] /\ signed = {}
  /\ mempool = {} /\ mined = {} /\ tip = 0
  /\ made = {} /\ posted = {} /\ cancelled = {} /\ reconciled = {}
  /\ pc = [c \in Client |-> "idle"] /\ rec = [c \in Client |-> NoWallet]
  /\ cur = [c \in Client |-> NoOp] /\ scan = [c \in Client |-> NoScan]

(***************************************************************************)
(* Records.  remove_wallet writes the wallet file, then the cache file,    *)
(* and may stop in between.                                                *)
(***************************************************************************)
Import(w) ==
  /\ w \notin made /\ record[NameOf[w]] = NoWallet
  /\ record' = [record EXCEPT ![NameOf[w]] = w]
  /\ made' = made \cup {w}
  /\ UNCHANGED <<entry, docVars, netVars, posted, cancelled, reconciled, procVars>>

\* Mutant: only open reservations keep a wallet from being removed.
RemoveUnreserved(n, done) ==
  /\ record[n] # NoWallet
  /\ entry[n].res = NoClaims
  /\ record' = [record EXCEPT ![n] = NoWallet]
  /\ entry' = IF done THEN [entry EXCEPT ![n] = NoEntry] ELSE entry
  /\ UNCHANGED <<docVars, netVars, histVars, procVars>>

RemoveWallet(n, done) ==
  /\ record[n] # NoWallet
  /\ entry[n].res = NoClaims /\ entry[n].spent = NoClaims
  /\ record' = [record EXCEPT ![n] = NoWallet]
  /\ entry' = IF done THEN [entry EXCEPT ![n] = NoEntry] ELSE entry
  /\ UNCHANGED <<docVars, netVars, histVars, procVars>>

\* Mutant: the document to broadcast is taken as it comes.
ValidUnsigned(d, w) == d \in Used /\ of[d] = w

\* validate_signed_document: what it recomputes holds of what Sign made, for
\* the wallet it was made for.
Valid(d, w) == d \in signed /\ of[d] = w

\* load_wallet; broadcast comes with a document, the other operations with none.
Load(c, w, d) ==
  /\ At(c, "idle") /\ record[NameOf[w]] = w
  /\ d # NoOp => Valid(d, w)
  /\ pc' = [pc EXCEPT ![c] = "loaded"]
  /\ rec' = [rec EXCEPT ![c] = w]
  /\ cur' = [cur EXCEPT ![c] = d]
  /\ UNCHANGED <<fileVars, docVars, netVars, histVars, scan>>

(***************************************************************************)
(* prepare_send: reserve under the lock, check the parents online and sign *)
(* without it; any failure in between releases the reservation.            *)
(***************************************************************************)
Reserve(c, d, S) ==
  /\ At(c, "loaded") /\ cur[c] = NoOp /\ Matching(c)
  /\ d \notin Used
  /\ S # {} /\ S \subseteq Available(NameAt(c))
  /\ Write(c, [EntryAt(c) EXCEPT !.res = [x \in Coin |-> IF x \in S THEN d ELSE @[x]]])
  /\ ins' = [ins EXCEPT ![d] = S]
  /\ of' = [of EXCEPT ![d] = rec[c]]
  /\ pc' = [pc EXCEPT ![c] = "reserved"]
  /\ cur' = [cur EXCEPT ![c] = d]
  /\ UNCHANGED <<record, signed, netVars, histVars, rec, scan>>

Sign(c) ==
  /\ At(c, "reserved")
  /\ signed' = signed \cup {cur[c]}
  /\ Finish(c)
  /\ UNCHANGED <<fileVars, ins, of, netVars, histVars>>

PrepareFail(c) ==
  /\ At(c, "reserved")
  /\ Write(c, Without(EntryAt(c), {cur[c]}))
  /\ Finish(c)
  /\ UNCHANGED <<record, docVars, netVars, histVars>>

\* Mutant: a draft can be cancelled whatever became of its broadcast.
CancelAlways(c, d) ==
  /\ At(c, "loaded") /\ cur[c] = NoOp /\ Matching(c)
  /\ \E x \in Coin : EntryAt(c).res[x] = d
  /\ Write(c, Without(EntryAt(c), {d}))
  /\ cancelled' = cancelled \cup {d}
  /\ Finish(c)
  /\ UNCHANGED <<record, docVars, netVars, made, posted, reconciled>>

Cancel(c, d) ==
  /\ At(c, "loaded") /\ cur[c] = NoOp /\ Matching(c)
  /\ \E x \in Coin : EntryAt(c).res[x] = d
  /\ d \notin EntryAt(c).attempted
  /\ Write(c, Without(EntryAt(c), {d}))
  /\ cancelled' = cancelled \cup {d}
  /\ Finish(c)
  /\ UNCHANGED <<record, docVars, netVars, made, posted, reconciled>>

(***************************************************************************)
(* broadcast: intent under the lock, POST, final update under the lock.    *)
(***************************************************************************)
Reserved(e, d) == \A x \in ins[d] : x \in e.utxos /\ e.res[x] = d
Retryable(e, d) ==
  \A x \in ins[d] :
    e.spent[x] # NoOp => e.spent[x] = d /\ e.status[d] = "broadcast_unknown"

\* Mutant: the intent marks the pending transaction but not its coins.
IntentUnblocked(c) ==
  LET d == cur[c]  e == EntryAt(c)
  IN  /\ At(c, "loaded") /\ d # NoOp /\ Matching(c)
      /\ Reserved(e, d) /\ Retryable(e, d)
      /\ Write(c, [e EXCEPT !.status[d] = "broadcast_unknown"])
      /\ pc' = [pc EXCEPT ![c] = "intent"]
      /\ UNCHANGED <<record, docVars, netVars, histVars, rec, cur, scan>>

Intent(c) ==
  LET d == cur[c]  e == EntryAt(c)
  IN  /\ At(c, "loaded") /\ d # NoOp /\ Matching(c)
      /\ Reserved(e, d) /\ Retryable(e, d)
      /\ Write(c, [e EXCEPT
           !.attempted = @ \cup {d},
           !.spent = [x \in Coin |-> IF x \in ins[d] THEN d ELSE @[x]],
           !.status[d] = "broadcast_unknown"])
      /\ pc' = [pc EXCEPT ![c] = "intent"]
      /\ UNCHANGED <<record, docVars, netVars, histVars, rec, cur, scan>>

PostAccepted(c) ==
  /\ At(c, "intent") /\ NodeAccepts(cur[c])
  /\ mempool' = mempool \cup {cur[c]}
  /\ posted' = posted \cup {cur[c]}
  /\ pc' = [pc EXCEPT ![c] = "replied"]
  /\ UNCHANGED <<fileVars, docVars, mined, tip, made, cancelled, reconciled,
                 rec, cur, scan>>

\* Accepted with the reply lost, refused, or never delivered: nothing is
\* released.
PostUnknown(c, taken) ==
  /\ At(c, "intent") /\ (taken => NodeAccepts(cur[c]))
  /\ mempool' = IF taken THEN mempool \cup {cur[c]} ELSE mempool
  /\ posted' = posted \cup {cur[c]}
  /\ Finish(c)
  /\ UNCHANGED <<fileVars, docVars, mined, tip, made, cancelled, reconciled>>

FinalUpdate(c) ==
  /\ At(c, "replied") /\ Matching(c)
  /\ Write(c, [Without(EntryAt(c), {cur[c]}) EXCEPT !.status[cur[c]] = "known"])
  /\ Finish(c)
  /\ UNCHANGED <<record, docVars, netVars, histVars>>

(***************************************************************************)
(* sync_wallet.  The scan gives up when the tip moved while it was reading,*)
(* or the record is another one when it merges, so nothing is lost by      *)
(* reading the record, the tip and the coins in one step.                  *)
(***************************************************************************)
ScanBegin(c, w) ==
  /\ At(c, "idle") /\ record[NameOf[w]] = w
  /\ rec' = [rec EXCEPT ![c] = w]
  /\ pc' = [pc EXCEPT ![c] = "scan"]
  /\ scan' = [scan EXCEPT ![c].tip = tip, ![c].coins = Coin \ SpentBy(Known)]
  /\ UNCHANGED <<fileVars, docVars, netVars, histVars, cur>>

ScanHistory(c) ==
  /\ At(c, "scan") /\ tip = scan[c].tip
  /\ pc' = [pc EXCEPT ![c] = "merge"]
  /\ scan' = [scan EXCEPT ![c].seen = Known]
  /\ UNCHANGED <<fileVars, docVars, netVars, histVars, rec, cur>>

\* What the merge writes, given the coins it may unblock.  An entry of
\* another wallet under the name is dropped.
MergeWith(c, unblock) ==
  LET prev == IF Matching(c) THEN EntryAt(c) ELSE NoEntry
      settled == {d \in scan[c].seen : prev.status[d] # "none"}
  IN  /\ At(c, "merge") /\ record[NameAt(c)] = rec[c]
      /\ Write(c, [Without(prev, settled) EXCEPT
           !.id = rec[c],
           !.utxos = scan[c].coins,
           !.status = [d \in Op |->
             IF d \in settled THEN "known" ELSE @[d]],
           !.spent = [x \in Coin |-> IF x \in unblock THEN NoOp ELSE @[x]]])
      /\ reconciled' = reconciled \cup settled
      /\ Finish(c)
      /\ UNCHANGED <<record, docVars, netVars, made, posted, cancelled>>

\* Mutant: every coin the scan does not list is unblocked.
MergeMissing(c) == MergeWith(c, Coin \ scan[c].coins)

Merge(c) ==
  MergeWith(c, {x \in Coin \ scan[c].coins : EntryAt(c).spent[x] \in scan[c].seen})

\* A killed process, a failed request, a cache that cannot be locked, an
\* entry that is not the wallet's.
Crash(c) ==
  /\ ~At(c, "idle")
  /\ Finish(c)
  /\ UNCHANGED <<fileVars, docVars, netVars, histVars>>

Pay(c) ==
  \/ \E d \in Op, S \in SUBSET Coin : Reserve(c, d, S)
  \/ Sign(c) \/ PrepareFail(c)
  \/ \E d \in Op : Cancel(c, d)
  \/ Intent(c) \/ PostAccepted(c) \/ (\E taken \in BOOLEAN : PostUnknown(c, taken))
  \/ FinalUpdate(c)

Scan(c) == (\E w \in Wallet : ScanBegin(c, w)) \/ ScanHistory(c) \/ Merge(c)

Next ==
  \/ \E c \in Client :
       \/ \E w \in Wallet, d \in Op \cup {NoOp} : Load(c, w, d)
       \/ Pay(c) \/ Scan(c) \/ Crash(c)
  \/ \E d \in Op : Mine(d) \/ Evict(d)
  \/ \E w \in Wallet : Import(w)
  \/ \E n \in Name, done \in BOOLEAN : RemoveWallet(n, done)

Spec == Init /\ [][Next]_vars

-----------------------------------------------------------------------------
(* Safety.                                                                 *)

(* A transaction that was sent to a backend was never cancelled, and never *)
(* will be: cancel and broadcast may race, the intent decides.             *)
CancelledNeverPosted == cancelled \cap posted = {}

(* While the outcome of a broadcast is unknown, its coins stay blocked by  *)
(* it in both maps, so that an explicit retry of the same bytes is all     *)
(* that can spend them, through crashes, lost replies and any scan.        *)
UnknownStaysBlocked ==
  \A n \in Name, d \in Op : entry[n].status[d] = "broadcast_unknown" =>
    \A x \in ins[d] : entry[n].res[x] = d /\ entry[n].spent[x] = d

(* Two transactions sent to a backend share a coin only after a scan has   *)
(* found one of them in the complete history, whichever of the wallets of  *)
(* the key they were prepared for.                                         *)
ConflictOnlyReconciled ==
  \A d, e \in posted :
    d # e /\ ins[d] \cap ins[e] # {} => d \in reconciled \/ e \in reconciled

(* Once a wallet is removed, the outcome of each of its broadcasts is      *)
(* known, and no process that still has its record sends another.          *)
RemovedWhenSettled ==
  \A d \in posted \ reconciled : record[NameOf[of[d]]] = of[d]

(* single_key_wallet/README.md: "Reservations persist until cancellation   *)
(* or broadcast reconciliation": the wallet that could cancel is there.    *)
ReservedIsCancellable ==
  \A n \in Name : entry[n].res # NoClaims => record[n] = entry[n].id

(* single_key_wallet/REVIEW.md: the subsystem "permits only an explicit    *)
(* retry of identical bytes": while one transaction is known to the node,  *)
(* no other transaction that spends its coins is sent.                     *)
RetryIdenticalOnly ==
  [][\A e \in posted' \ posted : ins[e] \cap SpentBy(Known) = {}]_vars
=============================================================================
