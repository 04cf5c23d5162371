----------------------------- MODULE WalletSync -----------------------------
(***************************************************************************)
(* Synchronization of one HD wallet with the network, and the accounting   *)
(* of its pending transactions (src/wallet/wallet_sync.py,                 *)
(* src/wallet/transaction_accounting.py, record_successful_broadcast of    *)
(* src/tx/workflow.py, the history restore of src/wallet/service.py).      *)
(*                                                                         *)
(* A scan reads the backend address by address, with no lock and with the  *)
(* network moving between two reads.  It then marks addresses used in      *)
(* wallets.json, and in one lock section replaces the cache entry, carrying *)
(* over reservations and the pending transactions it did not see confirmed.*)
(* Several processes scan at once; a payment goes on meanwhile, and so do  *)
(* processes that issue addresses.  The scans of the service first drop an *)
(* entry that lists an address they did not find in the address book.      *)
(* Payments are reduced to what the accounting sees of PaymentDraft.       *)
(*                                                                         *)
(* The address book only grows, so what was read of it is a prefix of the  *)
(* whole Book, modelled by its length.                                     *)
(***************************************************************************)
EXTENDS Integers, Sequences, FiniteSetsExt

CONSTANTS
  Syncer,     \* processes that scan
  Tx,         \* transactions that involve the wallet
  Local,      \* those this wallet builds; the others are incoming
  Sweeps,     \* local ones whose document has no wallet_file (send-all)
  Coin,       \* the wallet's outpoints
  Genesis,    \* coins confirmed before the first step
  Spends,     \* inputs of each transaction
  Makes,      \* wallet outputs of each transaction
  Value,      \* satoshis of each coin
  Book,       \* the addresses the wallet comes to issue, in their order
  FirstIssued, \* how many of them it has issued at the start
  At,         \* address of each coin
  Mode,       \* kinds of scan the run starts
  EventLimit, \* bound on network changes and records
  NoTx

Address == {Book[i] : i \in DOMAIN Book}
Modes == {"full", "utxo", "funding"}

ASSUME TxAssumption ==
  /\ Sweeps \subseteq Local /\ Local \subseteq Tx /\ NoTx \notin Tx
  /\ Spends \in [Tx -> SUBSET Coin] /\ Makes \in [Tx -> SUBSET Coin]
ASSUME CoinAssumption ==
  /\ Genesis \subseteq Coin /\ IsFiniteSet(Coin)
  /\ Value \in [Coin -> Nat] /\ At \in [Coin -> Address]
  /\ Book \in Seq(Address) /\ FirstIssued \in 1 .. Len(Book)
  /\ \A x \in Genesis : \E i \in 1 .. FirstIssued : At[x] = Book[i]
ASSUME ScanAssumption ==
  /\ Mode \subseteq Modes
  /\ EventLimit \in Nat

VARIABLES
  mempool, mined,  \* what the backend's node knows
  issued,          \* addresses issued so far, in wallets.json
  active,          \* transaction of the active draft, which reserves its inputs
  replied,         \* accepted by the backend, not recorded yet
  utxos,           \* cached "utxos": coin -> absent, unconfirmed, confirmed
  pending,         \* pending_transactions
  observed,        \* those with observed_in_sync
  pendSpent,       \* pending_spent_outpoints: coin -> spending transaction
  listed,          \* cached "transactions"
  addresses,       \* how many the entry lists, 0 if there is no entry
  used,            \* addresses marked used in wallets.json
  scan,            \* the scan of each syncer
  recorded,        \* history: local transactions that were ever recorded
  discarded,       \* history: those whose record went with the entry
  events,          \* network changes and records so far
  calm,            \* history: scans since whose start nothing happened
  exact            \* history: nor since the start of the full scan cached

netVars   == <<mempool, mined, active, replied>>
entryVars == <<utxos, pending, observed, pendSpent, listed, addresses>>
bookVars  == <<issued, used>>
recVars   == <<recorded, discarded>>
histVars  == <<recVars, events, calm, exact>>
vars == <<netVars, entryVars, bookVars, scan, histVars>>

Status == {"absent", "unconfirmed", "confirmed"}
NoCoins == [x \in Coin |-> "absent"]

Idle == [pc |-> "idle", mode |-> "full", book |-> 0, left |-> << >>, at |-> {},
         coins |-> NoCoins, seen |-> {}, seenConfirmed |-> {}, touched |-> {},
         saved |-> {}]

\* What a scan may have left to ask for: the rest of a prefix of the book.
Pieces ==
  {SubSeq(Book, i, n) : i \in 1 .. Len(Book) + 1, n \in 0 .. Len(Book)}

Scans ==
  [pc : {"idle", "identity", "save", "begin", "coins", "history", "merge",
         "restore"},
   mode : Modes, book : 0 .. Len(Book),
   left : Pieces, at : SUBSET Address, coins : [Coin -> Status],
   seen : SUBSET Tx, seenConfirmed : SUBSET Tx, touched : SUBSET Address,
   saved : SUBSET Tx]

(* Types of the network, the cache entry and every scan under way.         *)
TypeOK ==
  /\ mempool \subseteq Tx /\ mined \subseteq Tx /\ mempool \cap mined = {}
  /\ active \in Local \cup {NoTx} /\ replied \subseteq Local
  /\ utxos \in [Coin -> Status]
  /\ observed \subseteq pending /\ pending \subseteq Local /\ listed \subseteq Tx
  /\ pendSpent \in [Coin -> Local \cup {NoTx}]
  /\ issued \in FirstIssued .. Len(Book) /\ addresses \in 0 .. Len(Book)
  /\ used \subseteq Address /\ recorded \subseteq Local /\ discarded \subseteq Local
  /\ scan \in [Syncer -> Scans]
  /\ events \in 0 .. EventLimit /\ calm \subseteq Syncer /\ exact \in BOOLEAN

-----------------------------------------------------------------------------
(* The network (external).                                                 *)

Known == mempool \cup mined
Created(S) == UNION {Makes[t] : t \in S}
Spent(S) == UNION {Spends[t] : t \in S}
Unspent == (Genesis \cup Created(Known)) \ Spent(Known)

\* What the backend says of a coin.
NodeStatus(x) ==
  IF x \notin Unspent THEN "absent"
  ELSE IF x \in Genesis \cup Created(mined) THEN "confirmed" ELSE "unconfirmed"

\* What the backend lists for an address.
Touches(t, a) == \E x \in Spends[t] \cup Makes[t] : At[x] = a
HistoryOf(a) == {t \in Known : Touches(t, a)}
Touched(a) == HistoryOf(a) # {} \/ \E x \in Genesis : At[x] = a

Tick ==
  /\ events < EventLimit /\ events' = events + 1
  /\ calm' = {} /\ exact' = FALSE

\* What pays the wallet pays an address it has issued.
IssuedUpTo(n) == {Book[i] : i \in 1 .. n}
PaysIssued(t) == \A x \in Makes[t] : At[x] \in IssuedUpTo(issued)

Enter(t) ==
  /\ t \notin Known /\ Spends[t] \subseteq Unspent /\ PaysIssued(t)
  /\ mempool' = mempool \cup {t}

\* An incoming payment, or the relay of a transaction evicted before.
Receive(t) ==
  /\ t \notin Local \/ t \in pending
  /\ Tick /\ Enter(t)
  /\ UNCHANGED <<mined, active, replied, entryVars, bookVars, scan, recVars>>

Mine(t) ==
  /\ t \in mempool
  /\ Tick
  /\ mempool' = mempool \ {t}
  /\ mined' = mined \cup {t}
  /\ UNCHANGED <<active, replied, entryVars, bookVars, scan, recVars>>

Evict(t) ==
  /\ t \in mempool /\ Makes[t] \cap Spent(mempool) = {}
  /\ Tick
  /\ mempool' = mempool \ {t}
  /\ UNCHANGED <<mined, active, replied, entryVars, bookVars, scan, recVars>>

-----------------------------------------------------------------------------
(* Accounting of the cache entry.                                          *)

ValueOf(S) == MapThenSumSet(LAMBDA x : Value[x], S)
Delta(t) == ValueOf(Makes[t]) - ValueOf(Spends[t])

Authoritative == ValueOf({x \in Coin : utxos[x] # "absent"})
PendingDelta ==
  MapThenSumSet(Delta, {t \in pending \ observed : t \notin Sweeps})
Effective == Authoritative + PendingDelta

HasEntry == addresses # 0
Reserved == IF active = NoTx THEN {} ELSE Spends[active]
Available ==
  {x \in Coin : utxos[x] = "confirmed" /\ pendSpent[x] = NoTx /\ x \notin Reserved}

-----------------------------------------------------------------------------
Init ==
  /\ mempool = {} /\ mined = {} /\ active = NoTx /\ replied = {}
  /\ issued = FirstIssued /\ addresses = issued
  /\ utxos = [x \in Coin |-> IF x \in Genesis THEN "confirmed" ELSE "absent"]
  /\ pending = {} /\ observed = {} /\ listed = {}
  /\ pendSpent = [x \in Coin |-> NoTx]
  /\ used = {At[x] : x \in Genesis}
  /\ scan = [s \in Syncer |-> Idle]
  /\ recorded = {} /\ discarded = {} /\ events = 0 /\ calm = {} /\ exact = TRUE

\* getnewaddress, the receive view of a sync, or the change of a signature.
IssueAddress ==
  /\ issued < Len(Book)
  /\ issued' = issued + 1
  /\ UNCHANGED <<netVars, entryVars, used, scan, histVars>>

(***************************************************************************)
(* A payment, as far as the accounting goes.                               *)
(***************************************************************************)
Draft(t) ==
  /\ active = NoTx
  /\ Spends[t] # {} /\ Spends[t] \subseteq Available
  /\ active' = t
  /\ UNCHANGED <<mempool, mined, replied, entryVars, bookVars, scan, histVars>>

Cancel ==
  /\ active # NoTx
  /\ active' = NoTx
  /\ UNCHANGED <<mempool, mined, replied, entryVars, bookVars, scan, histVars>>

\* The reply may be lost; a node that knows t already refuses it.
Post(t, lost) ==
  /\ active = t
  /\ Tick /\ Enter(t)
  /\ replied' = IF lost THEN replied ELSE replied \cup {t}
  /\ UNCHANGED <<mined, active, entryVars, bookVars, scan, recVars>>

Record(t) ==
  /\ t \in replied /\ HasEntry
  /\ Tick
  /\ replied' = replied \ {t}
  /\ recorded' = recorded \cup {t}
  /\ discarded' = discarded \ {t}
  /\ active' = IF active = t THEN NoTx ELSE active
  /\ pending' = pending \cup {t}
  /\ observed' = observed \ {t}
  /\ pendSpent' = [x \in Coin |-> IF x \in Spends[t] THEN t ELSE pendSpent[x]]
  /\ listed' = IF t \in Sweeps THEN listed ELSE listed \cup {t}
  /\ UNCHANGED <<mempool, mined, utxos, addresses, bookVars, scan>>

(***************************************************************************)
(* A scan.  The command line runs "full" and "utxo", sync_wallet with and  *)
(* without transactions.  WalletService.sync_wallet runs "full", or        *)
(* "funding" (include_transactions=False); it first drops a stale entry,   *)
(* and "funding" saves the history and puts it back in lock sections of    *)
(* their own.                                                              *)
(***************************************************************************)

\* _authoritative_address_identity: no cache lock yet.
ReadIdentity(s) ==
  /\ scan[s].pc = "idle"
  /\ scan' = [scan EXCEPT ![s] = [Idle EXCEPT !.pc = "identity", !.book = issued]]
  /\ UNCHANGED <<netVars, entryVars, bookVars, histVars>>

\* The whole entry goes, the reservations of the active draft included.
DropEntry ==
  /\ utxos' = NoCoins /\ addresses' = 0
  /\ pending' = {} /\ observed' = {} /\ listed' = {}
  /\ pendSpent' = [x \in Coin |-> NoTx]
  /\ active' = NoTx
  /\ discarded' = discarded \cup pending
  /\ exact' = FALSE

\* _discard_stale_cache_entry, with the addresses read before.  A scan with
\* transactions that follows is a ScanBegin like that of the command line.
DiscardStale(s, m) ==
  /\ scan[s].pc = "identity"
  /\ IF addresses > scan[s].book THEN DropEntry
     ELSE UNCHANGED <<entryVars, active, discarded, exact>>
  /\ m \in Mode \ {"utxo"}
  /\ scan' = [scan EXCEPT ![s] =
       IF m = "funding" THEN [Idle EXCEPT !.pc = "save", !.mode = m] ELSE Idle]
  /\ UNCHANGED <<mempool, mined, replied, bookVars, recorded, events, calm>>

\* _read_cached_history: without an entry there is nothing to put back.
SaveHistory(s) ==
  /\ scan[s].pc = "save"
  /\ scan' = [scan EXCEPT ![s] =
       IF HasEntry
       THEN [Idle EXCEPT !.pc = "begin", !.mode = "funding", !.saved = listed]
       ELSE [Idle EXCEPT !.pc = "begin", !.mode = "utxo"]]
  /\ UNCHANGED <<netVars, entryVars, bookVars, histVars>>

ScanBegin(s, m) ==
  /\ \/ scan[s].pc = "idle" /\ m \in Mode \ {"funding"}
     \/ scan[s].pc = "begin" /\ m = scan[s].mode
  /\ scan' = [scan EXCEPT ![s] =
       [Idle EXCEPT !.pc = "coins", !.mode = m, !.book = issued,
                    !.left = SubSeq(Book, 1, issued), !.saved = scan[s].saved]]
  /\ calm' = calm \cup {s}
  /\ UNCHANGED <<netVars, entryVars, bookVars, recVars, events, exact>>

\* Mutant: an address counts as used only through its history.
ReadCoinsUnmarked(s) ==
  /\ scan[s].pc = "coins" /\ scan[s].left # << >>
  /\ LET a == Head(scan[s].left)
     IN  scan' = [scan EXCEPT
           ![s].coins = [x \in Coin |-> IF At[x] = a THEN NodeStatus(x) ELSE @[x]],
           ![s].left = Tail(@),
           ![s].at = IF scan[s].mode = "full" THEN {a} ELSE {},
           ![s].pc = IF scan[s].mode = "full" THEN "history" ELSE "coins"]
  /\ UNCHANGED <<netVars, entryVars, bookVars, histVars>>

ReadCoins(s) ==
  /\ scan[s].pc = "coins" /\ scan[s].left # << >>
  /\ LET a == Head(scan[s].left)
     IN  scan' = [scan EXCEPT
           ![s].coins = [x \in Coin |-> IF At[x] = a THEN NodeStatus(x) ELSE @[x]],
           ![s].touched = IF Touched(a) THEN @ \cup {a} ELSE @,
           ![s].left = Tail(@),
           ![s].at = IF scan[s].mode = "full" THEN {a} ELSE {},
           ![s].pc = IF scan[s].mode = "full" THEN "history" ELSE "coins"]
  /\ UNCHANGED <<netVars, entryVars, bookVars, histVars>>

\* The first answer that lists a transaction decides what the scan saw of it.
ReadHistory(s) ==
  /\ scan[s].pc = "history"
  /\ LET answer == UNION {HistoryOf(a) : a \in scan[s].at}
     IN  scan' = [scan EXCEPT
           ![s].seenConfirmed = @ \cup ((answer \cap mined) \ scan[s].seen),
           ![s].seen = @ \cup answer,
           ![s].touched = IF answer # {} THEN @ \cup scan[s].at ELSE @,
           ![s].at = {},
           ![s].pc = "coins"]
  /\ UNCHANGED <<netVars, entryVars, bookVars, histVars>>

\* A request fails, or the process is killed, at any point.
ScanAbort(s) ==
  /\ scan[s].pc # "idle"
  /\ scan' = [scan EXCEPT ![s] = Idle]
  /\ calm' = calm \ {s}
  /\ UNCHANGED <<netVars, entryVars, bookVars, recVars, events, exact>>

MarkUsed(s) ==
  /\ scan[s].pc = "coins" /\ scan[s].left = << >>
  /\ used' = used \cup scan[s].touched
  /\ scan' = [scan EXCEPT ![s].pc = "merge"]
  /\ UNCHANGED <<netVars, entryVars, issued, histVars>>

\* What a merge writes, given what it keeps pending, sees, and lets block.
MergeWith(s, keep, see, block) ==
  /\ scan[s].pc = "merge"
  /\ utxos' = scan[s].coins
  /\ addresses' = scan[s].book
  /\ pending' = keep
  /\ observed' = see
  /\ listed' = scan[s].seen \cup (listed \cap (keep \ see))
  /\ pendSpent' = [x \in Coin |-> IF pendSpent[x] \in block THEN pendSpent[x] ELSE NoTx]
  /\ calm' = calm \ {s}
  /\ exact' = (scan[s].mode = "full" /\ s \in calm)
  /\ scan' = [scan EXCEPT ![s] =
       IF scan[s].mode = "funding" THEN
         [Idle EXCEPT !.pc = "restore", !.mode = "funding", !.saved = scan[s].saved]
       ELSE Idle]
  /\ UNCHANGED <<netVars, bookVars, recVars, events>>

\* Mutants: a transaction seen in the mempool leaves pending; blocked coins
\* are carried over as they are; observed_in_sync is not refreshed, or set
\* for transactions that are no longer pending.
MergeForgetsMempool(s) ==
  LET keep == pending \ scan[s].seen
  IN  MergeWith(s, keep, {}, keep)
MergeKeepsBlocks(s) ==
  LET keep == pending \ scan[s].seenConfirmed
  IN  MergeWith(s, keep, keep \cap scan[s].seen, Tx)
MergeKeepsObserved(s) ==
  LET keep == pending \ scan[s].seenConfirmed
  IN  MergeWith(s, keep, keep \cap observed, keep)
MergeObservesAll(s) ==
  LET keep == pending \ scan[s].seenConfirmed
  IN  MergeWith(s, keep, scan[s].seen, keep)

Merge(s) ==
  LET keep == pending \ scan[s].seenConfirmed
  IN  MergeWith(s, keep, keep \cap scan[s].seen, keep)

RestoreHistory(s) ==
  /\ scan[s].pc = "restore" /\ HasEntry
  /\ listed' = scan[s].saved
  /\ scan' = [scan EXCEPT ![s] = Idle]
  /\ UNCHANGED <<netVars, utxos, pending, observed, pendSpent, addresses, bookVars,
                 histVars>>

Network == \E t \in Tx : Receive(t) \/ Mine(t) \/ Evict(t)

Payment ==
  \/ \E t \in Local : Draft(t) \/ Record(t) \/ \E lost \in BOOLEAN : Post(t, lost)
  \/ Cancel

Scan(s) ==
  \/ \E m \in Modes : DiscardStale(s, m) \/ ScanBegin(s, m)
  \/ ReadIdentity(s) \/ SaveHistory(s)
  \/ ReadCoins(s) \/ ReadHistory(s) \/ MarkUsed(s)
  \/ Merge(s) \/ RestoreHistory(s) \/ ScanAbort(s)

Next == Network \/ IssueAddress \/ Payment \/ \E s \in Syncer : Scan(s)

Spec == Init /\ [][Next]_vars

-----------------------------------------------------------------------------
(* Safety.                                                                 *)

(* Whatever merges overlap its recording, a recorded transaction stays     *)
(* pending until it is mined, and its coins stay blocked until they are    *)
(* spent on chain, unless a sync discards the wallet's own entry: it had   *)
(* read the addresses before another process issued one and merged         *)
(* (service.py:934).                                                       *)
UnminedCoinsBlocked ==
  \A t \in recorded \ discarded :
    /\ t \in pending \cup mined
    /\ \A x \in Spends[t] : pendSpent[x] # NoTx \/ x \in Spent(mined)

(* No coin is blocked by a transaction that is no longer pending: the       *)
(* merge never leaves a coin unavailable for good.                         *)
BlockedByPending == \A x \in Coin : pendSpent[x] = NoTx \/ pendSpent[x] \in pending

(* Every address that holds a cached coin is already marked used, so the   *)
(* next receive address derived from wallets.json is a fresh one, even if  *)
(* a scan stops between its two writes.                                    *)
CachedCoinsUsed == \A x \in Coin : utxos[x] # "absent" => At[x] \in used

(* After a full scan during which nothing happened, the effective balance  *)
(* is the value of the wallet's unspent coins: each pending delta counts   *)
(* exactly when the scan did not see it; and what is available is unspent. *)
FullScanExact ==
  exact /\ pending \subseteq Known =>
    /\ Effective = ValueOf(Unspent)
    /\ Available \subseteq Unspent

(* README "authoritative: latest chain-derived ... UTXOs": a coin missing  *)
(* from the cache because a mined transaction spends it does not come back. *)
SpentStaysSpent ==
  [][\A x \in Spent(mined) : utxos[x] = "absent" => utxos'[x] = "absent"]_vars

(* README "pending delta: locally broadcast wallet delta not yet observed  *)
(* by Esplora": once a scan has observed a transaction, its delta does not *)
(* count again while the network still knows the transaction.              *)
ReconciledOnce ==
  [][\A t \in observed : t \in pending' /\ t \in Known => t \in observed']_vars

(* README "effective: authoritative plus that unapplied pending delta": a  *)
(* transaction just recorded changes the effective balance by its delta.   *)
RecordedDeltaCounts ==
  [][\A t \in pending' \ pending : Effective' - Effective = Delta(t)]_vars

(* wallet/service.py "UTXO-only scans preserve the previously cached        *)
(* history": whether it completes or fails after its merge, such a scan    *)
(* leaves what it saved, and the summaries of all that is pending.         *)
HistoryPreserved ==
  [][\A s \in Syncer : scan[s].pc = "restore" /\ scan'[s].pc = "idle" =>
       scan[s].saved \cup (pending \ Sweeps) \subseteq listed']_vars
=============================================================================
