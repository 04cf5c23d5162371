---------------------------- MODULE PaymentDraft ----------------------------
(***************************************************************************)
(* The payment workflow of one HD wallet: prepare, sign, broadcast, cancel *)
(* (src/tx/workflow.py, driven by src/tx/service.py and by the command     *)
(* line), and the scans that rewrite the cache entry it works on           *)
(* (src/wallet/wallet_sync.py), against the two files every process shares *)
(* and against a network that mines, forgets and relays:                   *)
(*                                                                         *)
(*   wallets.json       nextChange, issuedTo, receive   (authoritative)    *)
(*   wallet_cache.json  utxos, resOut, resChange, pending, pendSpent,      *)
(*                      listed                                             *)
(*                                                                         *)
(* A client is one process (or one thread under operation_lock).  Between  *)
(* two lock sections any other client may run, and a client may be killed. *)
(* One lock section on the cache file is one action, except the section    *)
(* that issues a change address: it writes wallets.json and then the       *)
(* cache, so it is two actions (SignIssue, SignSave) with the lock held in *)
(* between.  Everything that issues a change index or reads one to reserve *)
(* it holds the cache lock, so the nested wallet lock needs no variable.   *)
(*                                                                         *)
(* The address book only grows, so a reading of it is a prefix of every    *)
(* later one, and one list of addresses is part of another iff it is no    *)
(* longer: a list is modelled by its length.                               *)
(***************************************************************************)
EXTENDS Integers, FiniteSets

CONSTANTS
  Client,      \* processes that operate on the wallet
  Scanner,     \* those that may also scan
  Draft,       \* draft ids (uuid4().hex: fresh for every prepare)
  Coin,        \* outpoints of the wallet's confirmed UTXOs
  IndexLimit,  \* child indexes are 0 .. IndexLimit - 1 (2^31 in the code)
  ReceiveLimit, \* receive addresses that may be issued
  NoDraft,     \* absent draft id, and owner of an index not yet issued
  NoClient,    \* the cache lock is free
  Manual       \* owner of an index handed out by getnewaddress --change

ASSUME IndexAssumption == IndexLimit \in Nat /\ ReceiveLimit \in Nat \ {0}
ASSUME ScannerAssumption == Scanner \subseteq Client
ASSUME SentinelAssumption ==
  /\ NoDraft \notin Draft
  /\ Manual \notin Draft
  /\ Manual # NoDraft
  /\ NoClient \notin Client

VARIABLES
  nextChange,  \* account["next_change_index"]
  issuedTo,    \* which use each issued change index was issued for
  receive,     \* receive addresses issued
  utxos,       \* confirmed outpoints in the cached "utxos" list
  resOut,      \* reserved_outpoints: coin -> draft id
  resChange,   \* reserved_change, or NoReservation
  pending,     \* drafts whose transaction is in pending_transactions
  pendSpent,   \* pending_spent_outpoints: coin -> spending draft
  listed,      \* addresses the cache entry lists, 0 if there is no entry
  ins,         \* inputs of each draft's transaction
  change,      \* change index of each draft's transaction, or NoIndex
  funded,      \* drafts whose funded document exists
  signed,      \* drafts whose signed document exists
  posted,      \* drafts whose transaction was sent to a backend
  accepted,    \* transactions the network knows: in a mempool or a block
  mined,       \* those in a block
  cancelled,   \* history: active drafts closed by an explicit cancel
  dropped,     \* history: active drafts released by a failed prepare or sign
  discarded,   \* history: drafts whose claims were dropped with the entry
  lock,        \* holder of the cache lock across a step
  pc,          \* position of each client
  cur,         \* draft each client works on
  left,        \* coins a client's scan has yet to ask for
  found,       \* coins its scan was told are unspent
  view         \* addresses its sync has read in the address book

walletVars == <<nextChange, issuedTo, receive>>
cacheVars  == <<utxos, resOut, resChange, pending, pendSpent, listed>>
docVars    == <<ins, change, funded, signed>>
netVars    == <<posted, accepted, mined>>
histVars   == <<cancelled, dropped, discarded>>
procVars   == <<lock, pc, cur>>
scanVars   == <<left, found, view>>
vars == <<walletVars, cacheVars, docVars, netVars, histVars, procVars, scanVars>>

NoIndex == -1
NoReservation == [draft |-> NoDraft, index |-> NoIndex]

Index == 0 .. IndexLimit - 1
Position == {"idle", "selected", "built", "signing", "issued", "checked",
             "accepted", "identity", "scanning"}

(* Type correctness of every file, document and process position.         *)
TypeOK ==
  /\ nextChange \in 0 .. IndexLimit
  /\ issuedTo \in [Index -> Draft \cup {NoDraft, Manual}]
  /\ receive \in 1 .. ReceiveLimit
  /\ utxos \subseteq Coin
  /\ resOut \in [Coin -> Draft \cup {NoDraft}]
  /\ resChange \in [draft : Draft \cup {NoDraft}, index : Index \cup {NoIndex}]
  /\ pending \subseteq Draft
  /\ pendSpent \in [Coin -> Draft \cup {NoDraft}]
  /\ listed \in 0 .. IndexLimit + ReceiveLimit
  /\ ins \in [Draft -> SUBSET Coin]
  /\ change \in [Draft -> Index \cup {NoIndex}]
  /\ funded \subseteq Draft
  /\ signed \subseteq Draft
  /\ posted \subseteq Draft
  /\ accepted \subseteq Draft
  /\ mined \subseteq Draft
  /\ cancelled \subseteq Draft
  /\ dropped \subseteq Draft
  /\ discarded \subseteq Draft
  /\ lock \in Client \cup {NoClient}
  /\ pc \in [Client -> Position]
  /\ cur \in [Client -> Draft \cup {NoDraft}]
  /\ left \in [Client -> SUBSET Coin]
  /\ found \in [Client -> SUBSET Coin]
  /\ view \in [Client -> 0 .. IndexLimit + ReceiveLimit]

-----------------------------------------------------------------------------
(* Reading the cache entry.                                                *)

\* A draft is active while a reservation of coins or of change names it.
HoldsInputs(d) == \E x \in Coin : resOut[x] = d
Active(d) == HoldsInputs(d) \/ resChange.draft = d

\* Mutant of NoActiveDraft: looks at the reserved change only.
NoReservedChange == resChange.draft = NoDraft

NoActiveDraft ==
  /\ \A x \in Coin : resOut[x] = NoDraft
  /\ resChange.draft = NoDraft

Issued == {k \in Index : issuedTo[k] # NoDraft}

\* Ids are never reused: a draft that has inputs has been prepared before.
Used == {d \in Draft : ins[d] # {}}

Released == cancelled \cup dropped
HasEntry == listed # 0
Book == nextChange + receive

\* What signing requires of a funded document before it opens the keys.
OwnsInputs(d) == \A x \in ins[d] : x \in utxos /\ resOut[x] = d
OwnsChange(d) ==
  \/ change[d] = NoIndex
  \/ resChange = [draft |-> d, index |-> change[d]]
  \/ resChange.draft = NoDraft /\ change[d] \in Issued
Valid(d) == OwnsInputs(d) /\ OwnsChange(d)

\* Mutant of Release: the reserved change goes, whichever draft is released.
ReleaseAnyChange(d) ==
  /\ resOut' = [x \in Coin |-> IF resOut[x] = d THEN NoDraft ELSE resOut[x]]
  /\ resChange' = NoReservation

\* The update every release path makes; wallets.json is never touched.
Release(d) ==
  /\ resOut' = [x \in Coin |-> IF resOut[x] = d THEN NoDraft ELSE resOut[x]]
  /\ resChange' = IF resChange.draft = d THEN NoReservation ELSE resChange

Drop(d) ==
  /\ Release(d)
  /\ dropped' = IF Active(d) THEN dropped \cup {d} ELSE dropped
  /\ UNCHANGED <<cancelled, discarded>>

\* A lock section needs the lock; only SignIssue keeps it past its step.
Free == lock = NoClient

Step(c, from, to) ==
  /\ pc[c] = from
  /\ pc' = [pc EXCEPT ![c] = to]

\* The client leaves its operation.
Finish(c) ==
  /\ pc' = [pc EXCEPT ![c] = "idle"]
  /\ cur' = [cur EXCEPT ![c] = NoDraft]

-----------------------------------------------------------------------------
Init ==
  /\ nextChange = 0
  /\ issuedTo = [k \in Index |-> NoDraft]
  /\ receive = 1
  /\ utxos = Coin
  /\ resOut = [x \in Coin |-> NoDraft]
  /\ resChange = NoReservation
  /\ pending = {}
  /\ pendSpent = [x \in Coin |-> NoDraft]
  /\ listed = Book
  /\ ins = [d \in Draft |-> {}]
  /\ change = [d \in Draft |-> NoIndex]
  /\ funded = {}
  /\ signed = {}
  /\ posted = {}
  /\ accepted = {}
  /\ mined = {}
  /\ cancelled = {}
  /\ dropped = {}
  /\ discarded = {}
  /\ lock = NoClient
  /\ pc = [c \in Client |-> "idle"]
  /\ cur = [c \in Client |-> NoDraft]
  /\ left = [c \in Client |-> {}]
  /\ found = [c \in Client |-> {}]
  /\ view = [c \in Client |-> 0]

(***************************************************************************)
(* Prepare.  The first section selects and reserves coins; S is any set    *)
(* the coin selection may return.  A draft with change goes on to reserve  *)
(* an index, one without (or a send-all) has its document at once.         *)
(***************************************************************************)
FundSelect(c, d, S, needsChange) ==
  /\ pc[c] = "idle" /\ Free
  /\ d \notin Used
  /\ NoActiveDraft
  /\ S # {} /\ S \subseteq {x \in utxos : pendSpent[x] = NoDraft}
  /\ resOut' = [x \in Coin |-> IF x \in S THEN d ELSE resOut[x]]
  /\ ins' = [ins EXCEPT ![d] = S]
  /\ pc' = [pc EXCEPT ![c] = IF needsChange THEN "selected" ELSE "built"]
  /\ cur' = [cur EXCEPT ![c] = d]
  /\ UNCHANGED <<walletVars, listed, utxos, resChange, pending, pendSpent, change,
                 funded, signed, netVars, histVars, lock, scanVars>>

FundChange(c) ==
  /\ Step(c, "selected", "built") /\ Free
  /\ resChange.draft = NoDraft
  /\ HoldsInputs(cur[c])
  /\ nextChange < IndexLimit
  /\ resChange' = [draft |-> cur[c], index |-> nextChange]
  /\ change' = [change EXCEPT ![cur[c]] = nextChange]
  /\ UNCHANGED <<walletVars, listed, utxos, resOut, pending, pendSpent, ins, funded,
                 signed, netVars, histVars, lock, cur, scanVars>>

FundDone(c) ==
  /\ pc[c] = "built"
  /\ funded' = funded \cup {cur[c]}
  /\ Finish(c)
  /\ UNCHANGED <<walletVars, cacheVars, ins, change, signed, netVars,
                 histVars, lock, scanVars>>

\* No index left, change already reserved, coins gone, an invalid document:
\* any error after the first section releases the draft.
FundFail(c) ==
  /\ pc[c] \in {"selected", "built"} /\ Free
  /\ Drop(cur[c])
  /\ Finish(c)
  /\ UNCHANGED <<walletVars, listed, utxos, pending, pendSpent, docVars, netVars,
                 lock, scanVars>>

(***************************************************************************)
(* Sign.  Validation and the key work hold no lock when they are over; the *)
(* change address is issued in a later section.                            *)
(***************************************************************************)
SignBegin(c, d) ==
  /\ pc[c] = "idle" /\ Free
  /\ d \in funded /\ Valid(d)
  /\ pc' = [pc EXCEPT ![c] = "signing"]
  /\ cur' = [cur EXCEPT ![c] = d]
  /\ UNCHANGED <<walletVars, cacheVars, docVars, netVars, histVars, lock,
                 scanVars>>

SignRefuse(c, d) ==
  /\ pc[c] = "idle" /\ Free
  /\ d \in funded /\ ~Valid(d)
  /\ Drop(d)
  /\ UNCHANGED <<walletVars, listed, utxos, pending, pendSpent, docVars, netVars,
                 procVars, scanVars>>

\* Wrong password, fee above the limit, dust change, a change section whose
\* checks fail: every error before the index is issued releases the draft.
SignFail(c) ==
  /\ pc[c] = "signing" /\ Free
  /\ Drop(cur[c])
  /\ Finish(c)
  /\ UNCHANGED <<walletVars, listed, utxos, pending, pendSpent, docVars, netVars,
                 lock, scanVars>>

SignWithoutChange(c) ==
  /\ pc[c] = "signing"
  /\ change[cur[c]] = NoIndex
  /\ signed' = signed \cup {cur[c]}
  /\ Finish(c)
  /\ UNCHANGED <<walletVars, cacheVars, ins, change, funded, netVars,
                 histVars, lock, scanVars>>

\* A draft signed before: its reservation is gone and its index is issued.
SignAgain(c) ==
  /\ pc[c] = "signing" /\ Free
  /\ change[cur[c]] \in Issued
  /\ HasEntry /\ resChange.draft = NoDraft
  /\ signed' = signed \cup {cur[c]}
  /\ Finish(c)
  /\ UNCHANGED <<walletVars, cacheVars, ins, change, funded, netVars,
                 histVars, lock, scanVars>>

\* Mutant of IssueChange: a retry advances the branch instead of accepting k.
IssueChangeAgain(d, k) ==
  /\ nextChange < IndexLimit
  /\ issuedTo' = [issuedTo EXCEPT ![nextChange] = d]
  /\ nextChange' = nextChange + 1

\* issue_change_address: advance the index, or accept one issued before.
IssueChange(d, k) ==
  \/ /\ k = nextChange
     /\ issuedTo' = [issuedTo EXCEPT ![k] = d]
     /\ nextChange' = k + 1
  \/ /\ k < nextChange /\ k \in Issued
     /\ UNCHANGED <<nextChange, issuedTo>>

SignIssue(c) ==
  /\ Step(c, "signing", "issued") /\ Free
  /\ change[cur[c]] # NoIndex
  /\ resChange = [draft |-> cur[c], index |-> change[cur[c]]]
  /\ IssueChange(cur[c], change[cur[c]])
  /\ lock' = c
  /\ UNCHANGED <<receive, cacheVars, docVars, netVars, histVars, cur, scanVars>>

SignSave(c) ==
  /\ pc[c] = "issued"
  /\ resChange' = NoReservation
  /\ signed' = signed \cup {cur[c]}
  /\ lock' = NoClient
  /\ Finish(c)
  /\ UNCHANGED <<walletVars, listed, utxos, resOut, pending, pendSpent, ins, change,
                 funded, netVars, histVars, scanVars>>

\* The cache cannot be saved after the index was issued.  The workflow keeps
\* the reservations; PaymentService.sign releases them.
SignSaveFail(c, release) ==
  /\ pc[c] = "issued"
  /\ lock' = NoClient
  /\ Finish(c)
  /\ IF release THEN Drop(cur[c]) ELSE UNCHANGED <<resOut, resChange, histVars>>
  /\ UNCHANGED <<walletVars, listed, utxos, pending, pendSpent, docVars, netVars,
                 scanVars>>

(***************************************************************************)
(* Broadcast.  The check runs under the lock, the POST outside it, and the *)
(* pending record is written only after a matching reply.                  *)
(***************************************************************************)
BroadcastCheck(c, d) ==
  /\ pc[c] = "idle" /\ Free
  /\ d \in signed
  /\ \A x \in ins[d] : resOut[x] = d
  /\ change[d] # NoIndex => change[d] \in Issued
  /\ pc' = [pc EXCEPT ![c] = "checked"]
  /\ cur' = [cur EXCEPT ![c] = d]
  /\ UNCHANGED <<walletVars, cacheVars, docVars, netVars, histVars, lock,
                 scanVars>>

\* External: a node accepts no second spender of a coin and nothing that is
\* in a block already; what is in its mempool it announces again.
NodeAccepts(d) ==
  /\ d \notin mined
  /\ \A e \in accepted \ {d} : ins[e] \cap ins[d] = {}

PostAccepted(c) ==
  /\ Step(c, "checked", "accepted")
  /\ NodeAccepts(cur[c])
  /\ posted' = posted \cup {cur[c]}
  /\ accepted' = accepted \cup {cur[c]}
  /\ UNCHANGED <<walletVars, cacheVars, docVars, mined, histVars, lock, cur,
                 scanVars>>

\* Accepted, and the reply never arrives: a POST is not retried.
PostReplyLost(c) ==
  /\ pc[c] = "checked"
  /\ NodeAccepts(cur[c])
  /\ posted' = posted \cup {cur[c]}
  /\ accepted' = accepted \cup {cur[c]}
  /\ Finish(c)
  /\ UNCHANGED <<walletVars, cacheVars, docVars, mined, histVars, lock,
                 scanVars>>

PostRefused(c) ==
  /\ pc[c] = "checked"
  /\ posted' = posted \cup {cur[c]}
  /\ Finish(c)
  /\ UNCHANGED <<walletVars, cacheVars, docVars, accepted, mined, histVars, lock,
                 scanVars>>

\* Mutant of Record: the spent coins are released and not marked as spent.
RecordForgets(c) ==
  /\ pc[c] = "accepted" /\ Free /\ HasEntry
  /\ resOut' = [x \in Coin |-> IF resOut[x] = cur[c] THEN NoDraft ELSE resOut[x]]
  /\ pending' = pending \cup {cur[c]}
  /\ Finish(c)
  /\ UNCHANGED <<walletVars, listed, utxos, resChange, pendSpent, docVars, netVars,
                 histVars, lock, scanVars>>

Record(c) ==
  /\ pc[c] = "accepted" /\ Free /\ HasEntry
  /\ resOut' = [x \in Coin |-> IF resOut[x] = cur[c] THEN NoDraft ELSE resOut[x]]
  /\ pending' = pending \cup {cur[c]}
  /\ pendSpent' = [x \in Coin |-> IF x \in ins[cur[c]] THEN cur[c] ELSE pendSpent[x]]
  /\ Finish(c)
  /\ UNCHANGED <<walletVars, listed, utxos, resChange, docVars, netVars, histVars,
                 lock, scanVars>>

(***************************************************************************)
(* A scan, with or without transactions.  That of the service first drops  *)
(* an entry that lists an address it did not read in the address book: of  *)
(* an older wallet of the name, or of a scan that read the book later.     *)
(* Then, or at once on the command line, a scan reads the book and asks    *)
(* for the coins address by address while the network and other processes  *)
(* go on, and rewrites the entry in one section, which carries over the    *)
(* reservations that the entry has by then.                                *)
(***************************************************************************)
Unspent == Coin \ UNION {ins[d] : d \in accepted}

ScanOver(c) ==
  /\ left' = [left EXCEPT ![c] = {}]
  /\ found' = [found EXCEPT ![c] = {}]
  /\ view' = [view EXCEPT ![c] = 0]

\* _authoritative_address_identity: no cache lock yet.
ReadIdentity(c) ==
  /\ c \in Scanner
  /\ Step(c, "idle", "identity")
  /\ view' = [view EXCEPT ![c] = Book]
  /\ UNCHANGED <<walletVars, cacheVars, docVars, netVars, histVars, lock, cur,
                 left, found>>

DropEntry ==
  /\ listed' = 0
  /\ utxos' = {}
  /\ resOut' = [x \in Coin |-> NoDraft]
  /\ resChange' = NoReservation
  /\ pending' = {}
  /\ pendSpent' = [x \in Coin |-> NoDraft]

\* _discard_stale_cache_entry, with the addresses read before.  The scan that
\* follows is ScanBegin; the process is idle too if its first request fails.
DiscardStale(c) ==
  /\ Step(c, "identity", "idle") /\ Free
  /\ IF listed > view[c] THEN
       /\ DropEntry
       /\ discarded' = discarded \cup pending \cup {d \in Draft : Active(d)}
     ELSE UNCHANGED <<cacheVars, discarded>>
  /\ view' = [view EXCEPT ![c] = 0]
  /\ UNCHANGED <<walletVars, docVars, netVars, cancelled, dropped, lock, cur,
                 left, found>>

ScanBegin(c) ==
  /\ c \in Scanner
  /\ Step(c, "idle", "scanning")
  /\ left' = [left EXCEPT ![c] = Coin]
  /\ found' = [found EXCEPT ![c] = {}]
  /\ view' = [view EXCEPT ![c] = Book]
  /\ UNCHANGED <<walletVars, cacheVars, docVars, netVars, histVars, lock, cur>>

ScanRead(c, x) ==
  /\ pc[c] = "scanning"
  /\ x \in left[c]
  /\ left' = [left EXCEPT ![c] = @ \ {x}]
  /\ found' = [found EXCEPT ![c] = @ \cup ({x} \cap Unspent)]
  /\ UNCHANGED <<walletVars, cacheVars, docVars, netVars, histVars, procVars,
                 view>>

\* Mutants of ScanMerge: blocks of transactions still in the mempool go; the
\* entry is rewritten without the reservations.
ScanMergeUnblocks(c, seen) ==
  /\ pc[c] = "scanning" /\ left[c] = {} /\ Free
  /\ utxos' = found[c] /\ listed' = view[c]
  /\ pending' = pending \ accepted
  /\ pendSpent' = [x \in Coin |->
       IF pendSpent[x] \in pending' THEN pendSpent[x] ELSE NoDraft]
  /\ Finish(c)
  /\ ScanOver(c)
  /\ UNCHANGED <<walletVars, resOut, resChange, docVars, netVars, histVars,
                 lock>>
ScanMergeForgets(c, seen) ==
  /\ pc[c] = "scanning" /\ left[c] = {} /\ Free
  /\ utxos' = found[c] /\ listed' = view[c]
  /\ pending' = pending \ seen
  /\ pendSpent' = [x \in Coin |->
       IF pendSpent[x] \in pending' THEN pendSpent[x] ELSE NoDraft]
  /\ resOut' = [x \in Coin |-> IF x \in found[c] THEN resOut[x] ELSE NoDraft]
  /\ Finish(c)
  /\ ScanOver(c)
  /\ UNCHANGED <<walletVars, resChange, docVars, netVars, histVars, lock>>

\* seen: what the history reported as confirmed.  Nothing for a scan without
\* transactions; never what a first answer listed as unconfirmed.
ScanMerge(c, seen) ==
  /\ pc[c] = "scanning" /\ left[c] = {} /\ Free
  /\ utxos' = found[c] /\ listed' = view[c]
  /\ pending' = pending \ seen
  /\ pendSpent' = [x \in Coin |->
       IF pendSpent[x] \in pending' THEN pendSpent[x] ELSE NoDraft]
  /\ Finish(c)
  /\ ScanOver(c)
  /\ UNCHANGED <<walletVars, resOut, resChange, docVars, netVars, histVars,
                 lock>>

-----------------------------------------------------------------------------
(* Cancel by draft id, from any process; manual change; a killed process.  *)

Cancel(c, d) ==
  /\ pc[c] = "idle" /\ Free
  /\ Active(d)
  /\ Release(d)
  /\ cancelled' = cancelled \cup {d}
  /\ UNCHANGED <<walletVars, listed, utxos, pending, pendSpent, docVars, netVars,
                 dropped, discarded, procVars, scanVars>>

\* Mutants of NewChangeAddress: no look at the reservation; no index limit.
NewChangeUnchecked(c) ==
  /\ pc[c] = "idle" /\ Free
  /\ nextChange < IndexLimit
  /\ issuedTo' = [issuedTo EXCEPT ![nextChange] = Manual]
  /\ nextChange' = nextChange + 1
  /\ UNCHANGED <<receive, cacheVars, docVars, netVars, histVars, procVars,
                 scanVars>>
NewChangeUnbounded(c) ==
  /\ pc[c] = "idle" /\ Free
  /\ resChange.draft = NoDraft
  /\ nextChange' = nextChange + 1
  /\ issuedTo' = [issuedTo EXCEPT ![nextChange] = Manual]
  /\ UNCHANGED <<receive, cacheVars, docVars, netVars, histVars, procVars,
                 scanVars>>

NewChangeAddress(c) ==
  /\ pc[c] = "idle" /\ Free
  /\ resChange.draft = NoDraft
  /\ nextChange < IndexLimit
  /\ issuedTo' = [issuedTo EXCEPT ![nextChange] = Manual]
  /\ nextChange' = nextChange + 1
  /\ UNCHANGED <<receive, cacheVars, docVars, netVars, histVars, procVars,
                 scanVars>>

\* getnewaddress, or the address that a sync shows: the cache is not locked.
NewReceiveAddress(c) ==
  /\ pc[c] = "idle"
  /\ receive < ReceiveLimit
  /\ receive' = receive + 1
  /\ UNCHANGED <<nextChange, issuedTo, cacheVars, docVars, netVars, histVars,
                 procVars, scanVars>>

\* Also what is left when an error path cannot take the lock to release,
\* when the record after a broadcast fails (cache_warning), and when a
\* request of a scan fails.
Crash(c) ==
  /\ pc[c] # "idle"
  /\ lock' = IF lock = c THEN NoClient ELSE lock
  /\ Finish(c)
  /\ ScanOver(c)
  /\ UNCHANGED <<walletVars, cacheVars, docVars, netVars, histVars>>

(***************************************************************************)
(* The network, whatever the processes do (external).                      *)
(***************************************************************************)
Mine(d) ==
  /\ d \in accepted \ mined
  /\ mined' = mined \cup {d}
  /\ UNCHANGED <<walletVars, cacheVars, docVars, posted, accepted, histVars,
                 procVars, scanVars>>

Evict(d) ==
  /\ d \in accepted \ mined
  /\ accepted' = accepted \ {d}
  /\ UNCHANGED <<walletVars, cacheVars, docVars, posted, mined, histVars,
                 procVars, scanVars>>

\* A transaction once sent may reach the mempool later: another node had it.
Relay(d) ==
  /\ d \in posted \ accepted
  /\ NodeAccepts(d)
  /\ accepted' = accepted \cup {d}
  /\ UNCHANGED <<walletVars, cacheVars, docVars, posted, mined, histVars,
                 procVars, scanVars>>

Prepare(c) ==
  \/ \E d \in Draft, S \in SUBSET Coin, n \in BOOLEAN : FundSelect(c, d, S, n)
  \/ FundChange(c) \/ FundDone(c) \/ FundFail(c)

Sign(c) ==
  \/ \E d \in Draft : SignBegin(c, d) \/ SignRefuse(c, d)
  \/ SignFail(c) \/ SignWithoutChange(c) \/ SignAgain(c)
  \/ SignIssue(c) \/ SignSave(c)
  \/ \E r \in BOOLEAN : SignSaveFail(c, r)

Broadcast(c) ==
  \/ \E d \in Draft : BroadcastCheck(c, d)
  \/ PostAccepted(c) \/ PostReplyLost(c) \/ PostRefused(c) \/ Record(c)

Scan(c) ==
  \/ ReadIdentity(c) \/ DiscardStale(c)
  \/ ScanBegin(c)
  \/ \E x \in Coin : ScanRead(c, x)
  \/ \E seen \in SUBSET mined : ScanMerge(c, seen)

Network == \E d \in Draft : Mine(d) \/ Evict(d) \/ Relay(d)

Process(c) ==
  \/ Prepare(c) \/ Sign(c) \/ Broadcast(c) \/ Scan(c)
  \/ \E d \in Draft : Cancel(c, d)
  \/ NewChangeAddress(c) \/ NewReceiveAddress(c)
  \/ Crash(c)

Next == Network \/ \E c \in Client : Process(c)

Spec == Init /\ [][Next]_vars

-----------------------------------------------------------------------------
(* Safety.                                                                 *)

SpentOnChain == UNION {ins[d] : d \in mined}

(* However prepares, signs, cancels, broadcasts and crashes interleave,    *)
(* the reservations of a wallet name at most one draft                     *)
(* (_require_no_active_draft, README "at most one payment draft").         *)
OneActiveDraft == \A d, e \in Draft : Active(d) /\ Active(e) => d = e

(* The change address of a transaction that reached a backend was issued   *)
(* for that transaction alone: not for another draft, and never handed to  *)
(* the user by getnewaddress --change.                                     *)
ChangeExclusive ==
  \A d \in posted : change[d] # NoIndex => issuedTo[change[d]] = d

(* Two transactions sent to a backend share a coin only if one of them was *)
(* released while its broadcast was under way or its outcome unknown, if a *)
(* block had spent the coin and a scan that overlapped the block offered   *)
(* it again, or if the claims of one went with the wallet's own entry,     *)
(* which a sync took for another wallet's (service.py:934, it had read the *)
(* addresses before another process issued one and merged): crashes, lost  *)
(* replies, refused POSTs, retries, evictions and whatever scans read and  *)
(* write late never suffice.                                               *)
NoUnforcedConflict ==
  \A d, e \in posted \ (Released \cup discarded) :
    d # e => ins[d] \cap ins[e] \subseteq SpentOnChain

(* The same with nothing but release and blocks to excuse it: what holds   *)
(* while one process at a time scans.                                      *)
ConflictsNeedRelease ==
  \A d, e \in posted \ Released :
    d # e => ins[d] \cap ins[e] \subseteq SpentOnChain

(* An active draft whose document exists holds all its coins and its change *)
(* and can be signed, unless a scan missed a coin that a transaction already *)
(* sent spends: no crash, scan or interleaving leaves it holding coins that  *)
(* only a cancel can free.                                                  *)
ActiveDraftSignable ==
  \A d \in funded : Active(d) =>
    /\ OwnsChange(d)
    /\ \A x \in ins[d] :
         resOut[x] = d /\ (x \in utxos \/ \E e \in posted : x \in ins[e])

(* The coins of a transaction the network accepted stay unavailable to coin *)
(* selection, recorded or not, whatever scans that carry the entry over     *)
(* report meanwhile, until they are spent on chain, the transaction is      *)
(* released or its claims go with an entry that a sync discards.            *)
AcceptedCoinsBlocked ==
  \A d \in accepted \ (Released \cup discarded) : \A x \in ins[d] \ SpentOnChain :
    resOut[x] # NoDraft \/ pendSpent[x] # NoDraft

(***************************************************************************)
(* Refinement.  The current index is reserved while reserved_change names  *)
(* it; a reservation left behind by a crash names an index already issued. *)
(***************************************************************************)
Holder == IF resChange.index = nextChange THEN resChange.draft ELSE NoDraft

Life == INSTANCE ChangeLifecycle WITH
          next <- nextChange, holder <- Holder, owner <- issuedTo

(* Whatever processes do and wherever they stop, the change branch goes    *)
(* through the lifecycle of ChangeLifecycle and through nothing else: no   *)
(* index is issued twice, skipped, reclaimed, or issued past a reservation.*)
ChangeLifecycleHolds == Life!LifeSpec

(* README: a signed draft remains active until broadcast or cancelled.     *)
SignedStaysActive ==
  [][\A d \in signed : d \in dropped' => d \in dropped]_vars
-----------------------------------------------------------------------------
(***************************************************************************)
(* The inductive invariant.  Each part is what the steps of one component  *)
(* of the state rely on; the safety invariants above follow from it.       *)
(***************************************************************************)
Preparing(c) == pc[c] \in {"selected", "built"}

\* Only the section that issues an index keeps the lock past its step.
LockInv == \A c \in Client : lock = c <=> pc[c] = "issued"

\* Each document comes from the one before it.
DocInv ==
  /\ mined \subseteq accepted /\ accepted \subseteq posted
  /\ posted \subseteq signed
  /\ signed \subseteq funded /\ funded \subseteq Used
  /\ Released \cup discarded \subseteq Used
  /\ \A d \in Draft : d \notin Used => change[d] = NoIndex

\* What a client knows about its draft at each position.
ClientInv ==
  \A c \in Client :
    /\ pc[c] \notin {"idle", "identity", "scanning"} => cur[c] \in Used
    /\ Preparing(c) => cur[c] \notin funded
    /\ pc[c] = "selected" => change[cur[c]] = NoIndex
    /\ pc[c] \in {"signing", "issued"} => cur[c] \in funded
    /\ pc[c] = "issued" =>
         /\ change[cur[c]] # NoIndex
         /\ resChange = [draft |-> cur[c], index |-> change[cur[c]]]
         /\ issuedTo[change[cur[c]]] = cur[c]
    /\ pc[c] \in {"checked", "accepted"} =>
         /\ cur[c] \in signed
         /\ change[cur[c]] # NoIndex => issuedTo[change[cur[c]]] = cur[c]
    /\ \A b \in Client :
         Preparing(b) /\ Preparing(c) /\ cur[b] = cur[c] => b = c

\* Reservations are all of a draft's inputs or none of them, of one draft.
ReserveInv ==
  /\ \A x \in Coin : resOut[x] # NoDraft => x \in ins[resOut[x]]
  /\ \A x, y \in Coin :
       resOut[x] # NoDraft /\ resOut[y] # NoDraft => resOut[x] = resOut[y]
  /\ \A x \in Coin : \A y \in Coin :
       resOut[x] # NoDraft /\ y \in ins[resOut[x]] => resOut[y] = resOut[x]
  /\ resChange.draft # NoDraft => HoldsInputs(resChange.draft)
  /\ \A d \in Released \cup discarded : ~HoldsInputs(d)

\* Who owns which change index.
ChangeInv ==
  /\ \A k \in Index : issuedTo[k] # NoDraft <=> k < nextChange
  /\ resChange.draft = NoDraft => resChange = NoReservation
  /\ resChange.draft # NoDraft =>
       /\ resChange.draft \notin signed
       /\ resChange.index \in Index
       /\ resChange.index = change[resChange.draft]
       /\ resChange.index = nextChange \/ issuedTo[resChange.index] = resChange.draft
  /\ \A d \in Draft \ (Released \cup discarded) :
       change[d] # NoIndex => resChange.draft = d \/ issuedTo[change[d]] = d
  /\ ChangeExclusive

\* A coin the cache, or a scan that has asked for it, does not list as unspent
\* is spent by a transaction that was sent.
SpentByPosted(x) == \E d \in posted : x \in ins[d]
ScanInv ==
  /\ HasEntry => \A x \in Coin \ utxos : SpentByPosted(x)
  /\ \A c \in Client : pc[c] = "scanning" =>
       \A x \in Coin \ (left[c] \cup found[c]) : SpentByPosted(x)

\* Without an entry there is nothing in it; a scan lists what it has read.
EntryInv ==
  /\ ~HasEntry => /\ utxos = {} /\ NoActiveDraft /\ pending = {}
                  /\ \A x \in Coin : pendSpent[x] = NoDraft
  /\ listed <= Book
  /\ \A c \in Client :
       /\ view[c] <= Book
       /\ pc[c] = "scanning" => view[c] # 0
       /\ pc[c] \in {"identity", "scanning"} => c \in Scanner

\* A blocked coin is an input of the recorded transaction that blocks it.
PendingInv ==
  /\ pending \subseteq signed
  /\ \A x \in Coin : pendSpent[x] # NoDraft =>
       pendSpent[x] \in pending /\ x \in ins[pendSpent[x]]

\* The inputs of drafts that were never released and whose claims were never
\* discarded are blocked, and disjoint, until a block spends them.
CoinInv ==
  /\ \A d \in Draft \ (Released \cup discarded) : \A x \in ins[d] :
       \/ resOut[x] = d \/ x \in SpentOnChain
       \/ d \in pending /\ pendSpent[x] # NoDraft
  /\ \A d, e \in Draft \ (Released \cup discarded) :
       d # e => ins[d] \cap ins[e] \subseteq SpentOnChain

IInv == /\ TypeOK /\ LockInv /\ DocInv /\ ClientInv /\ ReserveInv /\ ChangeInv
        /\ ScanInv /\ EntryInv /\ PendingInv /\ CoinInv
=============================================================================
