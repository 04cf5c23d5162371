--------------------------- MODULE WalletLifecycle ---------------------------
(***************************************************************************)
(* Creation, import, renaming, password change and removal of HD wallets   *)
(* (src/wallet/service.py), and what they do to the cache entry, which is  *)
(* filed under the wallet's NAME while its contents belong to a SEED.      *)
(* wallets.json changes first, the cache follows in a lock section of its  *)
(* own, which may fail (a warning) or never come (a crash).  A sync, and a *)
(* payment that syncs first, run in several sections of either file, each  *)
(* of which looks the wallet up by name again.                             *)
(***************************************************************************)
EXTENDS Naturals

CONSTANTS
  Client,     \* processes
  Name,       \* wallet names
  Wallet,     \* wallet records ever made
  Imported,   \* those made from a mnemonic the user brought
  SeedOf,     \* seed of each; two records may share one
  Seed,
  IssueLimit, \* bound on the addresses of a wallet
  Kinds,      \* operations the run allows
  NoWallet, NoSeed, Plain

ASSUME LifecycleAssumption ==
  /\ Imported \subseteq Wallet /\ SeedOf \in [Wallet -> Seed]
  /\ IssueLimit \in Nat \ {0}
  /\ NoWallet \notin Wallet /\ NoSeed \notin Seed /\ Plain \notin Name
  /\ Kinds \subseteq {"import", "rename", "password", "remove", "platform", "cli"}

VARIABLES
  wallets,   \* wallets.json by name: record, addresses issued, encryption
  entry,     \* wallet_cache.json by name: whose addresses, how many, label, draft
  op,        \* the operation of each client
  made,      \* history: records ever made
  removed,   \* history: removed by remove_wallet, or by their own rollback
  drafted,   \* history: wallets with a draft that nobody closed
  stranded,  \* history: renamed, and the cache entry could not follow
  unchecked  \* history: a command used an entry it had not identified

histVars == <<made, removed, drafted, stranded, unchecked>>
vars == <<wallets, entry, op, histVars>>

\* seal: the name an encrypted mnemonic is bound to (AES-GCM associated data).
NoRecord == [id |-> NoWallet, issued |-> 0, seal |-> Plain]
NoEntry == [seed |-> NoSeed, count |-> 0, label |-> Plain, draft |-> NoWallet]
Idle == [pc |-> "idle", kind |-> "none", name |-> Plain, to |-> Plain,
         id |-> NoWallet, seed |-> NoSeed, count |-> 0]

Count == 0 .. IssueLimit

(* Types of the two files and of every operation under way.                *)
TypeOK ==
  /\ wallets \in [Name -> [id : Wallet \cup {NoWallet}, issued : Count,
                           seal : Name \cup {Plain}]]
  /\ entry \in [Name -> [seed : Seed \cup {NoSeed}, count : Count,
                         label : Name \cup {Plain}, draft : Wallet \cup {NoWallet}]]
  /\ op \in [Client ->
       [pc : {"idle", "created", "cleaned", "imported", "discover", "identity",
              "discard", "scan", "mark", "merge", "state", "fund", "rollback",
              "uncache", "renamed", "removed"},
        kind : {"none", "sync", "import", "prepare"},
        name : Name \cup {Plain}, to : Name \cup {Plain},
        id : Wallet \cup {NoWallet}, seed : Seed \cup {NoSeed}, count : Count]]
  /\ removed \subseteq made /\ made \subseteq Wallet
  /\ drafted \subseteq made /\ stranded \subseteq made /\ unchecked \in BOOLEAN

Exists(n) == wallets[n] # NoRecord
SeedAt(n) == SeedOf[wallets[n].id]
Readable(n) == wallets[n].seal \in {Plain, n}

At(c, pc) == op[c].pc = pc
Goto(c, pc) == op' = [op EXCEPT ![c].pc = pc]
Return(c) == op' = [op EXCEPT ![c] = Idle]
Start(c, pc, kind, n, id) ==
  /\ At(c, "idle")
  /\ op' = [op EXCEPT ![c] = [Idle EXCEPT !.pc = pc, !.kind = kind, !.name = n, !.id = id]]

\* Two wallets have no address in common, and one's are issued in order.
Matches(e, n, seed, count) ==
  e.label = n /\ e.seed = seed /\ 0 < e.count /\ e.count <= count

Uncache(n) == entry' = [entry EXCEPT ![n] = NoEntry]
\* A lock section on the cache may fail: the lock is busy, the file is invalid.
Maintain(ok, n) == IF ok THEN Uncache(n) ELSE UNCHANGED entry

Init ==
  /\ wallets = [n \in Name |-> NoRecord]
  /\ entry = [n \in Name |-> NoEntry]
  /\ op = [c \in Client |-> Idle]
  /\ made = {} /\ removed = {} /\ drafted = {} /\ stranded = {}
  /\ unchecked = FALSE

(***************************************************************************)
(* create_wallet and import_wallet.                                        *)
(***************************************************************************)
NewRecord(n, w, seal) ==
  /\ ~Exists(n) /\ w \notin made
  /\ seal \in {Plain, n}
  /\ wallets' = [wallets EXCEPT ![n] = [id |-> w, issued |-> 0, seal |-> seal]]
  /\ made' = made \cup {w}
  /\ UNCHANGED <<entry, removed, drafted, stranded, unchecked>>

Create(c, n, w, seal) ==
  "platform" \in Kinds /\ w \notin Imported
  /\ Start(c, "created", "none", n, w) /\ NewRecord(n, w, seal)

\* createwallet on the command line stops here, imported mnemonic or not.
CreateOnly(c, n, w, seal) ==
  /\ "cli" \in Kinds /\ At(c, "idle")
  /\ NewRecord(n, w, seal)
  /\ UNCHANGED op

CreateClean(c, ok) ==
  /\ At(c, "created")
  /\ Maintain(ok, op[c].name)
  /\ Goto(c, "cleaned")
  /\ UNCHANGED <<wallets, histVars>>

\* Mutant of Issue: no limit on the index.
IssueUnbounded(n, k) ==
  /\ Exists(n)
  /\ wallets' = [wallets EXCEPT ![n].issued = k]
  /\ UNCHANGED <<entry, histVars>>

\* get_new_address, for whatever wallet the name denotes by now.
Issue(n, k) ==
  /\ Exists(n) /\ k \in Count
  /\ wallets' = [wallets EXCEPT ![n].issued = k]
  /\ UNCHANGED <<entry, histVars>>

CreateIssue(c) ==
  /\ At(c, "cleaned")
  /\ Issue(op[c].name, wallets[op[c].name].issued + 1)
  /\ Goto(c, "state")

Import(c, n, w, seal) ==
  "import" \in Kinds /\ w \in Imported
  /\ Start(c, "imported", "import", n, w) /\ NewRecord(n, w, seal)

ImportClean(c) ==
  /\ At(c, "imported")
  /\ Uncache(op[c].name)
  /\ Goto(c, "discover")
  /\ UNCHANGED <<wallets, histVars>>

\* commit_discovered_addresses, after the scan of both branches.
Discover(c, k) ==
  /\ At(c, "discover")
  /\ wallets[op[c].name].issued = 0 /\ k > 0
  /\ Issue(op[c].name, k)
  /\ Goto(c, "identity")

\* _rollback_import: by name, in two sections.
Rollback(c, ok) ==
  LET n == op[c].name IN
  /\ At(c, "rollback")
  /\ wallets' = IF ok THEN [wallets EXCEPT ![n] = NoRecord] ELSE wallets
  /\ removed' = IF ok /\ wallets[n].id = op[c].id THEN removed \cup {op[c].id} ELSE removed
  /\ Goto(c, "uncache")
  /\ UNCHANGED <<entry, made, drafted, stranded, unchecked>>

RollbackCache(c, ok) ==
  /\ At(c, "uncache")
  /\ Maintain(ok, op[c].name)
  /\ Return(c)
  /\ UNCHANGED <<wallets, histVars>>

(***************************************************************************)
(* sync_wallet, alone or inside an import or a payment.                    *)
(***************************************************************************)
Sync(c, n, kind) ==
  /\ "platform" \in Kinds /\ kind \in {"sync", "prepare"} /\ Exists(n)
  /\ Start(c, "identity", kind, n, wallets[n].id)
  /\ UNCHANGED <<wallets, entry, histVars>>

\* syncwallet on the command line discards nothing.
SyncOnly(c, n) ==
  /\ "cli" \in Kinds /\ Exists(n)
  /\ Start(c, "scan", "sync", n, wallets[n].id)
  /\ unchecked' = TRUE
  /\ UNCHANGED <<wallets, entry, made, removed, drafted, stranded>>

\* An address book read from wallets.json, before the next section.
ReadBook(c, from, to) ==
  /\ At(c, from) /\ Exists(op[c].name)
  /\ op' = [op EXCEPT ![c].pc = to, ![c].seed = SeedAt(op[c].name),
                      ![c].count = wallets[op[c].name].issued]
  /\ UNCHANGED <<wallets, entry, histVars>>

ReadIdentity(c) == ReadBook(c, "identity", "discard")

\* Mutant: the identity check keeps whatever it finds.
DiscardNothing(c) ==
  /\ At(c, "discard")
  /\ Goto(c, "scan")
  /\ UNCHANGED <<wallets, entry, histVars>>

DiscardStale(c) ==
  LET n == op[c].name IN
  /\ At(c, "discard")
  /\ Goto(c, "scan")
  /\ IF Matches(entry[n], n, op[c].seed, op[c].count) THEN UNCHANGED entry ELSE Uncache(n)
  /\ UNCHANGED <<wallets, histVars>>

ScanBook(c) == ReadBook(c, "scan", "mark")

MarkUsed(c) ==
  /\ At(c, "mark") /\ Exists(op[c].name)
  /\ Goto(c, "merge")
  /\ UNCHANGED <<wallets, entry, histVars>>

\* The new entry takes over the reservations of the one under its name.
Merge(c) ==
  LET n == op[c].name IN
  /\ At(c, "merge")
  /\ entry' = [entry EXCEPT ![n] = [seed |-> op[c].seed, count |-> op[c].count,
                                    label |-> n, draft |-> entry[n].draft]]
  /\ Goto(c, "state")
  /\ UNCHANGED <<wallets, histVars>>

\* get_wallet_state issues a receive address when there is none, and when the
\* last one is used.
ReadState(c, more) ==
  LET issued == wallets[op[c].name].issued IN
  /\ At(c, "state")
  /\ Issue(op[c].name, IF more \/ issued = 0 THEN issued + 1 ELSE issued)
  /\ IF op[c].kind = "prepare" THEN Goto(c, "fund") ELSE Return(c)

\* A request, a lock or a check fails, or the wallet is no longer there.
Fail(c) ==
  /\ op[c].pc \in {"cleaned", "imported", "discover", "identity", "discard",
                   "scan", "mark", "merge", "state", "fund"}
  /\ IF op[c].kind = "import" THEN Goto(c, "rollback") ELSE Return(c)
  /\ UNCHANGED <<wallets, entry, histVars>>

-----------------------------------------------------------------------------
(* A payment, reduced to the active draft it leaves in the cache entry.    *)

Reserve(n) ==
  /\ Exists(n) /\ entry[n].count > 0 /\ entry[n].draft = NoWallet
  /\ entry' = [entry EXCEPT ![n].draft = wallets[n].id]
  /\ drafted' = drafted \cup {wallets[n].id}
  /\ UNCHANGED <<wallets, made, removed, stranded>>

Fund(c) ==
  /\ At(c, "fund")
  /\ Reserve(op[c].name)
  /\ Return(c)
  /\ UNCHANGED unchecked

\* fundrawtransaction without a sync.
FundOnly(c, n) ==
  /\ "cli" \in Kinds /\ At(c, "idle")
  /\ Reserve(n)
  /\ unchecked' = TRUE
  /\ UNCHANGED op

\* Broadcast, or cancel.
Close(c, n) ==
  /\ At(c, "idle") /\ entry[n].draft # NoWallet
  /\ entry' = [entry EXCEPT ![n].draft = NoWallet]
  /\ drafted' = drafted \ {entry[n].draft}
  /\ UNCHANGED <<wallets, op, made, removed, stranded, unchecked>>

(***************************************************************************)
(* rename_wallet, change_password and remove_wallet.                       *)
(***************************************************************************)
\* Mutants of Rename: a name in use is overwritten; the mnemonic stays bound
\* to the old name.
RenameOver(c, n, m) ==
  /\ "rename" \in Kinds /\ At(c, "idle")
  /\ n # m /\ Exists(n) /\ Readable(n)
  /\ wallets' = [wallets EXCEPT ![n] = NoRecord, ![m] =
       [wallets[n] EXCEPT !.seal = IF @ = Plain THEN Plain ELSE m]]
  /\ op' = [op EXCEPT ![c] = [Idle EXCEPT !.pc = "renamed", !.name = n, !.to = m]]
  /\ UNCHANGED <<entry, histVars>>
RenameSealed(c, n, m) ==
  /\ "rename" \in Kinds /\ At(c, "idle")
  /\ n # m /\ Exists(n) /\ Readable(n) /\ ~Exists(m)
  /\ wallets' = [wallets EXCEPT ![n] = NoRecord, ![m] = wallets[n]]
  /\ op' = [op EXCEPT ![c] = [Idle EXCEPT !.pc = "renamed", !.name = n, !.to = m]]
  /\ UNCHANGED <<entry, histVars>>

Rename(c, n, m) ==
  /\ "rename" \in Kinds /\ At(c, "idle")
  /\ n # m /\ Exists(n) /\ Readable(n) /\ ~Exists(m)
  /\ wallets' = [wallets EXCEPT ![n] = NoRecord, ![m] =
       [wallets[n] EXCEPT !.seal = IF @ = Plain THEN Plain ELSE m]]
  /\ op' = [op EXCEPT ![c] = [Idle EXCEPT !.pc = "renamed", !.name = n, !.to = m]]
  /\ UNCHANGED <<entry, histVars>>

Strand(c) == stranded \cup ({wallets[op[c].to].id} \ {NoWallet})

\* _rename_cache_entry: an entry under the new name is taken for a stale one.
MoveEntry(n, m) ==
  entry' = [entry EXCEPT ![n] = NoEntry, ![m] =
    IF entry[n] = NoEntry THEN NoEntry ELSE [entry[n] EXCEPT !.label = m]]

\* Mutant of RenameCache: the entry under the old name is dropped.
RenameCacheDrops(c, ok) ==
  /\ At(c, "renamed")
  /\ entry' = [entry EXCEPT ![op[c].name] = NoEntry, ![op[c].to] = NoEntry]
  /\ stranded' = IF ok THEN stranded ELSE Strand(c)
  /\ op' = [op EXCEPT ![c] = [Idle EXCEPT !.pc = "state", !.name = op[c].to]]
  /\ UNCHANGED <<wallets, made, removed, drafted, unchecked>>

RenameCache(c, ok) ==
  /\ At(c, "renamed")
  /\ IF ok THEN MoveEntry(op[c].name, op[c].to) ELSE UNCHANGED entry
  /\ stranded' = IF ok THEN stranded ELSE Strand(c)
  /\ op' = [op EXCEPT ![c] = [Idle EXCEPT !.pc = "state", !.name = op[c].to]]
  /\ UNCHANGED <<wallets, made, removed, drafted, unchecked>>

ChangePassword(c, n, seal) ==
  /\ "password" \in Kinds
  /\ Exists(n) /\ Readable(n)
  /\ seal \in {Plain, n}
  /\ Start(c, "state", "none", n, wallets[n].id)
  /\ wallets' = [wallets EXCEPT ![n].seal = seal]
  /\ UNCHANGED <<entry, histVars>>

Remove(c, n) ==
  /\ "remove" \in Kinds
  /\ Exists(n) /\ Readable(n)
  /\ Start(c, "removed", "none", n, wallets[n].id)
  /\ wallets' = [wallets EXCEPT ![n] = NoRecord]
  /\ removed' = removed \cup {wallets[n].id}
  /\ UNCHANGED <<entry, made, drafted, stranded, unchecked>>

RemoveCache(c, ok) ==
  /\ At(c, "removed")
  /\ Maintain(ok, op[c].name)
  /\ Return(c)
  /\ UNCHANGED <<wallets, histVars>>

\* A killed process: nothing is rolled back.
Crash(c) ==
  /\ ~At(c, "idle")
  /\ stranded' = IF At(c, "renamed") THEN Strand(c) ELSE stranded
  /\ Return(c)
  /\ UNCHANGED <<wallets, entry, made, removed, drafted, unchecked>>

Making(c) ==
  \/ \E n \in Name, w \in Wallet, seal \in Name \cup {Plain} :
       Create(c, n, w, seal) \/ CreateOnly(c, n, w, seal) \/ Import(c, n, w, seal)
  \/ CreateIssue(c) \/ ImportClean(c) \/ \E k \in Count : Discover(c, k)
  \/ \E ok \in BOOLEAN : CreateClean(c, ok) \/ Rollback(c, ok) \/ RollbackCache(c, ok)

Syncing(c) ==
  \/ \E n \in Name : SyncOnly(c, n) \/ \E kind \in {"sync", "prepare"} : Sync(c, n, kind)
  \/ ReadIdentity(c) \/ DiscardStale(c) \/ ScanBook(c) \/ MarkUsed(c) \/ Merge(c)
  \/ \E more \in BOOLEAN : ReadState(c, more)
  \/ Fail(c)

Paying(c) == Fund(c) \/ \E n \in Name : FundOnly(c, n) \/ Close(c, n)

Changing(c) ==
  \/ \E n, m \in Name : Rename(c, n, m)
  \/ \E n \in Name, seal \in Name \cup {Plain} : ChangePassword(c, n, seal)
  \/ \E n \in Name : Remove(c, n)
  \/ \E ok \in BOOLEAN : RenameCache(c, ok) \/ RemoveCache(c, ok)

Next == \E c \in Client : Making(c) \/ Syncing(c) \/ Paying(c) \/ Changing(c) \/ Crash(c)

Spec == Init /\ [][Next]_vars

-----------------------------------------------------------------------------
(* Safety.                                                                 *)

(* wallets.json never loses a record that was not removed by its own name  *)
(* and password, or by the import that made it.                            *)
WalletsKept == \A w \in made \ removed : \E n \in Name : wallets[n].id = w

(* An encrypted mnemonic is bound to the name of its wallet, whatever was  *)
(* renamed and re-encrypted: the right password always opens it.           *)
MnemonicReadable == \A n \in Name : Exists(n) => Readable(n)

(* README "Reservations survive restart and never expire implicitly": the  *)
(* draft of a wallet that was not removed stays in the entry of its name,  *)
(* or in the entry a rename is about to move - as long as every command    *)
(* identified the entry it used.                                           *)
ReservationsSurvive ==
  unchecked \/ \A w \in drafted \ (removed \cup stranded) : \E n \in Name :
    /\ entry[n].draft = w
    /\ \/ wallets[n].id = w
       \/ \E c \in Client : At(c, "renamed") /\ op[c].name = n /\ wallets[op[c].to].id = w

(* README "cache maintenance isolates stale entries": no reservation of    *)
(* one wallet is carried into the entry of another that took its name.     *)
NoForeignReservation ==
  \A n \in Name : entry[n].draft # NoWallet => SeedOf[entry[n].draft] = entry[n].seed

(* It is the identity check before a sync that isolates them: as long as   *)
(* every command makes it, and whatever cache maintenance fails or never   *)
(* comes, reservations stay with their wallet.                             *)
CheckedReservations == unchecked \/ NoForeignReservation

(* _discard_stale_cache_entry "Drop same-name cache state that belongs to  *)
(* another wallet identity": it never drops a draft of the wallet itself.  *)
DiscardsForeignOnly ==
  [][\A c \in Client : At(c, "discard") /\ op'[c].pc = "scan" =>
       LET n == op[c].name IN
       entry[n].draft # NoWallet /\ entry'[n] = NoEntry /\ Exists(n)
         => entry[n].seed # SeedAt(n)]_vars
=============================================================================
