----------------------- MODULE WalletLifecycle_proofs -----------------------
(***************************************************************************)
(* What holds of the records in wallets.json for any number of processes,  *)
(* names and records: they have their types, an encrypted mnemonic can be  *)
(* read under the name it is filed under, and, unless imports roll back,   *)
(* no record is lost.  Every step of the system does one of a few things   *)
(* to wallets.json (WalletsStep); the proofs go over those.                *)
(*                                                                         *)
(* And what holds of the reservations in the cache, and of rollbacks, when *)
(* one process works at a time (OneProcess), for any number of names and   *)
(* records: AloneInv says where the draft of each wallet is at home.       *)
(***************************************************************************)
EXTENDS WalletLifecycle, TLAPS

WalletsType == wallets \in [Name -> [id : Wallet \cup {NoWallet}, issued : Count,
                                     seal : Name \cup {Plain}]]

OpRecord ==
  [pc : {"idle", "created", "cleaned", "imported", "discover", "identity",
         "discard", "scan", "mark", "merge", "state", "fund", "rollback",
         "uncache", "renamed", "removed"},
   kind : {"none", "sync", "import", "prepare"},
   name : Name \cup {Plain}, to : Name \cup {Plain},
   id : Wallet \cup {NoWallet}, seed : Seed \cup {NoSeed}, count : Count]

(* A client that is not idle works on a name, or on two, and only an       *)
(* import rolls back.                                                      *)
Sound(r) ==
  /\ r.pc # "idle" => r.name \in Name
  /\ r.pc = "renamed" => r.to \in Name
  /\ r.pc = "rollback" => r.kind = "import"
  /\ r.kind = "import" => "import" \in Kinds /\ r.id \in Wallet

OpsSound == op \in [Client -> OpRecord] /\ \A c \in Client : Sound(op[c])

(* A record in the file was made.                                          *)
RecordsMade == \A n \in Name : Exists(n) => wallets[n].id \in made

Kept == "import" \notin Kinds => WalletsKept

IInv ==
  TypeOK /\ OpsSound /\ RecordsMade /\ MnemonicReadable /\ Kept

USE LifecycleAssumption

(* The empty files of a new installation.                                  *)
LEMMA InitIInv == Init => IInv
<1> SUFFICES ASSUME Init PROVE IInv
  OBVIOUS
<1> USE DEF Init
<1>1. NoRecord \in [id : Wallet \cup {NoWallet}, issued : Count,
                    seal : Name \cup {Plain}]
  BY DEF NoRecord, Count
<1>2. WalletsType
  BY <1>1 DEF WalletsType
<1>3. entry \in [Name -> [seed : Seed \cup {NoSeed}, count : Count,
                         label : Name \cup {Plain}, draft : Wallet \cup {NoWallet}]]
  BY DEF NoEntry, Count
<1>4. op \in [Client -> OpRecord]
  BY DEF Idle, OpRecord, Count
<1>5. TypeOK
  BY <1>2, <1>3, <1>4 DEF TypeOK, WalletsType, OpRecord
<1>6. OpsSound
  BY <1>4 DEF OpsSound, Sound, Idle
<1>7. RecordsMade /\ MnemonicReadable
  BY DEF RecordsMade, MnemonicReadable, Exists, NoRecord
<1>8. Kept
  BY DEF Kept, WalletsKept
<1> QED BY <1>5, <1>6, <1>7, <1>8 DEF IInv

-----------------------------------------------------------------------------
(* What a step may do to wallets.json.                                     *)
RecordStep ==
  \/ UNCHANGED <<wallets, made, removed>>
  \/ \E n \in Name, w \in Wallet, seal \in Name \cup {Plain} : NewRecord(n, w, seal)
  \/ \E n \in Name, k \in Count : Issue(n, k)
  \/ \E c \in Client, n, m \in Name : Rename(c, n, m)
  \/ \E c \in Client, n \in Name, seal \in Name \cup {Plain} : ChangePassword(c, n, seal)
  \/ \E c \in Client, n \in Name : Remove(c, n)

WalletsStep ==
  \/ RecordStep
  \/ /\ "import" \in Kinds
     /\ \E c \in Client : op[c].name \in Name /\ Rollback(c, TRUE)

(* Every handler of the service is one of the above as far as wallets.json *)
(* is concerned.                                                           *)
LEMMA StepOfWallets == IInv /\ [Next]_vars => WalletsStep
<1> SUFFICES ASSUME IInv, [Next]_vars PROVE WalletsStep
  OBVIOUS
<1>1. OpsSound
  BY DEF IInv
<1>2. CASE UNCHANGED vars
  BY <1>2 DEF vars, histVars, WalletsStep, RecordStep
<1>3. ASSUME NEW c \in Client, Making(c) PROVE WalletsStep
  <2>1. CASE \E n \in Name, w \in Wallet, seal \in Name \cup {Plain} :
               Create(c, n, w, seal) \/ CreateOnly(c, n, w, seal) \/ Import(c, n, w, seal)
    BY <2>1 DEF Create, CreateOnly, Import, WalletsStep, RecordStep
  <2>2. CASE CreateIssue(c)
    BY <1>1, <2>2 DEF CreateIssue, Issue, At, OpsSound, Sound, WalletsStep, RecordStep
  <2>3. CASE \E k \in Count : Discover(c, k)
    BY <1>1, <2>3 DEF Discover, At, OpsSound, Sound, WalletsStep, RecordStep
  <2>4. CASE \E ok \in BOOLEAN : Rollback(c, ok)
    <3> PICK ok \in BOOLEAN : Rollback(c, ok)
      BY <2>4
    <3>1. "import" \in Kinds /\ op[c].name \in Name
      BY <1>1 DEF Rollback, At, OpsSound, Sound
    <3>2. CASE ok
      <4>1. ok = TRUE
        BY <3>2
      <4> QED BY <3>1, <4>1, Zenon DEF WalletsStep, RecordStep
    <3>3. CASE ~ok
      BY <3>3 DEF Rollback, WalletsStep, RecordStep
    <3> QED BY <3>2, <3>3
  <2>5. CASE \/ ImportClean(c)
            \/ \E ok \in BOOLEAN : CreateClean(c, ok) \/ RollbackCache(c, ok)
    BY <2>5 DEF ImportClean, CreateClean, RollbackCache, histVars, WalletsStep, RecordStep
  <2> QED BY <1>3, <2>1, <2>2, <2>3, <2>4, <2>5 DEF Making
<1>4. ASSUME NEW c \in Client, Syncing(c) PROVE WalletsStep
  <2>1. CASE \E more \in BOOLEAN : ReadState(c, more)
    BY <1>1, <2>1 DEF ReadState, Issue, At, OpsSound, Sound, WalletsStep, RecordStep
  <2>2. CASE \E n \in Name :
               SyncOnly(c, n) \/ \E kind \in {"sync", "prepare"} : Sync(c, n, kind)
    BY <2>2 DEF SyncOnly, Sync, histVars, WalletsStep, RecordStep
  <2>3. CASE \/ ReadIdentity(c) \/ DiscardStale(c) \/ ScanBook(c)
            \/ MarkUsed(c) \/ Merge(c) \/ Fail(c)
    BY <2>3 DEF ReadIdentity, ScanBook, ReadBook, DiscardStale, MarkUsed, Merge, Fail,
                histVars, WalletsStep, RecordStep
  <2> QED BY <1>4, <2>1, <2>2, <2>3 DEF Syncing
<1>5. ASSUME NEW c \in Client, Paying(c) PROVE WalletsStep
  BY <1>5 DEF Paying, Fund, FundOnly, Close, Reserve, WalletsStep, RecordStep
<1>6. ASSUME NEW c \in Client, Changing(c) PROVE WalletsStep
  <2>1. CASE \E ok \in BOOLEAN : RenameCache(c, ok) \/ RemoveCache(c, ok)
    BY <2>1 DEF RenameCache, RemoveCache, histVars, WalletsStep, RecordStep
  <2> QED BY <1>6, <2>1 DEF Changing, WalletsStep, RecordStep
<1>7. ASSUME NEW c \in Client, Crash(c) PROVE WalletsStep
  BY <1>7 DEF Crash, WalletsStep, RecordStep
<1> QED BY <1>2, <1>3, <1>4, <1>5, <1>6, <1>7 DEF Next

(* The records keep their types, and are all made.                         *)
LEMMA RecordsStep == IInv /\ WalletsStep => WalletsType' /\ RecordsMade'
<1> SUFFICES ASSUME IInv, WalletsStep PROVE WalletsType' /\ RecordsMade'
  OBVIOUS
<1>1. WalletsType /\ RecordsMade
  BY DEF IInv, TypeOK, WalletsType
<1>2. CASE UNCHANGED <<wallets, made, removed>>
  BY <1>1, <1>2 DEF WalletsType, RecordsMade, Exists, NoRecord
<1>3. ASSUME NEW n \in Name, NEW w \in Wallet, NEW seal \in Name \cup {Plain},
             NewRecord(n, w, seal)
      PROVE  WalletsType' /\ RecordsMade'
  BY <1>1, <1>3 DEF NewRecord, WalletsType, RecordsMade, Exists, NoRecord, Count
<1>4. ASSUME NEW n \in Name, NEW k \in Count, Issue(n, k)
      PROVE  WalletsType' /\ RecordsMade'
  BY <1>1, <1>4 DEF Issue, histVars, WalletsType, RecordsMade, Exists, NoRecord
<1>5. ASSUME NEW c \in Client, NEW n \in Name, NEW m \in Name, Rename(c, n, m)
      PROVE  WalletsType' /\ RecordsMade'
  BY <1>1, <1>5 DEF Rename, histVars, WalletsType, RecordsMade, Exists, NoRecord, Count
<1>6. ASSUME NEW c \in Client, NEW n \in Name, NEW seal \in Name \cup {Plain},
             ChangePassword(c, n, seal)
      PROVE  WalletsType' /\ RecordsMade'
  BY <1>1, <1>6 DEF ChangePassword, histVars, WalletsType, RecordsMade, Exists, NoRecord
<1>7. ASSUME NEW c \in Client, NEW n \in Name, Remove(c, n)
      PROVE  WalletsType' /\ RecordsMade'
  BY <1>1, <1>7 DEF Remove, WalletsType, RecordsMade, Exists, NoRecord, Count
<1>8. ASSUME NEW n \in Name, wallets' = [wallets EXCEPT ![n] = NoRecord], UNCHANGED made
      PROVE  WalletsType' /\ RecordsMade'
  BY <1>1, <1>8 DEF WalletsType, RecordsMade, Exists, NoRecord, Count
<1> QED BY <1>2, <1>3, <1>4, <1>5, <1>6, <1>7, <1>8 DEF WalletsStep, RecordStep, Rollback

(* A renamed record is sealed again under its new name, and so is one      *)
(* whose password changes.                                                 *)
LEMMA ReadableStep == IInv /\ WalletsStep => MnemonicReadable'
<1> SUFFICES ASSUME IInv, WalletsStep, NEW x \in Name, Exists(x)' PROVE Readable(x)'
  BY DEF MnemonicReadable
<1>1. WalletsType /\ (Exists(x) => Readable(x))
  BY DEF IInv, TypeOK, WalletsType, MnemonicReadable
<1> USE DEF Exists, Readable, WalletsType
<1>2. CASE UNCHANGED <<wallets, made, removed>>
  BY <1>1, <1>2
<1>3. ASSUME NEW n \in Name, NEW w \in Wallet, NEW seal \in Name \cup {Plain},
             NewRecord(n, w, seal)
      PROVE  Readable(x)'
  BY <1>1, <1>3 DEF NewRecord
<1>4. ASSUME NEW n \in Name, NEW k \in Count, Issue(n, k) PROVE Readable(x)'
  BY <1>1, <1>4 DEF Issue
<1>5. ASSUME NEW c \in Client, NEW n \in Name, NEW m \in Name, Rename(c, n, m)
      PROVE  Readable(x)'
  BY <1>1, <1>5 DEF Rename, NoRecord
<1>6. ASSUME NEW c \in Client, NEW n \in Name, NEW seal \in Name \cup {Plain},
             ChangePassword(c, n, seal)
      PROVE  Readable(x)'
  BY <1>1, <1>6 DEF ChangePassword
<1>7. ASSUME NEW c \in Client, NEW n \in Name, Remove(c, n) PROVE Readable(x)'
  BY <1>1, <1>7 DEF Remove, NoRecord
<1>8. ASSUME NEW n \in Name, wallets' = [wallets EXCEPT ![n] = NoRecord]
      PROVE  Readable(x)'
  BY <1>1, <1>8 DEF NoRecord
<1> QED BY <1>2, <1>3, <1>4, <1>5, <1>6, <1>7, <1>8 DEF WalletsStep, RecordStep, Rollback

(* A name in use is never written over, so a record is lost only to its    *)
(* removal.                                                                *)
LEMMA NoRecordLost ==
  ASSUME IInv, WalletsKept, RecordStep PROVE WalletsKept'
<1> SUFFICES ASSUME NEW w, w \in made', w \notin removed'
             PROVE  \E x \in Name : wallets'[x].id = w
  BY DEF WalletsKept
<1>1. /\ WalletsType /\ made \subseteq Wallet
      /\ w \in made \ removed => \E x \in Name : wallets[x].id = w
  BY DEF IInv, TypeOK, WalletsType, WalletsKept
<1> USE DEF WalletsType
<1>2. CASE UNCHANGED <<wallets, made, removed>>
  BY <1>1, <1>2
<1>3. ASSUME NEW n \in Name, NEW v \in Wallet, NEW seal \in Name \cup {Plain},
             NewRecord(n, v, seal)
      PROVE  \E x \in Name : wallets'[x].id = w
  <2>1. CASE w = v
    BY <1>1, <1>3, <2>1 DEF NewRecord
  <2>2. CASE w # v
    <3>1. PICK x \in Name : wallets[x].id = w
      BY <1>1, <1>3, <2>2 DEF NewRecord
    <3>2. x # n
      BY <1>1, <1>3, <3>1 DEF NewRecord, Exists, NoRecord
    <3> QED BY <1>1, <1>3, <3>1, <3>2 DEF NewRecord
  <2> QED BY <2>1, <2>2
<1>4. ASSUME NEW n \in Name, NEW k \in Count, Issue(n, k)
      PROVE  \E x \in Name : wallets'[x].id = w
  BY <1>1, <1>4 DEF Issue, histVars
<1>5. ASSUME NEW c \in Client, NEW n \in Name, NEW m \in Name, Rename(c, n, m)
      PROVE  \E x \in Name : wallets'[x].id = w
  <2>1. PICK x \in Name : wallets[x].id = w
    BY <1>1, <1>5 DEF Rename, histVars
  <2>2. x # m
    BY <1>1, <1>5, <2>1 DEF Rename, histVars, Exists, NoRecord
  <2>3. CASE x = n
    BY <1>1, <1>5, <2>1, <2>3 DEF Rename
  <2>4. CASE x # n
    BY <1>1, <1>5, <2>1, <2>2, <2>4 DEF Rename
  <2> QED BY <2>3, <2>4
<1>6. ASSUME NEW c \in Client, NEW n \in Name, NEW seal \in Name \cup {Plain},
             ChangePassword(c, n, seal)
      PROVE  \E x \in Name : wallets'[x].id = w
  BY <1>1, <1>6 DEF ChangePassword, histVars
<1>7. ASSUME NEW c \in Client, NEW n \in Name, Remove(c, n)
      PROVE  \E x \in Name : wallets'[x].id = w
  BY <1>1, <1>7 DEF Remove
<1> QED BY <1>2, <1>3, <1>4, <1>5, <1>6, <1>7 DEF RecordStep

LEMMA KeptStep == IInv /\ WalletsStep => Kept'
  BY NoRecordLost DEF IInv, Kept, WalletsStep

-----------------------------------------------------------------------------
(* What a step may do to the operation of a client.                        *)
Moved(c) ==
  /\ op' \in [Client -> OpRecord] /\ Sound(op'[c])
  /\ \A d \in Client \ {c} : op'[d] = op[d]

(* A client that goes on to its next section keeps its name and its kind.  *)
LEMMA GotoMoves ==
  ASSUME OpsSound, NEW c \in Client, ~At(c, "idle"),
         NEW pc \in {"cleaned", "discover", "identity", "scan", "merge", "state",
                    "fund", "uncache"},
         Goto(c, pc)
  PROVE  Moved(c)
<1>1. op[c] \in OpRecord /\ Sound(op[c])
  BY DEF OpsSound
<1> DEFINE r == [op[c] EXCEPT !.pc = pc]
<1>2. r \in OpRecord
  BY <1>1 DEF OpRecord
<1>3. Sound(r)
  BY <1>1 DEF Sound, At, OpRecord
<1>4. op' = [op EXCEPT ![c] = r]
  BY DEF Goto
<1> HIDE DEF r
<1> QED BY <1>2, <1>3, <1>4 DEF OpsSound, Moved

(* A client between two operations.                                        *)
LEMMA IdleSound == Idle \in OpRecord /\ Idle.kind = "none" /\ Sound(Idle)
  BY DEF Idle, OpRecord, Sound, Count

(* An operation ends, or its process does.                                 *)
LEMMA ReturnMoves ==
  ASSUME OpsSound, NEW c \in Client, Return(c)
  PROVE  Moved(c)
  BY IdleSound DEF Return, OpsSound, Moved

(* An operation begins with a name.                                        *)
LEMMA StartMoves ==
  ASSUME OpsSound, NEW c \in Client, NEW n \in Name, NEW id \in Wallet \cup {NoWallet},
         NEW pc \in {"created", "imported", "identity", "scan", "state", "removed"},
         NEW kind \in {"none", "sync", "import", "prepare"},
         kind = "import" => "import" \in Kinds /\ id \in Wallet,
         Start(c, pc, kind, n, id)
  PROVE  Moved(c)
<1> DEFINE r == [Idle EXCEPT !.pc = pc, !.kind = kind, !.name = n, !.id = id]
<1>1. r \in OpRecord /\ r.pc = pc /\ r.kind = kind /\ r.name = n /\ r.id = id
  <2>1. r.pc = pc /\ r.kind = kind /\ r.name = n /\ r.id = id
    BY DEF Idle
  <2>2. Idle \in OpRecord
    BY IdleSound
  <2>3. r \in OpRecord
    BY <2>2 DEF OpRecord
  <2> QED BY <2>1, <2>3
<1>2. Sound(r)
  BY <1>1 DEF Sound
<1>3. op' = [op EXCEPT ![c] = r]
  BY DEF Start
<1> HIDE DEF r
<1> QED BY <1>1, <1>2, <1>3 DEF OpsSound, Moved

(* get_wallet_address_book: what a client has read is the seed and the     *)
(* issued count of a record.                                               *)
LEMMA ReadBookMoves ==
  ASSUME OpsSound, WalletsType, RecordsMade, made \subseteq Wallet, NEW c \in Client,
         NEW from \in {"identity", "scan"}, NEW to \in {"discard", "mark"},
         ReadBook(c, from, to)
  PROVE  Moved(c)
<1>1. op[c] \in OpRecord /\ Sound(op[c]) /\ op[c].name \in Name
  BY DEF OpsSound, Sound, ReadBook, At
<1>2. SeedAt(op[c].name) \in Seed /\ wallets[op[c].name].issued \in Count
  BY <1>1 DEF WalletsType, RecordsMade, ReadBook, SeedAt
<1> DEFINE r == [op[c] EXCEPT !.pc = to, !.seed = SeedAt(op[c].name),
                              !.count = wallets[op[c].name].issued]
<1>3. r \in OpRecord
  BY <1>1, <1>2 DEF OpRecord
<1>4. Sound(r)
  BY <1>1 DEF Sound, OpRecord
<1>5. op' = [op EXCEPT ![c] = r]
  BY <1>1 DEF ReadBook, OpRecord, OpsSound
<1> HIDE DEF r
<1> QED BY <1>3, <1>4, <1>5 DEF OpsSound, Moved

(* Every step moves at most one client.                                    *)
LEMMA StepOfOps == IInv /\ [Next]_vars => UNCHANGED op \/ \E c \in Client : Moved(c)
<1> SUFFICES ASSUME IInv, Next PROVE UNCHANGED op \/ \E c \in Client : Moved(c)
  BY DEF vars
<1>1. /\ OpsSound /\ WalletsType /\ RecordsMade /\ made \subseteq Wallet
  BY DEF IInv, TypeOK, WalletsType
<1>2. \A n \in Name : wallets[n].id \in Wallet \cup {NoWallet}
  BY <1>1 DEF WalletsType
<1>3. ASSUME NEW c \in Client, Making(c), ~UNCHANGED op PROVE Moved(c)
  <2>1. ASSUME NEW n \in Name, NEW w \in Wallet, NEW seal,
               Create(c, n, w, seal) \/ Import(c, n, w, seal)
        PROVE  Moved(c)
    BY <1>1, <2>1, StartMoves DEF Create, Import
  <2>2. ASSUME NEW n, NEW w, NEW seal, CreateOnly(c, n, w, seal) PROVE Moved(c)
    BY <1>3, <2>2 DEF CreateOnly
  <2>3. CASE \/ CreateIssue(c) \/ ImportClean(c) \/ \E k \in Count : Discover(c, k)
            \/ \E ok \in BOOLEAN : CreateClean(c, ok) \/ Rollback(c, ok)
    BY <1>1, <2>3, GotoMoves
       DEF CreateIssue, ImportClean, Discover, CreateClean, Rollback, At
  <2>4. ASSUME NEW ok, RollbackCache(c, ok) PROVE Moved(c)
    BY <1>1, <2>4, ReturnMoves DEF RollbackCache
  <2> QED BY <1>3, <2>1, <2>2, <2>3, <2>4 DEF Making
<1>4. ASSUME NEW c \in Client, Syncing(c) PROVE Moved(c)
  <2>1. ASSUME NEW n \in Name, NEW kind \in {"sync", "prepare"},
               SyncOnly(c, n) \/ Sync(c, n, kind)
        PROVE  Moved(c)
    BY <1>1, <1>2, <2>1, StartMoves DEF SyncOnly, Sync
  <2>2. CASE ReadIdentity(c) \/ ScanBook(c)
    BY <1>1, <2>2, ReadBookMoves DEF ReadIdentity, ScanBook
  <2>3. CASE DiscardStale(c) \/ MarkUsed(c) \/ Merge(c)
    BY <1>1, <2>3, GotoMoves DEF DiscardStale, MarkUsed, Merge, At
  <2>4. ASSUME NEW more \in BOOLEAN, ReadState(c, more) PROVE Moved(c)
    BY <1>1, <2>4, GotoMoves, ReturnMoves DEF ReadState, At
  <2>5. CASE Fail(c)
    <3>1. CASE op[c].kind # "import"
      BY <1>1, <2>5, <3>1, ReturnMoves DEF Fail
    <3>2. CASE op[c].kind = "import"
      <4>1. /\ op[c] \in OpRecord /\ Sound(op[c])
        BY <1>1 DEF OpsSound
      <4> DEFINE r == [op[c] EXCEPT !.pc = "rollback"]
      <4>2. r \in OpRecord
        BY <4>1 DEF OpRecord
      <4>3. Sound(r)
        BY <2>5, <3>2, <4>1 DEF Fail, Sound, OpRecord
      <4>4. op' = [op EXCEPT ![c] = r]
        BY <2>5, <3>2 DEF Fail, Goto
      <4> HIDE DEF r
      <4> QED BY <1>1, <4>2, <4>3, <4>4 DEF OpsSound, Moved
    <3> QED BY <3>1, <3>2
  <2> QED BY <1>4, <2>1, <2>2, <2>3, <2>4, <2>5 DEF Syncing
<1>5. ASSUME NEW c \in Client, Paying(c), ~UNCHANGED op PROVE Moved(c)
  BY <1>1, <1>5, ReturnMoves DEF Paying, Fund, FundOnly, Close
<1>6. ASSUME NEW c \in Client, Changing(c) PROVE Moved(c)
  <2>1. ASSUME NEW n \in Name, NEW m \in Name, Rename(c, n, m) PROVE Moved(c)
    <3> DEFINE r == [Idle EXCEPT !.pc = "renamed", !.name = n, !.to = m]
    <3>1. r \in OpRecord /\ r.name = n /\ r.to = m /\ r.kind = "none" /\ r.pc = "renamed"
      BY IdleSound DEF OpRecord
    <3>2. Sound(r)
      BY <3>1 DEF Sound
    <3>3. op' = [op EXCEPT ![c] = r]
      BY <2>1 DEF Rename
    <3> HIDE DEF r
    <3> QED BY <1>1, <3>1, <3>2, <3>3 DEF OpsSound, Moved
  <2>2. ASSUME NEW n \in Name, NEW seal, ChangePassword(c, n, seal) \/ Remove(c, n)
        PROVE  Moved(c)
    BY <1>1, <1>2, <2>2, StartMoves DEF ChangePassword, Remove
  <2>3. ASSUME NEW ok, RenameCache(c, ok) PROVE Moved(c)
    <3> DEFINE r == [Idle EXCEPT !.pc = "state", !.name = op[c].to]
    <3>1. op[c].to \in Name
      BY <1>1, <2>3 DEF OpsSound, Sound, RenameCache, At
    <3>2. r \in OpRecord /\ r.name = op[c].to /\ r.kind = "none" /\ r.pc = "state"
      BY <3>1, IdleSound DEF OpRecord
    <3>3. Sound(r)
      BY <3>1, <3>2 DEF Sound
    <3>4. op' = [op EXCEPT ![c] = r]
      BY <2>3 DEF RenameCache
    <3> HIDE DEF r
    <3> QED BY <1>1, <3>2, <3>3, <3>4 DEF OpsSound, Moved
  <2>4. ASSUME NEW ok, RemoveCache(c, ok) PROVE Moved(c)
    BY <1>1, <2>4, ReturnMoves DEF RemoveCache
  <2> QED BY <1>6, <2>1, <2>2, <2>3, <2>4 DEF Changing
<1>7. ASSUME NEW c \in Client, Crash(c) PROVE Moved(c)
  BY <1>1, <1>7, ReturnMoves DEF Crash
<1> QED BY <1>3, <1>4, <1>5, <1>6, <1>7 DEF Next

(* So the clients stay sound.                                              *)
LEMMA OpsStep == IInv /\ [Next]_vars => OpsSound'
  BY StepOfOps DEF IInv, OpsSound, Moved

-----------------------------------------------------------------------------
(* The cache entries and the history variables.                            *)
EntryType ==
  entry \in [Name -> [seed : Seed \cup {NoSeed}, count : Count,
                     label : Name \cup {Plain}, draft : Wallet \cup {NoWallet}]]

HistType ==
  /\ removed \subseteq made /\ made \subseteq Wallet
  /\ drafted \subseteq made /\ stranded \subseteq made /\ unchecked \in BOOLEAN

(* The entries of the cache keep their types.                              *)
LEMMA EntryStep == IInv /\ [Next]_vars => EntryType'
<1> SUFFICES ASSUME IInv, [Next]_vars PROVE EntryType'
  OBVIOUS
<1>1. /\ EntryType /\ WalletsType /\ OpsSound
  BY DEF IInv, TypeOK, EntryType, WalletsType
<1>2. NoEntry \in [seed : Seed \cup {NoSeed}, count : Count,
                  label : Name \cup {Plain}, draft : Wallet \cup {NoWallet}]
  BY DEF NoEntry, Count
<1>3. CASE UNCHANGED entry
  BY <1>1, <1>3 DEF EntryType
<1>4. ASSUME NEW n, Uncache(n) PROVE EntryType'
  BY <1>1, <1>2, <1>4 DEF Uncache, EntryType
<1>5. ASSUME NEW c \in Client, Making(c) PROVE EntryType'
  BY <1>3, <1>4, <1>5
     DEF Making, Create, CreateOnly, Import, NewRecord, CreateIssue, Issue, ImportClean,
         Discover, CreateClean, Rollback, RollbackCache, Maintain
<1>6. ASSUME NEW c \in Client, Syncing(c) PROVE EntryType'
  <2>1. CASE Merge(c)
    <3>1. /\ op[c] \in OpRecord /\ op[c].name \in Name
      BY <1>1, <2>1 DEF Merge, At, OpsSound, Sound
    <3>2. /\ op[c].seed \in Seed \cup {NoSeed} /\ op[c].count \in Count
      BY <3>1 DEF OpRecord
    <3> QED BY <1>1, <2>1, <3>1, <3>2 DEF Merge, EntryType
  <2>2. CASE DiscardStale(c)
    BY <1>3, <1>4, <2>2 DEF DiscardStale
  <2> QED BY <1>3, <1>6, <2>1, <2>2
          DEF Syncing, SyncOnly, Sync, ReadIdentity, ScanBook, ReadBook, MarkUsed,
              ReadState, Issue, Fail
<1>7. ASSUME NEW c \in Client, Paying(c) PROVE EntryType'
  <2>1. ASSUME NEW n \in Name, Reserve(n) PROVE EntryType'
    BY <1>1, <2>1 DEF Reserve, EntryType, WalletsType
  <2>2. ASSUME NEW n \in Name, Close(c, n) PROVE EntryType'
    BY <1>1, <2>2 DEF Close, EntryType
  <2>3. CASE Fund(c)
    BY <1>1, <2>1, <2>3 DEF Fund, At, OpsSound, Sound
  <2> QED BY <1>7, <2>1, <2>2, <2>3 DEF Paying, FundOnly
<1>8. ASSUME NEW c \in Client, Changing(c) PROVE EntryType'
  <2>1. ASSUME NEW ok, RenameCache(c, ok) PROVE EntryType'
    <3>1. /\ op[c].to \in Name
      BY <1>1, <2>1 DEF RenameCache, At, OpsSound, Sound
    <3>2. /\ op[c].name \in Name
      BY <1>1, <2>1 DEF RenameCache, At, OpsSound, Sound
    <3>3. CASE MoveEntry(op[c].name, op[c].to)
      BY <1>1, <1>2, <3>1, <3>2, <3>3 DEF MoveEntry, EntryType
    <3> QED BY <1>3, <2>1, <3>3 DEF RenameCache
  <2> QED BY <1>3, <1>4, <1>8, <2>1
          DEF Changing, Rename, ChangePassword, Remove, RemoveCache, Maintain
<1>9. ASSUME NEW c \in Client, Crash(c) PROVE EntryType'
  BY <1>3, <1>9 DEF Crash
<1> QED BY <1>3, <1>5, <1>6, <1>7, <1>8, <1>9 DEF Next, vars

(* Wallets are removed, drafted for and stranded only after they were      *)
(* made.                                                                   *)
LEMMA HistStep == IInv /\ [Next]_vars => HistType'
<1> SUFFICES ASSUME IInv, [Next]_vars PROVE HistType'
  OBVIOUS
<1>1. /\ HistType /\ RecordsMade /\ OpsSound
  BY DEF IInv, TypeOK, HistType
<1> USE DEF HistType
<1>2. CASE UNCHANGED histVars
  BY <1>1, <1>2 DEF histVars
<1>3. ASSUME NEW n \in Name, NEW w \in Wallet, NEW seal, NewRecord(n, w, seal)
      PROVE  HistType'
  BY <1>1, <1>3 DEF NewRecord
<1>4. ASSUME NEW c \in Client, Making(c) PROVE HistType'
  <2>1. ASSUME NEW ok, Rollback(c, ok) PROVE HistType'
    <3>1. op[c].name \in Name
      BY <1>1, <2>1 DEF Rollback, At, OpsSound, Sound
    <3>2. ASSUME wallets[op[c].name].id = op[c].id PROVE op[c].id \in made
      <4>1. op[c].id \in Wallet
        BY <1>1, <2>1 DEF Rollback, At, OpsSound, Sound
      <4>2. Exists(op[c].name)
        BY <3>2, <4>1 DEF Exists, NoRecord
      <4> QED BY <1>1, <3>1, <3>2, <4>2 DEF RecordsMade
    <3> QED BY <1>1, <2>1, <3>2 DEF Rollback
  <2> QED BY <1>2, <1>3, <1>4, <2>1
          DEF Making, Create, CreateOnly, Import, CreateIssue, Issue, ImportClean,
              Discover, CreateClean, RollbackCache
<1>5. ASSUME NEW c \in Client, Syncing(c) PROVE HistType'
  BY <1>1, <1>2, <1>5
     DEF Syncing, SyncOnly, Sync, ReadIdentity, ScanBook, ReadBook, MarkUsed, Merge,
         DiscardStale, ReadState, Issue, Fail, histVars
<1>6. ASSUME NEW c \in Client, Paying(c) PROVE HistType'
  <2>1. ASSUME NEW n \in Name, Reserve(n), unchecked' \in BOOLEAN PROVE HistType'
    BY <1>1, <2>1 DEF Reserve, RecordsMade
  <2>2. CASE Fund(c)
    BY <1>1, <2>1, <2>2 DEF Fund, At, OpsSound, Sound
  <2>3. ASSUME NEW n \in Name, FundOnly(c, n) \/ Close(c, n) PROVE HistType'
    BY <1>1, <2>1, <2>3 DEF FundOnly, Close
  <2> QED BY <1>6, <2>2, <2>3 DEF Paying
<1>7. ASSUME NEW c \in Client, op[c].pc = "renamed" PROVE Strand(c) \subseteq made
  <2>1. op[c].to \in Name
    BY <1>1, <1>7 DEF OpsSound, Sound
  <2> QED BY <1>1, <2>1 DEF Strand, RecordsMade, Exists, NoRecord
<1>8. ASSUME NEW c \in Client, Changing(c) PROVE HistType'
  <2>1. ASSUME NEW ok, RenameCache(c, ok) PROVE HistType'
    BY <1>1, <1>7, <2>1 DEF RenameCache, At
  <2>2. ASSUME NEW n \in Name, Remove(c, n) PROVE HistType'
    BY <1>1, <2>2 DEF Remove, RecordsMade
  <2> QED BY <1>2, <1>8, <2>1, <2>2 DEF Changing, Rename, ChangePassword, RemoveCache
<1>9. ASSUME NEW c \in Client, Crash(c) PROVE HistType'
  BY <1>1, <1>7, <1>9 DEF Crash, At
<1> QED BY <1>2, <1>4, <1>5, <1>6, <1>8, <1>9 DEF Next, vars

-----------------------------------------------------------------------------
(* A step of the system preserves each part of the invariant.              *)
LEMMA Inductive == IInv /\ [Next]_vars => IInv'
<1> SUFFICES ASSUME IInv, [Next]_vars PROVE IInv'
  OBVIOUS
<1>1. WalletsStep
  BY StepOfWallets
<1>2. WalletsType' /\ RecordsMade' /\ MnemonicReadable' /\ Kept'
  BY <1>1, RecordsStep, ReadableStep, KeptStep
<1>3. OpsSound' /\ EntryType' /\ HistType'
  BY OpsStep, EntryStep, HistStep
<1>4. TypeOK'
  BY <1>2, <1>3 DEF TypeOK, WalletsType, OpsSound, OpRecord, EntryType, HistType
<1> QED BY <1>2, <1>3, <1>4 DEF IInv

(* The invariant holds in every reachable state, for every set of          *)
(* processes, names and records (src/wallet/service.py,                    *)
(* src/wallet/wallet.py).                                                  *)
THEOREM LifecycleInductive == Spec => []IInv
  BY InitIInv, Inductive, PTL DEF Spec

(* For every number of processes, the two files, the operations and the    *)
(* histories keep their types, and every file section a process enters is  *)
(* about a name (src/wallet/service.py).                                   *)
THEOREM LifecycleTypes == Spec => []TypeOK
<1>1. IInv => TypeOK
  BY DEF IInv
<1> QED BY LifecycleInductive, <1>1, PTL

(* For every number of processes: however renames, password changes,       *)
(* removals, imports and rollbacks interleave, every encrypted mnemonic in *)
(* wallets.json is bound to the name it is filed under.                    *)
THEOREM MnemonicsReadable == Spec => []MnemonicReadable
<1>1. IInv => MnemonicReadable
  BY DEF IInv
<1> QED BY LifecycleInductive, <1>1, PTL

(* For every number of processes that do not import: no wallet is lost but *)
(* to its removal.  An import is left out because _rollback_import removes *)
(* by name, in a section that does not look whose record it is.            *)
THEOREM WalletsStay ==
  ASSUME "import" \notin Kinds
  PROVE  Spec => []WalletsKept
<1>1. IInv => WalletsKept
  BY DEF IInv, Kept
<1> QED BY LifecycleInductive, <1>1, PTL

-----------------------------------------------------------------------------
(***************************************************************************)
(* One process at a time.  Each section looks its wallet up by name, so    *)
(* what a payment may rely on - that the entry of the name is the entry of *)
(* the wallet - holds only while no other process changes the name.  Then  *)
(* crashes, failed cache maintenance and reused names do no harm.          *)
(***************************************************************************)
OneProcess == \A c, d \in Client : c = d

(* What an operation knows of the wallet it works on.                      *)
Working(r) ==
  LET n == r.name IN
  /\ r.pc \in {"idle", "created", "cleaned"} => r.kind = "none"
  /\ r.pc \in {"imported", "uncache"} => r.kind = "import"
  /\ r.pc = "fund" => r.kind = "prepare"
  /\ r.pc = "created" \/ (r.kind = "import" /\ r.pc # "uncache") =>
       r.id # NoWallet /\ wallets[n].id = r.id
  /\ r.pc = "uncache" => wallets[n].id \in {r.id, NoWallet}
  /\ r.pc = "created" \/ r.kind = "import" => r.id \notin drafted
  /\ r.pc \in {"cleaned", "discover", "identity", "discard", "scan", "mark", "merge",
               "state", "fund"} => Exists(n)
  /\ r.pc \in {"discard", "mark", "merge"} =>
       r.seed = SeedAt(n) /\ r.count = wallets[n].issued
  /\ r.kind = "prepare" /\ r.pc \in {"state", "fund"} =>
       /\ entry[n].seed = SeedAt(n) /\ entry[n].label = n
       /\ entry[n].count <= wallets[n].issued
  /\ r.pc = "renamed" => r.name # r.to /\ Exists(r.to) /\ ~Exists(n)
  /\ r.pc = "removed" => ~Exists(n)

WorkInv == \A c \in Client : Working(op[c])

(* Drafts that no payment will ask for again.                              *)
Stale == removed \cup stranded \cup {NoWallet}

(* What the identity check left, and what a rename found under its new name. *)
Checked(r) ==
  /\ r.pc \in {"scan", "mark", "merge"} /\ entry[r.name].draft # NoWallet =>
       entry[r.name].seed = SeedAt(r.name)
  /\ r.pc = "renamed" => entry[r.to].draft \in Stale

(* The draft in the entry of n belongs to the wallet m, which is n itself  *)
(* or the new name that the entry is about to follow; and the entry would  *)
(* pass the identity check.                                                *)
Home(n, m) ==
  /\ m = n \/ \E c \in Client : At(c, "renamed") /\ op[c].name = n /\ op[c].to = m
  /\ wallets[m].id = entry[n].draft /\ entry[n].label = n
  /\ 0 < entry[n].count /\ entry[n].count <= wallets[m].issued

AtHome == \A n \in Name : entry[n].draft \in Stale \/ \E m \in Name : Home(n, m)

Reserved == \A w \in drafted \ (removed \cup stranded) : \E n \in Name : entry[n].draft = w

CheckInv ==
  unchecked \/
    /\ \A c \in Client : Checked(op[c])
    /\ NoForeignReservation /\ AtHome /\ Reserved

AloneInv == WorkInv /\ CheckInv /\ WalletsKept

LEMMA InitAlone == Init => AloneInv
<1> SUFFICES ASSUME Init PROVE AloneInv
  OBVIOUS
<1>1. WorkInv
  BY DEF Init, WorkInv, Working, Idle
<1>2. CheckInv
  BY DEF Init, CheckInv, Checked, Idle, NoForeignReservation, AtHome, Reserved, Stale, NoEntry
<1>3. WalletsKept
  BY DEF Init, WalletsKept
<1> QED BY <1>1, <1>2, <1>3 DEF AloneInv

(* The operation of a client after a step of it.                           *)
LEMMA StartFields ==
  ASSUME OpsSound, NEW c \in Client, NEW pc, NEW kind, NEW n, NEW id, Start(c, pc, kind, n, id)
  PROVE  /\ op[c].pc = "idle" /\ op'[c].pc = pc /\ op'[c].kind = kind
         /\ op'[c].name = n /\ op'[c].id = id
<1>1. op'[c] = [Idle EXCEPT !.pc = pc, !.kind = kind, !.name = n, !.id = id]
  BY DEF Start, OpsSound
<1>2. op[c].pc = "idle"
  BY DEF Start, At
<1>3. op'[c].pc = pc /\ op'[c].kind = kind /\ op'[c].name = n /\ op'[c].id = id
  BY <1>1 DEF Idle
<1> QED BY <1>2, <1>3

LEMMA GotoFields ==
  ASSUME OpsSound, NEW c \in Client, NEW pc, Goto(c, pc)
  PROVE  /\ op'[c].pc = pc /\ op'[c].kind = op[c].kind /\ op'[c].name = op[c].name
         /\ op'[c].to = op[c].to /\ op'[c].id = op[c].id /\ op'[c].seed = op[c].seed
         /\ op'[c].count = op[c].count
<1>1. op[c] \in OpRecord
  BY DEF OpsSound
<1>2. op'[c] = [op[c] EXCEPT !.pc = pc]
  BY DEF Goto, OpsSound
<1> QED BY <1>1, <1>2 DEF OpRecord

LEMMA ReturnFields ==
  ASSUME OpsSound, NEW c \in Client, Return(c)
  PROVE  op'[c].pc = "idle" /\ op'[c].kind = "none"
  BY DEF Return, OpsSound, Idle

(* A wallet is a record that was made.                                     *)
LEMMA WalletHere ==
  ASSUME IInv, NEW n \in Name
  PROVE  /\ Exists(n) <=> wallets[n].id # NoWallet
         /\ Exists(n) => wallets[n].id \in made
         /\ wallets[n].issued \in Nat /\ wallets[n].id \in Wallet \cup {NoWallet}
         /\ entry[n].count \in Nat /\ entry[n].draft \in Wallet \cup {NoWallet}
  BY DEF IInv, TypeOK, RecordsMade, Exists, NoRecord, Count

(* Nothing is under way, so every draft at home is under its own name.     *)
LEMMA OwnName ==
  ASSUME OneProcess, NEW c \in Client, CheckInv, ~unchecked, NEW n \in Name,
         entry[n].draft \notin Stale
  PROVE  /\ \E m \in Name : Home(n, m)
         /\ op[c].pc # "renamed" \/ op[c].name # n => Home(n, n)
         /\ op[c].pc = "renamed" /\ op[c].name = n /\ wallets[n].id = NoWallet => Home(n, op[c].to)
<1>1. \A d \in Client : d = c
  BY DEF OneProcess
<1>2. PICK m \in Name : Home(n, m)
  BY DEF CheckInv, AtHome
<1>3. m = n \/ (op[c].pc = "renamed" /\ op[c].name = n /\ op[c].to = m)
  BY <1>1, <1>2 DEF Home, At
<1>4. op[c].pc # "renamed" \/ op[c].name # n => m = n
  BY <1>3
<1>5. wallets[n].id = NoWallet => m # n
  BY <1>2 DEF Home, Stale
<1>6. op[c].pc = "renamed" /\ op[c].name = n /\ wallets[n].id = NoWallet => m = op[c].to
  BY <1>3, <1>5
<1> QED BY <1>2, <1>4, <1>6

(* Only the one client can work.                                           *)
LEMMA AloneWorks ==
  ASSUME OneProcess, NEW c \in Client, Working(op[c])' PROVE WorkInv'
<1>1. \A d \in Client : d = c
  BY DEF OneProcess
<1> QED BY <1>1 DEF WorkInv

(* A step that does not change the cache.                                  *)
LEMMA EntriesKept ==
  ASSUME OneProcess, NEW c \in Client, CheckInv, UNCHANGED <<entry, drafted, unchecked>>,
         removed \subseteq removed', stranded \subseteq stranded',
         ~unchecked => Checked(op[c])',
         \A n \in Name : entry[n].draft \notin Stale' /\ (\E m \in Name : Home(n, m)) =>
           \E m \in Name : Home(n, m)'
  PROVE  CheckInv'
<1> SUFFICES ASSUME ~unchecked PROVE CheckInv'
  BY DEF CheckInv
<1>1. \A d \in Client : d = c
  BY DEF OneProcess
<1>2. \A d \in Client : Checked(op[d])'
  BY <1>1
<1>3. NoForeignReservation'
  BY DEF CheckInv, NoForeignReservation
<1>4. Stale \subseteq Stale'
  BY DEF Stale
<1>5. AtHome'
  BY <1>4 DEF CheckInv, AtHome
<1>6. Reserved'
  BY DEF CheckInv, Reserved
<1> QED BY <1>2, <1>3, <1>5, <1>6 DEF CheckInv

(* A step that drops an entry without a live draft.                        *)
LEMMA EntryDropped ==
  ASSUME OneProcess, NEW c \in Client, CheckInv, NEW x \in Name, Uncache(x),
         UNCHANGED <<wallets, histVars>>, IInv,
         ~unchecked => Checked(op[c])',
         op[c].pc # "renamed",
         ~unchecked /\ entry[x].draft \in drafted => entry[x].draft \in Stale
  PROVE  CheckInv'
<1> SUFFICES ASSUME ~unchecked PROVE CheckInv'
  BY DEF CheckInv, histVars
<1> USE DEF histVars
<1>1. \A d \in Client : d = c
  BY DEF OneProcess
<1>2. /\ entry'[x] = NoEntry /\ \A n \in Name : n # x => entry'[n] = entry[n]
      /\ Stale' = Stale /\ NoEntry.draft = NoWallet
  BY DEF Uncache, Stale, IInv, TypeOK, NoEntry
<1>3. \A d \in Client : Checked(op[d])'
  BY <1>1
<1>4. NoForeignReservation'
  BY <1>2 DEF CheckInv, NoForeignReservation
<1>5. AtHome'
  <2> SUFFICES ASSUME NEW n \in Name, entry'[n].draft \notin Stale PROVE Home(n, n)'
    BY <1>2 DEF AtHome
  <2>1. n # x
    BY <1>2 DEF Stale
  <2>2. Home(n, n)
    BY <1>2, <2>1, OwnName
  <2> QED BY <1>2, <2>1, <2>2 DEF Home
<1>6. Reserved'
  <2> SUFFICES ASSUME NEW w \in drafted \ (removed \cup stranded)
               PROVE  \E n \in Name : entry'[n].draft = w
    BY DEF Reserved
  <2>1. PICK n \in Name : entry[n].draft = w
    BY DEF CheckInv, Reserved
  <2>2. w # NoWallet
    BY DEF IInv, TypeOK
  <2>3. n # x
    BY <2>1, <2>2 DEF Stale
  <2> QED BY <1>2, <2>1, <2>3
<1> QED BY <1>3, <1>4, <1>5, <1>6 DEF CheckInv

Alone == OneProcess /\ IInv /\ WorkInv /\ CheckInv

-----------------------------------------------------------------------------
(* create_wallet and import_wallet.  A new record is under a name without  *)
(* one, so no draft that counts has its home there.                        *)
LEMMA NewRecordHome ==
  ASSUME Alone, NEW c \in Client, NEW n \in Name, NEW w \in Wallet, NEW seal,
         NewRecord(n, w, seal), At(c, "idle")
  PROVE  /\ w \notin drafted /\ wallets'[n].id = w /\ w # NoWallet
         /\ ~unchecked => \A x \in Name : entry[x].draft \notin Stale' => Home(x, x)'
<1>1. IInv /\ WalletsType /\ drafted \subseteq made
  BY DEF Alone, IInv, TypeOK, WalletsType
<1>2. w \notin drafted /\ wallets'[n].id = w /\ w # NoWallet
  BY <1>1 DEF NewRecord, WalletsType
<1>3. ASSUME ~unchecked, NEW x \in Name, entry[x].draft \notin Stale' PROVE Home(x, x)'
  <2>1. entry[x].draft \notin Stale
    BY <1>3 DEF Stale, NewRecord
  <2>2. Home(x, x)
    BY <1>3, <2>1, OwnName DEF Alone, At
  <2>3. x # n
    BY <1>1, <2>1, <2>2, WalletHere DEF Home, Stale, NewRecord
  <2>4. wallets'[x] = wallets[x] /\ entry' = entry
    BY <1>1, <2>3 DEF NewRecord, WalletsType
  <2> QED BY <2>2, <2>4 DEF Home
<1> QED BY <1>2, <1>3

LEMMA CreateAlone ==
  ASSUME Alone, NEW c \in Client, NEW n \in Name, NEW w \in Wallet, NEW seal,
         Create(c, n, w, seal) \/ CreateOnly(c, n, w, seal) \/ Import(c, n, w, seal)
  PROVE  WorkInv' /\ CheckInv'
<1>1. IInv /\ OpsSound /\ OneProcess /\ CheckInv /\ Working(op[c])
  BY DEF Alone, IInv, WorkInv
<1>2. NewRecord(n, w, seal) /\ At(c, "idle")
  BY DEF Create, CreateOnly, Import, Start
<1>3. /\ w \notin drafted /\ wallets'[n].id = w /\ w # NoWallet
      /\ ~unchecked => \A x \in Name : entry[x].draft \notin Stale' => Home(x, x)'
  BY <1>2, NewRecordHome
<1>4. \/ op'[c].pc = "created" /\ op'[c].kind = "none" /\ op'[c].name = n /\ op'[c].id = w
      \/ op'[c].pc = "imported" /\ op'[c].kind = "import" /\ op'[c].name = n /\ op'[c].id = w
      \/ op'[c].pc = "idle" /\ op'[c].kind = "none"
  <2>1. CASE Create(c, n, w, seal)
    BY <1>1, <2>1, StartFields DEF Create
  <2>2. CASE CreateOnly(c, n, w, seal)
    BY <1>1, <2>2 DEF CreateOnly, At, Working
  <2>3. CASE Import(c, n, w, seal)
    BY <1>1, <2>3, StartFields DEF Import
  <2> QED BY <2>1, <2>2, <2>3
<1>5. Working(op[c])'
  BY <1>2, <1>3, <1>4 DEF Working, NewRecord
<1>6. UNCHANGED <<entry, drafted, unchecked, removed, stranded>>
  BY <1>2 DEF NewRecord
<1>7. Checked(op[c])'
  BY <1>4 DEF Checked
<1>8. CheckInv'
  <2>1. CASE unchecked
    BY <1>6, <2>1 DEF CheckInv
  <2>2. CASE ~unchecked
    BY <1>1, <1>3, <1>6, <1>7, <2>2, EntriesKept
  <2> QED BY <2>1, <2>2
<1> QED BY <1>1, <1>5, <1>8, AloneWorks

(* A step that leaves the cache and every wallet with a reservation alone. *)
LEMMA Quiet ==
  ASSUME Alone, NEW c \in Client, UNCHANGED <<entry, drafted, unchecked, stranded>>,
         removed \subseteq removed', op[c].pc # "renamed", ~unchecked => Checked(op[c])',
         \A x \in Name : ~unchecked /\ wallets[x].id \notin Stale' =>
           /\ wallets'[x].id = wallets[x].id
           /\ wallets'[x].issued \in Nat /\ wallets[x].issued <= wallets'[x].issued
  PROVE  CheckInv'
<1>1. OneProcess /\ IInv /\ CheckInv
  BY DEF Alone
<1>2. CASE unchecked
  BY <1>2 DEF CheckInv
<1>3. CASE ~unchecked
  <2>1. ASSUME NEW x \in Name, entry[x].draft \notin Stale' PROVE Home(x, x)'
    <3>1. Home(x, x)
      BY <1>1, <1>3, <2>1, OwnName DEF Stale
    <3>2. wallets[x].issued \in Nat /\ entry[x].count \in Nat
      BY <1>1, WalletHere
    <3> QED BY <1>3, <2>1, <3>1, <3>2 DEF Home
  <2> QED BY <1>1, <1>3, <2>1, EntriesKept
<1> QED BY <1>2, <1>3

(* What a client finds in its own record.                                  *)
LEMMA NamedWallet ==
  ASSUME Alone, NEW c \in Client, op[c].pc # "idle"
  PROVE  /\ op[c].name \in Name /\ Working(op[c]) /\ OpsSound /\ OneProcess /\ IInv
         /\ op[c] \in OpRecord /\ drafted \subseteq made /\ WalletsType /\ EntryType
         /\ \A x \in Name : wallets[x].issued \in Nat /\ entry[x].count \in Nat
  BY WalletHere DEF Alone, WorkInv, IInv, OpsSound, Sound, TypeOK, WalletsType, EntryType

(* What stays under a name that does not hold the wallet of the draft.     *)
LEMMA NotItsOwn ==
  ASSUME Alone, NEW c \in Client, op[c].pc # "renamed", ~unchecked, NEW n \in Name,
         wallets[n].id \notin drafted, entry[n].draft \in drafted
  PROVE  entry[n].draft \in Stale
<1> SUFFICES ASSUME entry[n].draft \notin Stale PROVE FALSE
  OBVIOUS
<1>1. Home(n, n)
  BY OwnName DEF Alone
<1> QED BY <1>1 DEF Home

LEMMA MaintainAlone ==
  ASSUME Alone, NEW c \in Client, op[c].pc \notin {"renamed", "idle"},
         NEW ok, Maintain(ok, op[c].name),
         UNCHANGED <<wallets, histVars>>, wallets[op[c].name].id \notin drafted,
         ~unchecked => Checked(op[c])'
  PROVE  CheckInv'
<1>1. op[c].name \in Name /\ OneProcess /\ IInv /\ CheckInv
  BY NamedWallet DEF Alone
<1>2. CASE Uncache(op[c].name)
  BY <1>1, <1>2, NotItsOwn, EntryDropped
<1>3. CASE UNCHANGED entry
  <2>1. \A x \in Name : wallets[x].issued \in Nat
    BY NamedWallet
  <2> QED BY <1>3, <2>1, Quiet DEF histVars
<1> QED BY <1>2, <1>3 DEF Maintain

LEMMA CreateCleanAlone ==
  ASSUME Alone, NEW c \in Client, NEW ok, CreateClean(c, ok) PROVE WorkInv' /\ CheckInv'
<1>1. /\ op[c].name \in Name /\ Working(op[c]) /\ OpsSound /\ OneProcess /\ IInv
      /\ op[c].pc = "created"
  BY NamedWallet DEF CreateClean, At
<1>2. /\ op'[c].pc = "cleaned" /\ op'[c].kind = op[c].kind /\ op'[c].name = op[c].name
      /\ UNCHANGED <<wallets, histVars>>
  BY <1>1, GotoFields DEF CreateClean
<1>3. /\ op[c].kind = "none" /\ wallets[op[c].name].id \notin drafted
      /\ Exists(op[c].name)
  BY <1>1, WalletHere DEF Working
<1>4. Working(op[c])'
  BY <1>2, <1>3 DEF Working, Exists
<1>5. Checked(op[c])'
  BY <1>2 DEF Checked
<1>6. CheckInv'
  BY <1>1, <1>2, <1>3, <1>5, MaintainAlone DEF CreateClean
<1> QED BY <1>1, <1>4, <1>6, AloneWorks

LEMMA ImportCleanAlone ==
  ASSUME Alone, NEW c \in Client, ImportClean(c) PROVE WorkInv' /\ CheckInv'
<1>1. /\ op[c].name \in Name /\ Working(op[c]) /\ OpsSound /\ OneProcess /\ IInv
      /\ op[c].pc = "imported"
  BY NamedWallet DEF ImportClean, At
<1>2. /\ op'[c].pc = "discover" /\ op'[c].kind = op[c].kind /\ op'[c].name = op[c].name
      /\ op'[c].id = op[c].id /\ UNCHANGED <<wallets, histVars>>
  BY <1>1, GotoFields DEF ImportClean
<1>3. /\ op[c].kind = "import" /\ wallets[op[c].name].id \notin drafted
      /\ Exists(op[c].name)
  BY <1>1, WalletHere DEF Working
<1>4. Working(op[c])'
  BY <1>1, <1>2, <1>3 DEF Working, Exists, histVars
<1>5. Checked(op[c])'
  BY <1>2 DEF Checked
<1>6. CheckInv'
  BY <1>1, <1>2, <1>3, <1>5, MaintainAlone DEF ImportClean, Maintain
<1> QED BY <1>1, <1>4, <1>6, AloneWorks

LEMMA RollbackCacheAlone ==
  ASSUME Alone, NEW c \in Client, NEW ok, RollbackCache(c, ok) PROVE WorkInv' /\ CheckInv'
<1>1. /\ op[c].name \in Name /\ Working(op[c]) /\ OpsSound /\ OneProcess /\ IInv
      /\ op[c].pc = "uncache" /\ drafted \subseteq made /\ made \subseteq Wallet
  BY NamedWallet DEF RollbackCache, At, IInv, TypeOK
<1>2. /\ op'[c].pc = "idle" /\ op'[c].kind = "none" /\ UNCHANGED <<wallets, histVars>>
  BY <1>1, ReturnFields DEF RollbackCache
<1>3. wallets[op[c].name].id \notin drafted
  BY <1>1 DEF Working
<1>4. Working(op[c])' /\ Checked(op[c])'
  BY <1>2 DEF Working, Checked
<1>5. CheckInv'
  BY <1>1, <1>2, <1>3, <1>4, MaintainAlone DEF RollbackCache
<1> QED BY <1>1, <1>4, <1>5, AloneWorks

(* An import is rolled back by name, and the name is still its own.        *)
LEMMA RollbackAlone ==
  ASSUME Alone, NEW c \in Client, NEW ok, Rollback(c, ok) PROVE WorkInv' /\ CheckInv'
<1>1. /\ op[c].name \in Name /\ Working(op[c]) /\ OpsSound /\ OneProcess /\ WalletsType
      /\ op[c].pc = "rollback" /\ op[c].kind = "import"
  BY NamedWallet DEF Rollback, At, OpsSound, Sound
<1>2. /\ op'[c].pc = "uncache" /\ op'[c].kind = "import" /\ op'[c].name = op[c].name
      /\ op'[c].id = op[c].id
  BY <1>1, GotoFields DEF Rollback
<1>3. wallets[op[c].name].id = op[c].id /\ op[c].id \notin drafted
  BY <1>1 DEF Working
<1>4. wallets'[op[c].name].id \in {op[c].id, NoWallet}
  BY <1>1, <1>3 DEF Rollback, WalletsType, NoRecord
<1>5. Working(op[c])' /\ Checked(op[c])'
  BY <1>2, <1>3, <1>4 DEF Working, Checked, Rollback
<1>6. ASSUME NEW x \in Name, wallets[x].id \notin Stale' PROVE wallets'[x] = wallets[x]
  BY <1>1, <1>3, <1>6 DEF Rollback, WalletsType, Stale
<1>7. \A x \in Name : wallets[x].issued \in Nat
  BY <1>1, NamedWallet
<1>8. CheckInv'
  <2>1. UNCHANGED <<entry, drafted, unchecked, stranded>> /\ removed \subseteq removed'
    BY DEF Rollback
  <2> QED BY <1>1, <1>5, <1>6, <1>7, <2>1, Quiet
<1> QED BY <1>1, <1>5, <1>8, AloneWorks

(* An address more, and the record is still the same wallet.               *)
LEMMA IssueKeeps ==
  ASSUME Alone, NEW n \in Name, NEW k, Issue(n, k)
  PROVE  /\ \A x \in Name : wallets'[x].id = wallets[x].id
         /\ \A x \in Name \ {n} : wallets'[x] = wallets[x]
         /\ wallets'[n].issued = k /\ wallets'[n] # NoRecord /\ k \in Count
  BY DEF Alone, IInv, TypeOK, Issue, Exists, NoRecord, RecordsMade

LEMMA IssueQuiet ==
  ASSUME Alone, NEW c \in Client, NEW n \in Name, NEW k, Issue(n, k),
         wallets[n].issued <= k, op[c].pc # "renamed", ~unchecked => Checked(op[c])'
  PROVE  CheckInv'
<1>1. \A x \in Name : wallets[x].issued \in Nat
  BY WalletHere DEF Alone
<1>2. \A x \in Name : /\ wallets'[x].id = wallets[x].id
                      /\ wallets'[x].issued \in Nat /\ wallets[x].issued <= wallets'[x].issued
  BY <1>1, IssueKeeps DEF Count
<1>3. UNCHANGED <<entry, drafted, unchecked, stranded, removed>>
  BY DEF Issue, histVars
<1> QED BY <1>2, <1>3, Quiet

LEMMA CreateIssueAlone ==
  ASSUME Alone, NEW c \in Client, CreateIssue(c) PROVE WorkInv' /\ CheckInv'
<1>1. /\ op[c].name \in Name /\ Working(op[c]) /\ OpsSound /\ OneProcess
      /\ op[c].pc = "cleaned" /\ op[c].kind = "none"
      /\ wallets[op[c].name].issued \in Nat
  BY NamedWallet DEF CreateIssue, At, Working
<1>2. op'[c].pc = "state" /\ op'[c].kind = "none" /\ op'[c].name = op[c].name
  BY <1>1, GotoFields DEF CreateIssue
<1> DEFINE k == wallets[op[c].name].issued + 1
<1>k. Issue(op[c].name, k)
  BY DEF CreateIssue
<1> HIDE DEF k
<1>3. wallets'[op[c].name] # NoRecord
  BY <1>1, <1>k, IssueKeeps, Zenon
<1>4. Working(op[c])' /\ Checked(op[c])'
  BY <1>2, <1>3 DEF Working, Checked, Exists
<1>5. CheckInv'
  BY <1>1, <1>4, IssueQuiet DEF CreateIssue
<1> QED BY <1>1, <1>4, <1>5, AloneWorks

LEMMA DiscoverAlone ==
  ASSUME Alone, NEW c \in Client, NEW k \in Count, Discover(c, k) PROVE WorkInv' /\ CheckInv'
<1>1. /\ op[c].name \in Name /\ Working(op[c]) /\ OpsSound /\ OneProcess
      /\ op[c].pc = "discover"
  BY NamedWallet DEF Discover, At
<1>2. /\ op'[c].pc = "identity" /\ op'[c].kind = op[c].kind /\ op'[c].name = op[c].name
      /\ op'[c].id = op[c].id
  BY <1>1, GotoFields DEF Discover
<1>k. Issue(op[c].name, k)
  BY DEF Discover
<1>3. wallets'[op[c].name] # NoRecord /\ wallets'[op[c].name].id = wallets[op[c].name].id
  BY <1>1, <1>k, IssueKeeps, Zenon
<1>4. UNCHANGED drafted
  BY DEF Discover, Issue, histVars
<1>5. Working(op[c])' /\ Checked(op[c])'
  BY <1>1, <1>2, <1>3, <1>4 DEF Working, Checked, Exists
<1>6. wallets[op[c].name].issued <= k
  BY DEF Discover, Count
<1>7. CheckInv'
  BY <1>1, <1>5, <1>6, IssueQuiet DEF Discover
<1> QED BY <1>1, <1>5, <1>7, AloneWorks

LEMMA ReadStateAlone ==
  ASSUME Alone, NEW c \in Client, NEW more \in BOOLEAN, ReadState(c, more)
  PROVE  WorkInv' /\ CheckInv'
<1> DEFINE n == op[c].name
           k == IF more \/ wallets[n].issued = 0 THEN wallets[n].issued + 1
                ELSE wallets[n].issued
<1>1. /\ n \in Name /\ Working(op[c]) /\ OpsSound /\ OneProcess
      /\ op[c].pc = "state"
      /\ \A x \in Name : wallets[x].issued \in Nat /\ entry[x].count \in Nat
  BY NamedWallet DEF ReadState, At
<1>2. Issue(n, k)
  BY DEF ReadState
<1>3. k \in Nat /\ wallets[n].issued <= k
  BY <1>1
<1> HIDE DEF k
<1>4. wallets'[n] # NoRecord /\ wallets'[n].id = wallets[n].id /\ wallets'[n].issued = k
  BY <1>1, <1>2, IssueKeeps, Zenon
<1>5. UNCHANGED entry
  BY <1>2 DEF Issue
<1>6. \/ /\ op'[c].pc = "fund" /\ op[c].kind = "prepare" /\ op'[c].kind = "prepare"
         /\ op'[c].name = n
      \/ op'[c].pc = "idle" /\ op'[c].kind = "none"
  <2>1. CASE op[c].kind = "prepare"
    <3>1. Goto(c, "fund")
      BY <2>1 DEF ReadState
    <3>2. /\ op'[c].pc = "fund" /\ op'[c].kind = op[c].kind /\ op'[c].name = op[c].name
      BY <1>1, <3>1, GotoFields
    <3> QED BY <2>1, <3>2
  <2>2. CASE op[c].kind # "prepare"
    <3>1. Return(c)
      BY <2>2 DEF ReadState
    <3> QED BY <1>1, <3>1, ReturnFields
  <2> QED BY <2>1, <2>2
<1>7. Checked(op[c])'
  BY <1>6 DEF Checked
<1>8. Working(op[c])'
  <2>1. CASE op'[c].pc = "idle" /\ op'[c].kind = "none"
    BY <2>1 DEF Working
  <2>2. CASE /\ op'[c].pc = "fund" /\ op'[c].kind = "prepare" /\ op'[c].name = n
             /\ op[c].kind = "prepare"
    <3>1. /\ entry[n].seed = SeedAt(n) /\ entry[n].label = n
          /\ entry[n].count <= wallets[n].issued /\ entry[n].count \in Nat
          /\ wallets[n].issued \in Nat
      BY <1>1, <2>2 DEF Working
    <3>2. entry'[n].count <= wallets'[n].issued
      BY <1>3, <1>4, <1>5, <3>1
    <3> QED BY <1>4, <1>5, <2>2, <3>1, <3>2 DEF Working, SeedAt, Exists
  <2> QED BY <1>6, <2>1, <2>2
<1>9. CheckInv'
  BY <1>1, <1>2, <1>3, <1>7, IssueQuiet
<1> QED BY <1>1, <1>8, <1>9, AloneWorks

-----------------------------------------------------------------------------
(* sync_wallet.                                                            *)
LEMMA SyncAlone ==
  ASSUME Alone, NEW c \in Client, NEW n \in Name, NEW kind \in {"sync", "prepare"},
         Sync(c, n, kind)
  PROVE  WorkInv' /\ CheckInv'
<1>1. OpsSound /\ OneProcess /\ \A x \in Name : wallets[x].issued \in Nat
  BY WalletHere DEF Alone, IInv
<1>2. /\ op[c].pc = "idle" /\ op'[c].pc = "identity" /\ op'[c].kind = kind
      /\ op'[c].name = n
  BY <1>1, StartFields DEF Sync
<1>3. wallets'[n] # NoRecord
  BY DEF Sync, Exists
<1>4. Working(op[c])' /\ Checked(op[c])'
  BY <1>2, <1>3 DEF Working, Checked, Exists
<1>5. UNCHANGED <<wallets, entry, histVars>>
  BY DEF Sync
<1>6. CheckInv'
  BY <1>1, <1>2, <1>4, <1>5, Quiet DEF histVars
<1> QED BY <1>1, <1>4, <1>6, AloneWorks

LEMMA SyncOnlyAlone ==
  ASSUME Alone, NEW c \in Client, NEW n \in Name, SyncOnly(c, n)
  PROVE  WorkInv' /\ CheckInv'
<1>1. OpsSound /\ OneProcess
  BY DEF Alone, IInv
<1>2. op'[c].pc = "scan" /\ op'[c].kind = "sync" /\ op'[c].name = n
  BY <1>1, StartFields DEF SyncOnly
<1>3. wallets'[n] # NoRecord
  BY DEF SyncOnly, Exists
<1>4. Working(op[c])'
  BY <1>2, <1>3 DEF Working, Exists
<1>5. CheckInv'
  BY DEF SyncOnly, CheckInv
<1> QED BY <1>1, <1>4, <1>5, AloneWorks

LEMMA ReadBookFields ==
  ASSUME OpsSound, NEW c \in Client, NEW from, NEW to, ReadBook(c, from, to)
  PROVE  /\ op'[c].pc = to /\ op'[c].kind = op[c].kind /\ op'[c].name = op[c].name
         /\ op'[c].id = op[c].id /\ op'[c].seed = SeedAt(op[c].name)
         /\ op'[c].count = wallets[op[c].name].issued
<1>1. op[c] \in OpRecord
  BY DEF OpsSound
<1>2. op'[c] = [op[c] EXCEPT !.pc = to, !.seed = SeedAt(op[c].name),
                             !.count = wallets[op[c].name].issued]
  BY <1>1 DEF ReadBook, OpsSound, OpRecord
<1>3. op'[c].pc = to /\ op'[c].seed = SeedAt(op[c].name)
  BY <1>1, <1>2 DEF OpRecord
<1> QED BY <1>1, <1>2, <1>3 DEF OpRecord

LEMMA ReadBookAlone ==
  ASSUME Alone, NEW c \in Client, ReadIdentity(c) \/ ScanBook(c)
  PROVE  WorkInv' /\ CheckInv'
<1>1. /\ op[c].name \in Name /\ Working(op[c]) /\ OpsSound /\ OneProcess
      /\ op[c].pc \in {"identity", "scan"} /\ CheckInv
      /\ \A x \in Name : wallets[x].issued \in Nat
  BY NamedWallet DEF ReadIdentity, ScanBook, ReadBook, At, Alone
<1>2. /\ op'[c].pc = (IF op[c].pc = "identity" THEN "discard" ELSE "mark")
      /\ op'[c].kind = op[c].kind /\ op'[c].name = op[c].name /\ op'[c].id = op[c].id
      /\ op'[c].seed = SeedAt(op[c].name) /\ op'[c].count = wallets[op[c].name].issued
  <2>1. CASE ReadBook(c, "identity", "discard")
    <3>1. op[c].pc = "identity"
      BY <2>1 DEF ReadBook, At
    <3>2. /\ op'[c].pc = "discard" /\ op'[c].kind = op[c].kind /\ op'[c].name = op[c].name
          /\ op'[c].id = op[c].id /\ op'[c].seed = SeedAt(op[c].name)
          /\ op'[c].count = wallets[op[c].name].issued
      BY <1>1, <2>1, ReadBookFields
    <3> QED BY <3>1, <3>2
  <2>2. CASE ReadBook(c, "scan", "mark")
    <3>1. op[c].pc = "scan"
      BY <2>2 DEF ReadBook, At
    <3>2. /\ op'[c].pc = "mark" /\ op'[c].kind = op[c].kind /\ op'[c].name = op[c].name
          /\ op'[c].id = op[c].id /\ op'[c].seed = SeedAt(op[c].name)
          /\ op'[c].count = wallets[op[c].name].issued
      BY <1>1, <2>2, ReadBookFields
    <3> QED BY <3>1, <3>2
  <2> QED BY <2>1, <2>2 DEF ReadIdentity, ScanBook
<1>3. UNCHANGED <<wallets, entry, histVars>> /\ Exists(op[c].name)
  BY DEF ReadIdentity, ScanBook, ReadBook
<1>4. Working(op[c])'
  BY <1>1, <1>2, <1>3 DEF Working, Exists, SeedAt, histVars
<1>5. ~unchecked => Checked(op[c])'
  BY <1>1, <1>2, <1>3 DEF Checked, CheckInv, SeedAt
<1>6. CheckInv'
  BY <1>1, <1>3, <1>5, Quiet DEF histVars
<1> QED BY <1>1, <1>4, <1>6, AloneWorks

LEMMA MarkUsedAlone ==
  ASSUME Alone, NEW c \in Client, MarkUsed(c) PROVE WorkInv' /\ CheckInv'
<1>1. /\ op[c].name \in Name /\ Working(op[c]) /\ OpsSound /\ OneProcess
      /\ op[c].pc = "mark" /\ CheckInv /\ \A x \in Name : wallets[x].issued \in Nat
  BY NamedWallet DEF MarkUsed, At, Alone
<1>2. /\ op'[c].pc = "merge" /\ op'[c].kind = op[c].kind /\ op'[c].name = op[c].name
      /\ op'[c].id = op[c].id /\ op'[c].seed = op[c].seed /\ op'[c].count = op[c].count
  BY <1>1, GotoFields DEF MarkUsed
<1>3. UNCHANGED <<wallets, entry, histVars>> /\ Exists(op[c].name)
  BY DEF MarkUsed
<1>4. Working(op[c])'
  BY <1>1, <1>2, <1>3 DEF Working, Exists, SeedAt, histVars
<1>5. ~unchecked => Checked(op[c])'
  BY <1>1, <1>2, <1>3 DEF Checked, CheckInv, SeedAt
<1>6. CheckInv'
  BY <1>1, <1>3, <1>5, Quiet DEF histVars
<1> QED BY <1>1, <1>4, <1>6, AloneWorks

(* The identity check keeps the entry of the wallet itself.                *)
LEMMA DiscardStaleAlone ==
  ASSUME Alone, NEW c \in Client, DiscardStale(c) PROVE WorkInv' /\ CheckInv'
<1> DEFINE n == op[c].name
<1>1. /\ n \in Name /\ Working(op[c]) /\ OpsSound /\ OneProcess /\ IInv
      /\ op[c].pc = "discard" /\ CheckInv
      /\ \A x \in Name : wallets[x].issued \in Nat /\ entry[x].count \in Nat
  BY NamedWallet DEF DiscardStale, At, Alone
<1>2. /\ op'[c].pc = "scan" /\ op'[c].kind = op[c].kind /\ op'[c].name = n
      /\ op'[c].id = op[c].id
  BY <1>1, GotoFields DEF DiscardStale
<1>3. UNCHANGED <<wallets, histVars>>
  BY DEF DiscardStale
<1>4. Exists(n) /\ op[c].seed = SeedAt(n) /\ op[c].count = wallets[n].issued
  BY <1>1 DEF Working
<1>5. Working(op[c])'
  BY <1>1, <1>2, <1>3, <1>4 DEF Working, Exists, SeedAt, histVars
<1>6. CASE UNCHANGED entry /\ Matches(entry[n], n, op[c].seed, op[c].count)
  <2>1. Checked(op[c])'
    BY <1>2, <1>3, <1>4, <1>6 DEF Checked, Matches, SeedAt
  <2>2. CheckInv'
    BY <1>1, <1>3, <1>6, <2>1, Quiet DEF histVars
  <2> QED BY <1>1, <1>5, <2>2, AloneWorks
<1>7. CASE Uncache(n) /\ ~Matches(entry[n], n, op[c].seed, op[c].count)
  <2>1. entry'[n].draft = NoWallet
    BY <1>1, <1>7 DEF Uncache, IInv, TypeOK, NoEntry
  <2>2. Checked(op[c])'
    BY <1>2, <2>1 DEF Checked
  <2>3. ASSUME ~unchecked, entry[n].draft \notin Stale PROVE FALSE
    <3>1. Home(n, n)
      BY <1>1, <2>3, OwnName
    <3>2. SeedOf[entry[n].draft] = entry[n].seed
      BY <1>1, <2>3 DEF CheckInv, NoForeignReservation, Stale
    <3>3. entry[n].seed = op[c].seed
      BY <1>4, <3>1, <3>2 DEF Home, SeedAt
    <3> QED BY <1>4, <1>7, <3>1, <3>3 DEF Home, Matches
  <2>4. CheckInv'
    BY <1>1, <1>3, <1>7, <2>2, <2>3, EntryDropped
  <2> QED BY <1>1, <1>5, <2>4, AloneWorks
<1> QED BY <1>6, <1>7 DEF DiscardStale

(* The new entry describes the wallet the name denotes, and the old one    *)
(* already did.                                                            *)
LEMMA MergeAlone ==
  ASSUME Alone, NEW c \in Client, Merge(c) PROVE WorkInv' /\ CheckInv'
<1> DEFINE n == op[c].name
<1>1. /\ n \in Name /\ Working(op[c]) /\ OpsSound /\ OneProcess /\ EntryType
      /\ op[c].pc = "merge" /\ CheckInv
      /\ \A x \in Name : wallets[x].issued \in Nat /\ entry[x].count \in Nat
  BY NamedWallet DEF Merge, At, Alone
<1>2. /\ op'[c].pc = "state" /\ op'[c].kind = op[c].kind /\ op'[c].name = n
      /\ op'[c].id = op[c].id
  BY <1>1, GotoFields DEF Merge
<1>3. /\ UNCHANGED <<wallets, histVars>> /\ Stale' = Stale
      /\ entry'[n] = [seed |-> op[c].seed, count |-> op[c].count,
                      label |-> n, draft |-> entry[n].draft]
      /\ \A x \in Name : entry'[x].draft = entry[x].draft
      /\ \A x \in Name \ {n} : entry'[x] = entry[x]
  BY <1>1 DEF Merge, EntryType, Stale, histVars
<1>4. /\ Exists(n) /\ op[c].seed = SeedAt(n) /\ op[c].count = wallets[n].issued
      /\ wallets[n].issued \in Nat
  BY <1>1 DEF Working
<1>5. Working(op[c])'
  <2>1. /\ entry'[n].seed = SeedAt(n) /\ entry'[n].label = n
        /\ entry'[n].count <= wallets[n].issued
    BY <1>3, <1>4
  <2> QED BY <1>1, <1>2, <1>3, <1>4, <2>1 DEF Working, Exists, SeedAt, histVars
<1>6. CASE unchecked
  BY <1>1, <1>3, <1>5, <1>6, AloneWorks DEF CheckInv, histVars
<1>7. CASE ~unchecked
  <2>1. \A d \in Client : Checked(op[d])'
    BY <1>1, <1>2 DEF Checked, OneProcess
  <2>2. NoForeignReservation'
    <3> SUFFICES ASSUME NEW x \in Name, entry'[x].draft # NoWallet
                 PROVE  SeedOf[entry'[x].draft] = entry'[x].seed
      BY DEF NoForeignReservation
    <3>1. SeedOf[entry[x].draft] = entry[x].seed
      BY <1>1, <1>3, <1>7 DEF CheckInv, NoForeignReservation
    <3>2. CASE x = n
      BY <1>1, <1>3, <1>4, <1>7, <3>1, <3>2 DEF CheckInv, Checked
    <3>3. CASE x # n
      BY <1>3, <3>1, <3>3
    <3> QED BY <3>2, <3>3
  <2>3. AtHome'
    <3> SUFFICES ASSUME NEW x \in Name, entry[x].draft \notin Stale PROVE Home(x, x)'
      BY <1>3 DEF AtHome
    <3>1. Home(x, x)
      BY <1>1, <1>7, OwnName
    <3>2. CASE x = n
      <4>1. 0 < op[c].count /\ op[c].count <= wallets[n].issued
        BY <1>1, <1>4, <3>1, <3>2 DEF Home
      <4> QED BY <1>3, <3>1, <3>2, <4>1 DEF Home
    <3>3. CASE x # n
      BY <1>3, <3>1, <3>3 DEF Home
    <3> QED BY <3>2, <3>3
  <2>4. Reserved'
    BY <1>1, <1>3, <1>7 DEF CheckInv, Reserved, histVars
  <2>5. CheckInv'
    BY <2>1, <2>2, <2>3, <2>4 DEF CheckInv
  <2> QED BY <1>1, <1>5, <2>5, AloneWorks
<1> QED BY <1>6, <1>7

LEMMA FailAlone ==
  ASSUME Alone, NEW c \in Client, Fail(c) PROVE WorkInv' /\ CheckInv'
<1>1. op[c].pc # "idle" /\ op[c].pc # "renamed" /\ op[c].pc # "uncache"
  BY DEF Fail
<1>2. /\ Working(op[c]) /\ OpsSound /\ OneProcess
      /\ \A x \in Name : wallets[x].issued \in Nat
  BY <1>1, NamedWallet
<1>3. UNCHANGED <<wallets, entry, histVars>>
  BY DEF Fail
<1>4. Working(op[c])' /\ Checked(op[c])'
  <2>1. CASE op[c].kind = "import"
    <3>1. Goto(c, "rollback")
      BY <2>1 DEF Fail
    <3>2. /\ op'[c].pc = "rollback" /\ op'[c].kind = "import" /\ op'[c].name = op[c].name
          /\ op'[c].id = op[c].id
      BY <1>2, <2>1, <3>1, GotoFields
    <3>3. op[c].id # NoWallet /\ wallets[op[c].name].id = op[c].id /\ op[c].id \notin drafted
      BY <1>1, <1>2, <2>1 DEF Working
    <3> QED BY <1>3, <3>2, <3>3 DEF Working, Checked, histVars
  <2>2. CASE op[c].kind # "import"
    <3>1. Return(c)
      BY <2>2 DEF Fail
    <3>2. op'[c].pc = "idle" /\ op'[c].kind = "none"
      BY <1>2, <3>1, ReturnFields
    <3> QED BY <3>2 DEF Working, Checked
  <2> QED BY <2>1, <2>2
<1>5. CheckInv'
  BY <1>1, <1>2, <1>3, <1>4, Quiet DEF histVars
<1> QED BY <1>2, <1>4, <1>5, AloneWorks

-----------------------------------------------------------------------------
(* A payment, and its end.                                                 *)
LEMMA FundAlone ==
  ASSUME Alone, NEW c \in Client, Fund(c) PROVE WorkInv' /\ CheckInv'
<1> DEFINE n == op[c].name
           w == wallets[n].id
<1>1. /\ n \in Name /\ Working(op[c]) /\ OpsSound /\ OneProcess /\ EntryType /\ WalletsType
      /\ op[c].pc = "fund" /\ CheckInv /\ w # NoWallet /\ Exists(n)
  BY NamedWallet, WalletHere DEF Fund, At, Alone, Reserve
<1>2. /\ UNCHANGED <<wallets, removed, stranded, unchecked>> /\ drafted' = drafted \cup {w}
      /\ entry'[n] = [entry[n] EXCEPT !.draft = w]
      /\ \A x \in Name \ {n} : entry'[x] = entry[x]
      /\ entry[n].draft = NoWallet /\ 0 < entry[n].count /\ Stale' = Stale
  BY <1>1 DEF Fund, Reserve, EntryType, Stale
<1>3. op'[c].pc = "idle" /\ op'[c].kind = "none"
  BY <1>1, ReturnFields DEF Fund
<1>4. Working(op[c])'
  BY <1>3 DEF Working
<1>5. CASE unchecked
  BY <1>1, <1>2, <1>4, <1>5, AloneWorks DEF CheckInv
<1>6. CASE ~unchecked
  <2>1. /\ entry'[n].draft = w /\ entry'[n].seed = SeedOf[w] /\ entry'[n].label = n
        /\ entry'[n].count = entry[n].count /\ entry[n].count <= wallets[n].issued
    BY <1>1, <1>2 DEF Working, EntryType, SeedAt
  <2>2. \A d \in Client : Checked(op[d])'
    BY <1>1, <1>3 DEF Checked, OneProcess
  <2>3. NoForeignReservation'
    <3> SUFFICES ASSUME NEW x \in Name, entry'[x].draft # NoWallet
                 PROVE  SeedOf[entry'[x].draft] = entry'[x].seed
      BY DEF NoForeignReservation
    <3>1. CASE x = n
      BY <2>1, <3>1
    <3>2. CASE x # n
      BY <1>1, <1>2, <1>6, <3>2 DEF CheckInv, NoForeignReservation
    <3> QED BY <3>1, <3>2
  <2>4. AtHome'
    <3> SUFFICES ASSUME NEW x \in Name, entry'[x].draft \notin Stale PROVE Home(x, x)'
      BY <1>2 DEF AtHome
    <3>1. CASE x = n
      BY <1>2, <2>1, <3>1 DEF Home
    <3>2. CASE x # n
      <4>1. Home(x, x)
        BY <1>1, <1>2, <1>6, <3>2, OwnName
      <4> QED BY <1>2, <3>2, <4>1 DEF Home
    <3> QED BY <3>1, <3>2
  <2>5. Reserved'
    <3> SUFFICES ASSUME NEW v \in drafted', v \notin removed \cup stranded
                 PROVE  \E x \in Name : entry'[x].draft = v
      BY <1>2 DEF Reserved
    <3>1. CASE v = w
      BY <1>1, <2>1, <3>1
    <3>2. CASE v # w
      <4>1. PICK x \in Name : entry[x].draft = v
        BY <1>1, <1>2, <1>6, <3>2 DEF CheckInv, Reserved
      <4>2. v # NoWallet
        BY <1>2, <3>2 DEF Alone, IInv, TypeOK
      <4> QED BY <1>2, <4>1, <4>2
    <3> QED BY <3>1, <3>2
  <2>6. CheckInv'
    BY <2>2, <2>3, <2>4, <2>5 DEF CheckInv
  <2> QED BY <1>1, <1>4, <2>6, AloneWorks
<1> QED BY <1>5, <1>6

LEMMA FundOnlyAlone ==
  ASSUME Alone, NEW c \in Client, NEW n \in Name, FundOnly(c, n)
  PROVE  WorkInv' /\ CheckInv'
<1>1. /\ OneProcess /\ op'[c].pc = "idle" /\ op'[c].kind = "none"
  BY DEF Alone, WorkInv, Working, FundOnly, At
<1>2. Working(op[c])'
  BY <1>1 DEF Working
<1> QED BY <1>1, <1>2, AloneWorks DEF CheckInv, FundOnly

LEMMA CloseAlone ==
  ASSUME Alone, NEW c \in Client, NEW n \in Name, Close(c, n) PROVE WorkInv' /\ CheckInv'
<1>1. /\ OneProcess /\ CheckInv /\ EntryType /\ op[c].pc = "idle" /\ op'[c].pc = "idle"
      /\ op'[c].kind = "none"
  BY DEF Alone, WorkInv, Working, Close, At, IInv, TypeOK, EntryType
<1>2. /\ UNCHANGED <<wallets, removed, stranded, unchecked>>
      /\ drafted' = drafted \ {entry[n].draft}
      /\ entry'[n].draft = NoWallet /\ \A x \in Name \ {n} : entry'[x] = entry[x]
      /\ Stale' = Stale
  BY <1>1 DEF Close, EntryType, Stale
<1>3. Working(op[c])'
  BY <1>1 DEF Working
<1>4. CASE unchecked
  BY <1>1, <1>2, <1>3, <1>4, AloneWorks DEF CheckInv
<1>5. CASE ~unchecked
  <2>1. \A d \in Client : Checked(op[d])'
    BY <1>1 DEF Checked, OneProcess
  <2>2. NoForeignReservation'
    BY <1>1, <1>2, <1>5 DEF CheckInv, NoForeignReservation
  <2>3. AtHome'
    <3> SUFFICES ASSUME NEW x \in Name, entry'[x].draft \notin Stale PROVE Home(x, x)'
      BY <1>2 DEF AtHome
    <3>1. x # n
      BY <1>2 DEF Stale
    <3>2. Home(x, x)
      BY <1>1, <1>2, <1>5, <3>1, OwnName
    <3> QED BY <1>2, <3>1, <3>2 DEF Home
  <2>4. Reserved'
    BY <1>1, <1>2, <1>5 DEF CheckInv, Reserved
  <2>5. CheckInv'
    BY <2>1, <2>2, <2>3, <2>4 DEF CheckInv
  <2> QED BY <1>1, <1>3, <2>5, AloneWorks
<1> QED BY <1>4, <1>5

-----------------------------------------------------------------------------
(* rename_wallet, change_password and remove_wallet.  The entry of a       *)
(* renamed wallet is at home under its new name until it has followed.     *)
LEMMA RenameAlone ==
  ASSUME Alone, NEW c \in Client, NEW n \in Name, NEW m \in Name, Rename(c, n, m)
  PROVE  WorkInv' /\ CheckInv'
<1>1. /\ OneProcess /\ CheckInv /\ IInv /\ WalletsType /\ OpsSound /\ op[c].pc = "idle"
      /\ n # m /\ wallets[m].id = NoWallet
  BY WalletHere DEF Alone, Rename, IInv, TypeOK, WalletsType, At
<1>2. /\ op'[c].pc = "renamed" /\ op'[c].kind = "none" /\ op'[c].name = n /\ op'[c].to = m
  BY <1>1 DEF Rename, OpsSound, Idle
<1>3. /\ UNCHANGED <<entry, histVars>> /\ Stale' = Stale
      /\ wallets'[n] = NoRecord
      /\ wallets'[m].id = wallets[n].id /\ wallets'[m].issued = wallets[n].issued
      /\ \A x \in Name \ {n, m} : wallets'[x] = wallets[x]
  BY <1>1 DEF Rename, WalletsType, Stale, histVars
<1>4. wallets'[m] # NoRecord
  <2>1. wallets[n].id # NoWallet
    BY <1>1, WalletHere DEF Rename
  <2> QED BY <1>3, <2>1 DEF NoRecord
<1>5. Working(op[c])'
  BY <1>1, <1>2, <1>3, <1>4 DEF Working, Exists
<1>6. ASSUME ~unchecked PROVE Checked(op[c])'
  <2>1. ASSUME entry[m].draft \notin Stale PROVE FALSE
    <3>1. Home(m, m)
      BY <1>1, <1>6, <2>1, OwnName
    <3> QED BY <1>1, <2>1, <3>1 DEF Home, Stale
  <2> QED BY <1>2, <1>3, <2>1 DEF Checked
<1>7. CASE unchecked
  BY <1>1, <1>3, <1>5, <1>7, AloneWorks DEF CheckInv, histVars
<1>8. CASE ~unchecked
  <2>1. ASSUME NEW x \in Name, entry[x].draft \notin Stale PROVE \E y \in Name : Home(x, y)'
    <3>1. Home(x, x)
      BY <1>1, <1>8, <2>1, OwnName
    <3>2. x # m
      BY <1>1, <2>1, <3>1 DEF Home, Stale
    <3>3. CASE x = n
      <4>1. Home(n, m)'
        BY <1>2, <1>3, <3>1, <3>3 DEF Home, At
      <4> QED BY <3>3, <4>1
    <3>4. CASE x # n
      BY <1>3, <3>1, <3>2, <3>4 DEF Home
    <3> QED BY <3>3, <3>4
  <2>2. CheckInv'
    BY <1>1, <1>3, <1>6, <2>1, EntriesKept DEF histVars
  <2> QED BY <1>1, <1>5, <2>2, AloneWorks
<1> QED BY <1>7, <1>8

(* An entry that cannot follow is stranded: the lock section failed, or    *)
(* the process died before it.                                             *)
LEMMA StrandAlone ==
  ASSUME Alone, NEW c \in Client, At(c, "renamed"), stranded' = Strand(c),
         UNCHANGED <<wallets, entry, removed, drafted, unchecked>>, Checked(op[c])'
  PROVE  CheckInv'
<1> DEFINE n == op[c].name
           m == op[c].to
<1>1. /\ n \in Name /\ m \in Name /\ OneProcess /\ CheckInv /\ Working(op[c])
      /\ op[c].pc = "renamed"
  BY DEF Alone, WorkInv, IInv, OpsSound, Sound, At
<1>2. wallets[m].id \in Stale' /\ stranded \subseteq stranded'
  BY DEF Stale, Strand
<1>3. CASE unchecked
  BY <1>3 DEF CheckInv
<1>4. CASE ~unchecked
  <2>1. ASSUME NEW x \in Name, entry[x].draft \notin Stale' PROVE Home(x, x)'
    <3>1. entry[x].draft \notin Stale
      BY <1>2, <2>1 DEF Stale
    <3>2. PICK y \in Name : Home(x, y)
      BY <1>1, <1>4, <3>1, OwnName
    <3>3. y # m
      BY <1>2, <2>1, <3>2 DEF Home
    <3>4. y = x
      BY <1>1, <3>2, <3>3 DEF Home, OneProcess
    <3> QED BY <3>2, <3>4 DEF Home
  <2> QED BY <1>1, <1>2, <1>4, <2>1, EntriesKept
<1> QED BY <1>3, <1>4

(* _rename_cache_entry overwrites what it finds under the new name: a      *)
(* draft that no payment will ask for.                                     *)
LEMMA MoveAlone ==
  ASSUME Alone, NEW c \in Client, At(c, "renamed"), MoveEntry(op[c].name, op[c].to),
         UNCHANGED <<wallets, removed, drafted, stranded, unchecked>>,
         op'[c].pc # "renamed", Checked(op[c])'
  PROVE  CheckInv'
<1> DEFINE n == op[c].name
           m == op[c].to
<1>1. /\ n \in Name /\ m \in Name /\ OneProcess /\ CheckInv /\ Working(op[c])
      /\ op[c].pc = "renamed" /\ IInv /\ EntryType /\ drafted \subseteq Wallet
  BY DEF Alone, WorkInv, IInv, OpsSound, Sound, At, TypeOK, EntryType
<1>2. n # m /\ wallets[n].id = NoWallet
  BY <1>1, WalletHere DEF Working
<1>3. /\ Stale' = Stale /\ entry'[n] = NoEntry /\ NoEntry.draft = NoWallet
      /\ entry[n] = NoEntry => entry'[m] = NoEntry
      /\ entry[n] # NoEntry => entry'[m] = [entry[n] EXCEPT !.label = m]
      /\ \A x \in Name \ {n, m} : entry'[x] = entry[x]
  BY <1>1, <1>2 DEF MoveEntry, EntryType, Stale, NoEntry
<1>4. /\ entry'[m].draft = entry[n].draft
      /\ entry'[m].draft # NoWallet =>
           /\ entry'[m].seed = entry[n].seed /\ entry'[m].count = entry[n].count
           /\ entry'[m].label = m
  BY <1>1, <1>3 DEF EntryType
<1>5. CASE unchecked
  BY <1>5 DEF CheckInv
<1>6. CASE ~unchecked
  <2>1. \A d \in Client : Checked(op[d])'
    BY <1>1 DEF OneProcess
  <2>2. NoForeignReservation'
    <3> SUFFICES ASSUME NEW x \in Name, entry'[x].draft # NoWallet
                 PROVE  SeedOf[entry'[x].draft] = entry'[x].seed
      BY DEF NoForeignReservation
    <3>1. CASE x = m
      BY <1>1, <1>4, <1>6, <3>1 DEF CheckInv, NoForeignReservation
    <3>2. CASE x # m
      BY <1>1, <1>3, <1>6, <3>2 DEF CheckInv, NoForeignReservation
    <3> QED BY <3>1, <3>2
  <2>3. AtHome'
    <3> SUFFICES ASSUME NEW x \in Name, entry'[x].draft \notin Stale PROVE Home(x, x)'
      BY <1>3 DEF AtHome
    <3>1. x # n
      BY <1>3 DEF Stale
    <3>2. CASE x = m
      <4>1. Home(n, m)
        BY <1>1, <1>2, <1>4, <1>6, <3>2, OwnName
      <4> QED BY <1>4, <3>2, <4>1 DEF Home, Stale
    <3>3. CASE x # m
      <4>1. Home(x, x)
        BY <1>1, <1>3, <1>6, <3>1, <3>3, OwnName
      <4> QED BY <1>3, <3>1, <3>3, <4>1 DEF Home
    <3> QED BY <3>2, <3>3
  <2>4. Reserved'
    <3> SUFFICES ASSUME NEW w \in drafted, w \notin removed \cup stranded
                 PROVE  \E x \in Name : entry'[x].draft = w
      BY DEF Reserved
    <3>1. PICK x \in Name : entry[x].draft = w
      BY <1>1, <1>6 DEF CheckInv, Reserved
    <3>2. x # m
      BY <1>1, <1>6, <3>1 DEF CheckInv, Checked, Stale
    <3>3. CASE x = n
      BY <1>1, <1>4, <3>1, <3>3
    <3>4. CASE x # n
      BY <1>3, <3>1, <3>2, <3>4
    <3> QED BY <3>3, <3>4
  <2> QED BY <2>1, <2>2, <2>3, <2>4 DEF CheckInv
<1> QED BY <1>5, <1>6

LEMMA RenameCacheAlone ==
  ASSUME Alone, NEW c \in Client, NEW ok, RenameCache(c, ok) PROVE WorkInv' /\ CheckInv'
<1>1. OneProcess /\ OpsSound /\ Working(op[c]) /\ op[c].pc = "renamed"
  BY DEF Alone, WorkInv, IInv, RenameCache, At
<1>2. op'[c].pc = "state" /\ op'[c].kind = "none" /\ op'[c].name = op[c].to
  BY <1>1 DEF RenameCache, OpsSound, Idle
<1>3. wallets'[op[c].to] # NoRecord
  BY <1>1 DEF Working, Exists, RenameCache
<1>4. Working(op[c])' /\ Checked(op[c])'
  BY <1>2, <1>3 DEF Working, Checked, Exists
<1>5. CheckInv'
  BY <1>2, <1>4, MoveAlone, StrandAlone DEF RenameCache
<1> QED BY <1>1, <1>4, <1>5, AloneWorks

LEMMA ChangePasswordAlone ==
  ASSUME Alone, NEW c \in Client, NEW n \in Name, NEW seal, ChangePassword(c, n, seal)
  PROVE  WorkInv' /\ CheckInv'
<1>1. /\ OneProcess /\ OpsSound /\ WalletsType /\ IInv
      /\ \A x \in Name : wallets[x].issued \in Nat
  BY WalletHere DEF Alone, IInv, TypeOK, WalletsType
<1>2. op[c].pc = "idle" /\ op'[c].pc = "state" /\ op'[c].kind = "none" /\ op'[c].name = n
  BY <1>1, StartFields DEF ChangePassword
<1>3. \A x \in Name : wallets'[x].id = wallets[x].id /\ wallets'[x].issued = wallets[x].issued
  BY <1>1 DEF ChangePassword, WalletsType
<1>4. wallets'[n] # NoRecord
  BY <1>1, <1>3, WalletHere DEF ChangePassword, NoRecord
<1>5. Working(op[c])' /\ Checked(op[c])'
  BY <1>2, <1>4 DEF Working, Checked, Exists
<1>6. UNCHANGED <<entry, drafted, unchecked, stranded, removed>>
  BY DEF ChangePassword, histVars
<1>7. CheckInv'
  BY <1>1, <1>2, <1>3, <1>5, <1>6, Quiet
<1> QED BY <1>1, <1>5, <1>7, AloneWorks

LEMMA RemoveAlone ==
  ASSUME Alone, NEW c \in Client, NEW n \in Name, Remove(c, n)
  PROVE  WorkInv' /\ CheckInv'
<1>1. /\ OneProcess /\ OpsSound /\ WalletsType
      /\ \A x \in Name : wallets[x].issued \in Nat
  BY WalletHere DEF Alone, IInv, TypeOK, WalletsType
<1>2. op[c].pc = "idle" /\ op'[c].pc = "removed" /\ op'[c].kind = "none" /\ op'[c].name = n
  BY <1>1, StartFields DEF Remove
<1>3. wallets'[n] = NoRecord /\ \A x \in Name \ {n} : wallets'[x] = wallets[x]
  BY <1>1 DEF Remove, WalletsType
<1>4. Working(op[c])' /\ Checked(op[c])'
  BY <1>2, <1>3 DEF Working, Checked, Exists
<1>5. /\ UNCHANGED <<entry, drafted, unchecked, stranded>> /\ removed \subseteq removed'
      /\ wallets[n].id \in Stale'
  BY DEF Remove, Stale
<1>6. CheckInv'
  BY <1>1, <1>2, <1>3, <1>4, <1>5, Quiet
<1> QED BY <1>1, <1>4, <1>6, AloneWorks

LEMMA RemoveCacheAlone ==
  ASSUME Alone, NEW c \in Client, NEW ok, RemoveCache(c, ok) PROVE WorkInv' /\ CheckInv'
<1>1. /\ op[c].name \in Name /\ Working(op[c]) /\ OpsSound /\ OneProcess /\ IInv
      /\ op[c].pc = "removed" /\ NoWallet \notin drafted
  BY NamedWallet DEF RemoveCache, At, IInv, TypeOK
<1>2. op'[c].pc = "idle" /\ op'[c].kind = "none" /\ UNCHANGED <<wallets, histVars>>
  BY <1>1, ReturnFields DEF RemoveCache
<1>3. wallets[op[c].name].id \notin drafted
  BY <1>1, WalletHere DEF Working
<1>4. Working(op[c])' /\ Checked(op[c])'
  BY <1>2 DEF Working, Checked
<1>5. CheckInv'
  BY <1>1, <1>2, <1>3, <1>4, MaintainAlone DEF RemoveCache
<1> QED BY <1>1, <1>4, <1>5, AloneWorks

LEMMA CrashAlone ==
  ASSUME Alone, NEW c \in Client, Crash(c) PROVE WorkInv' /\ CheckInv'
<1>1. OneProcess /\ OpsSound /\ \A x \in Name : wallets[x].issued \in Nat
  BY WalletHere DEF Alone, IInv
<1>2. op'[c].pc = "idle" /\ op'[c].kind = "none"
  BY <1>1, ReturnFields DEF Crash
<1>3. Working(op[c])' /\ Checked(op[c])'
  BY <1>2 DEF Working, Checked
<1>4. UNCHANGED <<wallets, entry, removed, drafted, unchecked>>
  BY DEF Crash
<1>5. CheckInv'
  <2>1. CASE At(c, "renamed")
    BY <1>3, <1>4, <2>1, StrandAlone DEF Crash
  <2>2. CASE ~At(c, "renamed")
    BY <1>1, <1>3, <1>4, <2>2, Quiet DEF Crash, At
  <2> QED BY <2>1, <2>2
<1> QED BY <1>1, <1>3, <1>5, AloneWorks

-----------------------------------------------------------------------------
(* With one process, a rollback removes the record of its own import.      *)
LEMMA KeptAlone == Alone /\ WalletsKept /\ [Next]_vars => WalletsKept'
<1> SUFFICES ASSUME Alone, WalletsKept, [Next]_vars PROVE WalletsKept'
  OBVIOUS
<1>1. IInv /\ WalletsStep
  BY StepOfWallets DEF Alone
<1>2. CASE RecordStep
  BY <1>1, <1>2, NoRecordLost
<1>3. ASSUME NEW c \in Client, Rollback(c, TRUE) PROVE WalletsKept'
  <2>1. /\ op[c].name \in Name /\ Working(op[c]) /\ WalletsType
        /\ op[c].pc = "rollback" /\ op[c].kind = "import"
    BY <1>3, NamedWallet DEF Rollback, At, OpsSound, Sound
  <2>2. wallets[op[c].name].id = op[c].id
    BY <2>1 DEF Working
  <2> QED BY <1>3, <2>1, <2>2 DEF Rollback, WalletsKept, WalletsType
<1> QED BY <1>1, <1>2, <1>3 DEF WalletsStep

(* Every handler keeps what one process may rely on.                       *)
LEMMA AloneStep == Alone /\ [Next]_vars => WorkInv' /\ CheckInv'
<1> SUFFICES ASSUME Alone, [Next]_vars PROVE WorkInv' /\ CheckInv'
  OBVIOUS
<1>1. CASE UNCHANGED vars
  <2>1. UNCHANGED <<wallets, entry, op, made, removed, drafted, stranded, unchecked>>
    BY <1>1 DEF vars, histVars
  <2>2. WorkInv'
    BY <2>1 DEF Alone, WorkInv, Working, Exists, SeedAt
  <2>3. Stale' = Stale /\ NoForeignReservation' = NoForeignReservation /\ Reserved' = Reserved
    BY <2>1 DEF Stale, NoForeignReservation, Reserved
  <2>4. \A c \in Client : Checked(op[c])' = Checked(op[c])
    BY <2>1, <2>3 DEF Checked, SeedAt
  <2>5. AtHome' = AtHome
    BY <2>1, <2>3 DEF AtHome, Home, At
  <2> QED BY <2>1, <2>2, <2>3, <2>4, <2>5 DEF Alone, CheckInv
<1>2. ASSUME NEW c \in Client, Making(c) PROVE WorkInv' /\ CheckInv'
  <2>1. ASSUME NEW n \in Name, NEW w \in Wallet, NEW seal,
               Create(c, n, w, seal) \/ CreateOnly(c, n, w, seal) \/ Import(c, n, w, seal)
        PROVE  WorkInv' /\ CheckInv'
    BY <2>1, CreateAlone
  <2>2. CASE CreateIssue(c) \/ ImportClean(c) \/ \E k \in Count : Discover(c, k)
    BY <2>2, CreateIssueAlone, ImportCleanAlone, DiscoverAlone
  <2>3. CASE \E ok \in BOOLEAN : CreateClean(c, ok) \/ Rollback(c, ok) \/ RollbackCache(c, ok)
    BY <2>3, CreateCleanAlone, RollbackAlone, RollbackCacheAlone
  <2> QED BY <1>2, <2>1, <2>2, <2>3 DEF Making
<1>3. ASSUME NEW c \in Client, Syncing(c) PROVE WorkInv' /\ CheckInv'
  <2>1. CASE \E n \in Name :
               SyncOnly(c, n) \/ \E kind \in {"sync", "prepare"} : Sync(c, n, kind)
    BY <2>1, SyncAlone, SyncOnlyAlone
  <2>2. CASE ReadIdentity(c) \/ ScanBook(c) \/ DiscardStale(c) \/ MarkUsed(c) \/ Merge(c)
    BY <2>2, ReadBookAlone, DiscardStaleAlone, MarkUsedAlone, MergeAlone
  <2>3. CASE Fail(c) \/ \E more \in BOOLEAN : ReadState(c, more)
    BY <2>3, FailAlone, ReadStateAlone
  <2> QED BY <1>3, <2>1, <2>2, <2>3 DEF Syncing
<1>4. ASSUME NEW c \in Client, Paying(c) PROVE WorkInv' /\ CheckInv'
  BY <1>4, FundAlone, FundOnlyAlone, CloseAlone DEF Paying
<1>5. ASSUME NEW c \in Client, Changing(c) PROVE WorkInv' /\ CheckInv'
  BY <1>5, RenameAlone, RenameCacheAlone, ChangePasswordAlone, RemoveAlone, RemoveCacheAlone
     DEF Changing
<1>6. ASSUME NEW c \in Client, Crash(c) PROVE WorkInv' /\ CheckInv'
  BY <1>6, CrashAlone
<1> QED BY <1>1, <1>2, <1>3, <1>4, <1>5, <1>6 DEF Next

(* One process at a time keeps every part of the invariant, for every set  *)
(* of names and records.                                                   *)
LEMMA AloneInductive ==
  ASSUME OneProcess PROVE Spec => [](IInv /\ AloneInv)
<1>1. Init => IInv /\ AloneInv
  BY InitIInv, InitAlone
<1>2. IInv /\ AloneInv /\ [Next]_vars => (IInv /\ AloneInv)'
  BY Inductive, AloneStep, KeptAlone DEF Alone, AloneInv
<1> QED BY <1>1, <1>2, PTL DEF Spec

(* README "cache maintenance isolates stale entries": as long as every     *)
(* command identified the entry it used, no draft of one wallet is in the  *)
(* entry of another that took its name, whatever cache maintenance failed  *)
(* or never came (_discard_stale_cache_entry).                             *)
THEOREM ReservationsChecked ==
  ASSUME OneProcess
  PROVE  Spec => []CheckedReservations
<1>1. AloneInv => CheckedReservations
  BY DEF AloneInv, CheckInv, CheckedReservations
<1> QED BY AloneInductive, <1>1, PTL

(* README "Reservations survive restart and never expire implicitly": the  *)
(* draft of a wallet stays in the entry of its name, or in the entry that  *)
(* its rename is about to move, through crashes, syncs, renames and the    *)
(* reuse of names (src/wallet/service.py).                                 *)
THEOREM ReservationsStay ==
  ASSUME OneProcess
  PROVE  Spec => []ReservationsSurvive
<1>1. IInv /\ AloneInv => ReservationsSurvive
  <2> SUFFICES ASSUME IInv, CheckInv, ~unchecked,
                      NEW w \in drafted \ (removed \cup stranded)
               PROVE  \E n \in Name :
                        /\ entry[n].draft = w
                        /\ \/ wallets[n].id = w
                           \/ \E c \in Client : /\ At(c, "renamed") /\ op[c].name = n
                                                /\ wallets[op[c].to].id = w
    BY DEF AloneInv, ReservationsSurvive
  <2>1. PICK n \in Name : entry[n].draft = w
    BY DEF CheckInv, Reserved
  <2>2. w \notin Stale
    BY DEF IInv, TypeOK, Stale
  <2>3. PICK m \in Name : Home(n, m)
    BY <2>1, <2>2 DEF CheckInv, AtHome
  <2> QED BY <2>1, <2>3 DEF Home
<1> QED BY AloneInductive, <1>1, PTL

(* With imports and their rollbacks too, no wallet is lost but to its own  *)
(* removal or its own rollback - as long as no other process can reuse the *)
(* name of an import that failed (_rollback_import).                       *)
THEOREM WalletsStayAlone ==
  ASSUME OneProcess
  PROVE  Spec => []WalletsKept
<1>1. AloneInv => WalletsKept
  BY DEF AloneInv
<1> QED BY AloneInductive, <1>1, PTL

=============================================================================
