----------------------------- MODULE AddressBook -----------------------------
(***************************************************************************)
(* The address book of one account of a wallet: receive addresses shown to *)
(* the user (get_receive_address of src/wallet/service.py, two lock        *)
(* sections and no lock between them), change addresses issued by signing, *)
(* the used flags a sync sets, and the discovery of an account's history,  *)
(* one request per address and no lock held: enable_account stores what it *)
(* found in this book, an import of the same mnemonic in that of another   *)
(* wallet.                                                                 *)
(***************************************************************************)
EXTENDS Integers, FiniteSetsExt

CONSTANTS
  Client,      \* processes that ask for a receive address
  IndexLimit,  \* child indexes are 0 .. IndexLimit - 1 (2^31 in the code)
  GapLimit,    \* gap_limit (20)
  ScanLimit,   \* discovery_max_addresses (10000)
  DraftLimit,  \* change indexes that drafts may take
  Earlier      \* what histories the mnemonic may bring from an earlier wallet

ASSUME BookAssumption ==
  /\ IsFiniteSet(Client)
  /\ IndexLimit \in Nat /\ GapLimit \in Nat \ {0} /\ ScanLimit \in Nat
  /\ DraftLimit \in Nat
  /\ Earlier \subseteq [{"receive", "change"} -> SUBSET (0 .. IndexLimit - 1)]

VARIABLES
  next,    \* next_receive_index, next_change_index
  used,    \* receive indexes marked used
  shown,   \* receive indexes the user has been given
  hist,    \* indexes with history on the network, by branch
  asked,   \* history: receive indexes issued though no used one called for them:
           \* by getnewaddress, or the first of an enabled account
  draft,   \* change index of the signed draft, or none
  ask,     \* get_receive_address of each client
  find     \* _discover_account_addresses, here or by an import elsewhere

vars == <<next, used, shown, hist, asked, draft, ask, find>>

Branch == {"receive", "change"}
Index == 0 .. IndexLimit - 1
None == -1
Issued(b) == 0 .. next[b] - 1

Idle == [pc |-> "idle", target |-> 0]
NoFind == [pc |-> "none", into |-> "here", branch |-> "receive", index |-> 0,
           unused |-> 0, found |-> [b \in Branch |-> {}],
           start |-> [b \in Branch |-> {}]]

(* Types, and: whatever has history or a flag was issued, here or earlier.  *)
TypeOK ==
  /\ next \in [Branch -> 0 .. IndexLimit]
  /\ used \subseteq hist.receive \cap Issued("receive")
  /\ shown \subseteq Issued("receive")
  /\ \E old \in Earlier :
       /\ hist.receive \subseteq shown \cup old.receive
       /\ hist.change \subseteq Issued("change") \cup old.change
  /\ asked \subseteq Issued("receive")
  /\ draft \in Issued("change") \cup {None}
  /\ ask \in [Client -> [pc : {"idle", "first", "issue", "failed"},
                         target : 0 .. IndexLimit]]
  /\ find \in [pc : {"none", "scan", "done"}, into : {"here", "elsewhere"},
               branch : Branch, index : 0 .. ScanLimit, unused : 0 .. GapLimit,
               found : [Branch -> SUBSET Nat], start : [Branch -> SUBSET Index]]

-----------------------------------------------------------------------------
Init ==
  /\ next = [b \in Branch |-> 0]
  /\ used = {} /\ shown = {} /\ hist \in Earlier
  /\ asked = {} /\ draft = None
  /\ ask = [c \in Client |-> Idle]
  /\ find = NoFind

(* _next_receive_index: the first index after the last used one.           *)
NextReceive == Max(used \cup {None}) + 1

\* Mutant of ReceiveRead: an address issued but not used is not shown again.
ReceiveReadFresh(c) ==
  /\ ask[c].pc = "idle"
  /\ ask' = [ask EXCEPT ![c].pc = "first"]
  /\ UNCHANGED <<next, used, shown, hist, asked, draft, find>>

\* get_receive_address reads the address book.
ReceiveRead(c) ==
  /\ ask[c].pc = "idle"
  /\ IF next.receive = 0 THEN
       /\ ask' = [ask EXCEPT ![c].pc = "first"]
       /\ UNCHANGED shown
     ELSE IF NextReceive \in Issued("receive") THEN
       /\ shown' = shown \cup {NextReceive}
       /\ UNCHANGED ask
     ELSE
       /\ ask' = [ask EXCEPT ![c] = [pc |-> "issue", target |-> NextReceive]]
       /\ UNCHANGED shown
  /\ UNCHANGED <<next, used, hist, asked, draft, find>>

\* Mutant of Issue: no limit on the index.
IssueUnbounded(b) == next' = [next EXCEPT ![b] = @ + 1]

\* _issue_next_address.
Issue(b) ==
  /\ next[b] < IndexLimit
  /\ next' = [next EXCEPT ![b] = @ + 1]

\* In an empty book any new address will do; otherwise addresses are issued
\* up to the target, and passing it is an error.
ReceiveIssue(c) ==
  LET created == next.receive
      wanted == ask[c].pc = "first" \/ created = ask[c].target
  IN  /\ ask[c].pc \in {"first", "issue"}
      /\ Issue("receive")
      /\ shown' = IF wanted THEN shown \cup {created} ELSE shown
      /\ ask' = [ask EXCEPT ![c] =
           IF wanted THEN Idle
           ELSE IF created < ask[c].target THEN @ ELSE [@ EXCEPT !.pc = "failed"]]
      /\ UNCHANGED <<used, hist, asked, draft, find>>

\* The caller sees the error and may ask again; a process may also stop.
ReceiveAgain(c) ==
  /\ ask[c].pc # "idle"
  /\ ask' = [ask EXCEPT ![c] = Idle]
  /\ UNCHANGED <<next, used, shown, hist, asked, draft, find>>

GetNewAddress ==
  /\ Issue("receive")
  /\ asked' = asked \cup {next.receive}
  /\ shown' = shown \cup {next.receive}
  /\ UNCHANGED <<used, hist, draft, ask, find>>

\* External: somebody pays to an address the user was given.
Pay(i) ==
  /\ i \in shown
  /\ hist' = [hist EXCEPT !.receive = @ \cup {i}]
  /\ UNCHANGED <<next, used, shown, draft, ask, find, asked>>

\* A sync marks what it saw, which may be less than there is by now.
MarkUsed(S) ==
  /\ S \subseteq hist.receive \cap Issued("receive")
  /\ used' = used \cup S
  /\ UNCHANGED <<next, shown, hist, asked, draft, ask, find>>

-----------------------------------------------------------------------------
(* The change branch, as PaymentDraft drives it.                           *)

SignDraft ==
  /\ draft = None /\ next.change < DraftLimit
  /\ draft' = next.change
  /\ Issue("change")
  /\ UNCHANGED <<used, shown, hist, asked, ask, find>>

CancelDraft ==
  /\ draft # None
  /\ draft' = None
  /\ UNCHANGED <<next, used, shown, hist, asked, ask, find>>

BroadcastDraft ==
  /\ draft # None
  /\ draft' = None
  /\ hist' = [hist EXCEPT !.change = @ \cup {draft}]
  /\ UNCHANGED <<next, used, shown, ask, find, asked>>

-----------------------------------------------------------------------------
(* _discover_branch, for the receive branch and then for the change branch. *)

EmptyBook == \A b \in Branch : next[b] = 0

\* enable_account reads the book without a lock on it; an account that has
\* addresses is taken to be enabled.  An import works on a new record.
FindBegin(into) ==
  /\ find.pc # "scan"
  /\ into = "here" => EmptyBook
  /\ find' = [NoFind EXCEPT !.pc = "scan", !.into = into, !.start = hist]
  /\ UNCHANGED <<next, used, shown, hist, asked, draft, ask>>

Enabling == find.pc = "scan" /\ find.into = "here"
Scanning == find.pc = "scan" /\ find.unused < GapLimit

FindQuery ==
  LET b == find.branch  hit == find.index \in hist[b] IN
  /\ Scanning /\ find.index < ScanLimit
  /\ find' = [find EXCEPT
       !.index = @ + 1,
       !.unused = IF hit THEN 0 ELSE @ + 1,
       !.found[b] = IF hit THEN @ \cup {find.index} ELSE @]
  /\ UNCHANGED <<next, used, shown, hist, asked, draft, ask>>

\* The safety limit, an error of the backend, or the end of the process.
FindFails ==
  /\ Scanning
  /\ find' = NoFind
  /\ UNCHANGED <<next, used, shown, hist, asked, draft, ask>>

FindChange ==
  /\ find.pc = "scan" /\ find.unused = GapLimit /\ find.branch = "receive"
  /\ find' = [find EXCEPT !.branch = "change", !.index = 0, !.unused = 0]
  /\ UNCHANGED <<next, used, shown, hist, asked, draft, ask>>

Found == find.pc = "scan" /\ find.unused = GapLimit /\ find.branch = "change"
AfterLast(b) == Max(find.found[b] \cup {None}) + 1

ImportCommit ==
  /\ Found /\ find.into = "elsewhere"
  /\ find' = [find EXCEPT !.pc = "done"]
  /\ UNCHANGED <<next, used, shown, hist, asked, draft, ask>>

\* commit_discovered_addresses: both branches up to the last used index, and
\* one receive address more, which is shown.
StoreFound ==
  /\ next' = [receive |-> AfterLast("receive") + 1, change |-> AfterLast("change")]
  /\ used' = find.found.receive
  /\ shown' = shown \cup {AfterLast("receive")}
  /\ find' = [find EXCEPT !.pc = "done"]
  /\ asked' = asked \cup {AfterLast("receive")}

\* Mutant of Store: the change branch ends at its last used index.
StoreFoundShort ==
  /\ next' = [receive |-> AfterLast("receive") + 1,
              change |-> Max(find.found.change \cup {0})]
  /\ used' = find.found.receive
  /\ shown' = shown \cup {AfterLast("receive")}
  /\ find' = [find EXCEPT !.pc = "done"]
  /\ asked' = asked \cup {AfterLast("receive")}

StoreShort == IF EmptyBook THEN StoreFoundShort
              ELSE find' = NoFind /\ UNCHANGED <<next, used, shown, asked>>

\* Mutant of Store: the book is not read again under the lock.
StoreUnchecked == StoreFound

Store == IF EmptyBook THEN StoreFound
         ELSE find' = NoFind /\ UNCHANGED <<next, used, shown, asked>>

EnableCommit ==
  /\ Found /\ Enabling
  /\ Store
  /\ UNCHANGED <<hist, draft, ask>>

Receive(c) == ReceiveRead(c) \/ ReceiveIssue(c) \/ ReceiveAgain(c)
Change == SignDraft \/ CancelDraft \/ BroadcastDraft
Discovery ==
  \/ \E into \in {"here", "elsewhere"} : FindBegin(into)
  \/ FindQuery \/ FindFails \/ FindChange \/ ImportCommit \/ EnableCommit

Next ==
  \/ \E c \in Client : Receive(c)
  \/ GetNewAddress
  \/ \E i \in Index : Pay(i)
  \/ \E S \in SUBSET Index : MarkUsed(S)
  \/ Change \/ Discovery

Spec == Init /\ [][Next]_vars

-----------------------------------------------------------------------------
(* Safety.                                                                 *)

\* The user had getnewaddress open the gap before index i: of the indexes from
\* GapLimit before it to itself, the processes that ask for a receive address
\* at once cannot have issued all the others.
OpenedByHand(i) ==
  Cardinality(asked \cap i - GapLimit .. i) + Cardinality(Client) > GapLimit

(* As long as no more processes than the gap limit ask for a receive       *)
(* address at once, the program leaves no gap of itself: whatever receive  *)
(* address an import misses, which had history when it began, is behind a  *)
(* gap opened by getnewaddress, which nothing bounds (or by the first      *)
(* address of an enabled account).  Processes add up with it only so far   *)
(* as each of them may issue one address ahead.                            *)
ImportFindsReceived ==
  LET missed == find.start.receive \ find.found.receive
  IN  find.pc = "done" =>
        \A j \in missed : \E i \in missed : i <= j /\ OpenedByHand(i)

(* README "historical addresses do not need to be manually recreated": an  *)
(* import finds every receive address that had history when it began.      *)
ImportFindsAllReceived ==
  find.pc = "done" => find.start.receive \subseteq find.found.receive

(* The same of the change branch.                                          *)
ImportFindsChange ==
  find.pc = "done" => find.start.change \subseteq find.found.change

(* enable_account "Discover an empty account once": once it has stored its *)
(* discovery, the history of an earlier wallet of the mnemonic is in the   *)
(* book, no address shown has a part in it, and no signature takes a       *)
(* change address of it.                                                   *)
EnabledStartsFresh ==
  find.pc = "done" /\ find.into = "here" =>
    /\ find.start.receive \subseteq used /\ shown \cap find.start.receive = {}
    /\ find.start.change \subseteq Issued("change") /\ draft \notin find.start.change

(* The discovery holds no lock while it asks the backend: whatever other   *)
(* processes issue, show and mark in between stays in the book.            *)
IssuedStays ==
  [][(\A b \in Branch : next[b] <= next'[b]) /\ used \subseteq used']_vars

(* enable_account: "A non-empty address book proves that the account was   *)
(* already enabled", so the history of an earlier wallet is in it.         *)
NonEmptyProvesEnabled == ~EmptyBook => hist.receive \subseteq Issued("receive")

(* get_receive_address: "Return index zero or the first receive address    *)
(* after the last used one": it does return one.                           *)
ReceiveAnswers == \A c \in Client : ask[c].pc # "failed"
=============================================================================
