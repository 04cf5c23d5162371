------------------------- MODULE AddressBook_proofs -------------------------
(* Proofs about AddressBook, for any number of processes and any limits:     *)
(* what is issued stays, and an enabled account starts past the history of   *)
(* the earlier wallet.  The discovery reads the backend for a long time and  *)
(* the book only at its two ends, so what is proved of it holds as long as   *)
(* the book is still empty, which is what commit_discovered_addresses checks *)
(* again under its lock.  How wide the gaps of shown addresses get counts    *)
(* the processes that may show addresses at the same time, by induction on   *)
(* the number of addresses and of processes.                                 *)
EXTENDS AddressBook, FiniteSetTheorems, WellFoundedInduction, TLAPS

(* The natural numbers have a well-founded relation that < is part of.        *)
LEMMA NatMin ==
  \E R : /\ IsWellFoundedOn(R, Nat)
         /\ \A x, y \in Nat : y < x => <<y, x>> \in R
<1>1. IsWellFoundedOn(OpToRel(<, Nat), Nat)
  BY NatLessThanWellFounded, Zenon
<1>2. \A x, y \in Nat : y < x => <<y, x>> \in OpToRel(<, Nat)
  BY DEF OpToRel
<1> QED BY <1>1, <1>2, Zenon

(* A nonempty set of naturals below a bound has a greatest element.           *)
LEMMA Greatest ==
  ASSUME NEW n \in Nat, NEW S \in SUBSET (0 .. n - 1), S # {}
  PROVE  \E m \in S : \A x \in S : x <= m
<1>1. PICK R : /\ IsWellFoundedOn(R, Nat)
               /\ \A x, y \in Nat : y < x => <<y, x>> \in R
  BY NatMin
<1> DEFINE T == {n - x : x \in S}
<1>2. \A x \in S : n - x \in Nat
  OBVIOUS
<1>3. T \subseteq Nat /\ T # {}
  BY <1>2
<1>4. PICK t \in T : \A y \in T : ~ (<<y, t>> \in R)
  <2> HIDE DEF T
  <2> QED BY <1>1, <1>3, WFMin
<1>5. \A y \in T : t <= y
  <2> SUFFICES ASSUME NEW y \in T, ~(t <= y) PROVE FALSE
    OBVIOUS
  <2>1. y \in Nat /\ t \in Nat
    BY <1>3
  <2>2. y < t
    <3> HIDE DEF T
    <3> QED BY <2>1
  <2>3. <<y, t>> \in R
    BY <1>1, <2>1, <2>2
  <2> QED BY <1>4, <2>3
<1>6. PICK m \in S : t = n - m
  OBVIOUS
<1>7. \A x \in S : n - m <= n - x
  BY <1>5, <1>6
<1> QED BY <1>6, <1>7

(* One past the last of a bounded set, 0 if it is empty: the next index of    *)
(* _discover_branch and _next_receive_index is outside the set and above it.  *)
LEMMA PastLast ==
  ASSUME NEW n \in Nat, NEW S \in SUBSET (0 .. n - 1)
  PROVE  /\ Max(S \cup {None}) + 1 \in Nat
         /\ S \subseteq 0 .. (Max(S \cup {None}) + 1) - 1
         /\ Max(S \cup {None}) + 1 \notin S
<1>1. \E m \in S \cup {None} : \A x \in S \cup {None} : m >= x
  <2>1. CASE S = {}
    BY <2>1 DEF None
  <2>2. CASE S # {}
    <3>1. PICK m \in S : \A x \in S : x <= m
      BY <2>2, Greatest
    <3> QED BY <3>1 DEF None
  <2> QED BY <2>1, <2>2
<1> DEFINE m == Max(S \cup {None})
<1>2. m \in S \cup {None} /\ \A x \in S \cup {None} : m >= x
  BY <1>1 DEF Max
<1> HIDE DEF m
<1>3. m + 1 \in Nat /\ S \subseteq 0 .. (m + 1) - 1 /\ m + 1 \notin S
  BY <1>2 DEF None
<1> QED BY <1>3 DEF m

(* A discovery's findings end somewhere.                                      *)
Bounded(S) == \E n \in Nat : S \subseteq 0 .. n - 1

(* Used and shown addresses, and the index of a draft, have been issued.      *)
BookInv ==
  /\ next \in [Branch -> Nat]
  /\ used \subseteq Issued("receive") /\ shown \subseteq Issued("receive")
  /\ draft \in Issued("change") \cup {None}

(* The type of a discovery in progress, and of the history it reads.          *)
FindTypes ==
  /\ hist \in [Branch -> SUBSET Nat]
  /\ find \in [pc : {"none", "scan", "done"}, into : {"here", "elsewhere"},
               branch : Branch, index : Nat, unused : Nat,
               found : [Branch -> SUBSET Nat], start : [Branch -> SUBSET Nat]]
  /\ \A b \in Branch : Bounded(find.found[b])

(* Nobody pays to an address of an empty book: its history is the earlier     *)
(* wallet's.                                                                  *)
EarlyInv == EmptyBook => hist \in Earlier

(* A discovery into a book that is still empty reads a history that does not  *)
(* move: it has found all of it below the index, and the receive branch is    *)
(* complete once it reads the change branch.                                  *)
HereInv ==
  Enabling /\ EmptyBook =>
    /\ find.start = hist
    /\ find.found[find.branch] = hist[find.branch] \cap 0 .. find.index - 1
    /\ find.unused <= find.index
    /\ \A k \in find.index - find.unused .. find.index - 1 : k \notin hist[find.branch]
    /\ find.branch = "receive" => find.found["change"] = {}
    /\ find.branch = "change" => find.found["receive"] = hist["receive"]

(* What every step preserves, whatever the earlier wallet left behind.        *)
IInv == BookInv /\ FindTypes /\ EarlyInv

(* What BIP 44 asks of a wallet, and the gap limit relies on: an earlier      *)
(* wallet left no gap of GapLimit unused addresses before a used one.         *)
GapsSmall ==
  \A old \in Earlier, b \in Branch, i \in Nat :
    (\A k \in i .. i + GapLimit - 1 : k \notin old[b]) => \A k \in old[b] : k < i

(* What every step preserves when the gaps are small.                         *)
FreshInv == IInv /\ HereInv /\ EnabledStartsFresh

USE BookAssumption

(* An empty book has shown nothing and has no draft.                          *)
LEMMA EmptyMeans == ASSUME BookInv, EmptyBook
                    PROVE  used = {} /\ shown = {} /\ draft = None
BY DEF BookInv, EmptyBook, Issued, Branch

(* A new record satisfies all of it.                                          *)
LEMMA InitInv == Init => FreshInv
<1> SUFFICES ASSUME Init PROVE FreshInv
  OBVIOUS
<1> USE DEF Init, Branch
<1>1. BookInv
  BY DEF BookInv, Issued
<1>2. FindTypes
  <2>1. hist \in [Branch -> SUBSET Nat]
    OBVIOUS
  <2>2. NoFind \in [pc : {"none", "scan", "done"}, into : {"here", "elsewhere"},
               branch : Branch, index : Nat, unused : Nat,
               found : [Branch -> SUBSET Nat], start : [Branch -> SUBSET Nat]]
    BY DEF NoFind
  <2>3. \A b \in Branch : Bounded(NoFind.found[b])
    BY DEF NoFind, Bounded
  <2> QED BY <2>1, <2>2, <2>3 DEF FindTypes
<1>3. EarlyInv /\ HereInv /\ EnabledStartsFresh
  BY DEF EarlyInv, HereInv, Enabling, EnabledStartsFresh, NoFind
<1> QED BY <1>1, <1>2, <1>3 DEF FreshInv, IInv

-----------------------------------------------------------------------------

(* Counters and used flags never go back.                                     *)
Grows == (\A b \in Branch : next[b] <= next'[b]) /\ used \subseteq used'

(* A step that leaves the discovery alone, keeps the book well-typed and does *)
(* not change the history of an empty book preserves IInv and HereInv.        *)
LEMMA BookOnly ==
  ASSUME IInv, find' = find, BookInv', Grows,
         hist' \in [Branch -> SUBSET Nat], EmptyBook => hist' = hist
  PROVE  IInv' /\ (HereInv => HereInv')
<1>1. EmptyBook' => EmptyBook
  BY DEF Grows, EmptyBook, IInv, BookInv
<1>2. FindTypes' /\ EarlyInv'
  BY <1>1 DEF IInv, FindTypes, EarlyInv
<1>3. HereInv => HereInv'
  BY <1>1 DEF HereInv, Enabling
<1> QED BY <1>2, <1>3 DEF IInv

(* _issue_next_address adds one index to its branch.                          *)
LEMMA IssueGrows ==
  ASSUME BookInv, NEW b \in Branch, Issue(b)
  PROVE  /\ next' \in [Branch -> Nat] /\ next'[b] = next[b] + 1
         /\ \A d \in Branch : next[d] <= next'[d]
  BY DEF Issue, BookInv

(* What is issued stays issued while counters grow.                           *)
LEMMA StillIssued ==
  ASSUME BookInv, next' \in [Branch -> Nat], \A b \in Branch : next[b] <= next'[b]
  PROVE  \A b \in Branch : Issued(b) \subseteq Issued(b)'
  BY DEF Issued, BookInv

(* get_receive_address and getnewaddress show an address that is new or past  *)
(* the last used one, so never one with history of an earlier wallet.         *)
LEMMA ReceiveStep ==
  ASSUME IInv, (\E c \in Client : Receive(c)) \/ GetNewAddress
  PROVE  IInv' /\ Grows /\ (HereInv => HereInv')
         /\ (EnabledStartsFresh => EnabledStartsFresh')
<1> USE DEF Branch
<1>1. /\ BookInv' /\ Grows /\ find' = find /\ hist' = hist /\ draft' = draft /\ used' = used
      /\ shown' \subseteq shown \cup {next["receive"], NextReceive}
  <2>1. BookInv
    BY DEF IInv
  <2>2. CASE \E c \in Client : ReceiveRead(c)
    <3>1. /\ UNCHANGED <<next, used, draft, hist, find>>
          /\ \/ shown' = shown
             \/ shown' = shown \cup {NextReceive} /\ NextReceive \in Issued("receive")
      BY <2>2 DEF ReceiveRead
    <3> HIDE DEF NextReceive
    <3>2. Issued("receive")' = Issued("receive") /\ Issued("change")' = Issued("change")
      BY <3>1 DEF Issued
    <3>3. BookInv' /\ shown' \subseteq shown \cup {next["receive"], NextReceive}
      BY <2>1, <3>1, <3>2 DEF BookInv, None
    <3>4. Grows
      BY <2>1, <3>1 DEF BookInv, Grows
    <3> QED BY <3>1, <3>3, <3>4
  <2>3. CASE \E c \in Client : ReceiveAgain(c)
    BY <2>1, <2>3 DEF ReceiveAgain, BookInv, Grows, Issued, None
  <2>4. CASE (\E c \in Client : ReceiveIssue(c)) \/ GetNewAddress
    <3>1. /\ Issue("receive") /\ UNCHANGED <<used, draft, hist, find>>
          /\ shown' = shown \/ shown' = shown \cup {next["receive"]}
      BY <2>4 DEF ReceiveIssue, GetNewAddress
    <3>2. /\ next' \in [Branch -> Nat] /\ next'["receive"] = next["receive"] + 1
          /\ \A d \in Branch : next[d] <= next'[d]
      BY <2>1, <3>1, IssueGrows
    <3>3. /\ Issued("receive") \subseteq Issued("receive")'
          /\ Issued("change") \subseteq Issued("change")'
          /\ next["receive"] \in Issued("receive")'
      BY <2>1, <3>2, StillIssued DEF BookInv, Issued
    <3>4. BookInv' /\ shown' \subseteq shown \cup {next["receive"], NextReceive}
      BY <2>1, <3>1, <3>2, <3>3 DEF BookInv, None
    <3>5. Grows
      BY <3>1, <3>2 DEF Grows
    <3> QED BY <3>1, <3>4, <3>5
  <2> QED BY <2>2, <2>3, <2>4 DEF Receive
<1>2. hist' \in [Branch -> SUBSET Nat]
  BY <1>1 DEF IInv, FindTypes
<1>3. next["receive"] \notin used /\ NextReceive \notin used
  <2>1. next["receive"] \in Nat /\ used \in SUBSET (0 .. next["receive"] - 1)
    BY DEF IInv, BookInv, Issued
  <2>2. Max(used \cup {None}) + 1 \notin used
    BY <2>1, PastLast
  <2> QED BY <2>1, <2>2 DEF NextReceive
<1>4. EnabledStartsFresh => EnabledStartsFresh'
  <2>1. Issued("change") \subseteq Issued("change")'
    BY <1>1 DEF IInv, BookInv, Grows, Issued
  <2> QED BY <1>1, <1>3, <2>1 DEF EnabledStartsFresh
<1> QED BY <1>1, <1>2, <1>4, BookOnly

(* A payment to a shown address changes the history of a nonempty book only.  *)
LEMMA PayStep ==
  ASSUME IInv, NEW i \in Index, Pay(i)
  PROVE  IInv' /\ Grows /\ (HereInv => HereInv')
         /\ (EnabledStartsFresh => EnabledStartsFresh')
<1> USE DEF Pay, Branch
<1>1. BookInv' /\ Grows
  BY DEF IInv, BookInv, Grows, Issued, None
<1>2. hist' \in [Branch -> SUBSET Nat]
  BY DEF IInv, FindTypes, Index
<1>3. EmptyBook => hist' = hist
  BY EmptyMeans DEF IInv
<1>4. EnabledStartsFresh => EnabledStartsFresh'
  BY DEF EnabledStartsFresh, Issued
<1> QED BY <1>1, <1>2, <1>3, <1>4, BookOnly

(* A sync marks more addresses used.                                          *)
LEMMA MarkStep ==
  ASSUME IInv, NEW S, MarkUsed(S)
  PROVE  IInv' /\ Grows /\ (HereInv => HereInv')
         /\ (EnabledStartsFresh => EnabledStartsFresh')
<1> USE DEF MarkUsed, Branch
<1>1. BookInv' /\ Grows
  <2>1. Issued("receive")' = Issued("receive") /\ Issued("change")' = Issued("change")
    BY DEF Issued
  <2>2. BookInv'
    BY <2>1 DEF IInv, BookInv, None
  <2>3. Grows
    BY DEF Grows, IInv, BookInv
  <2> QED BY <2>2, <2>3
<1>2. hist' \in [Branch -> SUBSET Nat]
  BY DEF IInv, FindTypes
<1>3. EnabledStartsFresh => EnabledStartsFresh'
  BY DEF EnabledStartsFresh, Issued
<1> QED BY <1>1, <1>2, <1>3, BookOnly

(* Signing takes the next change index, which is past the earlier history.    *)
LEMMA ChangeStep ==
  ASSUME IInv, Change
  PROVE  IInv' /\ Grows /\ (HereInv => HereInv')
         /\ (EnabledStartsFresh => EnabledStartsFresh')
<1> USE DEF Branch
<1>1. BookInv
  BY DEF IInv
<1>2. CASE SignDraft
  <2>1. /\ Issue("change") /\ draft' = next["change"]
        /\ UNCHANGED <<used, shown, hist, find>>
    BY <1>2 DEF SignDraft
  <2>2. /\ next' \in [Branch -> Nat] /\ next'["change"] = next["change"] + 1
        /\ \A d \in Branch : next[d] <= next'[d]
    BY <1>1, <2>1, IssueGrows
  <2>3. BookInv' /\ Grows
    BY <1>1, <2>1, <2>2 DEF BookInv, Grows, Issued
  <2>4. EnabledStartsFresh => EnabledStartsFresh'
    <3>1. Issued("change") \subseteq Issued("change")' /\ next["change"] \notin Issued("change")
      BY <1>1, <2>2 DEF Issued, BookInv
    <3> QED BY <2>1, <3>1 DEF EnabledStartsFresh
  <2>5. hist' \in [Branch -> SUBSET Nat]
    BY <2>1 DEF IInv, FindTypes
  <2> QED BY <2>1, <2>3, <2>4, <2>5, BookOnly
<1>3. CASE CancelDraft \/ BroadcastDraft
  <2>1. /\ draft' = None /\ draft # None /\ UNCHANGED <<next, used, shown, find>>
        /\ hist' = hist \/ hist' = [hist EXCEPT !.change = @ \cup {draft}]
    BY <1>3 DEF CancelDraft, BroadcastDraft
  <2>2. BookInv' /\ Grows
    BY <1>1, <2>1 DEF BookInv, Grows, Issued, None
  <2>3. draft \in Nat
    BY <1>1, <2>1 DEF BookInv, Issued
  <2>4. hist' \in [Branch -> SUBSET Nat]
    BY <2>1, <2>3 DEF IInv, FindTypes
  <2>5. EmptyBook => hist' = hist
    BY <1>1, <2>1, EmptyMeans
  <2>6. EnabledStartsFresh => EnabledStartsFresh'
    <3>1. find.start \in [Branch -> SUBSET Nat]
      BY DEF IInv, FindTypes
    <3>2. None \notin find.start["change"]
      BY <3>1 DEF None
    <3> QED BY <2>1, <3>2 DEF EnabledStartsFresh, Issued
  <2> QED BY <2>1, <2>2, <2>4, <2>5, <2>6, BookOnly
<1> QED BY <1>2, <1>3 DEF Change

-----------------------------------------------------------------------------

(* The type of a discovery.                                                   *)
Finds == [pc : {"none", "scan", "done"}, into : {"here", "elsewhere"},
          branch : Branch, index : Nat, unused : Nat,
          found : [Branch -> SUBSET Nat], start : [Branch -> SUBSET Nat]]

(* A step of the discovery that leaves the book alone preserves IInv.         *)
LEMMA FindOnly ==
  ASSUME IInv, UNCHANGED <<next, used, shown, hist, draft>>, find' \in Finds,
         \A b \in Branch : Bounded(find'.found[b])
  PROVE  IInv' /\ Grows
<1>1. BookInv'
  <2>1. \A b \in Branch : Issued(b)' = Issued(b)
    BY DEF Issued
  <2> QED BY <2>1 DEF IInv, BookInv, Branch, None
<1>2. FindTypes'
  BY DEF FindTypes, Finds, IInv
<1>3. EarlyInv'
  BY DEF IInv, EarlyInv, EmptyBook
<1>4. Grows
  BY DEF IInv, BookInv, Grows
<1> QED BY <1>1, <1>2, <1>3, <1>4 DEF IInv

LEMMA NotDone == find.pc # "done" => EnabledStartsFresh
BY DEF EnabledStartsFresh

(* A discovery begins with nothing found below index 0.                       *)
LEMMA BeginStep ==
  ASSUME IInv, NEW into \in {"here", "elsewhere"}, FindBegin(into)
  PROVE  IInv' /\ Grows /\ HereInv' /\ EnabledStartsFresh'
<1> USE DEF FindBegin
<1> DEFINE e == [NoFind EXCEPT !.pc = "scan", !.into = into, !.start = hist]
<1>1. /\ e \in Finds /\ e.start = hist /\ e.index = 0 /\ e.unused = 0
      /\ e.pc = "scan" /\ e.branch = "receive" /\ \A b \in Branch : e.found[b] = {}
  BY DEF NoFind, Finds, Branch, IInv, FindTypes
<1>2. find' = e
  OBVIOUS
<1> HIDE DEF e
<1>3. Bounded({})
  BY DEF Bounded
<1>4. IInv' /\ Grows
  BY <1>1, <1>2, <1>3, FindOnly
<1>5. hist \in [Branch -> SUBSET Nat]
  BY DEF IInv, FindTypes
<1>6. HereInv'
  <2>1. find'.start = hist' /\ find'.found[find'.branch] = {} /\ find'.index = 0
        /\ find'.unused = 0 /\ find'.branch = "receive" /\ find'.found["change"] = {}
    BY <1>1, <1>2 DEF Branch
  <2>2. hist'[find'.branch] \cap 0 .. 0 - 1 = {} /\ 0 - 0 .. 0 - 1 = {}
    OBVIOUS
  <2> QED BY <2>1, <2>2 DEF HereInv
<1>7. EnabledStartsFresh'
  BY <1>1, <1>2 DEF EnabledStartsFresh
<1> QED BY <1>4, <1>6, <1>7

(* A discovery that fails or is killed leaves nothing behind.                 *)
LEMMA FailStep ==
  ASSUME IInv, FindFails
  PROVE  IInv' /\ Grows /\ HereInv' /\ EnabledStartsFresh'
<1> USE DEF FindFails
<1>1. NoFind \in Finds /\ NoFind.pc = "none" /\ \A b \in Branch : NoFind.found[b] = {}
  BY DEF NoFind, Finds, Branch
<1>2. Bounded({})
  BY DEF Bounded
<1>3. IInv' /\ Grows
  BY <1>1, <1>2, FindOnly
<1>4. HereInv' /\ EnabledStartsFresh'
  BY <1>1 DEF HereInv, Enabling, EnabledStartsFresh
<1> QED BY <1>3, <1>4

(* Each query extends what is found by the index it asks for.                 *)
LEMMA QueryStep ==
  ASSUME IInv, FindQuery
  PROVE  IInv' /\ Grows /\ (HereInv => HereInv') /\ EnabledStartsFresh'
<1> DEFINE b == find.branch
           i == find.index
           hit == i \in hist[b]
           grown == IF hit THEN find.found[b] \cup {i} ELSE find.found[b]
           count == IF hit THEN 0 ELSE find.unused + 1
           all == [find.found EXCEPT ![b] = grown]
           e == [find EXCEPT !.index = i + 1, !.unused = count, !.found = all]
<1>1. /\ find \in Finds /\ hist \in [Branch -> SUBSET Nat]
      /\ \A d \in Branch : Bounded(find.found[d])
  BY DEF IInv, FindTypes, Finds
<1>2. /\ find' = e /\ find.pc = "scan" /\ UNCHANGED <<next, used, shown, hist, draft>>
  BY DEF FindQuery, Scanning, IInv, FindTypes
<1>3. b \in Branch /\ i \in Nat /\ find.unused \in Nat /\ find.found \in [Branch -> SUBSET Nat]
  BY <1>1 DEF Finds
<1>4. count \in Nat /\ grown \in SUBSET Nat
  BY <1>3
<1>5. /\ e \in Finds /\ e.index = i + 1 /\ e.unused = count /\ e.found[b] = grown
      /\ \A d \in Branch : d # b => e.found[d] = find.found[d]
      /\ e.pc = find.pc /\ e.into = find.into /\ e.branch = b /\ e.start = find.start
  <2>1. /\ all \in [Branch -> SUBSET Nat] /\ all[b] = grown
        /\ \A d \in Branch : d # b => all[d] = find.found[d]
    <3> HIDE DEF grown, b
    <3> QED BY <1>3, <1>4
  <2> HIDE DEF grown, count, all
  <2>2. i + 1 \in Nat
    BY <1>3
  <2>3. e \in Finds /\ e.index = i + 1 /\ e.unused = count /\ e.found = all
    BY <1>1, <1>4, <2>1, <2>2 DEF Finds
  <2>4. e.pc = find.pc /\ e.into = find.into /\ e.branch = b /\ e.start = find.start
    BY <1>1 DEF Finds
  <2> QED BY <2>1, <2>3, <2>4
<1>6. \A d \in Branch : Bounded(e.found[d])
  <2>1. PICK n \in Nat : find.found[b] \subseteq 0 .. n - 1
    BY <1>1, <1>3 DEF Bounded
  <2>2. n + i + 1 \in Nat /\ grown \subseteq 0 .. (n + i + 1) - 1
    BY <1>3, <2>1
  <2>3. Bounded(grown)
    BY <2>2 DEF Bounded
  <2> HIDE DEF e, grown
  <2> QED BY <1>1, <1>5, <2>3
<1> HIDE DEF e
<1>7. IInv' /\ Grows
  BY <1>2, <1>5, <1>6, FindOnly
<1>8. EnabledStartsFresh'
  BY <1>2, <1>5 DEF EnabledStartsFresh
<1>9. HereInv => HereInv'
  <2> SUFFICES ASSUME HereInv, Enabling', EmptyBook'
               PROVE  /\ e.start = hist
                      /\ e.found[b] = hist[b] \cap 0 .. e.index - 1
                      /\ e.unused <= e.index
                      /\ \A k \in e.index - e.unused .. e.index - 1 : k \notin hist[b]
                      /\ b = "receive" => e.found["change"] = {}
                      /\ b = "change" => e.found["receive"] = hist["receive"]
    BY <1>2, <1>5 DEF HereInv
  <2>1. Enabling /\ EmptyBook
    BY <1>2, <1>5 DEF Enabling, EmptyBook
  <2>2. /\ find.start = hist /\ find.found[b] = hist[b] \cap 0 .. i - 1
        /\ find.unused <= i
        /\ \A k \in i - find.unused .. i - 1 : k \notin hist[b]
        /\ b = "receive" => find.found["change"] = {}
        /\ b = "change" => find.found["receive"] = hist["receive"]
    BY <2>1 DEF HereInv
  <2>3. hist[b] \subseteq Nat
    BY <1>1, <1>3
  <2>4. grown = hist[b] \cap 0 .. i
    <3> HIDE DEF b, i
    <3> QED BY <1>3, <2>2, <2>3
  <2>5. count <= i + 1 /\ \A k \in i + 1 - count .. i : k \notin hist[b]
    <3> HIDE DEF b, i
    <3> QED BY <1>3, <2>2, <2>3
  <2>6. "change" \in Branch /\ "receive" \in Branch
    BY DEF Branch
  <2> HIDE DEF grown, count, b, i
  <2> QED BY <1>3, <1>4, <1>5, <2>2, <2>4, <2>5, <2>6
<1> QED BY <1>7, <1>8, <1>9

(* GapLimit unused addresses in a row end a branch: all of its history is     *)
(* found, because an earlier wallet left no such gap.                         *)
LEMMA ScanComplete ==
  ASSUME GapsSmall, IInv, HereInv, Enabling, EmptyBook, find.unused = GapLimit
  PROVE  find.found[find.branch] = hist[find.branch]
<1> DEFINE b == find.branch
           i == find.index - GapLimit
<1>1. b \in Branch /\ find.index \in Nat /\ hist[b] \subseteq Nat
  BY DEF IInv, FindTypes
<1>2. /\ find.found[b] = hist[b] \cap 0 .. find.index - 1
      /\ GapLimit <= find.index
      /\ \A k \in i .. find.index - 1 : k \notin hist[b]
  BY DEF HereInv
<1>3. hist \in Earlier
  BY DEF IInv, EarlyInv
<1>4. i \in Nat /\ i + GapLimit - 1 = find.index - 1
  BY <1>1, <1>2
<1>5. \A k \in i .. i + GapLimit - 1 : k \notin hist[b]
  BY <1>2, <1>4
<1> HIDE DEF b, i
<1>6. \A k \in hist[b] : k < i
  BY <1>1, <1>3, <1>4, <1>5 DEF GapsSmall
<1>7. hist[b] \subseteq 0 .. find.index - 1
  BY <1>1, <1>4, <1>6
<1> QED BY <1>2, <1>7 DEF b

(* The discovery turns to the change branch with the receive branch complete; *)
(* an import commits elsewhere.                                               *)
LEMMA TurnStep ==
  ASSUME IInv, FindChange \/ ImportCommit
  PROVE  /\ IInv' /\ Grows /\ EnabledStartsFresh'
         /\ GapsSmall /\ HereInv => HereInv'
<1>1. find \in Finds /\ \A b \in Branch : Bounded(find.found[b])
  BY DEF IInv, FindTypes, Finds
<1>2. CASE ImportCommit
  <2> USE DEF ImportCommit, Found
  <2>1. /\ find' \in Finds /\ find'.found = find.found
        /\ find'.pc = "done" /\ find'.into = "elsewhere"
    BY <1>1, <1>2 DEF Finds
  <2>2. IInv' /\ Grows
    BY <1>1, <1>2, <2>1, FindOnly
  <2>3. HereInv' /\ EnabledStartsFresh'
    BY <2>1 DEF HereInv, Enabling, EnabledStartsFresh
  <2> QED BY <2>2, <2>3
<1>3. CASE FindChange
  <2>1. "change" \in Branch /\ "receive" \in Branch /\ 0 \in Nat
    BY DEF Branch
  <2>2. /\ find' = [find EXCEPT !.branch = "change", !.index = 0, !.unused = 0]
        /\ find.pc = "scan" /\ find.unused = GapLimit /\ find.branch = "receive"
        /\ UNCHANGED <<next, used, shown, hist, draft>>
    BY <1>3 DEF FindChange
  <2>3. /\ find' \in Finds /\ find'.found = find.found /\ find'.pc = "scan"
        /\ find'.branch = "change" /\ find'.index = 0 /\ find'.unused = 0
        /\ find'.into = find.into /\ find'.start = find.start
    BY <1>1, <2>1, <2>2 DEF Finds
  <2>4. IInv' /\ Grows
    BY <1>1, <2>2, <2>3, FindOnly
  <2>5. EnabledStartsFresh'
    BY <2>3 DEF EnabledStartsFresh
  <2>6. ASSUME GapsSmall, HereInv PROVE HereInv'
    <3> SUFFICES ASSUME Enabling', EmptyBook'
                 PROVE  /\ find.start = hist
                        /\ find.found["change"] = hist["change"] \cap 0 .. 0 - 1
                        /\ 0 <= 0
                        /\ \A k \in 0 - 0 .. 0 - 1 : k \notin hist["change"]
                        /\ find.found["receive"] = hist["receive"]
      BY <2>2, <2>3 DEF HereInv
    <3>1. Enabling /\ EmptyBook
      BY <2>2, <2>3 DEF Enabling, EmptyBook
    <3>2. find.found["receive"] = hist["receive"]
      BY <2>2, <2>6, <3>1, ScanComplete
    <3>3. find.start = hist /\ find.found["change"] = {}
      BY <2>2, <2>6, <3>1 DEF HereInv
    <3>4. hist["change"] \cap 0 .. 0 - 1 = {} /\ 0 - 0 .. 0 - 1 = {}
      OBVIOUS
    <3> QED BY <3>2, <3>3, <3>4
  <2> QED BY <2>4, <2>5, <2>6
<1> QED BY <1>2, <1>3

(* commit_discovered_addresses stores what was found if the book is still     *)
(* empty, and gives up otherwise.                                             *)
LEMMA CommitStep ==
  ASSUME IInv, EnableCommit
  PROVE  /\ IInv' /\ Grows /\ HereInv'
         /\ GapsSmall /\ HereInv => EnabledStartsFresh'
<1>1. find \in Finds /\ \A b \in Branch : Bounded(find.found[b])
  BY DEF IInv, FindTypes, Finds
<1>2. UNCHANGED <<hist, draft>> /\ Found /\ Enabling /\ Store
  BY DEF EnableCommit
<1>3. CASE ~EmptyBook
  <2>1. find' = NoFind /\ UNCHANGED <<next, used, shown, hist, draft>>
    BY <1>2, <1>3 DEF Store
  <2>2. NoFind \in Finds /\ NoFind.pc = "none" /\ \A b \in Branch : NoFind.found[b] = {}
    BY DEF NoFind, Finds, Branch
  <2>3. Bounded({})
    BY DEF Bounded
  <2>4. IInv' /\ Grows
    BY <2>1, <2>2, <2>3, FindOnly
  <2>5. HereInv' /\ EnabledStartsFresh'
    BY <2>1, <2>2 DEF HereInv, Enabling, EnabledStartsFresh
  <2> QED BY <2>4, <2>5
<1>4. CASE EmptyBook
  <2> DEFINE r == AfterLast("receive")
             c == AfterLast("change")
             found == find.found
  <2>1. /\ next' = [receive |-> r + 1, change |-> c]
        /\ used' = found["receive"] /\ shown' = shown \cup {r}
        /\ find' = [find EXCEPT !.pc = "done"]
    BY <1>2, <1>4 DEF Store, StoreFound
  <2>2. /\ r \in Nat /\ found["receive"] \subseteq 0 .. r - 1 /\ r \notin found["receive"]
        /\ c \in Nat /\ found["change"] \subseteq 0 .. c - 1
    <3>1. ASSUME NEW b \in Branch
          PROVE  /\ AfterLast(b) \in Nat /\ found[b] \subseteq 0 .. AfterLast(b) - 1
                 /\ AfterLast(b) \notin found[b]
      <4>1. PICK n \in Nat : found[b] \subseteq 0 .. n - 1
        BY <1>1 DEF Bounded
      <4> QED BY <4>1, PastLast DEF AfterLast
    <3> QED BY <3>1 DEF Branch
  <2>3. used = {} /\ shown = {} /\ draft = None
    BY <1>4, EmptyMeans DEF IInv
  <2> HIDE DEF r, c
  <2>4. next'["receive"] = r + 1 /\ next'["change"] = c /\ next' \in [Branch -> Nat]
    BY <2>1, <2>2 DEF Branch
  <2>5. BookInv'
    <3>1. r \in Issued("receive")' /\ found["receive"] \subseteq Issued("receive")'
      BY <2>2, <2>4 DEF Issued
    <3> QED BY <1>2, <2>1, <2>3, <2>4, <3>1 DEF BookInv, None
  <2>6. Grows
    BY <1>4, <2>2, <2>3, <2>4 DEF Grows, EmptyBook, Branch
  <2>7. /\ find' \in Finds /\ find'.found = find.found /\ find'.pc = "done"
        /\ find'.start = find.start
    BY <1>1, <2>1 DEF Finds
  <2>8. ~EmptyBook'
    BY <2>2, <2>4 DEF EmptyBook, Branch
  <2>9. IInv' /\ HereInv'
    BY <1>1, <1>2, <2>5, <2>7, <2>8 DEF IInv, FindTypes, Finds, EarlyInv, HereInv
  <2>10. ASSUME GapsSmall, HereInv PROVE EnabledStartsFresh'
    <3>1. find.start = hist /\ find.unused = GapLimit /\ find.branch = "change"
          /\ found["receive"] = hist["receive"]
      BY <1>2, <1>4, <2>10 DEF HereInv, Found
    <3>2. found["change"] = hist["change"]
      BY <1>2, <1>4, <2>10, <3>1, ScanComplete
    <3>3. hist["change"] \subseteq Issued("change")' /\ None \notin hist["change"]
      BY <2>2, <2>4, <3>2 DEF Issued, None
    <3> QED BY <1>2, <2>1, <2>2, <2>3, <2>7, <3>1, <3>2, <3>3 DEF EnabledStartsFresh
  <2> QED BY <2>6, <2>9, <2>10
<1> QED BY <1>3, <1>4

-----------------------------------------------------------------------------

(* Every step preserves IInv and makes the book grow, and with small gaps     *)
(* preserves HereInv and EnabledStartsFresh.                                  *)
LEMMA NextStep ==
  ASSUME IInv, Next
  PROVE  /\ IInv' /\ Grows
         /\ GapsSmall /\ HereInv /\ EnabledStartsFresh => HereInv' /\ EnabledStartsFresh'
<1>1. CASE (\E c \in Client : Receive(c)) \/ GetNewAddress
  BY <1>1, ReceiveStep
<1>2. CASE (\E i \in Index : Pay(i)) \/ \E S \in SUBSET Index : MarkUsed(S)
  BY <1>2, PayStep, MarkStep
<1>3. CASE Change
  BY <1>3, ChangeStep
<1>4. CASE Discovery
  BY <1>4, BeginStep, FailStep, QueryStep, TurnStep, CommitStep DEF Discovery
<1> QED BY <1>1, <1>2, <1>3, <1>4 DEF Next

(* So does a step that changes nothing.                                       *)
LEMMA Stutter ==
  ASSUME IInv, UNCHANGED vars
  PROVE  /\ IInv' /\ Grows
         /\ HereInv => HereInv'
         /\ EnabledStartsFresh => EnabledStartsFresh'
<1> USE DEF vars
<1>1. find \in Finds /\ \A b \in Branch : Bounded(find.found[b])
  BY DEF IInv, FindTypes, Finds
<1>2. IInv' /\ Grows
  BY <1>1, FindOnly
<1>3. HereInv => HereInv'
  BY DEF HereInv, Enabling, EmptyBook
<1>4. EnabledStartsFresh => EnabledStartsFresh'
  BY DEF EnabledStartsFresh, Issued
<1> QED BY <1>2, <1>3, <1>4

(* Whatever processes interleave, used, shown and draft indexes are issued    *)
(* ones, and an empty book has only an earlier wallet's history.              *)
THEOREM BookInductive == Spec => []IInv
<1>1. Init => IInv
  BY InitInv DEF FreshInv
<1>2. IInv /\ [Next]_vars => IInv'
  BY NextStep, Stutter
<1> QED BY <1>1, <1>2, PTL DEF Spec

(* Nothing takes back an issued index or a used flag: the discovery of        *)
(* enable_account, which holds no lock while it asks the backend, overwrites  *)
(* no address that another process has issued meanwhile.                      *)
THEOREM IssuedAddressesStay == Spec => IssuedStays
<1>1. IInv /\ [Next]_vars =>
        [(\A b \in Branch : next[b] <= next'[b]) /\ used \subseteq used']_vars
  BY NextStep DEF Grows
<1> QED BY <1>1, BookInductive, PTL DEF Spec, IssuedStays

(* If the earlier wallet of the mnemonic kept its gaps below the gap limit,   *)
(* enable_account leaves all of its history in the book: no address shown and *)
(* no change address signed for afterwards has a part in it.                  *)
THEOREM EnabledAccountsFresh ==
  ASSUME GapsSmall PROVE Spec => []EnabledStartsFresh
<1>1. Init => FreshInv
  BY InitInv
<1>2. FreshInv /\ [Next]_vars => FreshInv'
  BY NextStep, Stutter DEF FreshInv
<1>3. FreshInv => EnabledStartsFresh
  BY DEF FreshInv
<1> QED BY <1>1, <1>2, <1>3, PTL DEF Spec

-----------------------------------------------------------------------------
(* Types, and what a discovery has found so far.                             *)

(* A scan that ends within its limit stays below the last child index: the    *)
(* code scans 10000 of 2^31.                                                  *)
ScanFits == ScanLimit < IndexLimit + GapLimit

(* What a discovery found has history, and ends before the unused addresses   *)
(* it saw last.                                                               *)
FoundInv ==
  /\ \A b \in Branch : find.found[b] \subseteq hist[b] /\ find.start[b] \subseteq hist[b]
  /\ find.unused <= find.index
  /\ find.found[find.branch] \subseteq 0 .. find.index - find.unused - 1
  /\ find.branch = "receive" => find.found["change"] = {}
  /\ find.branch = "change" => find.found["receive"] \subseteq 0 .. ScanLimit - GapLimit - 1

TypeInv == TypeOK /\ FoundInv

(* The first index past a bounded set is within the bound.                    *)
LEMMA PastWithin ==
  ASSUME NEW n \in Nat, NEW S \in SUBSET (0 .. n - 1)
  PROVE  Max(S \cup {None}) + 1 \in 0 .. n
<1>1. \E m \in S \cup {None} : \A x \in S \cup {None} : m >= x
  <2>1. CASE S = {}
    BY <2>1 DEF None
  <2>2. CASE S # {}
    <3>1. PICK m \in S : \A x \in S : x <= m
      BY <2>2, Greatest
    <3> QED BY <3>1 DEF None
  <2> QED BY <2>1, <2>2
<1> DEFINE m == Max(S \cup {None})
<1>2. m \in S \cup {None}
  BY <1>1 DEF Max
<1> HIDE DEF m
<1>3. m + 1 \in 0 .. n
  BY <1>2 DEF None
<1> QED BY <1>3 DEF m

LEMMA InitTypes == Init => TypeInv
<1> SUFFICES ASSUME Init PROVE TypeInv
  OBVIOUS
<1> USE DEF Init, Branch
<1>1. hist \in [Branch -> SUBSET Index]
  BY DEF Index
<1>2. find.found["receive"] = {} /\ find.found["change"] = {} /\ find.start["receive"] = {}
      /\ find.start["change"] = {} /\ find.index = 0 /\ find.unused = 0 /\ find.branch = "receive"
  BY DEF NoFind
<1>3. FoundInv
  BY <1>2 DEF FoundInv
<1>4. find \in [pc : {"none", "scan", "done"}, into : {"here", "elsewhere"},
               branch : Branch, index : 0 .. ScanLimit, unused : 0 .. GapLimit,
               found : [Branch -> SUBSET Nat], start : [Branch -> SUBSET Index]]
  BY DEF NoFind
<1>5. ask \in [Client -> [pc : {"idle", "first", "issue", "failed"},
                         target : 0 .. IndexLimit]]
  BY DEF Idle
<1>6. TypeOK
  BY <1>1, <1>4, <1>5 DEF TypeOK, Issued, None
<1> QED BY <1>3, <1>6 DEF TypeInv

(* TypeOK without the discovery, which has types of its own (FindTypes).      *)
BookTypes ==
  /\ next \in [Branch -> 0 .. IndexLimit]
  /\ used \subseteq hist.receive \cap Issued("receive")
  /\ shown \subseteq Issued("receive")
  /\ \E old \in Earlier :
       /\ hist.receive \subseteq shown \cup old.receive
       /\ hist.change \subseteq Issued("change") \cup old.change
  /\ asked \subseteq Issued("receive")
  /\ draft \in Issued("change") \cup {None}
  /\ ask \in [Client -> [pc : {"idle", "first", "issue", "failed"},
                         target : 0 .. IndexLimit]]

Discoveries ==
  [pc : {"none", "scan", "done"}, into : {"here", "elsewhere"},
   branch : Branch, index : 0 .. ScanLimit, unused : 0 .. GapLimit,
   found : [Branch -> SUBSET Nat], start : [Branch -> SUBSET Index]]

LEMMA TypeParts == TypeOK <=> BookTypes /\ find \in Discoveries
BY DEF TypeOK, BookTypes, Discoveries

(* Whatever has history has a child index.                                    *)
LEMMA HistIndexed ==
  BookTypes /\ hist \in [Branch -> SUBSET Nat] => \A b \in Branch : hist[b] \subseteq Index
<1> SUFFICES ASSUME BookTypes, NEW b \in Branch PROVE hist[b] \subseteq Index
  OBVIOUS
<1>1. PICK old \in Earlier :
       /\ hist.receive \subseteq shown \cup old.receive
       /\ hist.change \subseteq Issued("change") \cup old.change
  BY DEF BookTypes
<1>2. old.receive \subseteq Index /\ old.change \subseteq Index
  BY DEF Index
<1>3. \A d \in Branch : Issued(d) \subseteq Index
  BY DEF BookTypes, Issued, Index
<1>4. shown \subseteq Index
  BY <1>3 DEF BookTypes, Branch
<1> QED BY <1>1, <1>2, <1>3, <1>4 DEF Branch

(* Receive addresses, payments to them, and the flags a sync sets.            *)
LEMMA ReceiveTypes ==
  ASSUME IInv, BookTypes,
         \/ \E c \in Client : Receive(c)
         \/ GetNewAddress \/ (\E i \in Index : Pay(i)) \/ \E S : MarkUsed(S)
  PROVE  BookTypes' /\ find' = find /\ \A b \in Branch : hist[b] \subseteq hist'[b]
<1> USE DEF Branch
<1>1. PICK old \in Earlier :
       /\ hist.receive \subseteq shown \cup old.receive
       /\ hist.change \subseteq Issued("change") \cup old.change
  BY DEF BookTypes
<1>2. CASE \E c \in Client : ReceiveRead(c)
  <2>1. PICK c \in Client : ReceiveRead(c)
    BY <1>2
  <2>2. /\ UNCHANGED <<next, used, hist, asked, draft, find>>
        /\ Issued("receive")' = Issued("receive")
        /\ Issued("change")' = Issued("change")
    BY <2>1 DEF ReceiveRead, Issued
  <2>3. NextReceive \in 0 .. IndexLimit
    <3>1. used \subseteq 0 .. IndexLimit - 1
      BY DEF BookTypes, Issued
    <3> QED BY <3>1, PastWithin DEF NextReceive
  <2>4. shown \subseteq shown' /\ shown' \subseteq Issued("receive")
    BY <2>1 DEF ReceiveRead, BookTypes
  <2> HIDE DEF NextReceive
  <2>5. ask' \in [Client -> [pc : {"idle", "first", "issue", "failed"}, target : 0 .. IndexLimit]]
    BY <2>1, <2>3 DEF ReceiveRead, BookTypes
  <2> QED BY <1>1, <2>2, <2>4, <2>5 DEF BookTypes
<1>3. CASE (\E c \in Client : ReceiveIssue(c)) \/ GetNewAddress
  <2>1. /\ Issue("receive") /\ UNCHANGED <<used, hist, draft, find>>
        /\ shown' = shown \/ shown' = shown \cup {next["receive"]}
    BY <1>3 DEF ReceiveIssue, GetNewAddress
  <2>2. /\ next' \in [Branch -> 0 .. IndexLimit] /\ next'["receive"] = next["receive"] + 1
        /\ next'["change"] = next["change"]
    BY <2>1 DEF Issue, BookTypes
  <2>3. /\ Issued("receive") \subseteq Issued("receive")' /\ next["receive"] \in Issued("receive")'
        /\ Issued("change")' = Issued("change")
    BY <2>2 DEF Issued, BookTypes
  <2>4. asked' \subseteq Issued("receive")'
    BY <1>3, <2>3 DEF ReceiveIssue, GetNewAddress, BookTypes
  <2>5. ask' \in [Client -> [pc : {"idle", "first", "issue", "failed"}, target : 0 .. IndexLimit]]
    <3>1. CASE GetNewAddress
      BY <3>1 DEF GetNewAddress, BookTypes
    <3>2. ASSUME NEW c \in Client, ReceiveIssue(c)
          PROVE  ask' \in [Client -> [pc : {"idle", "first", "issue", "failed"},
                                     target : 0 .. IndexLimit]]
      BY <3>2 DEF ReceiveIssue, BookTypes, Idle
    <3> QED BY <1>3, <3>1, <3>2
  <2> QED BY <1>1, <2>1, <2>2, <2>3, <2>4, <2>5 DEF BookTypes
<1>4. CASE \E c \in Client : ReceiveAgain(c)
  BY <1>4 DEF ReceiveAgain, BookTypes, Issued, Idle
<1>5. CASE \E i \in Index : Pay(i)
  <2>1. PICK i \in Index : Pay(i)
    BY <1>5
  <2>2. hist' = [hist EXCEPT !["receive"] = @ \cup {i}] /\ i \in shown
        /\ UNCHANGED <<next, used, shown, draft, ask, find, asked>>
    BY <2>1 DEF Pay
  <2>3. hist'["receive"] = hist["receive"] \cup {i} /\ hist'["change"] = hist["change"]
    BY <2>2 DEF IInv, FindTypes
  <2> QED BY <1>1, <2>2, <2>3 DEF BookTypes, Issued
<1>6. CASE \E S : MarkUsed(S)
  BY <1>1, <1>6 DEF MarkUsed, BookTypes, Issued
<1> QED BY <1>2, <1>3, <1>4, <1>5, <1>6 DEF Receive

(* Drafts take change indexes and give them history.                          *)
LEMMA ChangeTypes ==
  ASSUME IInv, BookTypes, Change
  PROVE  BookTypes' /\ find' = find /\ \A b \in Branch : hist[b] \subseteq hist'[b]
<1> USE DEF Branch
<1>1. PICK old \in Earlier :
       /\ hist.receive \subseteq shown \cup old.receive
       /\ hist.change \subseteq Issued("change") \cup old.change
  BY DEF BookTypes
<1>2. CASE SignDraft
  <2>1. /\ Issue("change") /\ draft' = next["change"]
        /\ UNCHANGED <<used, shown, hist, asked, ask, find>>
    BY <1>2 DEF SignDraft
  <2>2. /\ next' \in [Branch -> 0 .. IndexLimit] /\ next'["change"] = next["change"] + 1
        /\ next'["receive"] = next["receive"]
    BY <2>1 DEF Issue, BookTypes
  <2>3. /\ Issued("change") \subseteq Issued("change")' /\ next["change"] \in Issued("change")'
        /\ Issued("receive")' = Issued("receive")
    BY <2>2 DEF Issued, BookTypes
  <2> QED BY <1>1, <2>1, <2>2, <2>3 DEF BookTypes
<1>3. CASE CancelDraft
  BY <1>1, <1>3 DEF CancelDraft, BookTypes, Issued
<1>4. CASE BroadcastDraft
  <2>1. /\ hist' = [hist EXCEPT !["change"] = @ \cup {draft}] /\ draft # None /\ draft' = None
        /\ UNCHANGED <<next, used, shown, ask, find, asked>>
    BY <1>4 DEF BroadcastDraft
  <2>2. hist'["change"] = hist["change"] \cup {draft} /\ hist'["receive"] = hist["receive"]
    BY <2>1 DEF IInv, FindTypes
  <2>3. draft \in Issued("change")
    BY <2>1 DEF BookTypes
  <2> QED BY <1>1, <2>1, <2>2, <2>3 DEF BookTypes, Issued
<1> QED BY <1>2, <1>3, <1>4 DEF Change

(* FoundInv looks at the discovery, and at a history that only grows.         *)
LEMMA FoundGrows ==
  ASSUME FoundInv, find' = find, \A b \in Branch : hist[b] \subseteq hist'[b]
  PROVE  FoundInv'
<1> USE DEF FoundInv
<1>1. \A b \in Branch : find'.found[b] \subseteq hist'[b] /\ find'.start[b] \subseteq hist'[b]
  OBVIOUS
<1> QED BY <1>1

(* A discovery asks for one index after the other.                            *)
LEMMA FindTypeStep ==
  ASSUME IInv, TypeInv, Discovery, ~EnableCommit
  PROVE  BookTypes' /\ find' \in Discoveries /\ FoundInv'
<1> USE DEF Branch
<1>1. BookTypes /\ find \in Discoveries /\ FoundInv
  BY TypeParts DEF TypeInv
<1>2. UNCHANGED <<next, used, shown, hist, asked, draft, ask>>
  BY DEF Discovery, FindBegin, FindQuery, FindFails, FindChange, ImportCommit
<1>3. BookTypes'
  BY <1>1, <1>2 DEF BookTypes, Issued
<1>4. hist \in [Branch -> SUBSET Nat] /\ \A b \in Branch : hist[b] \subseteq Index
  BY <1>1, HistIndexed DEF IInv, FindTypes
<1>5. hist \in [Branch -> SUBSET Index]
  BY <1>4
<1>6. ASSUME NEW into \in {"here", "elsewhere"}, FindBegin(into)
      PROVE  find' \in Discoveries /\ FoundInv'
  <2>1. find' = [NoFind EXCEPT !.pc = "scan", !.into = into, !.start = hist]
    BY <1>6 DEF FindBegin
  <2>2. find' \in Discoveries
    <3>1. [b \in Branch |-> {}] \in [Branch -> SUBSET Nat]
      OBVIOUS
    <3>2. 0 \in 0 .. ScanLimit /\ 0 \in 0 .. GapLimit
      OBVIOUS
    <3> HIDE DEF Branch, Index
    <3> QED BY <1>5, <2>1, <3>1, <3>2 DEF NoFind, Discoveries, Branch
  <2>3. /\ find'.start = hist' /\ find'.index = 0 /\ find'.unused = 0
        /\ find'.branch = "receive" /\ \A b \in Branch : find'.found[b] = {}
    BY <1>2, <2>1 DEF NoFind
  <2>4. find'.found[find'.branch] = {} /\ find'.found["change"] = {}
    BY <2>3
  <2> HIDE DEF Branch
  <2> QED BY <2>2, <2>3, <2>4 DEF FoundInv
<1>7. CASE FindFails
  <2>1. NoFind \in Discoveries
    BY DEF NoFind, Discoveries
  <2>2. /\ find' = NoFind /\ NoFind.index = 0 /\ NoFind.unused = 0
        /\ NoFind.branch = "receive"
        /\ \A b \in Branch : NoFind.found[b] = {} /\ NoFind.start[b] = {}
    BY <1>7 DEF FindFails, NoFind
  <2> QED BY <1>3, <2>1, <2>2 DEF FoundInv
<1>8. CASE FindQuery
  <2> DEFINE b == find.branch
             i == find.index
             hit == i \in hist[b]
             grown == IF hit THEN find.found[b] \cup {i} ELSE find.found[b]
             count == IF hit THEN 0 ELSE find.unused + 1
             all == [find.found EXCEPT ![b] = grown]
  <2>1. /\ find' = [find EXCEPT !.index = i + 1, !.unused = count, !.found = all]
        /\ find.unused < GapLimit /\ i < ScanLimit
    BY <1>8 DEF FindQuery, Scanning, IInv, FindTypes
  <2>2. /\ b \in Branch /\ i \in 0 .. ScanLimit /\ find.unused \in 0 .. GapLimit
        /\ find.found \in [Branch -> SUBSET Nat]
    BY <1>1 DEF Discoveries
  <2>3. /\ grown \subseteq hist[b] /\ grown \in SUBSET Nat /\ count \in 0 .. GapLimit
        /\ grown \subseteq 0 .. (i + 1) - count - 1 /\ count <= i + 1
    <3>1. find.found[b] \subseteq hist[b] /\ find.found[b] \subseteq 0 .. i - find.unused - 1
          /\ find.unused <= i
      BY <1>1, <2>2 DEF FoundInv
    <3> HIDE DEF b, i
    <3>2. CASE hit
      BY <2>1, <2>2, <3>1, <3>2
    <3>3. CASE ~hit
      BY <2>1, <2>2, <3>1, <3>3
    <3> QED BY <3>2, <3>3
  <2> HIDE DEF grown, count
  <2>4. /\ all \in [Branch -> SUBSET Nat] /\ all[b] = grown
        /\ \A d \in Branch : d # b => all[d] = find.found[d]
    <3> HIDE DEF b
    <3> QED BY <2>2, <2>3
  <2> HIDE DEF all, hit
  <2>5. /\ find' \in Discoveries /\ find'.index = i + 1 /\ find'.unused = count
        /\ find'.found = all /\ find'.branch = b /\ find'.start = find.start
    <3>1. i + 1 \in 0 .. ScanLimit
      BY <2>1, <2>2
    <3> QED BY <1>1, <2>1, <2>3, <2>4, <3>1 DEF Discoveries
  <2> HIDE DEF b, i
  <2>6. \A d \in Branch : all[d] \subseteq hist[d]
    BY <1>1, <2>3, <2>4 DEF FoundInv
  <2>7. b = "receive" => all["change"] = {}
    BY <1>1, <2>4 DEF FoundInv, b
  <2>8. b = "change" => all["receive"] \subseteq 0 .. ScanLimit - GapLimit - 1
    BY <1>1, <2>4 DEF FoundInv, b
  <2> QED BY <1>1, <1>2, <1>3, <2>3, <2>4, <2>5, <2>6, <2>7, <2>8 DEF FoundInv
<1>9. CASE FindChange \/ ImportCommit
  <2>1. CASE FindChange
    <3>1. /\ find' = [find EXCEPT !.branch = "change", !.index = 0, !.unused = 0]
          /\ find.unused = GapLimit /\ find.branch = "receive"
      BY <2>1 DEF FindChange
    <3>2. /\ find' \in Discoveries /\ find'.index = 0 /\ find'.unused = 0
          /\ find'.found = find.found /\ find'.branch = "change" /\ find'.start = find.start
      <4>1. 0 \in 0 .. ScanLimit /\ 0 \in 0 .. GapLimit /\ "change" \in Branch
        OBVIOUS
      <4> HIDE DEF Branch, Index
      <4> QED BY <1>1, <3>1, <4>1 DEF Discoveries
    <3>3. find.found["receive"] \subseteq 0 .. ScanLimit - GapLimit - 1 /\ find.found["change"] = {}
      <4>1. /\ find.found["receive"] \subseteq 0 .. find.index - GapLimit - 1
            /\ find.index \in 0 .. ScanLimit
        BY <1>1, <3>1 DEF FoundInv, Discoveries
      <4> QED BY <1>1, <3>1, <4>1 DEF FoundInv
    <3> QED BY <1>1, <1>2, <1>3, <3>2, <3>3 DEF FoundInv
  <2>2. CASE ImportCommit
    <3>1. find' = [find EXCEPT !.pc = "done"]
      BY <2>2 DEF ImportCommit
    <3>2. /\ find' \in Discoveries /\ find'.index = find.index /\ find'.unused = find.unused
          /\ find'.found = find.found /\ find'.branch = find.branch /\ find'.start = find.start
      BY <1>1, <3>1 DEF Discoveries
    <3> QED BY <1>1, <1>2, <1>3, <3>2 DEF FoundInv
  <2> QED BY <1>9, <2>1, <2>2
<1> QED BY <1>3, <1>6, <1>7, <1>8, <1>9 DEF Discovery

(* What enable_account stores is within the index limit.                      *)
LEMMA CommitTypes ==
  ASSUME ScanFits, IInv, TypeInv, EnableCommit
  PROVE  BookTypes' /\ find' \in Discoveries /\ FoundInv'
<1> USE DEF Branch
<1>1. BookTypes /\ find \in Discoveries /\ FoundInv
  BY TypeParts DEF TypeInv
<1>2. UNCHANGED <<hist, draft, ask>> /\ Found /\ Enabling /\ Store
  BY DEF EnableCommit
<1>3. CASE ~EmptyBook
  <2>1. find' = NoFind /\ UNCHANGED <<next, used, shown, hist, asked, draft, ask>>
    BY <1>2, <1>3 DEF Store
  <2>2. BookTypes'
    BY <1>1, <2>1 DEF BookTypes, Issued
  <2>3. NoFind \in Discoveries
    BY DEF NoFind, Discoveries
  <2>4. /\ NoFind.index = 0 /\ NoFind.unused = 0
        /\ NoFind.branch = "receive"
        /\ \A b \in Branch : NoFind.found[b] = {} /\ NoFind.start[b] = {}
    BY DEF NoFind
  <2> QED BY <2>1, <2>2, <2>3, <2>4 DEF FoundInv
<1>4. CASE EmptyBook
  <2> DEFINE r == AfterLast("receive")
             c == AfterLast("change")
             found == find.found
             last == ScanLimit - GapLimit
  <2>1. /\ next' = [receive |-> r + 1, change |-> c]
        /\ used' = found["receive"] /\ shown' = shown \cup {r}
        /\ find' = [find EXCEPT !.pc = "done"] /\ asked' = asked \cup {r}
    BY <1>2, <1>4 DEF Store, StoreFound
  <2>2. found["receive"] \subseteq 0 .. last - 1 /\ found["change"] \subseteq 0 .. last - 1
    <3>1. find.unused = GapLimit /\ find.branch = "change"
      BY <1>2 DEF Found
    <3>2. find.index \in 0 .. ScanLimit
      BY <1>1 DEF Discoveries
    <3> QED BY <1>1, <3>1, <3>2 DEF FoundInv
  <2>3. last \in Nat /\ last + 1 <= IndexLimit
    <3>1. find.unused = GapLimit /\ find.unused <= find.index /\ find.index \in 0 .. ScanLimit
      BY <1>1, <1>2 DEF FoundInv, Found, Discoveries
    <3> QED BY <3>1 DEF ScanFits
  <2>4. r \in 0 .. last /\ c \in 0 .. last
    <3> HIDE DEF last
    <3> QED BY <2>2, <2>3, PastWithin DEF AfterLast
  <2>5. found["receive"] \subseteq 0 .. r - 1
    <3> HIDE DEF last
    <3> QED BY <2>2, <2>3, PastLast DEF AfterLast
  <2>6. used = {} /\ shown = {} /\ draft = None
    BY <1>4, EmptyMeans DEF IInv
  <2> HIDE DEF r, c, last
  <2>7. /\ next' \in [Branch -> 0 .. IndexLimit]
        /\ next'["receive"] = r + 1 /\ next'["change"] = c
    BY <2>1, <2>3, <2>4
  <2>8. Issued("receive")' = 0 .. r
    BY <2>4, <2>7 DEF Issued
  <2>9. hist \in Earlier
    BY <1>4 DEF IInv, EarlyInv
  <2>10. /\ used' \subseteq hist'.receive \cap Issued("receive")'
         /\ shown' \subseteq Issued("receive")'
    BY <1>1, <1>2, <2>1, <2>4, <2>5, <2>6, <2>8 DEF FoundInv
  <2>11. asked' \subseteq Issued("receive")'
    <3>1. asked = {}
      BY <1>1, <1>4 DEF BookTypes, Issued, EmptyBook
    <3> QED BY <2>1, <2>4, <2>8, <3>1
  <2>12. BookTypes'
    BY <1>1, <1>2, <2>6, <2>7, <2>9, <2>10, <2>11 DEF BookTypes
  <2>13. /\ find' \in Discoveries /\ find'.index = find.index /\ find'.unused = find.unused
         /\ find'.found = find.found /\ find'.branch = find.branch /\ find'.start = find.start
    BY <1>1, <2>1 DEF Discoveries
  <2> QED BY <1>1, <1>2, <2>12, <2>13 DEF FoundInv
<1> QED BY <1>3, <1>4

(* Every step keeps the types, if a scan that ends is within the index limit. *)
LEMMA TypeStep ==
  ASSUME ScanFits, IInv, TypeInv, [Next]_vars
  PROVE  TypeInv'
<1>1. BookTypes /\ find \in Discoveries /\ FoundInv
  BY TypeParts DEF TypeInv
<1>2. CASE UNCHANGED vars
  BY <1>2 DEF vars, TypeInv, TypeOK, FoundInv, Issued
<1>3. CASE Next
  <2>1. BookTypes' /\ find' \in Discoveries /\ FoundInv'
    <3>1. CASE Discovery
      BY <3>1, FindTypeStep, CommitTypes
    <3>2. CASE Change
      BY <1>1, <3>2, ChangeTypes, FoundGrows
    <3>3. CASE ~Change /\ ~Discovery
      BY <1>1, <1>3, <3>3, ReceiveTypes, FoundGrows DEF Next
    <3> QED BY <3>1, <3>2, <3>3
  <2>2. TypeOK'
    BY <2>1 DEF TypeOK, BookTypes, Discoveries
  <2> QED BY <1>3, <2>1, <2>2 DEF TypeInv
<1> QED BY <1>2, <1>3

(* The address book keeps its types, and whatever has history or a flag was   *)
(* issued, here or by the earlier wallet.                                     *)
THEOREM BookTypeCorrect ==
  ASSUME ScanFits PROVE Spec => []TypeOK
<1>1. Init => TypeInv
  BY InitTypes
<1>2. IInv /\ TypeInv /\ [Next]_vars => TypeInv'
  BY TypeStep
<1>3. TypeInv => TypeOK
  BY DEF TypeInv
<1> QED BY <1>1, <1>2, <1>3, BookInductive, PTL DEF Spec

-----------------------------------------------------------------------------
(* The gaps of receive addresses.  An address is shown when it follows the    *)
(* last used one, or when getnewaddress or one of the processes that were     *)
(* waiting with it has issued it: so the addresses that the counter has       *)
(* passed unused are the user's, but for one of each process.                 *)

(* Index i is within the gap limit of an element of S before it.              *)
Close(S, i) == i < GapLimit \/ \E j \in S : i - GapLimit <= j /\ j < i

(* The user opened the gap before index i, A being what getnewaddress issued. *)
ByHand(A, i) ==
  Cardinality(A \cap i - GapLimit .. i) + Cardinality(Client) > GapLimit

(* Whatever was shown or paid to is within the gap limit of what was paid to, *)
(* or behind a gap of the user's.                                             *)
ShownInv ==
  \A i \in shown \cup hist["receive"] : Close(hist["receive"], i) \/ ByHand(asked, i)

(* A target is the index after one that was used.                             *)
AskInv == \A c \in Client : ask[c].pc = "issue" => ask[c].target - 1 \in used \cup {None}

(* The processes that are not about to issue, and the addresses they have     *)
(* issued past the next receive address: each process waiting may add one.    *)
Free == {c \in Client : ask[c].pc \in {"idle", "failed"}}
Ahead == (NextReceive .. next["receive"] - 1) \ asked
IssueInv == Cardinality(Ahead) <= Cardinality(Free)

(* What an import misses is behind a gap of the user's.                       *)
MissedInv ==
  LET missed == find.start["receive"] \ find.found["receive"]
  IN  \A j \in missed : \E i \in missed : i <= j /\ ByHand(asked, i)

(* A discovery has found what had history when it began, up to its index, and *)
(* saw last a run of indexes that had none.                                   *)
StartInv ==
  /\ \A i \in find.start["receive"] :
       Close(find.start["receive"], i) \/ ByHand(asked, i)
  /\ find.branch = "receive" =>
       /\ find.start["receive"] \cap 0 .. find.index - 1 \subseteq find.found["receive"]
       /\ \A k \in find.index - find.unused .. find.index - 1 :
            k \notin find.start["receive"]
  /\ find.branch = "change" => MissedInv
  /\ find.pc = "done" => find.branch = "change"

GapInv == ShownInv /\ AskInv /\ IssueInv /\ StartInv

(* The last of a bounded set, None if it is empty.                            *)
LEMMA LastOf ==
  ASSUME NEW n \in Nat, NEW S \in SUBSET (0 .. n - 1)
  PROVE  /\ Max(S \cup {None}) \in S \cup {None}
         /\ \A x \in S : x <= Max(S \cup {None})
         /\ Max(S \cup {None}) \in Int
<1>1. \E m \in S \cup {None} : \A x \in S \cup {None} : m >= x
  <2>1. CASE S = {}
    BY <2>1 DEF None
  <2>2. CASE S # {}
    <3>1. PICK m \in S : \A x \in S : x <= m
      BY <2>2, Greatest
    <3> QED BY <3>1 DEF None
  <2> QED BY <2>1, <2>2
<1> DEFINE m == Max(S \cup {None})
<1>2. m \in S \cup {None} /\ \A x \in S \cup {None} : m >= x
  BY <1>1 DEF Max
<1> HIDE DEF m
<1>3. m \in Int /\ \A x \in S : x <= m
  BY <1>2 DEF None
<1> QED BY <1>2, <1>3 DEF m

(* The next receive address follows the last used one and is not past the     *)
(* counter.                                                                   *)
LEMMA NextReceiveIs ==
  ASSUME TypeInv
  PROVE  /\ NextReceive \in Nat /\ NextReceive <= next["receive"]
         /\ NextReceive - 1 \in used \cup {None}
         /\ \A x \in used : x < NextReceive
<1>1. next["receive"] \in Nat /\ used \in SUBSET (0 .. next["receive"] - 1)
  BY DEF TypeInv, TypeOK, Issued, Branch
<1> DEFINE m == Max(used \cup {None})
<1>2. m \in used \cup {None} /\ m \in Int /\ \A x \in used : x <= m
  BY <1>1, LastOf
<1>3. NextReceive = m + 1
  BY DEF NextReceive
<1> HIDE DEF m, NextReceive
<1> QED BY <1>1, <1>2, <1>3 DEF None

(* More used addresses take the next receive address no further back.         *)
LEMMA NextReceiveGrows ==
  ASSUME TypeInv, TypeInv', used \subseteq used'
  PROVE  NextReceive <= NextReceive'
<1> DEFINE m == Max(used' \cup {None})
<1>1. NextReceive \in Nat /\ NextReceive - 1 \in used \cup {None}
  BY NextReceiveIs
<1>2. next'["receive"] \in Nat /\ used' \in SUBSET (0 .. next'["receive"] - 1)
  BY DEF TypeInv, TypeOK, Issued, Branch
<1>3. m \in used' \cup {None} /\ m \in Int /\ \A x \in used' : x <= m
  BY <1>2, LastOf
<1>4. NextReceive' = m + 1
  BY DEF NextReceive
<1> HIDE DEF NextReceive, m
<1>5. CASE NextReceive - 1 \in used
  BY <1>1, <1>3, <1>4, <1>5
<1>6. CASE NextReceive - 1 = None
  BY <1>1, <1>2, <1>3, <1>4, <1>6 DEF None
<1> QED BY <1>1, <1>5, <1>6

(* What follows an element, or is less than a gap past the last one, is close *)
(* to it; more elements leave it close.                                       *)
LEMMA CloseAfter ==
  ASSUME NEW S \in SUBSET Nat, NEW u \in Nat, u - 1 \in S \cup {None},
         NEW i \in Nat, u <= i, i < u + GapLimit
  PROVE  Close(S, i)
<1>1. CASE u = 0
  BY <1>1 DEF Close
<1>2. CASE u # 0
  <2>1. u - 1 \in S /\ i - GapLimit <= u - 1 /\ u - 1 < i
    BY <1>2 DEF None
  <2> QED BY <2>1 DEF Close
<1> QED BY <1>1, <1>2

LEMMA CloseGrows ==
  ASSUME NEW S, NEW T, S \subseteq T, NEW i, Close(S, i)
  PROVE  Close(T, i)
BY DEF Close

(* The processes that wait are counted.                                       *)
LEMMA FreeCounts ==
  /\ IsFiniteSet(Free) /\ Cardinality(Free) \in Nat
  /\ Cardinality(Free) <= Cardinality(Client)
  /\ \A c \in Client \ Free : Cardinality(Free) < Cardinality(Client)
  /\ Cardinality(Client) \in Nat
<1>1. IsFiniteSet(Client) /\ Free \in SUBSET Client
  BY DEF Free
<1>2. /\ IsFiniteSet(Free) /\ Cardinality(Free) <= Cardinality(Client)
      /\ Cardinality(Client) = Cardinality(Free) => Client = Free
  BY <1>1, FS_Subset
<1>3. Cardinality(Free) \in Nat /\ Cardinality(Client) \in Nat
  BY <1>1, <1>2, FS_CardinalityType
<1> QED BY <1>2, <1>3

(* A gap that the user opened stays one while more is asked for.              *)
LEMMA ByHandGrows ==
  ASSUME NEW A, NEW B, A \subseteq B, NEW i \in Nat, ByHand(A, i)
  PROVE  ByHand(B, i)
<1> DEFINE W == i - GapLimit .. i
<1>1. IsFiniteSet(W)
  BY FS_Interval
<1>2. B \cap W \in SUBSET W /\ A \cap W \in SUBSET (B \cap W)
  OBVIOUS
<1> HIDE DEF W
<1>3. /\ IsFiniteSet(B \cap W) /\ IsFiniteSet(A \cap W)
      /\ Cardinality(A \cap W) <= Cardinality(B \cap W)
  BY <1>1, <1>2, FS_Subset
<1>4. Cardinality(A \cap W) \in Nat /\ Cardinality(B \cap W) \in Nat
      /\ Cardinality(Client) \in Nat
  BY <1>3, FS_CardinalityType
<1> QED BY <1>3, <1>4 DEF ByHand, W

(* A part of a finite set has no more elements.                               *)
LEMMA Fewer ==
  ASSUME NEW T, IsFiniteSet(T), NEW S \in SUBSET T
  PROVE  /\ IsFiniteSet(S) /\ Cardinality(S) <= Cardinality(T)
         /\ Cardinality(S) \in Nat /\ Cardinality(T) \in Nat
BY FS_Subset, FS_CardinalityType

(* The addresses issued ahead are counted.                                    *)
LEMMA AheadCounts == ASSUME TypeInv PROVE IsFiniteSet(Ahead) /\ Cardinality(Ahead) \in Nat
<1>1. NextReceive \in Int /\ next["receive"] - 1 \in Int
  BY NextReceiveIs DEF TypeInv, TypeOK, Branch
<1>2. IsFiniteSet(NextReceive .. next["receive"] - 1)
  <2> HIDE DEF NextReceive
  <2> QED BY <1>1, FS_Interval
<1>3. Ahead \in SUBSET (NextReceive .. next["receive"] - 1)
  BY DEF Ahead
<1> HIDE DEF NextReceive, Ahead
<1> QED BY <1>2, <1>3, Fewer

(* Of the GapLimit indexes before n, those that were not asked for are ahead  *)
(* of the next receive address, if that is not close.                         *)
LEMMA WindowCount ==
  ASSUME NEW N \in Nat, NEW n \in Nat, N + GapLimit <= n, NEW A
  PROVE  LET W == n - GapLimit .. n - 1 IN
         /\ W \in SUBSET (N .. n - 1) /\ IsFiniteSet(A \cap W)
         /\ Cardinality(A \cap W) \in Nat /\ Cardinality((N .. n - 1) \ A) \in Nat
         /\ Cardinality(A \cap W) + Cardinality((N .. n - 1) \ A) >= GapLimit
<1> DEFINE W == n - GapLimit .. n - 1
           T == (N .. n - 1) \ A
<1>1. W \in SUBSET (N .. n - 1)
  OBVIOUS
<1>2. IsFiniteSet(W) /\ Cardinality(W) = GapLimit
  <2>1. n - GapLimit \in Int /\ n - 1 \in Int /\ ~(n - GapLimit > n - 1)
        /\ (n - 1) - (n - GapLimit) + 1 = GapLimit
    OBVIOUS
  <2> QED BY <2>1, FS_Interval
<1>3. T \in SUBSET (N .. n - 1) /\ W \ A \in SUBSET T
  BY <1>1
<1>4. Cardinality(W \ A) <= Cardinality(T) /\ Cardinality(T) \in Nat
      /\ Cardinality(W \ A) \in Nat
  <2>1. IsFiniteSet(N .. n - 1)
    BY FS_Interval
  <2> HIDE DEF W, T
  <2>2. IsFiniteSet(T)
    BY <1>3, <2>1, Fewer
  <2> QED BY <1>3, <2>2, Fewer
<1> HIDE DEF W, T
<1>5. IsFiniteSet(A \cap W) /\ Cardinality(A \cap W) \in Nat
  <2>1. A \cap W \in SUBSET W
    OBVIOUS
  <2> QED BY <1>2, <2>1, FS_Subset, FS_CardinalityType
<1>6. Cardinality(W \ A) = GapLimit - Cardinality(W \cap A)
  BY <1>2, FS_Difference
<1>7. W \cap A = A \cap W
  OBVIOUS
<1>8. Cardinality(A \cap W) + Cardinality(T) >= GapLimit
  <2>1. GapLimit - Cardinality(A \cap W) <= Cardinality(T) /\ GapLimit \in Nat
    BY <1>4, <1>6, <1>7
  <2> QED BY <1>4, <1>5, <2>1
<1> QED BY <1>1, <1>4, <1>5, <1>8 DEF W, T

(* Initially nothing is shown, and the earlier wallet kept its gaps.          *)
LEMMA InitGaps ==
  ASSUME GapsSmall, Init
  PROVE  GapInv
<1> USE DEF Init, Branch
<1>1. TypeInv
  BY InitTypes
<1>2. ShownInv
  <2> DEFINE S == hist["receive"]
  <2>1. S \in SUBSET Nat /\ hist \in Earlier /\ shown = {}
    OBVIOUS
  <2>2. ASSUME NEW i \in S, GapLimit <= i, \A j \in S : ~(i - GapLimit <= j /\ j < i)
        PROVE  FALSE
    <3>1. i - GapLimit \in Nat
      BY <2>1, <2>2
    <3>2. \A k \in (i - GapLimit) .. (i - GapLimit) + GapLimit - 1 : k \notin S
      BY <2>1, <2>2
    <3>3. \A k \in S : k < i - GapLimit
      BY <2>1, <3>1, <3>2 DEF GapsSmall
    <3> QED BY <2>1, <2>2, <3>3
  <2> HIDE DEF S
  <2>3. \A i \in S : Close(S, i)
    BY <2>1, <2>2 DEF Close
  <2> QED BY <2>1, <2>3 DEF ShownInv, S
<1>3. AskInv
  BY DEF AskInv, Idle
<1>4. IssueInv
  <2>1. NextReceive \in Nat /\ Cardinality(Free) \in Nat
    BY <1>1, NextReceiveIs, FreeCounts
  <2>2. Ahead = {}
    <3> HIDE DEF NextReceive
    <3> QED BY <2>1 DEF Ahead
  <2> QED BY <2>1, <2>2, FS_EmptySet DEF IssueInv
<1>5. StartInv
  <2>1. /\ find.start["receive"] = {} /\ find.branch = "receive" /\ find.pc = "none"
    BY DEF NoFind
  <2> QED BY <2>1 DEF StartInv
<1> QED BY <1>2, <1>3, <1>4, <1>5 DEF GapInv

(* A request for an address that has to be issued leaves the free processes,  *)
(* when the counter is no further than the next receive address.              *)
LEMMA ReadGaps ==
  ASSUME IInv, TypeInv, GapInv, NEW c \in Client, ReceiveRead(c)
  PROVE  ShownInv' /\ AskInv' /\ IssueInv'
<1> USE DEF Branch
<1>1. /\ UNCHANGED <<next, used, hist, asked, draft, find>> /\ ask[c].pc = "idle"
      /\ \/ ask' = ask /\ shown' = shown \cup {NextReceive}
         \/ /\ ask' = [ask EXCEPT ![c].pc = "first"] /\ shown' = shown
            /\ next["receive"] = 0
         \/ /\ ask' = [ask EXCEPT ![c] = [pc |-> "issue", target |-> NextReceive]]
            /\ shown' = shown /\ NextReceive \notin Issued("receive")
  BY DEF ReceiveRead
<1>2. /\ NextReceive \in Nat /\ NextReceive <= next["receive"] /\ next["receive"] \in Nat
      /\ NextReceive - 1 \in used \cup {None} /\ hist["receive"] \in SUBSET Nat
      /\ used \subseteq hist["receive"]
      /\ ask \in [Client -> [pc : {"idle", "first", "issue", "failed"}, target : 0 .. IndexLimit]]
  <2>1. hist["receive"] \in SUBSET Nat
    BY DEF IInv, FindTypes
  <2>2. /\ next["receive"] \in Nat /\ used \subseteq hist["receive"]
        /\ ask \in [Client -> [pc : {"idle", "first", "issue", "failed"}, target : 0 .. IndexLimit]]
    BY DEF TypeInv, TypeOK
  <2> QED BY <2>1, <2>2, NextReceiveIs
<1>3. NextReceive' = NextReceive
  BY <1>1 DEF NextReceive
<1> HIDE DEF NextReceive
<1>4. ShownInv'
  <2>1. Close(hist["receive"], NextReceive)
    <3>1. /\ NextReceive - 1 \in hist["receive"] \cup {None}
          /\ NextReceive < NextReceive + GapLimit /\ NextReceive <= NextReceive
      BY <1>2
    <3>2. NextReceive \in Nat /\ hist["receive"] \in SUBSET Nat
      BY <1>2
    <3> QED BY <3>1, <3>2, CloseAfter
  <2> QED BY <1>1, <2>1 DEF GapInv, ShownInv
<1>5. AskInv'
  BY <1>1, <1>2 DEF GapInv, AskInv
<1>6. IssueInv'
  <2>1. CASE ask' = ask
    BY <1>1, <1>3, <2>1 DEF GapInv, IssueInv, Ahead, Free
  <2>2. CASE ask' # ask
    <3>1. next["receive"] <= NextReceive
      BY <1>1, <1>2, <2>2 DEF Issued
    <3>2. Free' \in SUBSET Client /\ IsFiniteSet(Client)
      BY DEF Free
    <3>3. Cardinality(Free') \in Nat
      BY <3>2, FS_Subset, FS_CardinalityType
    <3>4. Ahead' = {}
      BY <1>1, <1>2, <1>3, <3>1 DEF Ahead
    <3> QED BY <3>3, <3>4, FS_EmptySet DEF IssueInv
  <2> QED BY <2>1, <2>2
<1> QED BY <1>4, <1>5, <1>6

(* What a process issues, or the user asks for, is within the gap limit of    *)
(* what was paid to, or the user has opened the gap before it.                *)
LEMMA NextClose ==
  ASSUME IInv, TypeInv, IssueInv, asked \subseteq asked',
         \/ Cardinality(Free) < Cardinality(Client)
         \/ next["receive"] \in asked'
  PROVE  Close(hist["receive"], next["receive"]) \/ ByHand(asked', next["receive"])
<1> USE DEF Branch
<1> DEFINE n == next["receive"]
           N == NextReceive
           W == n - GapLimit .. n - 1
           V == asked' \cap n - GapLimit .. n
<1>1. /\ N \in Nat /\ N <= n /\ n \in Nat
      /\ N - 1 \in used \cup {None}
      /\ hist["receive"] \in SUBSET Nat /\ used \subseteq hist["receive"]
  BY NextReceiveIs DEF TypeInv, TypeOK, IInv, FindTypes
<1>2. /\ Cardinality(Free) \in Nat /\ Cardinality(Client) \in Nat
      /\ Cardinality(Free) <= Cardinality(Client)
  BY FreeCounts
<1>3. Cardinality((N .. n - 1) \ asked) <= Cardinality(Free)
  BY DEF IssueInv, Ahead
<1> HIDE DEF N, n
<1>4. CASE n < N + GapLimit
  <2>1. N - 1 \in hist["receive"] \cup {None}
    BY <1>1
  <2>2. Close(hist["receive"], n)
    BY <1>1, <1>4, <2>1, CloseAfter
  <2> QED BY <2>2 DEF n
<1>5. CASE N + GapLimit <= n
  <2>1. /\ IsFiniteSet(asked \cap W)
        /\ Cardinality(asked \cap W) \in Nat
        /\ Cardinality((N .. n - 1) \ asked) \in Nat
        /\ Cardinality(asked \cap W) + Cardinality((N .. n - 1) \ asked) >= GapLimit
    BY <1>1, <1>5, WindowCount
  <2>2. Cardinality(asked \cap W) >= GapLimit - Cardinality(Free)
    BY <1>2, <1>3, <2>1
  <2>3. /\ V \in SUBSET (n - GapLimit .. n) /\ asked \cap W \in SUBSET V
        /\ n \notin asked \cap W
    <3>1. W \subseteq n - GapLimit .. n /\ n \notin W
      BY <1>1
    <3> HIDE DEF W
    <3> QED BY <3>1
  <2>4. n \in asked' => n \in V
    BY <1>1
  <2>5. /\ Cardinality(asked \cap W) <= Cardinality(V) /\ Cardinality(V) \in Nat
        /\ Cardinality((asked \cap W) \cup {n}) =
             Cardinality(asked \cap W) + 1
        /\ n \in asked' => Cardinality((asked \cap W) \cup {n}) <= Cardinality(V)
    <3>1. IsFiniteSet(V)
      <4>1. IsFiniteSet(n - GapLimit .. n)
        BY <1>1, FS_Interval
      <4> HIDE DEF V
      <4> QED BY <2>3, <4>1, Fewer
    <3> HIDE DEF W, V
    <3>2. n \in asked' => (asked \cap W) \cup {n} \in SUBSET V
      BY <2>3, <2>4
    <3> QED BY <2>1, <2>3, <3>1, <3>2, Fewer, FS_AddElement
  <2> HIDE DEF W, V
  <2>6. Cardinality(V) + Cardinality(Client) > GapLimit
    <3>1. CASE Cardinality(Free) < Cardinality(Client)
      BY <1>2, <2>1, <2>2, <2>5, <3>1
    <3>2. CASE n \in asked'
      BY <1>2, <2>1, <2>2, <2>5, <3>2
    <3> QED BY <3>1, <3>2 DEF n
  <2> QED BY <2>6 DEF ByHand, V, n
<1> QED BY <1>1, <1>4, <1>5

(* A process that issues an address moves the counter on and is free again,   *)
(* unless the counter has not passed its target.                              *)
LEMMA IssueGaps ==
  ASSUME IInv, TypeInv, GapInv, NEW c \in Client, ReceiveIssue(c)
  PROVE  ShownInv' /\ AskInv' /\ IssueInv'
<1> USE DEF Branch
<1> DEFINE created == next["receive"]
           target == ask[c].target
<1>1. /\ UNCHANGED <<used, hist, asked, draft, find>> /\ ask[c].pc \in {"first", "issue"}
      /\ next' = [next EXCEPT !["receive"] = @ + 1]
      /\ \/ /\ ask[c].pc = "first" \/ created = target
            /\ shown' = shown \cup {created} /\ ask' = [ask EXCEPT ![c] = Idle]
         \/ /\ ask[c].pc = "issue" /\ created < target
            /\ shown' = shown /\ ask' = ask
         \/ /\ shown' = shown /\ ask' = [ask EXCEPT ![c].pc = "failed"]
  <2>1. ask \in [Client -> [pc : {"idle", "first", "issue", "failed"}, target : 0 .. IndexLimit]]
    BY DEF TypeInv, TypeOK
  <2> QED BY <2>1 DEF ReceiveIssue, Issue
<1>2. /\ NextReceive \in Nat /\ NextReceive <= next["receive"] /\ created \in Nat
      /\ NextReceive - 1 \in used \cup {None} /\ \A x \in used : x < NextReceive
      /\ hist["receive"] \in SUBSET Nat
      /\ used \subseteq hist["receive"] /\ next'["receive"] = created + 1
      /\ ask \in [Client -> [pc : {"idle", "first", "issue", "failed"}, target : 0 .. IndexLimit]]
  BY <1>1, NextReceiveIs DEF TypeInv, TypeOK, IInv, FindTypes
<1>3. NextReceive' = NextReceive
  BY <1>1 DEF NextReceive
<1> HIDE DEF NextReceive
<1>4. c \in Client \ Free
  BY <1>1 DEF Free
<1>5. ShownInv'
  <2>1. Close(hist["receive"], created) \/ ByHand(asked', created)
    BY <1>1, <1>4, FreeCounts, NextClose DEF GapInv
  <2> QED BY <1>1, <2>1 DEF GapInv, ShownInv
<1>6. AskInv'
  BY <1>1, <1>2 DEF GapInv, AskInv, Idle
<1>7. IssueInv'
  <2>1. CASE ask' = ask /\ ask[c].pc = "issue" /\ created < target
    <3>1. target - 1 \in used \cup {None}
      BY <2>1 DEF GapInv, AskInv
    <3>2. created + 1 <= NextReceive
      BY <1>2, <2>1, <3>1 DEF None
    <3>3. Cardinality(Free') \in Nat
      <4>1. Free' \in SUBSET Client /\ IsFiniteSet(Client)
        BY DEF Free
      <4> QED BY <4>1, FS_Subset, FS_CardinalityType
    <3>4. Ahead' = {}
      BY <1>1, <1>2, <1>3, <3>2 DEF Ahead
    <3> QED BY <3>3, <3>4, FS_EmptySet DEF IssueInv
  <2>2. CASE ask' = [ask EXCEPT ![c] = Idle] \/ ask' = [ask EXCEPT ![c].pc = "failed"]
    <3>1. Free' = Free \cup {c}
      BY <1>2, <1>4, <2>2 DEF Free, Idle
    <3>2. Cardinality(Free') = Cardinality(Free) + 1 /\ Cardinality(Free) \in Nat
      BY <1>4, <3>1, FreeCounts, FS_AddElement
    <3>3. Ahead' \in SUBSET (Ahead \cup {created})
      BY <1>1, <1>2, <1>3 DEF Ahead
    <3>4. IsFiniteSet(Ahead) /\ Cardinality(Ahead) \in Nat
      BY AheadCounts
    <3> HIDE DEF created, Ahead
    <3>5. /\ IsFiniteSet(Ahead \cup {created})
          /\ Cardinality(Ahead \cup {created}) <= Cardinality(Ahead) + 1
          /\ Cardinality(Ahead \cup {created}) \in Nat
      <4>1. /\ IsFiniteSet(Ahead \cup {created})
            /\ Cardinality(Ahead \cup {created}) =
                 IF created \in Ahead THEN Cardinality(Ahead) ELSE Cardinality(Ahead) + 1
        BY <3>4, FS_AddElement
      <4> QED BY <3>4, <4>1, FS_CardinalityType
    <3>6. Cardinality(Ahead') <= Cardinality(Ahead) + 1 /\ Cardinality(Ahead') \in Nat
      BY <3>3, <3>4, <3>5, FS_Subset, FS_CardinalityType
    <3> QED BY <3>2, <3>4, <3>6 DEF GapInv, IssueInv
  <2> QED BY <1>1, <2>1, <2>2
<1> QED BY <1>5, <1>6, <1>7

(* A process gives up, or asks again.                                         *)
LEMMA AgainGaps ==
  ASSUME TypeInv, GapInv, NEW c \in Client, ReceiveAgain(c)
  PROVE  ShownInv' /\ AskInv' /\ IssueInv'
<1> USE DEF Branch
<1>1. /\ ask' = [ask EXCEPT ![c] = Idle]
      /\ UNCHANGED <<next, used, shown, hist, asked, draft, find>>
  BY DEF ReceiveAgain
<1>2. /\ ask \in [Client -> [pc : {"idle", "first", "issue", "failed"}, target : 0 .. IndexLimit]]
      /\ next["receive"] \in Nat /\ NextReceive \in Nat
  BY NextReceiveIs DEF TypeInv, TypeOK
<1>3. ShownInv' /\ AskInv'
  BY <1>1, <1>2 DEF GapInv, ShownInv, AskInv, Idle
<1>4. Free' = Free \cup {c}
  BY <1>1, <1>2 DEF Free, Idle
<1>5. /\ Cardinality(Free') \in Nat /\ Cardinality(Free) \in Nat
      /\ Cardinality(Free) <= Cardinality(Free')
  <2>1. IsFiniteSet(Free) /\ Cardinality(Free) \in Nat
    BY FreeCounts
  <2>2. Cardinality(Free \cup {c}) = IF c \in Free THEN Cardinality(Free) ELSE Cardinality(Free) + 1
    BY <2>1, FS_AddElement
  <2> HIDE DEF Free
  <2> QED BY <1>4, <2>1, <2>2
<1>6. NextReceive' = NextReceive
  BY <1>1 DEF NextReceive
<1> HIDE DEF NextReceive
<1>7. IssueInv'
  <2>1. Ahead' = Ahead
    BY <1>1, <1>6 DEF Ahead
  <2>2. Cardinality(Ahead) \in Nat
    BY AheadCounts
  <2> HIDE DEF Ahead, Free
  <2> QED BY <1>5, <2>1, <2>2 DEF GapInv, IssueInv
<1> QED BY <1>3, <1>7

(* getnewaddress is remembered; payments, flags, drafts and a discovery that  *)
(* stores nothing leave the counter and the processes as they are.            *)
LEMMA OtherGaps ==
  ASSUME IInv, TypeInv, TypeInv', GapInv,
         \/ GetNewAddress \/ (\E i \in Index : Pay(i)) \/ (\E S \in SUBSET Index : MarkUsed(S))
         \/ Change \/ (Discovery /\ ~EnableCommit)
  PROVE  ShownInv' /\ AskInv' /\ IssueInv'
<1> USE DEF Branch
<1>1. /\ next["receive"] \in Nat /\ NextReceive \in Nat /\ Cardinality(Ahead) \in Nat
      /\ Cardinality(Free) \in Nat /\ hist \in [Branch -> SUBSET Nat]
      /\ \A i \in shown \cup hist["receive"] :
           i \in Nat /\ (Close(hist["receive"], i) \/ ByHand(asked, i))
  <2>1. /\ next["receive"] \in Nat /\ hist \in [Branch -> SUBSET Nat]
        /\ shown \subseteq 0 .. next["receive"] - 1
        /\ \A i \in shown \cup hist["receive"] :
             Close(hist["receive"], i) \/ ByHand(asked, i)
    BY DEF TypeInv, TypeOK, Issued, IInv, FindTypes, GapInv, ShownInv
  <2>2. NextReceive \in Nat /\ Cardinality(Free) \in Nat
    BY NextReceiveIs, FreeCounts
  <2> HIDE DEF NextReceive
  <2>3. Cardinality(Ahead) \in Nat
    BY AheadCounts
  <2> QED BY <2>1, <2>2, <2>3
<1>2. CASE GetNewAddress
  <2>1. /\ asked' = asked \cup {next["receive"]}
        /\ next' = [next EXCEPT !["receive"] = @ + 1]
        /\ shown' = shown \cup {next["receive"]} /\ UNCHANGED <<used, hist, draft, ask, find>>
    BY <1>1, <1>2 DEF GetNewAddress, Issue
  <2>2. next'["receive"] = next["receive"] + 1
    BY <2>1 DEF TypeInv, TypeOK
  <2>3. ShownInv'
    <3>1. Close(hist["receive"], next["receive"]) \/ ByHand(asked', next["receive"])
      BY <2>1, NextClose DEF GapInv
    <3>2. \A i \in shown \cup hist["receive"] :
            Close(hist["receive"], i) \/ ByHand(asked', i)
      BY <1>1, <2>1, ByHandGrows
    <3> QED BY <2>1, <3>1, <3>2 DEF ShownInv
  <2>4. AskInv'
    BY <2>1 DEF GapInv, AskInv
  <2>5. NextReceive' = NextReceive /\ Free' = Free
    BY <2>1 DEF NextReceive, Free
  <2> HIDE DEF NextReceive, Free
  <2>6. Ahead' \in SUBSET Ahead
    BY <1>1, <2>1, <2>2, <2>5 DEF Ahead
  <2>7. Cardinality(Ahead') <= Cardinality(Ahead) /\ Cardinality(Ahead') \in Nat
    <3> HIDE DEF Ahead
    <3> QED BY <2>6, AheadCounts, Fewer
  <2>8. IssueInv'
    BY <1>1, <2>5, <2>7 DEF GapInv, IssueInv
  <2> QED BY <2>3, <2>4, <2>8
<1>3. ASSUME UNCHANGED <<next, shown, asked, ask>>, used \subseteq used',
             hist["receive"] \subseteq hist'["receive"],
             hist'["receive"] \subseteq hist["receive"] \cup shown
      PROVE  ShownInv' /\ AskInv' /\ IssueInv'
  <2>1. ShownInv'
    <3> DEFINE S == hist["receive"]
               T == hist'["receive"]
    <3>1. \A i \in shown \cup T : Close(S, i) \/ ByHand(asked, i)
      BY <1>1, <1>3
    <3>2. S \subseteq T
      BY <1>3
    <3> HIDE DEF S, T
    <3>3. \A i \in shown \cup T : Close(T, i) \/ ByHand(asked, i)
      BY <3>1, <3>2, CloseGrows
    <3> QED BY <1>3, <3>3 DEF ShownInv, T
  <2>2. AskInv'
    BY <1>3 DEF GapInv, AskInv
  <2>3. Free' = Free
    BY <1>3 DEF Free
  <2>4. NextReceive <= NextReceive' /\ NextReceive' \in Nat
    <3>1. next'["receive"] \in Nat /\ used' \in SUBSET (0 .. next'["receive"] - 1)
      BY DEF TypeInv, TypeOK, Issued
    <3>2. Max(used' \cup {None}) + 1 \in Nat
      BY <3>1, PastLast
    <3> QED BY <1>3, <3>2, NextReceiveGrows DEF NextReceive
  <2> HIDE DEF NextReceive, Free
  <2>5. Ahead' \in SUBSET Ahead
    BY <1>1, <1>3, <2>4 DEF Ahead
  <2>6. Cardinality(Ahead') <= Cardinality(Ahead) /\ Cardinality(Ahead') \in Nat
    <3> HIDE DEF Ahead
    <3> QED BY <2>5, AheadCounts, Fewer
  <2>7. IssueInv'
    BY <1>1, <2>3, <2>6 DEF GapInv, IssueInv
  <2> QED BY <2>1, <2>2, <2>7
<1>4. CASE \E i \in Index : Pay(i)
  <2>1. PICK i \in Index : Pay(i)
    BY <1>4
  <2>2. hist'["receive"] = hist["receive"] \cup {i} /\ i \in shown
        /\ UNCHANGED <<next, used, shown, ask, asked>>
    BY <1>1, <2>1 DEF Pay
  <2> QED BY <1>3, <2>2
<1>5. CASE \E S \in SUBSET Index : MarkUsed(S)
  BY <1>3, <1>5 DEF MarkUsed
<1>6. CASE Change
  <2>1. /\ UNCHANGED <<used, shown, ask, asked>> /\ next'["receive"] = next["receive"]
        /\ hist'["receive"] = hist["receive"]
    BY <1>1, <1>6 DEF Change, SignDraft, CancelDraft, BroadcastDraft, Issue, TypeInv, TypeOK
  <2>2. ShownInv' /\ AskInv'
    BY <1>1, <2>1 DEF GapInv, ShownInv, AskInv
  <2>3. NextReceive' = NextReceive /\ Free' = Free
    BY <2>1 DEF NextReceive, Free
  <2> HIDE DEF NextReceive, Free
  <2>4. IssueInv'
    BY <2>1, <2>3 DEF GapInv, IssueInv, Ahead
  <2> QED BY <2>2, <2>4
<1>7. CASE Discovery /\ ~EnableCommit
  <2>1. UNCHANGED <<next, used, shown, hist, asked, draft, ask>>
    BY <1>7 DEF Discovery, FindBegin, FindQuery, FindFails, FindChange, ImportCommit
  <2> QED BY <1>3, <2>1
<1> QED BY <1>2, <1>4, <1>5, <1>6, <1>7

(* The address enable_account shows follows the last one it found.            *)
LEMMA CommitGaps ==
  ASSUME IInv, TypeInv, TypeInv', GapInv, EnableCommit
  PROVE  ShownInv' /\ AskInv' /\ IssueInv'
<1> USE DEF Branch
<1>1. UNCHANGED <<hist, draft, ask>> /\ Found /\ Enabling /\ Store /\ Free' = Free
  BY DEF EnableCommit, Free
<1>2. CASE ~EmptyBook
  <2>1. UNCHANGED <<next, used, shown, hist, asked, draft, ask>>
    BY <1>1, <1>2 DEF Store
  <2>2. ShownInv' /\ AskInv'
    BY <2>1 DEF GapInv, ShownInv, AskInv
  <2>3. NextReceive' = NextReceive
    BY <2>1 DEF NextReceive
  <2> HIDE DEF NextReceive, Free
  <2> QED BY <1>1, <2>1, <2>2, <2>3 DEF GapInv, IssueInv, Ahead
<1>3. CASE EmptyBook
  <2> DEFINE r == AfterLast("receive")
             S == find.found["receive"]
  <2>1. /\ next' = [receive |-> r + 1, change |-> AfterLast("change")]
        /\ used' = S /\ shown' = shown \cup {r} /\ asked' = asked \cup {r}
    BY <1>1, <1>3 DEF Store, StoreFound
  <2>2. used = {} /\ shown = {}
    BY <1>3, EmptyMeans DEF IInv
  <2>3. PICK n \in Nat : S \subseteq 0 .. n - 1
    BY DEF IInv, FindTypes, Bounded
  <2>4. r \in Nat /\ r - 1 \in S \cup {None}
    <3> DEFINE m == Max(S \cup {None})
    <3>1. m \in S \cup {None}
      BY <2>3, LastOf
    <3>2. r = m + 1
      BY DEF AfterLast
    <3> HIDE DEF m, r
    <3> QED BY <2>3, <3>1, <3>2 DEF None
  <2>5. NextReceive' = r
    BY <2>1 DEF NextReceive, AfterLast
  <2>6. S \subseteq hist["receive"] /\ hist["receive"] \in SUBSET Nat
        /\ Cardinality(Free) \in Nat
    BY FreeCounts DEF TypeInv, FoundInv, TypeOK, IInv, FindTypes
  <2> HIDE DEF r, S, NextReceive, Free
  <2>7. Close(hist["receive"], r)
    <3>1. r - 1 \in hist["receive"] \cup {None} /\ r < r + GapLimit /\ r <= r
      BY <2>4, <2>6
    <3>2. r \in Nat /\ hist["receive"] \in SUBSET Nat
      BY <2>4, <2>6
    <3> QED BY <3>1, <3>2, CloseAfter
  <2>8. ShownInv'
    <3>1. \A i \in hist["receive"] : Close(hist["receive"], i) \/ ByHand(asked', i)
      BY <2>1, <2>6, ByHandGrows DEF GapInv, ShownInv
    <3> QED BY <1>1, <2>1, <2>2, <2>7, <3>1 DEF ShownInv
  <2>9. AskInv'
    BY <1>1, <2>1, <2>2 DEF GapInv, AskInv
  <2>10. IssueInv'
    <3>1. Ahead' = {}
      BY <2>1, <2>4, <2>5 DEF Ahead
    <3> QED BY <1>1, <2>6, <3>1, FS_EmptySet DEF IssueInv
  <2> QED BY <2>8, <2>9, <2>10
<1> QED BY <1>2, <1>3

(* A run of GapLimit indexes without history, after a discovery has found all *)
(* before it, means that there is no more, or a gap of the user's.            *)
LEMMA ReceiveComplete ==
  ASSUME IInv, TypeInv, StartInv, find.branch = "receive", find.unused = GapLimit
  PROVE  MissedInv
<1> DEFINE S == find.start["receive"]
           i == find.index
<1>1. /\ S \in SUBSET Nat /\ i \in Nat /\ GapLimit <= i
      /\ \A x \in find.found["receive"] : x < i
  <2>1. find.found["receive"] \subseteq 0 .. i - find.unused - 1
    BY DEF TypeInv, FoundInv
  <2> QED BY <2>1 DEF IInv, FindTypes, TypeInv, FoundInv, Branch
<1>2. /\ \A x \in S : Close(S, x) \/ ByHand(asked, x)
      /\ S \cap 0 .. i - 1 \subseteq find.found["receive"]
      /\ \A k \in i - GapLimit .. i - 1 : k \notin S
  BY DEF StartInv
<1> HIDE DEF S, i
<1> SUFFICES ASSUME NEW y \in S, i <= y
             PROVE  \E x \in S : i <= x /\ x <= y /\ ByHand(asked, x)
  <2>1. \A x \in S : x < i => x \in find.found["receive"]
    <3> SUFFICES ASSUME NEW x \in S, x < i PROVE x \in find.found["receive"]
      OBVIOUS
    <3>1. x \in 0 .. i - 1
      BY <1>1
    <3> QED BY <1>2, <3>1
  <2>2. \A x \in S : x \notin find.found["receive"] <=> i <= x
    BY <1>1, <2>1
  <2> QED BY <2>2 DEF S, MissedInv
<1> DEFINE T == {x \in S : i <= x}
<1>3. T \subseteq Nat /\ T # {}
  BY <1>1
<1>4. PICK R : /\ IsWellFoundedOn(R, Nat)
               /\ \A x, z \in Nat : z < x => <<z, x>> \in R
  BY NatMin
<1>5. PICK m \in T : \A z \in T : ~ (<<z, m>> \in R)
  <2> HIDE DEF T
  <2> QED BY <1>3, <1>4, WFMin
<1>6. \A z \in T : m <= z
  <2> SUFFICES ASSUME NEW z \in T, ~(m <= z) PROVE FALSE
    OBVIOUS
  <2>1. z \in Nat /\ m \in Nat
    BY <1>3
  <2>2. z < m
    <3> HIDE DEF T
    <3> QED BY <2>1
  <2> QED BY <1>4, <1>5, <2>1, <2>2
<1>7. m \in S /\ m \in Nat /\ i <= m
  BY <1>1
<1>8. m >= GapLimit
  BY <1>1, <1>7
<1>9. ASSUME NEW j \in S, m - GapLimit <= j, j < m PROVE FALSE
  <2>1. j \in Nat /\ j < i
    BY <1>1, <1>6, <1>7, <1>9
  <2>2. j \in i - GapLimit .. i - 1
    BY <1>1, <1>7, <1>9, <2>1
  <2> QED BY <1>2, <2>2
<1>10. ByHand(asked, m)
  BY <1>1, <1>2, <1>7, <1>8, <1>9 DEF Close
<1>11. m <= y
  BY <1>6
<1> QED BY <1>7, <1>10, <1>11

(* A discovery keeps what it has found while more is asked for, and when it   *)
(* is done.                                                                   *)
LEMMA StartGrows ==
  ASSUME StartInv, asked \subseteq asked', find.start["receive"] \in SUBSET Nat,
         find'.start = find.start, find'.found = find.found, find'.branch = find.branch,
         \/ find'.index = find.index /\ find'.unused = find.unused /\ find'.pc = find.pc
         \/ find.branch = "change"
  PROVE  StartInv'
<1>1. \A i \in find.start["receive"] :
        Close(find.start["receive"], i) \/ ByHand(asked', i)
  BY ByHandGrows DEF StartInv
<1>2. MissedInv => MissedInv'
  BY ByHandGrows DEF MissedInv
<1> QED BY <1>1, <1>2 DEF StartInv

(* A discovery finds what had history when it began, one index at a time:     *)
(* what has history keeps it, so an index without it had none at the start.   *)
LEMMA FindGaps ==
  ASSUME IInv, TypeInv, GapInv, Discovery
  PROVE  StartInv'
<1> USE DEF Branch
<1>1. find \in Discoveries /\ hist \in [Branch -> SUBSET Nat] /\ FoundInv /\ StartInv
  BY TypeParts DEF TypeInv, IInv, FindTypes, GapInv
<1>2. ASSUME NEW into \in {"here", "elsewhere"}, FindBegin(into) PROVE StartInv'
  <2>1. find' = [NoFind EXCEPT !.pc = "scan", !.into = into, !.start = hist]
    BY <1>2 DEF FindBegin
  <2>2. /\ find'.start = hist /\ find'.index = 0 /\ find'.unused = 0 /\ find'.pc = "scan"
        /\ find'.branch = "receive" /\ find'.found["receive"] = {}
    BY <2>1 DEF NoFind
  <2>3. asked' = asked /\ \A i \in hist["receive"] :
          Close(hist["receive"], i) \/ ByHand(asked, i)
    BY <1>2 DEF FindBegin, GapInv, ShownInv
  <2>4. hist["receive"] \cap 0 .. 0 - 1 = {} /\ 0 - 0 .. 0 - 1 = {}
    OBVIOUS
  <2> QED BY <2>2, <2>3, <2>4 DEF StartInv
<1>3. CASE FindFails \/ (EnableCommit /\ ~EmptyBook)
  <2>1. find' = NoFind
    BY <1>3 DEF FindFails, EnableCommit, Store
  <2>2. find'.start["receive"] = {} /\ find'.branch = "receive" /\ find'.pc = "none"
    BY <2>1 DEF NoFind
  <2> QED BY <2>2 DEF StartInv
<1>4. CASE ImportCommit \/ (EnableCommit /\ EmptyBook)
  <2>1. /\ find' = [find EXCEPT !.pc = "done"] /\ find.branch = "change"
        /\ asked \subseteq asked'
    BY <1>4 DEF ImportCommit, EnableCommit, Found, Store, StoreFound
  <2>2. /\ find'.branch = "change" /\ find'.start = find.start /\ find'.found = find.found
    BY <1>1, <2>1 DEF Discoveries
  <2>3. StartInv /\ find.start["receive"] \in SUBSET Nat
    BY <1>1 DEF FoundInv
  <2> QED BY <2>1, <2>2, <2>3, StartGrows
<1>5. CASE FindChange
  <2>1. /\ find' = [find EXCEPT !.branch = "change", !.index = 0, !.unused = 0]
        /\ find.unused = GapLimit /\ find.branch = "receive" /\ find.pc = "scan"
    BY <1>5 DEF FindChange
  <2>2. /\ find'.branch = "change" /\ find'.start = find.start /\ find'.found = find.found
        /\ find'.pc = "scan"
    BY <1>1, <2>1 DEF Discoveries
  <2>3. MissedInv /\ asked' = asked
    BY <1>1, <1>5, <2>1, ReceiveComplete DEF FindChange
  <2> QED BY <1>1, <2>2, <2>3 DEF StartInv, MissedInv
<1>6. CASE FindQuery
  <2> DEFINE b == find.branch
             i == find.index
             hit == i \in hist[b]
             grown == IF hit THEN find.found[b] \cup {i} ELSE find.found[b]
             count == IF hit THEN 0 ELSE find.unused + 1
             all == [find.found EXCEPT ![b] = grown]
             S == find.start["receive"]
  <2>1. /\ find' = [find EXCEPT !.index = i + 1, !.unused = count, !.found = all]
        /\ find.pc = "scan" /\ asked' = asked
    BY <1>6 DEF FindQuery, Scanning, IInv, FindTypes
  <2>2. /\ b \in Branch /\ i \in Nat /\ find.unused \in Nat
        /\ find.found \in [Branch -> SUBSET Nat] /\ S \subseteq hist["receive"] /\ S \in SUBSET Nat
    BY <1>1 DEF Discoveries, FoundInv
  <2>3. /\ find'.index = i + 1 /\ find'.unused = count /\ find'.found = all
        /\ find'.branch = b /\ find'.start = find.start /\ find'.pc = "scan"
    BY <1>1, <2>1 DEF Discoveries
  <2>4. /\ all[b] = grown /\ \A d \in Branch : d # b => all[d] = find.found[d]
    <3> HIDE DEF grown, b
    <3> QED BY <2>2
  <2>5. b = "receive" => S \cap 0 .. i \subseteq grown /\ \A k \in i + 1 - count .. i : k \notin S
    <3> SUFFICES ASSUME b = "receive"
                 PROVE  S \cap 0 .. i \subseteq grown /\ \A k \in i + 1 - count .. i : k \notin S
      OBVIOUS
    <3>1. /\ S \cap 0 .. i - 1 \subseteq find.found[b]
          /\ \A k \in i - find.unused .. i - 1 : k \notin S
          /\ i \in S => hit
      BY <1>1, <2>2 DEF StartInv
    <3> HIDE DEF b, i, S
    <3>2. CASE hit
      BY <2>2, <3>1, <3>2
    <3>3. CASE ~hit
      BY <2>2, <3>1, <3>3
    <3> QED BY <3>2, <3>3
  <2>6. /\ \A x \in S : Close(S, x) \/ ByHand(asked, x)
        /\ b = "change" => MissedInv
    BY <1>1 DEF StartInv
  <2>7. find'.index - 1 = i /\ find'.index - find'.unused = i + 1 - count
    BY <2>2, <2>3
  <2>8. find'.start["receive"] = S
    BY <2>3
  <2> HIDE DEF grown, count, all, i, b, hit, S
  <2>9. b = "receive" =>
          /\ S \cap 0 .. find'.index - 1 \subseteq find'.found["receive"]
          /\ \A k \in find'.index - find'.unused .. find'.index - 1 : k \notin S
    BY <2>3, <2>4, <2>5, <2>7
  <2>10. b = "change" => MissedInv'
    <3>1. b = "change" => find'.found["receive"] = find.found["receive"]
      BY <2>3, <2>4
    <3> QED BY <2>1, <2>3, <2>6, <3>1 DEF MissedInv
  <2> QED BY <2>1, <2>3, <2>6, <2>8, <2>9, <2>10 DEF StartInv
<1> QED BY <1>2, <1>3, <1>4, <1>5, <1>6 DEF Discovery

LEMMA GapStep ==
  ASSUME ScanFits, IInv, TypeInv, GapInv, [Next]_vars
  PROVE  GapInv'
<1>1. TypeInv'
  BY TypeStep
<1>2. CASE UNCHANGED vars
  <2> USE <1>2 DEF vars
  <2>1. ShownInv' /\ AskInv' /\ StartInv'
    BY DEF GapInv, ShownInv, AskInv, StartInv, MissedInv
  <2>2. NextReceive' = NextReceive /\ Free' = Free
    BY DEF NextReceive, Free
  <2> HIDE DEF NextReceive, Free
  <2> QED BY <2>1, <2>2 DEF GapInv, IssueInv, Ahead
<1>3. CASE Next
  <2>1. ShownInv' /\ AskInv' /\ IssueInv'
    <3>1. CASE \E c \in Client : Receive(c)
      BY <3>1, ReadGaps, IssueGaps, AgainGaps DEF Receive
    <3>2. CASE EnableCommit
      BY <1>1, <3>2, CommitGaps
    <3>3. CASE ~EnableCommit /\ ~\E c \in Client : Receive(c)
      BY <1>1, <1>3, <3>3, OtherGaps DEF Next
    <3> QED BY <3>1, <3>2, <3>3
  <2>2. StartInv'
    <3>1. CASE Discovery
      BY <3>1, FindGaps
    <3>2. CASE ~Discovery
      <4>1. BookTypes
        BY TypeParts DEF TypeInv
      <4>2. find' = find
        BY <1>3, <3>2, <4>1, ReceiveTypes, ChangeTypes DEF Next
      <4>3. asked \subseteq asked'
        BY <1>3, <3>2 DEF Next, Receive, ReceiveRead, ReceiveIssue, ReceiveAgain, GetNewAddress,
                          Pay, MarkUsed, Change, SignDraft, CancelDraft, BroadcastDraft
      <4>4. find.start["receive"] \in SUBSET Nat
        BY DEF IInv, FindTypes, Branch
      <4> QED BY <4>2, <4>3, <4>4, StartGrows DEF GapInv
    <3> QED BY <3>1, <3>2
  <2> QED BY <2>1, <2>2 DEF GapInv
<1> QED BY <1>2, <1>3

(* However many addresses getnewaddress has issued, an import of the mnemonic *)
(* finds every receive address that had history when it began, but for those  *)
(* behind a gap that processes asking at once cannot have left alone, if the  *)
(* earlier wallet kept to the gap limit.                                      *)
THEOREM ImportsFindReceived ==
  ASSUME ScanFits, GapsSmall PROVE Spec => []ImportFindsReceived
<1>1. Init => TypeInv /\ GapInv
  BY InitTypes, InitGaps
<1>2. IInv /\ TypeInv /\ GapInv /\ [Next]_vars => TypeInv' /\ GapInv'
  BY TypeStep, GapStep
<1>3. GapInv => ImportFindsReceived
  BY DEF GapInv, StartInv, MissedInv, ByHand, ImportFindsReceived, OpenedByHand
<1> QED BY <1>1, <1>2, <1>3, BookInductive, PTL DEF Spec
=============================================================================
