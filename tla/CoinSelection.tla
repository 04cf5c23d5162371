---------------------------- MODULE CoinSelection ----------------------------
(***************************************************************************)
(* Funding and fee of one payment, of an HD wallet (select_coins and       *)
(* select_all_coins of src/tx/coin_selection.py, then the fee correction   *)
(* of src/tx/workflow.py) or of a single-key wallet (select_coins of       *)
(* src/single_key_wallet/coin_selection.py, then the correction of         *)
(* src/single_key_wallet/transaction.py).  A coin is its value; the        *)
(* candidates are already sorted largest first.  The signed size is the    *)
(* estimate less what the signatures save, none to two bytes each.         *)
(***************************************************************************)
EXTENDS Integers, Sequences, FiniteSets, SequencesExt

CONSTANTS
  Values,     \* possible values of a coin, in satoshis
  MaxCoins,   \* bounds of the numbers of candidates and included coins
  MaxIncluded,
  Amounts,    \* destination amounts
  Scripts,    \* script kinds of destinations
  Rates,      \* fee rates in tenths of a satoshi per vbyte
  Limits,     \* values of max_fee_sats, or NoLimit
  NoLimit     \* a fee limit above every fee

ASSUME ValuesAssumption ==
  /\ Values \subseteq Nat \ {0} /\ Amounts \subseteq Nat \ {0}
  /\ Rates \subseteq Nat \ {0} /\ Limits \subseteq Nat /\ NoLimit \in Nat

VARIABLES
  req,      \* the request: wallet, kind, to, all, amount, rate, limit, signRate
  included, \* how many coins the user included
  base,     \* what they add up to
  coins,    \* candidates, largest first
  n,        \* how many candidates are selected
  total,    \* what the included and the selected coins add up to
  phase,
  change,   \* value of the change output, 0 for none
  fee,
  tries,    \* fee corrections made while signing
  size      \* vsize of the signed transaction

vars ==
  <<req, included, base, coins, n, total, phase, change, fee, tries, size>>

-----------------------------------------------------------------------------
(* Sizes and fees.                                                         *)

Dust ==
  [p2pkh |-> 546, p2sh |-> 540, p2wpkh |-> 294, p2wsh |-> 330, p2tr |-> 330]
OutputSize ==
  [p2pkh |-> 34, p2sh |-> 32, p2wpkh |-> 31, p2wsh |-> 43, p2tr |-> 43]
InputSize == [p2pkh |-> 149, uncompressed |-> 181]

\* Inputs a wallet can spend, and destinations it can pay.
Kinds ==
  [hd |-> {"p2pkh", "p2wpkh"}, single |-> {"p2pkh", "p2wpkh", "uncompressed"}]
PaysTo == [hd |-> {"p2pkh", "p2wpkh"}, single |-> DOMAIN Dust]
Tries == [hd |-> 3, single |-> 8]

CompactSize(k) == IF k < 253 THEN 1 ELSE 3

\* Change goes to an address of the kind that is spent.
ChangeKind == IF req.kind = "uncompressed" THEN "p2pkh" ELSE req.kind

\* All that is not inputs, for one output, or two with change.
BaseSize(count, withChange) ==
  8 + CompactSize(count) + 1 + OutputSize[req.to]
    + IF withChange THEN OutputSize[ChangeKind] ELSE 0

\* Mutant: the marker of the witness is not counted.
SignedVSizeUnmarked(count, withChange, saved) ==
  IF req.kind = "p2wpkh"
  THEN ((BaseSize(count, withChange) + 41 * count) * 4
          + 109 * count - saved + 3) \div 4
  ELSE BaseSize(count, withChange) + InputSize[req.kind] * count - saved

\* The size count inputs have once signed, with signatures that save some
\* bytes of the estimate.
SignedVSize(count, withChange, saved) ==
  IF req.kind = "p2wpkh"
  THEN ((BaseSize(count, withChange) + 41 * count) * 4
          + 2 + 109 * count - saved + 3) \div 4
  ELSE BaseSize(count, withChange) + InputSize[req.kind] * count - saved

FeeFor(vsize, rate) == (rate * vsize + 9) \div 10

-----------------------------------------------------------------------------
\* A single-key wallet sends no amount that is dust where it goes.
AmountIsDust == req.wallet = "single" /\ req.amount < Dust[req.to]

Count == included + n

\* Mutant of EstimatedFee: the change output is not counted.
EstimatedFeeNoChange(withChange) ==
  FeeFor(SignedVSize(Count, FALSE, 0), req.rate)

EstimatedFee(withChange) == FeeFor(SignedVSize(Count, withChange, 0), req.rate)

ChangeLeft == total - req.amount - EstimatedFee(TRUE)

\* Mutant: change below twice the dust threshold goes to the fee.
WantsBigChange == Count > 0 /\ ChangeLeft >= 2 * Dust[ChangeKind]

\* The coins pay for a change output, or at least for the destination.
WithChange == Count > 0 /\ ChangeLeft >= Dust[ChangeKind]
Feasible ==
  /\ Count > 0
  /\ WithChange \/ total - req.amount >= EstimatedFee(FALSE)

Requests ==
  {r \in [wallet : {"hd", "single"}, kind : Kinds["hd"] \cup Kinds["single"],
          to : Scripts, all : BOOLEAN, amount : Amounts, rate : Rates,
          signRate : Rates, limit : Limits \cup {NoLimit}] :
     /\ r.kind \in Kinds[r.wallet] /\ r.to \in PaysTo[r.wallet]
     /\ r.wallet = "single" => r.signRate = r.rate
     /\ r.all => \A a \in Amounts : r.amount <= a}

Init ==
  /\ req \in Requests
  /\ coins \in BoundedSeq(Values, MaxCoins)
  /\ \A i \in 1 .. Len(coins) - 1 : coins[i] >= coins[i + 1]
  /\ included = 0 /\ base = 0 /\ n = 0 /\ total = 0
  /\ phase = IF req.all THEN "all" ELSE "adding"
  /\ change = 0 /\ fee = 0 /\ tries = 0 /\ size = 0

Stop(p) ==
  /\ phase' = p
  /\ UNCHANGED <<req, included, base, coins, n, total, change, fee, tries,
                 size>>

RejectDust ==
  /\ phase = "adding" /\ n = 0 /\ AmountIsDust
  /\ Stop("dust")

(* Inputs a user of an HD wallet names come before the candidates.         *)
Include ==
  /\ phase = "adding" /\ req.wallet = "hd" /\ n = 0 /\ included < MaxIncluded
  /\ \E value \in Values :
       /\ included' = included + 1 /\ base' = base + value
       /\ total' = total + value
  /\ UNCHANGED <<req, coins, n, phase, change, fee, tries, size>>

\* More coins are needed, or all of them are wanted.
WantsMore ==
  /\ n < Len(coins)
  /\ \/ phase = "all"
     \/ phase = "adding" /\ ~AmountIsDust /\ ~Feasible

\* Mutant: the smallest candidates are taken first.
AddSmallest ==
  /\ WantsMore
  /\ n' = n + 1 /\ total' = total + coins[Len(coins) - n]
  /\ UNCHANGED <<req, included, base, coins, phase, change, fee, tries, size>>

(* The loop over the candidates.                                           *)
AddCoin ==
  /\ WantsMore
  /\ n' = n + 1 /\ total' = total + coins[n + 1]
  /\ UNCHANGED <<req, included, base, coins, phase, change, fee, tries, size>>

GiveUp ==
  /\ phase = "adding" /\ ~AmountIsDust
  /\ ~Feasible /\ n = Len(coins)
  /\ Stop("insufficient")

Accept ==
  /\ phase = "adding" /\ ~AmountIsDust /\ Feasible
  /\ change' = IF WithChange THEN ChangeLeft ELSE 0
  /\ fee' = total - req.amount - change'
  /\ phase' = IF fee' > req.limit THEN "overlimit" ELSE "selected"
  /\ UNCHANGED <<req, included, base, coins, n, total, tries, size>>

(* Everything is sent, the fee comes out of the destination.               *)
AcceptAll ==
  /\ phase = "all" /\ n = Len(coins) /\ n > 0
  /\ fee' = EstimatedFee(FALSE)
  /\ fee' <= req.limit /\ total - fee' >= Dust[req.to]
  /\ phase' = "selected"
  /\ UNCHANGED <<req, included, base, coins, n, total, change, tries, size>>

RejectAll ==
  /\ phase = "all" /\ n = Len(coins)
  /\ n > 0 => \/ EstimatedFee(FALSE) > req.limit
              \/ total - EstimatedFee(FALSE) < Dust[req.to]
  /\ Stop("insufficient")

(***************************************************************************)
(* Signing.  signRate is the rate the document of an HD draft asks for     *)
(* when it is signed: the document is a file, and only its fee is checked  *)
(* against its inputs and outputs.  A single-key wallet signs at once.     *)
(***************************************************************************)
SignedSizes ==
  {SignedVSize(Count, change > 0, saved) : saved \in 0 .. 2 * Count}

SignEnough ==
  /\ phase = "selected" /\ tries < Tries[req.wallet]
  /\ size' \in SignedSizes
  /\ fee >= FeeFor(size', req.signRate)
  /\ phase' = IF fee > req.limit THEN "overlimit" ELSE "signed"
  /\ UNCHANGED <<req, included, base, coins, n, total, change, fee, tries>>

\* The output a correction takes from, and what has to remain of it: the
\* change, or the destination when a single-key wallet sends everything.
FromDestination == req.wallet = "single" /\ req.all
Adjustable == IF FromDestination THEN total - fee ELSE change
Remainder == IF FromDestination THEN Dust[req.to] ELSE Dust[ChangeKind]

Deficits ==
  {FeeFor(s, req.signRate) - fee : s \in SignedSizes} \cap (Nat \ {0})

\* The deficit is paid from the output that gives way.
Pay(deficit) ==
  /\ change' = IF FromDestination THEN change ELSE change - deficit
  /\ fee' = fee + deficit

\* Mutant: the corrected change may become dust.
CorrectToDust ==
  /\ phase = "selected" /\ tries < Tries[req.wallet] /\ Adjustable > 0
  /\ \E deficit \in Deficits : Adjustable - deficit > 0 /\ Pay(deficit)
  /\ tries' = tries + 1
  /\ UNCHANGED <<req, included, base, coins, n, total, phase, size>>

Correct ==
  /\ phase = "selected" /\ tries < Tries[req.wallet] /\ Adjustable > 0
  /\ \E deficit \in Deficits :
       /\ Adjustable - deficit >= Remainder
       /\ req.wallet = "single" => fee + deficit <= req.limit
       /\ Pay(deficit)
  /\ tries' = tries + 1
  /\ UNCHANGED <<req, included, base, coins, n, total, phase, size>>

CannotCorrect ==
  /\ phase = "selected"
  /\ \/ tries = Tries[req.wallet]
     \/ \E deficit \in Deficits :
          \/ Adjustable - deficit < Remainder
          \/ req.wallet = "single" /\ fee + deficit > req.limit
  /\ Stop("failed")

Next ==
  \/ RejectDust \/ Include \/ AddCoin \/ GiveUp \/ Accept \/ AcceptAll \/ RejectAll
  \/ SignEnough \/ Correct \/ CannotCorrect

Spec == Init /\ [][Next]_vars

-----------------------------------------------------------------------------
(* Properties.                                                             *)

\* What a set of candidates is worth, counted from b upwards.
Worth(cs, b, S) ==
  FoldLeftDomain(LAMBDA a, i : a + IF i \in S THEN cs[i] ELSE 0, b, cs)

(* The reference definition: some subset of the candidates, with the       *)
(* included coins, pays the destination and the fee without change.        *)
Pays(S) ==
  LET count == included + Cardinality(S)
  IN  /\ count > 0
      /\ Worth(coins, base, S)
           >= req.amount + FeeFor(SignedVSize(count, FALSE, 0), req.rate)

(* Largest-first is complete and uses as few inputs as any selection: it   *)
(* gives up only when no subset pays, and no smaller subset ever pays.     *)
SelectionOptimal ==
  ~req.all /\ phase \notin {"adding", "dust", "gone"} =>
    \A S \in SUBSET DOMAIN coins :
      Pays(S) => phase # "insufficient" /\ n <= Cardinality(S)

(* Nothing that could have been a change output is given away as fee.      *)
NoChangeBurnt ==
  phase = "selected" /\ ~req.all /\ change = 0 =>
    fee < EstimatedFee(TRUE) + Dust[ChangeKind]

(* A signed transaction pays the rate for its own size and no more than    *)
(* the limit, its change is absent or above dust, and so is the            *)
(* destination where the wallet promises it; an amount is paid in full.    *)
SignedPaysRate ==
  phase = "signed" =>
    /\ FeeFor(size, req.signRate) <= fee /\ fee <= req.limit
    /\ change = 0 \/ change >= Dust[ChangeKind]
    /\ IF req.all THEN total - fee >= Dust[req.to]
       ELSE /\ total = req.amount + change + fee
            /\ req.wallet = "single" => req.amount >= Dust[req.to]

(* The estimate allows for the largest signatures: at the rate it was      *)
(* funded for, a payment is never corrected and never fails on its fee.    *)
EstimateSuffices ==
  req.signRate = req.rate => tries = 0 /\ phase # "failed"
=============================================================================
