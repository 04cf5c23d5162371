------------------------- MODULE CoinSelection_proofs -------------------------
(***************************************************************************)
(* Proofs about CoinSelection for every set of values, amounts and rates:  *)
(* what is settled adds up, no satoshi is burnt, and the largest coins     *)
(* first need the fewest inputs.  What coins add up to is proved over the  *)
(* sets of their indices.                                                  *)
(***************************************************************************)
EXTENDS CoinSelection, FiniteSetTheorems, WellFoundedInduction, TLAPS

TypeInv ==
  /\ req \in Requests
  /\ coins \in BoundedSeq(Values, MaxCoins)
  /\ included \in Nat /\ base \in Int /\ n \in 0 .. Len(coins) /\ total \in Int
  /\ change \in Int /\ fee \in Int /\ tries \in Nat /\ size \in Int

(* The fee of the estimate with a change output, and without one.          *)
FullFee == EstimatedFee(TRUE)
PlainFee == EstimatedFee(FALSE)

(* What the selection settled.                                             *)
Settled ==
  /\ 0 <= change /\ (change = 0 \/ change >= Dust[ChangeKind])
  /\ IF req.all THEN change = 0 /\ total - fee >= Dust[req.to]
     ELSE /\ total = req.amount + change + fee
          /\ req.wallet = "single" => req.amount >= Dust[req.to]

(* The fee covers the estimate, as long as no signature has asked for more. *)
Funded ==
  /\ tries = 0 =>
       /\ (IF change > 0 THEN FullFee ELSE PlainFee) <= fee
       /\ fee <= req.limit
  /\ ~req.all /\ change = 0 => fee < FullFee + Dust[ChangeKind]

IInv ==
  /\ TypeInv
  /\ phase = "adding" => ~req.all
  /\ phase = "all" => req.all
  /\ phase \in {"adding", "all"} => change = 0 /\ tries = 0
  /\ phase \in {"selected", "signed"} => Settled
  /\ phase = "selected" => Funded
  /\ SignedPaysRate
  /\ EstimateSuffices

-----------------------------------------------------------------------------
(* A larger transaction never pays a smaller fee.                          *)
LEMMA FeeMonotone ==
  ASSUME NEW rate \in Nat, NEW a \in Int, NEW b \in Int, a <= b
  PROVE  /\ FeeFor(a, rate) \in Int /\ FeeFor(b, rate) \in Int
         /\ FeeFor(a, rate) <= FeeFor(b, rate)
<1>1. /\ rate * a \in Int /\ rate * b \in Int
  OBVIOUS
<1>2. rate * a <= rate * b
  OBVIOUS
<1>3. ASSUME NEW x \in Int, NEW y \in Int, x <= y
      PROVE  /\ (x + 9) \div 10 \in Int /\ (y + 9) \div 10 \in Int
             /\ (x + 9) \div 10 <= (y + 9) \div 10
  BY <1>3
<1> QED BY <1>1, <1>2, <1>3 DEF FeeFor

(* The request is one the wallet supports: its sizes and thresholds exist. *)
LEMMA RequestFacts ==
  ASSUME req \in Requests
  PROVE  /\ req.wallet \in {"hd", "single"} /\ req.all \in BOOLEAN
         /\ req.amount \in Nat \ {0} /\ req.limit \in Nat
         /\ req.rate \in Nat /\ req.signRate \in Nat
         /\ OutputSize[req.to] \in Nat /\ OutputSize[ChangeKind] \in Nat
         /\ Dust[req.to] \in Nat \ {0} /\ Dust[ChangeKind] \in Nat \ {0}
         /\ req.kind = "p2wpkh" \/ InputSize[req.kind] \in Nat
         /\ Tries[req.wallet] \in Nat \ {0}
         /\ req.wallet = "single" => req.signRate = req.rate
<1>1. /\ req.wallet \in {"hd", "single"} /\ req.all \in BOOLEAN
      /\ req.amount \in Amounts /\ req.rate \in Rates /\ req.signRate \in Rates
      /\ req.limit \in Limits \cup {NoLimit}
      /\ req.kind \in Kinds[req.wallet] /\ req.to \in PaysTo[req.wallet]
      /\ req.wallet = "single" => req.signRate = req.rate
  BY DEF Requests
<1>2. /\ req.amount \in Nat \ {0} /\ req.limit \in Nat
      /\ req.rate \in Nat /\ req.signRate \in Nat
  BY <1>1, ValuesAssumption
<1>3. req.kind \in {"p2pkh", "p2wpkh", "uncompressed"}
  BY <1>1 DEF Kinds
<1>4. req.to \in {"p2pkh", "p2sh", "p2wpkh", "p2wsh", "p2tr"}
  BY <1>1 DEF PaysTo, Dust
<1>5. ChangeKind \in {"p2pkh", "p2wpkh"}
  BY <1>3 DEF ChangeKind
<1>6. /\ OutputSize[req.to] \in Nat /\ OutputSize[ChangeKind] \in Nat
      /\ Dust[req.to] \in Nat \ {0} /\ Dust[ChangeKind] \in Nat \ {0}
  BY <1>4, <1>5 DEF OutputSize, Dust
<1>7. /\ req.kind = "p2wpkh" \/ InputSize[req.kind] \in Nat
      /\ Tries[req.wallet] \in Nat \ {0}
  BY <1>1, <1>3 DEF InputSize, Tries
<1> QED BY <1>1, <1>2, <1>6, <1>7

(* Shorter signatures never make a transaction larger.                     *)
LEMMA SizeMonotone ==
  ASSUME req \in Requests,
         NEW count \in Nat, NEW withChange \in BOOLEAN, NEW saved \in Nat
  PROVE  /\ SignedVSize(count, withChange, saved) \in Int
         /\ SignedVSize(count, withChange, saved)
              <= SignedVSize(count, withChange, 0)
<1>1. BaseSize(count, withChange) \in Int
  BY RequestFacts DEF BaseSize, CompactSize
<1>2. CASE req.kind = "p2wpkh"
  <2>1. ASSUME NEW b \in Int
        PROVE  /\ ((b + 41 * count) * 4 + 2 + 109 * count - saved + 3) \div 4
                    \in Int
               /\ ((b + 41 * count) * 4 + 2 + 109 * count - saved + 3) \div 4
                    <= ((b + 41 * count) * 4 + 2 + 109 * count - 0 + 3) \div 4
    OBVIOUS
  <2> QED BY <1>1, <1>2, <2>1 DEF SignedVSize
<1>3. CASE req.kind # "p2wpkh"
  <2>1. InputSize[req.kind] * count \in Int
    BY <1>3, RequestFacts
  <2> QED BY <1>1, <1>3, <2>1 DEF SignedVSize
<1> QED BY <1>2, <1>3

(* Estimated fees are integers and follow the size.                        *)
LEMMA EstimateFacts ==
  ASSUME TypeInv, NEW withChange \in BOOLEAN
  PROVE  /\ EstimatedFee(withChange) \in Int /\ Count \in Nat
         /\ FullFee \in Int /\ PlainFee \in Int
         /\ ChangeLeft = total - req.amount - FullFee
         /\ \A saved \in Nat :
              /\ SignedVSize(Count, withChange, saved) \in Int
              /\ FeeFor(SignedVSize(Count, withChange, saved), req.signRate)
                   \in Int
              /\ req.signRate = req.rate =>
                   FeeFor(SignedVSize(Count, withChange, saved), req.signRate)
                     <= EstimatedFee(withChange)
<1>1. /\ req \in Requests /\ Count \in Nat /\ total \in Int
  BY DEF TypeInv, Count
<1>2. /\ req.rate \in Nat /\ req.signRate \in Nat /\ req.amount \in Nat
  BY <1>1, RequestFacts
<1>3. \A change_ \in BOOLEAN, saved \in Nat :
        /\ SignedVSize(Count, change_, saved) \in Int
        /\ SignedVSize(Count, change_, saved) <= SignedVSize(Count, change_, 0)
  BY <1>1, SizeMonotone
<1>4. \A change_ \in BOOLEAN : SignedVSize(Count, change_, 0) \in Int
  BY <1>3
<1>5. \A change_ \in BOOLEAN : EstimatedFee(change_) \in Int
  BY <1>2, <1>4, FeeMonotone DEF EstimatedFee
<1>6. /\ FullFee \in Int /\ PlainFee \in Int
      /\ ChangeLeft = total - req.amount - FullFee
  BY <1>5, Zenon DEF FullFee, PlainFee, ChangeLeft
<1>7. ASSUME NEW saved \in Nat
      PROVE  /\ FeeFor(SignedVSize(Count, withChange, saved), req.signRate)
                  \in Int
             /\ req.signRate = req.rate =>
                  FeeFor(SignedVSize(Count, withChange, saved), req.signRate)
                    <= EstimatedFee(withChange)
  BY <1>2, <1>3, <1>4, FeeMonotone DEF EstimatedFee
<1> QED BY <1>1, <1>3, <1>5, <1>6, <1>7

(* What only depends on the request and the coins stays with them.         *)
LEMMA SameEstimate ==
  ASSUME UNCHANGED <<req, included, n>>
  PROVE  /\ \A withChange \in BOOLEAN :
              EstimatedFee(withChange)' = EstimatedFee(withChange)
         /\ FullFee' = FullFee /\ PlainFee' = PlainFee
         /\ Dust[ChangeKind]' = Dust[ChangeKind] /\ Count' = Count
<1>1. Count' = Count
  BY DEF Count
<1>2. ChangeKind' = ChangeKind
  BY DEF ChangeKind
<1>3. \A withChange \in BOOLEAN :
        EstimatedFee(withChange)' = EstimatedFee(withChange)
  BY <1>1, <1>2 DEF EstimatedFee, FeeFor, SignedVSize, BaseSize
<1>4. FullFee' = FullFee /\ PlainFee' = PlainFee
  BY <1>3, Zenon DEF FullFee, PlainFee
<1> QED BY <1>1, <1>2, <1>3, <1>4
-----------------------------------------------------------------------------
(* Initially nothing is selected.                                          *)
LEMMA InitIInv == Init => IInv
<1> SUFFICES ASSUME Init PROVE IInv
  OBVIOUS
<1>1. req.all \in BOOLEAN
  BY RequestFacts DEF Init
<1>2. Len(coins) \in Nat
  BY DEF Init, BoundedSeq, SeqOf
<1>3. TypeInv
  BY <1>2 DEF Init, TypeInv
<1> QED BY <1>1, <1>3 DEF Init, IInv, SignedPaysRate, EstimateSuffices

(* A payment that stops keeps what it had.                                 *)
LEMMA StopKeeps ==
  ASSUME IInv, NEW p, Stop(p),
         p \notin {"adding", "all", "selected", "signed"},
         p = "failed" => req.signRate # req.rate
  PROVE  IInv'
<1>1. TypeInv'
  BY DEF IInv, TypeInv, Stop
<1> QED BY <1>1 DEF IInv, Stop, SignedPaysRate, EstimateSuffices

LEMMA RejectDustKeeps == IInv /\ RejectDust => IInv'
BY StopKeeps DEF RejectDust

LEMMA GiveUpKeeps == IInv /\ GiveUp => IInv'
BY StopKeeps DEF GiveUp

LEMMA RejectAllKeeps == IInv /\ RejectAll => IInv'
BY StopKeeps DEF RejectAll

(* Coins come in only while nothing is settled.                            *)
LEMMA IncludeKeeps == IInv /\ Include => IInv'
<1> SUFFICES ASSUME IInv, Include PROVE IInv'
  OBVIOUS
<1>1. TypeInv'
  BY ValuesAssumption DEF IInv, TypeInv, Include
<1> QED BY <1>1 DEF IInv, Include, SignedPaysRate, EstimateSuffices

LEMMA AddCoinKeeps == IInv /\ AddCoin => IInv'
<1> SUFFICES ASSUME IInv, AddCoin PROVE IInv'
  OBVIOUS
<1>0. PICK m \in 0 .. MaxCoins : coins \in [1 .. m -> Values]
  BY DEF IInv, TypeInv, BoundedSeq, SeqOf
<1>1. n + 1 \in 1 .. Len(coins) /\ Len(coins) = m
  BY <1>0 DEF IInv, TypeInv, AddCoin, WantsMore
<1>2. coins[n + 1] \in Int
  <2>1. coins[n + 1] \in Values
    BY <1>0, <1>1
  <2>2. \A value \in Values : value \in Int
    BY ValuesAssumption
  <2> QED BY <2>1, <2>2, Zenon
<1>3. TypeInv'
  BY <1>1, <1>2 DEF IInv, TypeInv, AddCoin
<1>4. phase \in {"adding", "all"}
  BY DEF AddCoin, WantsMore
<1> QED BY <1>3, <1>4 DEF IInv, AddCoin, SignedPaysRate, EstimateSuffices

(* The selection settles change and fee for the coins it has.              *)
LEMMA AcceptKeeps == IInv /\ Accept => IInv'
<1> SUFFICES ASSUME IInv, Accept PROVE IInv'
  OBVIOUS
<1>1. /\ TypeInv /\ req \in Requests /\ phase = "adding" /\ ~req.all
      /\ tries = 0 /\ total \in Int
  BY DEF IInv, TypeInv, Accept
<1>2. /\ req.amount \in Nat /\ req.limit \in Nat
      /\ Dust[ChangeKind] \in Nat \ {0} /\ req.wallet \in {"hd", "single"}
  BY <1>1, RequestFacts
<1>3. /\ FullFee \in Int /\ PlainFee \in Int
      /\ ChangeLeft = total - req.amount - FullFee
  BY <1>1, EstimateFacts
<1>4. /\ FullFee' = FullFee /\ PlainFee' = PlainFee
      /\ Dust[ChangeKind]' = Dust[ChangeKind]
  BY SameEstimate DEF Accept
<1>5. /\ change' = 0 \/ change' >= Dust[ChangeKind]
      /\ change' \in Int /\ 0 <= change' /\ fee' \in Int
      /\ total = req.amount + change' + fee'
  <2>1. change' = IF WithChange THEN ChangeLeft ELSE 0
    BY DEF Accept
  <2>2. fee' = total - req.amount - change'
    BY DEF Accept
  <2>3. ChangeLeft \in Int
    BY <1>1, <1>2, <1>3
  <2>4. /\ change' \in Int /\ 0 <= change'
        /\ change' = 0 \/ change' >= Dust[ChangeKind]
    BY <1>2, <2>1, <2>3 DEF WithChange
  <2> QED BY <1>1, <1>2, <2>2, <2>4
<1>6. req.wallet = "single" => req.amount >= Dust[req.to]
  <2>1. Dust[req.to] \in Nat
    BY <1>1, RequestFacts
  <2> QED BY <1>2, <2>1 DEF Accept, AmountIsDust
<1>7. TypeInv'
  BY <1>1, <1>5 DEF TypeInv, Accept
<1>8. Settled'
  BY <1>1, <1>4, <1>5, <1>6 DEF Settled, Accept
<1>9. phase' = "selected" => Funded'
  <2>1. /\ WithChange => change' = ChangeLeft /\ change' > 0
        /\ ~WithChange => /\ change' = 0 /\ total - req.amount >= PlainFee
                          /\ ChangeLeft < Dust[ChangeKind]
    <3>1. Feasible => \/ WithChange
                      \/ total - req.amount >= PlainFee /\ Count > 0
      BY DEF Feasible, PlainFee
    <3> QED BY <1>2, <1>3, <3>1 DEF Accept, WithChange
  <2>2. fee' = total - req.amount - change' /\ UNCHANGED <<req, tries>>
    BY DEF Accept
  <2>3. phase' = "selected" => fee' <= req.limit
    BY <1>2, <1>5 DEF Accept
  <2>4. CASE WithChange
    BY <1>1, <1>2, <1>3, <1>4, <2>1, <2>2, <2>3, <2>4 DEF Funded
  <2>5. CASE ~WithChange
    BY <1>1, <1>2, <1>3, <1>4, <2>1, <2>2, <2>3, <2>5 DEF Funded
  <2> QED BY <2>4, <2>5
<1> QED BY <1>1, <1>7, <1>8, <1>9
    DEF IInv, Accept, SignedPaysRate, EstimateSuffices

LEMMA AcceptAllKeeps == IInv /\ AcceptAll => IInv'
<1> SUFFICES ASSUME IInv, AcceptAll PROVE IInv'
  OBVIOUS
<1>1. /\ TypeInv /\ req \in Requests /\ phase = "all" /\ req.all
      /\ change = 0 /\ tries = 0
  BY DEF IInv, TypeInv, AcceptAll
<1>2. /\ PlainFee \in Int /\ fee' = PlainFee
      /\ fee' <= req.limit /\ total - fee' >= Dust[req.to]
      /\ UNCHANGED <<req, total, change, tries>>
  BY <1>1, EstimateFacts, Zenon DEF AcceptAll, PlainFee
<1>3. PlainFee' = PlainFee
  BY SameEstimate DEF AcceptAll
<1>4. TypeInv'
  BY <1>1, <1>2 DEF TypeInv, AcceptAll
<1>5. Settled'
  BY <1>1, <1>2 DEF Settled
<1>6. Funded'
  BY <1>1, <1>2, <1>3 DEF Funded
<1> QED BY <1>1, <1>4, <1>5, <1>6
    DEF IInv, AcceptAll, SignedPaysRate, EstimateSuffices

-----------------------------------------------------------------------------
(* At the rate it was funded for, no signed size asks for more.            *)
LEMMA NoDeficit ==
  ASSUME IInv, phase = "selected", req.signRate = req.rate
  PROVE  Deficits = {}
<1>1. /\ TypeInv /\ req \in Requests /\ tries = 0 /\ fee \in Int
      /\ change \in Int /\ Funded
  BY DEF IInv, TypeInv, EstimateSuffices
<1>2. (change > 0) \in BOOLEAN /\ EstimatedFee(change > 0) <= fee
  <2>1. CASE change > 0
    <3>1. (change > 0) = TRUE
      BY <2>1
    <3>2. EstimatedFee(change > 0) = FullFee
      BY <3>1, Zenon DEF FullFee
    <3> QED BY <1>1, <2>1, <3>2 DEF Funded
  <2>2. CASE ~(change > 0)
    <3>1. (change > 0) = FALSE
      BY <2>2
    <3>2. EstimatedFee(change > 0) = PlainFee
      BY <3>1, Zenon DEF PlainFee
    <3> QED BY <1>1, <2>2, <3>2 DEF Funded
  <2> QED BY <2>1, <2>2
<1>3. EstimatedFee(change > 0) \in Int /\ Count \in Nat
  BY <1>1, <1>2, EstimateFacts
<1>4. \A saved \in Nat :
        /\ FeeFor(SignedVSize(Count, change > 0, saved), req.signRate) \in Int
        /\ FeeFor(SignedVSize(Count, change > 0, saved), req.signRate)
             <= EstimatedFee(change > 0)
  BY <1>1, <1>2, EstimateFacts
<1>5. ASSUME NEW s \in SignedSizes
      PROVE  FeeFor(s, req.signRate) - fee \notin Nat \ {0}
  <2>1. PICK saved \in 0 .. 2 * Count :
          s = SignedVSize(Count, change > 0, saved)
    BY DEF SignedSizes
  <2>2. saved \in Nat
    BY <1>3
  <2>3. \A a, b, c \in Int : a <= b /\ b <= c => a - c \notin Nat \ {0}
    OBVIOUS
  <2> QED BY <1>1, <1>2, <1>3, <1>4, <2>1, <2>2, <2>3, Zenon
<1> QED BY <1>5 DEF Deficits

LEMMA SignEnoughKeeps == IInv /\ SignEnough => IInv'
<1> SUFFICES ASSUME IInv, SignEnough PROVE IInv'
  OBVIOUS
<1>1. /\ TypeInv /\ req \in Requests /\ phase = "selected" /\ Settled
      /\ fee \in Int /\ req.limit \in Nat
  BY RequestFacts DEF IInv, TypeInv, SignEnough
<1>2. size' \in Int /\ FeeFor(size', req.signRate) \in Int
  <2>1. PICK saved \in 0 .. 2 * Count :
          size' = SignedVSize(Count, change > 0, saved)
    BY DEF SignEnough, SignedSizes
  <2>2. (change > 0) \in BOOLEAN /\ saved \in Nat
    BY <1>1, EstimateFacts
  <2> QED BY <1>1, <2>1, <2>2, EstimateFacts
<1>3. /\ Dust[ChangeKind]' = Dust[ChangeKind]
      /\ UNCHANGED <<req, change, fee, total, tries>>
  BY SameEstimate DEF SignEnough
<1>4. TypeInv'
  BY <1>1, <1>2 DEF TypeInv, SignEnough
<1>5. Settled'
  BY <1>1, <1>3 DEF Settled
<1>6. phase' = "signed" => fee <= req.limit
  BY <1>1 DEF SignEnough
<1>7. SignedPaysRate'
  BY <1>1, <1>3, <1>5, <1>6 DEF SignedPaysRate, Settled, SignEnough, FeeFor
<1>8. EstimateSuffices'
  BY <1>1, <1>3 DEF IInv, EstimateSuffices, SignEnough
<1> QED BY <1>4, <1>5, <1>7, <1>8 DEF IInv, SignEnough

(* A correction moves satoshis to the fee and stops before dust.           *)
LEMMA CorrectKeeps == IInv /\ Correct => IInv'
<1> SUFFICES ASSUME IInv, Correct PROVE IInv'
  OBVIOUS
<1>1. /\ TypeInv /\ req \in Requests /\ phase = "selected" /\ Settled /\ Funded
      /\ fee \in Int /\ change \in Int /\ total \in Int /\ tries \in Nat
  BY DEF IInv, TypeInv, Correct
<1>2. /\ req.amount \in Nat /\ req.all \in BOOLEAN
      /\ Dust[ChangeKind] \in Nat \ {0} /\ Dust[req.to] \in Nat \ {0}
  BY <1>1, RequestFacts
<1>3. PICK deficit \in Deficits :
        Adjustable - deficit >= Remainder /\ Pay(deficit)
  BY DEF Correct
<1>4. deficit \in Nat \ {0} /\ Deficits # {}
  BY <1>3 DEF Deficits
<1>5. /\ Dust[ChangeKind]' = Dust[ChangeKind]
      /\ UNCHANGED <<req, total>> /\ tries' = tries + 1 /\ phase' = "selected"
  BY <1>1, SameEstimate DEF Correct
<1>6. /\ change' \in Int /\ fee' \in Int
  BY <1>1, <1>3, <1>4 DEF Pay
<1>7. TypeInv'
  BY <1>1, <1>5, <1>6 DEF TypeInv, Correct
<1>8. Settled'
  <2>1. CASE FromDestination
    BY <1>1, <1>2, <1>3, <1>4, <1>5, <2>1
    DEF Settled, FromDestination, Pay, Adjustable, Remainder
  <2>2. CASE ~FromDestination
    <3>1. change' = change - deficit /\ fee' = fee + deficit
          /\ change' >= Dust[ChangeKind]
      BY <1>3, <2>2 DEF Pay, Adjustable, Remainder
    <3>2. change > 0 /\ ~req.all
      BY <1>1, <1>2, <1>4, <3>1 DEF Settled
    <3> QED BY <1>1, <1>2, <1>4, <1>5, <3>1, <3>2 DEF Settled
  <2> QED BY <2>1, <2>2
<1>9. Funded'
  <2>1. tries' # 0
    BY <1>1, <1>5
  <2>2. ~req.all => change' # 0
    BY <1>1, <1>2, <1>3, <1>4 DEF Pay, Adjustable, Remainder, FromDestination
  <2> QED BY <1>5, <2>1, <2>2 DEF Funded
<1>10. EstimateSuffices'
  BY <1>1, <1>4, <1>5, NoDeficit DEF EstimateSuffices
<1> QED BY <1>5, <1>7, <1>8, <1>9, <1>10 DEF IInv, SignedPaysRate

LEMMA CannotCorrectKeeps == IInv /\ CannotCorrect => IInv'
<1> SUFFICES ASSUME IInv, CannotCorrect PROVE IInv'
  OBVIOUS
<1>1. req \in Requests /\ phase = "selected" /\ Stop("failed")
  BY DEF IInv, TypeInv, CannotCorrect
<1>2. req.signRate # req.rate
  <2> SUFFICES ASSUME req.signRate = req.rate PROVE FALSE
    OBVIOUS
  <2>1. tries = 0 /\ Tries[req.wallet] # 0
    BY <1>1, RequestFacts DEF IInv, EstimateSuffices
  <2>2. Deficits = {}
    BY <1>1, NoDeficit
  <2> QED BY <2>1, <2>2 DEF CannotCorrect
<1> QED BY <1>1, <1>2, StopKeeps

-----------------------------------------------------------------------------
(* Every operation preserves the invariant.                                *)
LEMMA Inductive == IInv /\ [Next]_vars => IInv'
<1> SUFFICES ASSUME IInv, [Next]_vars PROVE IInv'
  OBVIOUS
<1>1. CASE Next
  BY <1>1, RejectDustKeeps, IncludeKeeps, AddCoinKeeps, GiveUpKeeps,
     AcceptKeeps, AcceptAllKeeps, RejectAllKeeps, SignEnoughKeeps,
     CorrectKeeps, CannotCorrectKeeps DEF Next
<1>2. CASE UNCHANGED vars
  <2>1. TypeInv'
    BY <1>2 DEF IInv, TypeInv, vars
  <2>2. /\ FullFee' = FullFee /\ PlainFee' = PlainFee
        /\ Dust[ChangeKind]' = Dust[ChangeKind]
        /\ UNCHANGED <<req, total, phase, change, fee, tries, size>>
    BY <1>2, SameEstimate DEF vars
  <2>3. (Settled' <=> Settled) /\ (Funded => Funded')
    BY <2>2 DEF Settled, Funded
  <2>4. SignedPaysRate' <=> SignedPaysRate
    BY <2>2 DEF SignedPaysRate, FeeFor
  <2> QED BY <2>1, <2>2, <2>3, <2>4 DEF IInv, EstimateSuffices
<1> QED BY <1>1, <1>2

(* The inductive invariant of every payment, whatever the coins, amounts,  *)
(* rates and limits: what is settled adds up and covers the estimate.      *)
THEOREM SpecIInv == Spec => []IInv
<1> QED BY InitIInv, Inductive, PTL DEF Spec

(* A signed transaction pays its rate within the limit, creates no dust    *)
(* and pays the amount in full, for every wallet, coin and rate.           *)
THEOREM PaysRate == Spec => []SignedPaysRate
<1>1. IInv => SignedPaysRate
  BY DEF IInv
<1> QED BY <1>1, SpecIInv, PTL

(* A payment signed at the rate it was funded for needs no correction.     *)
THEOREM Suffices == Spec => []EstimateSuffices
<1>1. IInv => EstimateSuffices
  BY DEF IInv
<1> QED BY <1>1, SpecIInv, PTL

(* No change that could have been an output goes to the fee.               *)
THEOREM NothingBurnt == Spec => []NoChangeBurnt
<1>1. IInv => NoChangeBurnt
  BY DEF IInv, Funded, NoChangeBurnt, FullFee
<1> QED BY <1>1, SpecIInv, PTL

-----------------------------------------------------------------------------
(***************************************************************************)
(* The worth of a selection.  The reference definition folds over all the  *)
(* candidates; its partial sums are compared with those of the first ones, *)
(* by induction on the number of candidates.                               *)
(***************************************************************************)
(* A nonempty set of natural numbers has a least one.                      *)
LEMMA Least ==
  ASSUME NEW T, T \subseteq Nat, T # {}
  PROVE  \E k \in T : k \in Nat /\ \A m \in T : k <= m
<1>1. IsWellFoundedOn(OpToRel(<, Nat), Nat)
  BY NatLessThanWellFounded, Zenon
<1>2. PICK R : R = OpToRel(<, Nat)
  OBVIOUS
<1>3. \A x, y \in Nat : y < x => <<y, x>> \in R
  BY <1>2 DEF OpToRel
<1>4. PICK k \in T : \A m \in T : ~ (<<m, k>> \in R)
  BY <1>1, <1>2, WFMin
<1>5. \A m \in T : m \in Nat /\ k \in Nat /\ ~(m < k)
  BY <1>3, <1>4
<1> QED BY <1>4, <1>5

(* A set of numbers that has 0, and k with k - 1, has all up to a bound.   *)
LEMMA UpTo ==
  ASSUME NEW L \in Nat, NEW T, 0 \in T, \A k \in 1 .. L : k - 1 \in T => k \in T
  PROVE  0 .. L \subseteq T
<1> SUFFICES ASSUME ~(0 .. L \subseteq T) PROVE FALSE
  OBVIOUS
<1> DEFINE Bad == (0 .. L) \ T
<1>1. Bad \subseteq Nat /\ Bad # {}
  OBVIOUS
<1>2. PICK k \in Bad : k \in Nat /\ \A m \in Bad : k <= m
  <2> HIDE DEF Bad
  <2> QED BY <1>1, Least
<1>3. k # 0 /\ k - 1 \notin Bad
  BY <1>2
<1> QED BY <1>2, <1>3

(* The greatest element of a nonempty set of indices.                      *)
LEMMA Greatest ==
  ASSUME NEW L \in Nat, NEW Q \in SUBSET (1 .. L), Q # {}
  PROVE  Max(Q) \in Q /\ \A x \in Q : x <= Max(Q)
<1> DEFINE T == {L - x : x \in Q}
<1>0. \A x \in Q : x \in 1 .. L /\ L - x \in Nat
  OBVIOUS
<1>1. T \subseteq Nat /\ T # {}
  BY <1>0
<1>2. PICK k \in T : k \in Nat /\ \A m \in T : k <= m
  <2> HIDE DEF T
  <2> QED BY <1>1, Least
<1>3. PICK m \in Q : k = L - m
  OBVIOUS
<1>4. \A x \in Q : k <= L - x
  BY <1>2
<1>5. m \in Q /\ \A x \in Q : m >= x
  BY <1>0, <1>3, <1>4
<1>6. Max(Q) \in Q /\ \A x \in Q : Max(Q) >= x
  BY <1>5 DEF Max
<1> HIDE DEF T
<1> QED BY <1>0, <1>6

(* The fold over the subsets of the indices, largest index last.           *)
Adds(f, b, W) ==
  \A Q \in DOMAIN f : f[Q] = IF Q = {} THEN b ELSE f[Q \ {Max(Q)}] + W[Max(Q)]

LEMMA SumExists ==
  ASSUME NEW L \in Nat, NEW b \in Int, NEW W \in [1 .. L -> Int]
  PROVE  \E f \in [SUBSET (1 .. L) -> Int] : Adds(f, b, W)
<1> DEFINE T == {k \in 0 .. L : \E f \in [SUBSET (1 .. k) -> Int] : Adds(f, b, W)}
<1>1. 0 \in T
  <2> DEFINE f == [Q \in SUBSET (1 .. 0) |-> b]
  <2>1. \A Q \in SUBSET (1 .. 0) : Q = {}
    OBVIOUS
  <2>2. f \in [SUBSET (1 .. 0) -> Int] /\ Adds(f, b, W)
    BY <2>1 DEF Adds
  <2> QED BY <2>2
<1>2. ASSUME NEW k \in 1 .. L, k - 1 \in T PROVE k \in T
  <2>1. PICK f \in [SUBSET (1 .. k - 1) -> Int] : Adds(f, b, W)
    BY <1>2
  <2> DEFINE g == [Q \in SUBSET (1 .. k) |->
                     IF Q = {} THEN b ELSE f[Q \ {Max(Q)}] + W[Max(Q)]]
  <2>2. ASSUME NEW Q \in SUBSET (1 .. k), Q # {}
        PROVE  Q \ {Max(Q)} \in SUBSET (1 .. k - 1) /\ Max(Q) \in 1 .. L
    <3>0. k \in Nat
      OBVIOUS
    <3>1. Max(Q) \in Q /\ \A x \in Q : x <= Max(Q)
      BY <3>0, <2>2, Greatest
    <3>2. \A x \in Q \ {Max(Q)} : x \in 1 .. k /\ Max(Q) \in 1 .. k /\ x # Max(Q)
      BY <3>1
    <3>3. \A x \in Q \ {Max(Q)} : x \in 1 .. k - 1
      BY <3>1, <3>2
    <3>4. Max(Q) \in 1 .. L
      <4>1. Max(Q) \in 1 .. k
        BY <3>1
      <4>2. \A x \in 1 .. k : x \in 1 .. L
        OBVIOUS
      <4> QED BY <4>1, <4>2
    <3>5. Q \ {Max(Q)} \subseteq 1 .. k - 1
      BY <3>3
    <3> QED BY <3>4, <3>5
  <2>3. g \in [SUBSET (1 .. k) -> Int]
    BY <2>1, <2>2
  <2>4. SUBSET (1 .. k - 1) \subseteq SUBSET (1 .. k)
    OBVIOUS
  <2>5. \A Q \in SUBSET (1 .. k - 1) : g[Q] = f[Q]
    BY <2>1, <2>4 DEF Adds
  <2>6. Adds(g, b, W)
    BY <2>2, <2>5, <2>4 DEF Adds
  <2>7. k \in 0 .. L
    OBVIOUS
  <2> HIDE DEF g
  <2> QED BY <2>3, <2>6, <2>7
<1>3. 0 .. L \subseteq T
  <2> HIDE DEF T
  <2> QED BY <1>1, <1>2, UpTo
<1>4. L \in 0 .. L
  OBVIOUS
<1> QED BY <1>3, <1>4

(* The partial sums of a selection.                                        *)
Sums(p, L, cs, b, S) ==
  /\ p \in [0 .. L -> Int] /\ p[0] = b
  /\ \A k \in 1 .. L : p[k] = p[k - 1] + IF k \in S THEN cs[k] ELSE 0

(* What a set of candidates is worth is the last of its partial sums.      *)
LEMMA Partial ==
  ASSUME NEW L \in Nat, NEW cs \in [1 .. L -> Int], NEW b \in Int, NEW S
  PROVE  \E p : Sums(p, L, cs, b, S) /\ p[L] = Worth(cs, b, S)
<1> DEFINE W == [i \in 1 .. L |-> IF i \in S THEN cs[i] ELSE 0]
           id == [i \in DOMAIN cs |-> i]
           Iter(f) == f = [Q \in SUBSET DOMAIN id |->
             IF Q = {} THEN b
             ELSE f[Q \ {Max(Q)}] + IF id[Max(Q)] \in S THEN cs[id[Max(Q)]] ELSE 0]
           iter == CHOOSE f : Iter(f)
<1>1. DOMAIN id = 1 .. L /\ W \in [1 .. L -> Int]
  OBVIOUS
<1>2. \A Q \in SUBSET (1 .. L) : Q # {} => Max(Q) \in 1 .. L
  BY Greatest
<1>3. \A Q \in SUBSET (1 .. L) :
        Q # {} => (IF id[Max(Q)] \in S THEN cs[id[Max(Q)]] ELSE 0) = W[Max(Q)]
  BY <1>2
<1>4. \A f : Iter(f) <=> f = [Q \in SUBSET (1 .. L) |->
                                IF Q = {} THEN b ELSE f[Q \ {Max(Q)}] + W[Max(Q)]]
  BY <1>1, <1>3
<1> HIDE DEF W
<1>5. \E f : Iter(f)
  <2>1. PICK f \in [SUBSET (1 .. L) -> Int] : Adds(f, b, W)
    BY <1>1, SumExists
  <2>2. f = [Q \in SUBSET (1 .. L) |->
               IF Q = {} THEN b ELSE f[Q \ {Max(Q)}] + W[Max(Q)]]
    BY <2>1 DEF Adds
  <2> HIDE DEF Iter
  <2> QED BY <1>4, <2>2
<1>6. Iter(iter)
  BY <1>5, Zenon
<1>7. Worth(cs, b, S) = iter[DOMAIN id]
  BY DEF Worth, FoldLeftDomain, FoldLeft, MapThenFoldSet
<1> HIDE DEF iter, Iter
<1>8. iter = [Q \in SUBSET (1 .. L) |->
                IF Q = {} THEN b ELSE iter[Q \ {Max(Q)}] + W[Max(Q)]]
  BY <1>4, <1>6
<1> DEFINE p == [k \in 0 .. L |-> iter[1 .. k]]
<1>9. p[0] = b
  <2>1. 1 .. 0 = {} /\ {} \in SUBSET (1 .. L) /\ 0 \in 0 .. L
    OBVIOUS
  <2>2. iter[{}] = b
    BY <1>8, <2>1
  <2> QED BY <2>1, <2>2
<1>10. ASSUME NEW k \in 1 .. L PROVE p[k] = p[k - 1] + W[k]
  <2>1. /\ 1 .. k \in SUBSET (1 .. L) /\ 1 .. k # {} /\ (1 .. k) \ {k} = 1 .. k - 1
        /\ k \in 0 .. L /\ k - 1 \in 0 .. L
    OBVIOUS
  <2>2. Max(1 .. k) = k
    <3>1. Max(1 .. k) \in 1 .. k /\ \A x \in 1 .. k : x <= Max(1 .. k)
      BY <2>1, Greatest
    <3> QED BY <3>1
  <2>3. iter[1 .. k] = iter[1 .. k - 1] + W[k]
    BY <1>8, <2>1, <2>2
  <2> QED BY <2>1, <2>3
<1>11. p[L] = Worth(cs, b, S)
  BY <1>1, <1>7
<1>12. p \in [0 .. L -> Int]
  <2> DEFINE T == {k \in 0 .. L : p[k] \in Int}
  <2>1. 0 \in T
    BY <1>9
  <2>2. ASSUME NEW k \in 1 .. L, k - 1 \in T PROVE k \in T
    <3> HIDE DEF p
    <3>1. p[k - 1] \in Int /\ W[k] \in Int /\ k \in 0 .. L
      BY <1>1, <2>2
    <3> QED BY <3>1, <1>10
  <2>3. 0 .. L \subseteq T
    <3> HIDE DEF T
    <3> QED BY <2>1, <2>2, UpTo
  <2> QED BY <2>3
<1>13. \A k \in 1 .. L : W[k] = IF k \in S THEN cs[k] ELSE 0
  BY DEF W
<1> HIDE DEF p
<1> QED BY <1>9, <1>10, <1>11, <1>12, <1>13 DEF Sums

(* Candidates are sorted, largest first.                                   *)
Descending(cs, L) == \A i \in 1 .. L - 1 : cs[i] >= cs[i + 1]

LEMMA Sorted ==
  ASSUME NEW L \in Nat, NEW cs \in [1 .. L -> Nat], Descending(cs, L),
         NEW i \in 1 .. L, NEW j \in i .. L
  PROVE  cs[i] >= cs[j]
<1> DEFINE T == {k \in Nat : i + k <= L => cs[i] >= cs[i + k]}
<1>1. 0 \in T
  OBVIOUS
<1>2. ASSUME NEW k \in 1 .. j - i, k - 1 \in T PROVE k \in T
  <2>1. /\ i + (k - 1) \in 1 .. L - 1 /\ i + k = (i + (k - 1)) + 1
        /\ i + k \in 1 .. L /\ i + (k - 1) \in 1 .. L
    BY <1>2
  <2>2. cs[i] >= cs[i + (k - 1)]
    BY <1>2, <2>1
  <2>3. cs[i + (k - 1)] >= cs[i + k]
    BY <2>1 DEF Descending
  <2>4. cs[i] \in Nat /\ cs[i + (k - 1)] \in Nat /\ cs[i + k] \in Nat
    BY <2>1
  <2> QED BY <2>2, <2>3, <2>4
<1>3. 0 .. j - i \subseteq T /\ j - i \in Nat
  <2>1. j - i \in Nat
    OBVIOUS
  <2> HIDE DEF T
  <2> QED BY <1>1, <1>2, <2>1, UpTo
<1>4. j - i \in T /\ i + (j - i) = j
  <2>1. j - i \in 0 .. j - i /\ i + (j - i) = j
    BY <1>3
  <2> HIDE DEF T
  <2> QED BY <1>3, <2>1
<1> QED BY <1>4

(* The first candidates are worth the partial sum of all of them.          *)
LEMMA FirstWorth ==
  ASSUME NEW L \in Nat, NEW cs \in [1 .. L -> Nat], NEW b \in Int,
         NEW q, Sums(q, L, cs, b, 1 .. L), NEW c \in 0 .. L
  PROVE  Worth(cs, b, 1 .. c) = q[c]
<1>0. cs \in [1 .. L -> Int]
  OBVIOUS
<1>a. PICK p : Sums(p, L, cs, b, 1 .. c) /\ p[L] = Worth(cs, b, 1 .. c)
  BY <1>0, Partial, Zenon
<1>1. /\ p \in [0 .. L -> Int] /\ p[0] = b /\ p[L] = Worth(cs, b, 1 .. c)
      /\ \A k \in 1 .. L : p[k] = p[k - 1] + IF k \in 1 .. c THEN cs[k] ELSE 0
  BY <1>a DEF Sums
<1>b. /\ q \in [0 .. L -> Int] /\ q[0] = b
      /\ \A k \in 1 .. L : q[k] = q[k - 1] + cs[k]
  BY DEF Sums
<1> DEFINE T == {k \in 0 .. L : p[k] = IF k <= c THEN q[k] ELSE q[c]}
<1>2. 0 \in T
  BY <1>1, <1>b
<1>3. ASSUME NEW k \in 1 .. L, k - 1 \in T PROVE k \in T
  <2>1. k \in 0 .. L /\ k - 1 \in 0 .. L
    OBVIOUS
  <2>2. CASE k <= c
    <3>1. p[k] = p[k - 1] + cs[k] /\ p[k - 1] = q[k - 1]
      BY <1>1, <1>b, <1>3, <2>2
    <3> QED BY <1>b, <2>1, <2>2, <3>1
  <2>3. CASE ~(k <= c)
    <3>1. p[k] = p[k - 1] + 0
      BY <1>1, <1>b, <2>3
    <3>2. p[k - 1] = q[c]
      <4>1. CASE k - 1 = c
        BY <1>3, <4>1
      <4>2. CASE k - 1 # c
        <5>1. ~(k - 1 <= c)
          BY <2>3, <4>2
        <5> QED BY <1>3, <5>1
      <4> QED BY <4>1, <4>2
    <3>3. p[k] = q[c]
      BY <1>b, <3>1, <3>2
    <3> QED BY <2>1, <2>3, <3>3
  <2> QED BY <2>2, <2>3
<1>4. 0 .. L \subseteq T
  <2> HIDE DEF T
  <2> QED BY <1>2, <1>3, UpTo
<1>5. L \in T
  BY <1>4
<1>6. CASE L <= c
  BY <1>1, <1>b, <1>5, <1>6
<1>7. CASE ~(L <= c)
  BY <1>1, <1>b, <1>5, <1>7
<1> QED BY <1>6, <1>7

(* How many elements of S are among the first indices.                     *)
LEMMA CountUpTo ==
  ASSUME NEW L \in Nat, NEW S \in SUBSET (1 .. L), NEW k \in 1 .. L
  PROVE  /\ Cardinality(S \cap (1 .. k)) \in 0 .. k
         /\ Cardinality(S \cap (1 .. k - 1)) \in 0 .. k - 1
         /\ Cardinality(S \cap (1 .. k)) =
              Cardinality(S \cap (1 .. k - 1)) + IF k \in S THEN 1 ELSE 0
<1>1. /\ IsFiniteSet(1 .. k) /\ Cardinality(1 .. k) = k
      /\ IsFiniteSet(1 .. k - 1) /\ Cardinality(1 .. k - 1) = k - 1
  BY FS_Interval
<1>2. /\ IsFiniteSet(S \cap (1 .. k)) /\ IsFiniteSet(S \cap (1 .. k - 1))
      /\ Cardinality(S \cap (1 .. k)) <= k /\ Cardinality(S \cap (1 .. k - 1)) <= k - 1
  BY <1>1, FS_Subset
<1>3. Cardinality(S \cap (1 .. k)) \in Nat /\ Cardinality(S \cap (1 .. k - 1)) \in Nat
  BY <1>2, FS_CardinalityType
<1>4. CASE k \in S
  <2>1. S \cap (1 .. k) = (S \cap (1 .. k - 1)) \cup {k} /\ k \notin S \cap (1 .. k - 1)
    BY <1>4
  <2>2. Cardinality(S \cap (1 .. k)) = Cardinality(S \cap (1 .. k - 1)) + 1
    BY <1>2, <2>1, FS_AddElement
  <2> QED BY <1>2, <1>3, <1>4, <2>2
<1>5. CASE k \notin S
  <2>1. S \cap (1 .. k) = S \cap (1 .. k - 1)
    BY <1>5
  <2>2. Cardinality(S \cap (1 .. k)) = Cardinality(S \cap (1 .. k - 1)) + 0
    <3>1. Cardinality(S \cap (1 .. k)) = Cardinality(S \cap (1 .. k - 1))
      BY <2>1, Zenon
    <3> QED BY <1>3, <3>1
  <2> QED BY <1>2, <1>3, <1>5, <2>2
<1> QED BY <1>4, <1>5

(* No selection is worth more than as many of the first candidates.        *)
LEMMA FirstIsBest ==
  ASSUME NEW L \in Nat, NEW cs \in [1 .. L -> Nat], NEW b \in Int,
         Descending(cs, L), NEW S \in SUBSET (1 .. L)
  PROVE  /\ Cardinality(S) \in 0 .. L
         /\ Worth(cs, b, S) \in Int /\ Worth(cs, b, 1 .. Cardinality(S)) \in Int
         /\ Worth(cs, b, S) <= Worth(cs, b, 1 .. Cardinality(S))
<1>0. cs \in [1 .. L -> Int]
  OBVIOUS
<1>a. PICK p : Sums(p, L, cs, b, S) /\ p[L] = Worth(cs, b, S)
  BY <1>0, Partial, Zenon
<1>1. /\ p \in [0 .. L -> Int] /\ p[0] = b /\ p[L] = Worth(cs, b, S)
      /\ \A k \in 1 .. L : p[k] = p[k - 1] + IF k \in S THEN cs[k] ELSE 0
  BY <1>a DEF Sums
<1>b. PICK q : Sums(q, L, cs, b, 1 .. L) /\ q[L] = Worth(cs, b, 1 .. L)
  BY <1>0, Partial, Zenon
<1>2. q \in [0 .. L -> Int] /\ q[0] = b
  BY <1>b DEF Sums
<1>3. \A k \in 1 .. L : q[k] = q[k - 1] + cs[k]
  BY <1>b DEF Sums
<1> DEFINE N(k) == Cardinality(S \cap (1 .. k))
           T == {k \in 0 .. L : N(k) \in 0 .. k /\ p[k] <= q[N(k)]}
<1>4. 0 \in T
  <2>1. S \cap (1 .. 0) = {}
    OBVIOUS
  <2>2. N(0) = 0
    BY <2>1, FS_EmptySet
  <2> HIDE DEF N
  <2> QED BY <1>1, <1>2, <2>2
<1>5. ASSUME NEW k \in 1 .. L, k - 1 \in T PROVE k \in T
  <2>1. PICK u, v : u = N(k) /\ v = N(k - 1)
    OBVIOUS
  <2>2. u \in 0 .. k /\ v \in 0 .. k - 1 /\ u = v + IF k \in S THEN 1 ELSE 0
    BY <2>1, CountUpTo
  <2> HIDE DEF N
  <2>3. p[k - 1] <= q[v] /\ k \in 0 .. L /\ k - 1 \in 0 .. L
    BY <1>5, <2>1
  <2>4. /\ p[k - 1] \in Int /\ q[v] \in Int /\ cs[k] \in Int
        /\ p[k] = p[k - 1] + IF k \in S THEN cs[k] ELSE 0
    BY <1>1, <1>2, <2>2, <2>3
  <2>5. p[k] <= q[u]
    <3>1. CASE k \in S
      <4>1. u = v + 1 /\ u \in 1 .. k
        BY <2>2, <3>1
      <4>2. u \in 1 .. L /\ k \in u .. L /\ u - 1 = v
        BY <2>2, <4>1
      <4>3. q[u] = q[v] + cs[u] /\ cs[u] \in Int
        BY <1>3, <4>2
      <4>4. cs[u] >= cs[k]
        BY <4>2, Sorted
      <4> QED BY <2>3, <2>4, <3>1, <4>3, <4>4
    <3>2. CASE k \notin S
      <4>1. u = v
        BY <2>2, <3>2
      <4> QED BY <2>3, <2>4, <3>2, <4>1
    <3> QED BY <3>1, <3>2
  <2> QED BY <2>1, <2>2, <2>3, <2>5
<1>6. L \in T
  <2>1. 0 .. L \subseteq T
    <3> HIDE DEF T
    <3> QED BY <1>4, <1>5, UpTo
  <2> QED BY <2>1
<1>7. N(L) = Cardinality(S)
  <2>1. S \cap (1 .. L) = S
    OBVIOUS
  <2> QED BY <2>1
<1> HIDE DEF N
<1>8. Cardinality(S) \in 0 .. L /\ p[L] <= q[Cardinality(S)]
  BY <1>6, <1>7
<1>9. PICK c \in 0 .. L : c = Cardinality(S)
  BY <1>8
<1>10. Worth(cs, b, 1 .. c) = q[c]
  BY <1>b, FirstWorth
<1>11. p[L] \in Int /\ q[c] \in Int
  BY <1>1, <1>2
<1> QED BY <1>1, <1>8, <1>9, <1>10, <1>11

-----------------------------------------------------------------------------
(***************************************************************************)
(* The selection loop.                                                     *)
(***************************************************************************)

(* The loop has selected the first n candidates, and no fewer of them pay. *)
OptInv ==
  ~req.all =>
    /\ Descending(coins, Len(coins))
    /\ total = Worth(coins, base, 1 .. n)
    /\ \A m \in 0 .. n - 1 : ~Pays(1 .. m)
    /\ phase = "insufficient" => n = Len(coins) /\ ~Pays(1 .. n)

LEMMA CoinsTyped ==
  ASSUME TypeInv
  PROVE  /\ Len(coins) \in Nat /\ coins \in [1 .. Len(coins) -> Nat]
         /\ DOMAIN coins = 1 .. Len(coins) /\ base \in Int /\ n \in 0 .. Len(coins)
<1>1. PICK m \in 0 .. MaxCoins : coins \in [1 .. m -> Values]
  BY DEF TypeInv, BoundedSeq, SeqOf
<1>2. Len(coins) = m /\ m \in Nat
  BY <1>1
<1>3. coins \in [1 .. m -> Nat]
  BY <1>1, ValuesAssumption
<1> QED BY <1>2, <1>3 DEF TypeInv

(* One more candidate adds its value; none at all leaves what is included. *)
LEMMA WorthOfNext ==
  ASSUME NEW L \in Nat, NEW cs \in [1 .. L -> Nat], NEW b \in Int
  PROVE  /\ Worth(cs, b, 1 .. 0) = b
         /\ \A k \in 0 .. L : Worth(cs, b, 1 .. k) \in Int
         /\ \A k \in 1 .. L : Worth(cs, b, 1 .. k) = Worth(cs, b, 1 .. k - 1) + cs[k]
<1>0. cs \in [1 .. L -> Int]
  OBVIOUS
<1>1. PICK q : Sums(q, L, cs, b, 1 .. L) /\ q[L] = Worth(cs, b, 1 .. L)
  BY <1>0, Partial, Zenon
<1>2. \A k \in 0 .. L : Worth(cs, b, 1 .. k) = q[k]
  BY <1>1, FirstWorth
<1>3. /\ q \in [0 .. L -> Int] /\ q[0] = b
      /\ \A k \in 1 .. L : q[k] = q[k - 1] + cs[k]
  BY <1>1 DEF Sums
<1>4. 0 \in 0 .. L /\ \A k \in 1 .. L : k \in 0 .. L /\ k - 1 \in 0 .. L
  OBVIOUS
<1> QED BY <1>2, <1>3, <1>4

(* What the first m candidates pay for.                                    *)
LEMMA PaysFirst ==
  ASSUME NEW m \in Nat
  PROVE  Pays(1 .. m) <=>
           /\ included + m > 0
           /\ Worth(coins, base, 1 .. m)
                >= req.amount + FeeFor(SignedVSize(included + m, FALSE, 0), req.rate)
<1>1. Cardinality(1 .. m) = m
  BY FS_Interval
<1> QED BY <1>1 DEF Pays

(* What the loop finds insufficient does not pay.                          *)
LEMMA InfeasibleNotPaying ==
  ASSUME TypeInv, ~Feasible, total = Worth(coins, base, 1 .. n)
  PROVE  ~Pays(1 .. n)
<1>1. n \in Nat /\ total \in Int /\ req.amount \in Int
  BY RequestFacts DEF TypeInv
<1>2. PlainFee = FeeFor(SignedVSize(included + n, FALSE, 0), req.rate)
  BY DEF PlainFee, EstimatedFee, Count
<1>3. PlainFee \in Int
  BY EstimateFacts
<1>4. ~(included + n > 0 /\ total - req.amount >= PlainFee)
  BY DEF Feasible, PlainFee, Count
<1>5. Pays(1 .. n) => included + n > 0 /\ total >= req.amount + PlainFee
  BY <1>1, <1>2, PaysFirst
<1> QED BY <1>1, <1>3, <1>4, <1>5

LEMMA InitOpt == Init => OptInv
<1> SUFFICES ASSUME Init, ~req.all PROVE OptInv
  BY DEF OptInv
<1>1. TypeInv
  BY InitIInv DEF IInv
<1>2. Worth(coins, base, 1 .. 0) = base
  BY <1>1, CoinsTyped, WorthOfNext
<1>3. Descending(coins, Len(coins)) /\ n = 0 /\ total = base /\ phase # "insufficient"
  BY DEF Init, Descending
<1> QED BY <1>2, <1>3 DEF OptInv

(* What is settled after the selection changes neither it nor its request. *)
LEMMA OptKept ==
  ASSUME OptInv, UNCHANGED <<req, included, base, coins, n, total>>,
         phase' = "insufficient" => phase = "insufficient"
  PROVE  OptInv'
<1>1. \A m : Pays(1 .. m)' <=> Pays(1 .. m)
  BY DEF Pays, SignedVSize, BaseSize, ChangeKind, FeeFor
<1> QED BY <1>1 DEF OptInv

(* Everything selected, and it does not pay.                               *)
LEMMA GiveUpOpt == IInv /\ OptInv /\ GiveUp => OptInv'
<1> SUFFICES ASSUME IInv, OptInv, GiveUp, ~req.all PROVE OptInv'
  BY DEF OptInv, GiveUp, Stop
<1>1. \A m : Pays(1 .. m)' <=> Pays(1 .. m)
  BY DEF GiveUp, Stop, Pays, SignedVSize, BaseSize, ChangeKind, FeeFor
<1>2. ~Pays(1 .. n)
  BY InfeasibleNotPaying DEF IInv, OptInv, GiveUp
<1> QED BY <1>1, <1>2 DEF OptInv, GiveUp, Stop

(* Included coins come first, and count in whatever is selected.           *)
LEMMA IncludeOpt == IInv /\ OptInv /\ Include => OptInv'
<1> SUFFICES ASSUME IInv, OptInv, Include, ~req.all PROVE OptInv'
  BY DEF OptInv, Include
<1>1. PICK value \in Values : base' = base + value /\ total' = total + value
  BY DEF Include
<1>2. n = 0 /\ UNCHANGED <<req, coins, n, phase>> /\ phase = "adding"
  BY DEF Include
<1>3. TypeInv /\ TypeInv'
  BY IncludeKeeps DEF IInv
<1>4. Worth(coins, base, 1 .. 0) = base /\ Worth(coins', base', 1 .. 0) = base'
  <2>1. Len(coins) \in Nat /\ coins \in [1 .. Len(coins) -> Nat] /\ base \in Int
    BY <1>3, CoinsTyped
  <2>2. base' \in Int
    BY <1>3 DEF TypeInv
  <2> QED BY <1>2, <2>1, <2>2, WorthOfNext
<1>5. total' = Worth(coins', base', 1 .. n')
  BY <1>1, <1>2, <1>4 DEF OptInv
<1> QED BY <1>2, <1>5 DEF OptInv

(* The next candidate is added because those before it do not pay.         *)
LEMMA AddCoinOpt == IInv /\ OptInv /\ AddCoin => OptInv'
<1> SUFFICES ASSUME IInv, OptInv, AddCoin, ~req.all PROVE OptInv'
  BY DEF OptInv, AddCoin
<1>1. /\ n < Len(coins) /\ n' = n + 1 /\ total' = total + coins[n + 1]
      /\ UNCHANGED <<req, included, base, coins, phase>>
      /\ phase = "adding" /\ ~Feasible
  BY DEF AddCoin, WantsMore, IInv
<1>2. TypeInv /\ total = Worth(coins, base, 1 .. n) /\ Descending(coins, Len(coins))
  BY DEF IInv, OptInv
<1>3. ~Pays(1 .. n)
  BY <1>1, <1>2, InfeasibleNotPaying
<1>4. \A m : Pays(1 .. m)' <=> Pays(1 .. m)
  BY <1>1 DEF Pays, SignedVSize, BaseSize, ChangeKind, FeeFor
<1>5. total' = Worth(coins, base, 1 .. n + 1)
  <2>1. n + 1 \in 1 .. Len(coins) /\ (n + 1) - 1 = n
    BY <1>1, <1>2, CoinsTyped
  <2>2. Worth(coins, base, 1 .. n + 1) = Worth(coins, base, 1 .. (n + 1) - 1) + coins[n + 1]
    BY <1>2, <2>1, CoinsTyped, WorthOfNext
  <2> QED BY <1>1, <1>2, <2>1, <2>2
<1>6. \A m \in 0 .. n' - 1 : ~Pays(1 .. m)'
  <2>1. \A m \in 0 .. n' - 1 : m = n \/ m \in 0 .. n - 1
    BY <1>1, <1>2, CoinsTyped
  <2> QED BY <1>3, <1>4, <2>1 DEF OptInv
<1> QED BY <1>1, <1>2, <1>5, <1>6 DEF OptInv

LEMMA OptStep == IInv /\ OptInv /\ [Next]_vars => OptInv'
<1> SUFFICES ASSUME IInv, OptInv, [Next]_vars PROVE OptInv'
  OBVIOUS
<1>1. CASE RejectAll
  <2>1. req.all /\ req' = req
    BY <1>1 DEF RejectAll, Stop, IInv
  <2> QED BY <2>1 DEF OptInv
<1>2. CASE \/ RejectDust \/ Accept \/ AcceptAll \/ SignEnough \/ Correct
           \/ CannotCorrect \/ UNCHANGED vars
  <2>1. UNCHANGED <<req, included, base, coins, n, total>>
    BY <1>2 DEF RejectDust, Accept, AcceptAll, SignEnough, Correct, CannotCorrect, Stop, vars
  <2>2. phase' = "insufficient" => phase = "insufficient"
    BY <1>2 DEF RejectDust, Accept, AcceptAll, SignEnough, Correct, CannotCorrect, Stop, vars
  <2> QED BY <2>1, <2>2, OptKept
<1> QED BY <1>1, <1>2, GiveUpOpt, IncludeOpt, AddCoinOpt DEF Next

(* When the loop has stopped, any selection that pays has at least as many *)
(* coins as the one it made, because as many of the first ones pay too.    *)
LEMMA OptimalWhenDone == IInv /\ OptInv => SelectionOptimal
<1> SUFFICES ASSUME IInv, OptInv, ~req.all, NEW S \in SUBSET DOMAIN coins, Pays(S)
             PROVE  phase # "insufficient" /\ n <= Cardinality(S)
  BY DEF SelectionOptimal
<1>1. /\ TypeInv /\ Descending(coins, Len(coins))
      /\ Len(coins) \in Nat /\ coins \in [1 .. Len(coins) -> Nat]
      /\ S \in SUBSET (1 .. Len(coins)) /\ base \in Int /\ n \in 0 .. Len(coins)
  BY CoinsTyped DEF IInv, OptInv
<1>2. PICK c \in 0 .. Len(coins) : c = Cardinality(S)
  BY <1>1, FirstIsBest
<1>3. /\ Worth(coins, base, S) \in Int /\ Worth(coins, base, 1 .. c) \in Int
      /\ Worth(coins, base, S) <= Worth(coins, base, 1 .. c)
  BY <1>1, <1>2, FirstIsBest
<1>4. PICK needs \in Int :
        needs = req.amount + FeeFor(SignedVSize(included + c, FALSE, 0), req.rate)
  <2>1. req \in Requests /\ included + c \in Nat
    BY <1>1, <1>2 DEF TypeInv
  <2>2. req.rate \in Nat /\ req.amount \in Int
    BY <2>1, RequestFacts
  <2>3. FALSE \in BOOLEAN /\ 0 \in Nat
    OBVIOUS
  <2>4. SignedVSize(included + c, FALSE, 0) \in Int
    BY <2>1, <2>3, SizeMonotone, Zenon
  <2>5. FeeFor(SignedVSize(included + c, FALSE, 0), req.rate) \in Int
    <3>1. PICK vsize \in Int : vsize = SignedVSize(included + c, FALSE, 0)
      BY <2>4
    <3>2. vsize <= vsize
      OBVIOUS
    <3>3. FeeFor(vsize, req.rate) \in Int
      BY <2>2, <3>2, FeeMonotone, Zenon
    <3> QED BY <3>1, <3>3
  <2>6. \A x, y \in Int : x + y \in Int
    OBVIOUS
  <2> QED BY <2>2, <2>5, <2>6
<1>5. Pays(1 .. c)
  <2>1. included + c > 0 /\ Worth(coins, base, S) >= needs
    BY <1>2, <1>4 DEF Pays
  <2>2. Worth(coins, base, 1 .. c) >= needs
    <3>1. \A x, y, z \in Int : x >= z /\ x <= y => y >= z
      OBVIOUS
    <3> QED BY <1>3, <2>1, <3>1
  <2>3. c \in Nat
    BY <1>2
  <2> QED BY <1>4, <2>1, <2>2, <2>3, PaysFirst
<1>6. c \notin 0 .. n - 1
  BY <1>5 DEF OptInv
<1>7. n <= c
  BY <1>1, <1>2, <1>6
<1>8. phase # "insufficient"
  <2> SUFFICES ASSUME phase = "insufficient" PROVE FALSE
    OBVIOUS
  <2>1. n = Len(coins) /\ ~Pays(1 .. n)
    BY DEF OptInv
  <2>2. c = n
    BY <1>1, <1>2, <1>7, <2>1
  <2> QED BY <1>5, <2>1, <2>2
<1> QED BY <1>2, <1>7, <1>8

(* Taking the largest coins first is complete and uses the fewest inputs,  *)
(* whatever the candidates, the included coins, the amount and the rate    *)
(* (select_coins).                                                         *)
THEOREM LargestFirstOptimal == Spec => []SelectionOptimal
<1>1. IInv /\ OptInv /\ [Next]_vars => IInv' /\ OptInv'
  BY Inductive, OptStep
<1>2. Init => IInv /\ OptInv
  BY InitIInv, InitOpt
<1> QED BY <1>1, <1>2, OptimalWhenDone, PTL DEF Spec
=============================================================================
