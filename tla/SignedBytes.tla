----------------------------- MODULE SignedBytes -----------------------------
(***************************************************************************)
(* From the payment to its bytes and back.  A payment of CoinSelection     *)
(* starts, in an HD wallet, as a template without inputs, and ends as a    *)
(* signed transaction; both leave the process as hexadecimal text (a       *)
(* document, a terminal), where they are altered or cut before a codec of  *)
(* TxCodec reads them.                                                     *)
(***************************************************************************)
EXTENDS CoinSelection, TxCodec

CONSTANTS
  Fill,      \* the byte that stands for data without a structure
  LowBytes,  \* lowest bytes of output values
  NewBytes   \* what an alteration writes

\* A bound: the first byte of an outpoint tells the inputs apart.
ASSUME BytesAssumption ==
  /\ {Fill} \cup LowBytes \cup NewBytes \subseteq 0 .. 255
  /\ MaxCoins \in Nat /\ MaxIncluded \in Nat /\ MaxCoins + MaxIncluded < 256

VARIABLES
  written,  \* the transaction that left a process, a set of at most one
  raw,      \* its bytes
  altered   \* how many times they were altered

allVars == <<vars, written, raw, altered>>

-----------------------------------------------------------------------------
Data(k) == [i \in 1 .. k |-> Fill]
ScriptLength ==
  [p2pkh |-> 25, p2sh |-> 23, p2wpkh |-> 22, p2wsh |-> 34, p2tr |-> 34]

Output(to, low) ==
  [value |-> <<low, 0, 0, 0, 0, 0, 0, 0>>, script |-> Data(ScriptLength[to])]

\* A signature and its hash type, shorter than the estimate by the bytes
\* saved; the first inputs save first.
SignatureLength(i, saved) ==
  73 - (IF saved >= 2 * i THEN 2 ELSE IF saved = 2 * i - 1 THEN 1 ELSE 0)

PublicKeyLength(kind) == IF kind = "uncompressed" THEN 65 ELSE 33

SignedInput(kind, i, saved) ==
  LET pushes == <<Data(SignatureLength(i, saved)), Data(PublicKeyLength(kind))>>
  IN  [outpoint |-> <<i>> \o Data(35), sequence |-> <<253, 255, 255, 255>>,
       script |-> IF kind = "p2wpkh" THEN <<>> ELSE Each(EncodeVar, pushes),
       witness |-> IF kind = "p2wpkh" THEN pushes ELSE <<>>]

\* Outputs for the given scripts, with inputs when they are signed.
Transaction(inputs, outputs, low) ==
  [version |-> <<2, 0, 0, 0>>, inputs |-> inputs, locktime |-> <<0, 0, 0, 0>>,
   outputs |-> [k \in 1 .. Len(outputs) |-> Output(outputs[k], low)]]

Signed(saved) ==
  Transaction([i \in 1 .. Count |-> SignedInput(req.kind, i, saved)],
              IF change > 0 THEN <<req.to, ChangeKind>> ELSE <<req.to>>, Fill)

AnyRequest == CHOOSE r \in Requests : TRUE

\* The payment is over, only its bytes remain.
Idle ==
  /\ req = AnyRequest /\ included = 0 /\ base = 0
  /\ coins = <<>> /\ n = 0 /\ total = 0
  /\ phase = "gone" /\ change = 0 /\ fee = 0 /\ tries = 0 /\ size = 0

Gone ==
  /\ req' = AnyRequest /\ included' = 0 /\ base' = 0
  /\ coins' = <<>> /\ n' = 0 /\ total' = 0
  /\ phase' = "gone" /\ change' = 0 /\ fee' = 0 /\ tries' = 0 /\ size' = 0

\* create_raw_transaction: outputs only, for a later funding.
Templates ==
  {Transaction(<<>>, outputs, low) :
     outputs \in BoundedSeq(PaysTo["hd"], 2) \ {<<>>}, low \in LowBytes}

InitBytes ==
  /\ altered = 0
  /\ \/ Init /\ written = {} /\ raw = <<>>
     \/ Idle /\ \E tx \in Templates : written = {tx} /\ raw = Encode(tx)

Inside == Next /\ UNCHANGED <<written, raw, altered>>

Publish ==
  /\ phase = "signed"
  /\ \E saved \in 0 .. 2 * Count :
       LET tx == Signed(saved)
       IN  VSizeOf(tx) = size /\ written' = {tx} /\ raw' = Encode(tx)
  /\ Gone /\ UNCHANGED altered

Alter(bytes) ==
  /\ raw' = bytes /\ altered' = altered + 1
  /\ UNCHANGED <<vars, written>>

\* The bytes that are not Fill are those a codec may take for structure.
Structure == {i \in 1 .. Len(raw) : raw[i] # Fill}

Overwrite ==
  /\ phase = "gone" /\ altered = 0
  /\ \E i \in Structure, b \in NewBytes : Alter(ReplaceAt(raw, i, b))

\* A size written in three bytes instead of one.
Widen ==
  /\ phase = "gone" /\ altered = 0
  /\ \E i \in Structure :
       Alter(SubSeq(raw, 1, i - 1) \o <<253, raw[i], 0>>
             \o SubSeq(raw, i + 1, Len(raw)))

\* A witness marker and an empty witness for every input.
Mark ==
  /\ phase = "gone" /\ altered = 0 /\ raw[5] # 0
  /\ Alter(SubSeq(raw, 1, 4) \o <<0, 1>> \o SubSeq(raw, 5, Len(raw) - 4)
           \o [i \in 1 .. raw[5] |-> 0] \o SubSeq(raw, Len(raw) - 3, Len(raw)))

Extend ==
  /\ phase = "gone" /\ altered < 2
  /\ \E b \in NewBytes : Alter(Append(raw, b))

Cut ==
  /\ phase = "gone" /\ altered < 2
  /\ Alter(Front(raw))

NextBytes ==
  \/ Inside \/ Publish
  \/ Overwrite \/ Widen \/ Mark \/ Extend \/ Cut

SpecBytes == InitBytes /\ [][NextBytes]_allVars

-----------------------------------------------------------------------------
(* Properties.                                                             *)

(* The estimate a payment is funded with is the size of its largest signed *)
(* transaction, and shorter signatures give exactly the sizes the fee      *)
(* correction has to expect.                                               *)
EstimateIsSize ==
  phase = "selected" =>
    {VSizeOf(Signed(saved)) :
       saved \in 0 .. 2 * Count} = SignedSizes

(* What a wallet wrote it reads back, the signed transactions with the     *)
(* codec of either wallet, and a template though its first bytes look like *)
(* the marker of a witness.                                                *)
WrittenIsRead ==
  phase = "gone" /\ altered = 0 =>
    /\ Decode(raw) = written
    /\ SingleDecode(raw) = {tx \in written : tx.inputs # <<>>}

(* However the bytes were altered, one transaction has one form: what the  *)
(* HD codec accepts it would have written the same way.                    *)
OneForm == phase = "gone" => \A tx \in Decode(raw) : Encode(tx) = raw

(* The codecs agree on every transaction with inputs, whatever its bytes,  *)
(* as long as the amounts are in the range that only one of them checks.   *)
CodecsAgree ==
  phase = "gone" =>
    SingleDecode(raw) = {tx \in Decode(raw) : tx.inputs # <<>> /\ MoneyRange(tx)}
=============================================================================
