------------------------------- MODULE TxCodec -------------------------------
(***************************************************************************)
(* The bytes of a transaction, written and read by src/tx/codec.py (HD     *)
(* wallets) and by the independent codec of src/single_key_wallet.  Data   *)
(* whose content no reader looks at (outpoints, values, scripts) are       *)
(* sequences of bytes.  A read yields the value and the position after it, *)
(* position 0 when it failed; a decoder yields the set of the transactions *)
(* it accepts, empty or of one element.  No data here reach 2^16 bytes, so *)
(* a larger size is one that runs over the end.                            *)
(***************************************************************************)
EXTENDS Integers, Sequences, FiniteSets, SequencesExt

EncodeSize(k) == IF k < 253 THEN <<k>> ELSE <<253, k % 256, k \div 256>>
EncodeVar(bytes) == EncodeSize(Len(bytes)) \o bytes

Concat(seqs) == FoldLeft(LAMBDA a, b : a \o b, <<>>, seqs)
Each(F(_), seq) == Concat([i \in 1 .. Len(seq) |-> F(seq[i])])

EncodeInput(in) == in.outpoint \o EncodeVar(in.script) \o in.sequence
EncodeOutput(out) == out.value \o EncodeVar(out.script)
EncodeStack(in) == EncodeSize(Len(in.witness)) \o Each(EncodeVar, in.witness)

HasWitness(tx) == \E i \in 1 .. Len(tx.inputs) : tx.inputs[i].witness # <<>>

EncodeWith(tx, witness) ==
  tx.version \o (IF witness THEN <<0, 1>> ELSE <<>>)
  \o EncodeSize(Len(tx.inputs)) \o Each(EncodeInput, tx.inputs)
  \o EncodeSize(Len(tx.outputs)) \o Each(EncodeOutput, tx.outputs)
  \o (IF witness THEN Each(EncodeStack, tx.inputs) ELSE <<>>)
  \o tx.locktime

Encode(tx) == EncodeWith(tx, HasWitness(tx))

VSizeOf(tx) == (3 * Len(EncodeWith(tx, FALSE)) + Len(Encode(tx)) + 3) \div 4

-----------------------------------------------------------------------------
Failed == [at |-> 0, val |-> <<>>]

Read(d, i, k) ==
  IF i = 0 \/ i + k - 1 > Len(d) THEN Failed
  ELSE [at |-> i + k, val |-> SubSeq(d, i, i + k - 1)]

\* Mutant: a size below 253 may be written in three bytes.
ReadSizeLoose(d, i) ==
  IF i = 0 \/ i > Len(d) THEN Failed
  ELSE IF d[i] < 253 THEN [at |-> i + 1, val |-> d[i]]
  ELSE IF d[i] > 253 \/ i + 2 > Len(d) THEN Failed
  ELSE [at |-> i + 3, val |-> d[i + 1] + 256 * d[i + 2]]

ReadSize(d, i) ==
  IF i = 0 \/ i > Len(d) THEN Failed
  ELSE IF d[i] < 253 THEN [at |-> i + 1, val |-> d[i]]
  ELSE IF d[i] > 253 \/ i + 2 > Len(d) THEN Failed
  ELSE LET k == d[i + 1] + 256 * d[i + 2]
       IN  IF k < 253 THEN Failed ELSE [at |-> i + 3, val |-> k]

ReadVar(d, i) ==
  LET size == ReadSize(d, i)
  IN  IF size.at = 0 THEN Failed ELSE Read(d, size.at, size.val)

\* count items in a row, each as it is read at its position; every item takes
\* a byte at least.
ReadMany(d, i, count, found) ==
  IF i = 0 \/ count > Len(d) THEN Failed
  ELSE FoldLeft(LAMBDA read, k :
                  LET one == IF read.at = 0 THEN Failed ELSE found[read.at]
                  IN  IF one.at = 0 THEN Failed
                      ELSE [at |-> one.at, val |-> Append(read.val, one.val)],
                [at |-> i, val |-> <<>>], [k \in 1 .. count |-> k])

ReadCounted(d, i, found) ==
  LET count == ReadSize(d, i)
  IN  IF count.at = 0 THEN Failed ELSE ReadMany(d, count.at, count.val, found)

Positions(d) == 1 .. Len(d) + 1

ReadInput(d, i) ==
  LET outpoint == Read(d, i, 36)
      script == ReadVar(d, outpoint.at)
      sequence == Read(d, script.at, 4)
  IN  [at |-> sequence.at,
       val |-> [outpoint |-> outpoint.val, script |-> script.val,
                sequence |-> sequence.val, witness |-> <<>>]]

ReadOutput(d, i) ==
  LET value == Read(d, i, 8)
      script == ReadVar(d, value.at)
  IN  [at |-> script.at, val |-> [value |-> value.val, script |-> script.val]]

ReadStack(d, i) == ReadCounted(d, i, [j \in Positions(d) |-> ReadVar(d, j)])

(* The rest of a transaction, from its input count on.                     *)
ReadFrom(d, i, witness) ==
  LET inputs == ReadCounted(d, i, [j \in Positions(d) |-> ReadInput(d, j)])
      outputs == ReadCounted(d, inputs.at, [j \in Positions(d) |-> ReadOutput(d, j)])
      stacks ==
        IF witness
        THEN ReadMany(d, outputs.at, Len(inputs.val),
                      [j \in Positions(d) |-> ReadStack(d, j)])
        ELSE outputs
      end == Read(d, stacks.at, 4)
      tx == [version |-> SubSeq(d, 1, 4), locktime |-> end.val,
             outputs |-> outputs.val,
             inputs |-> IF witness
                        THEN [k \in 1 .. Len(inputs.val) |->
                                [inputs.val[k] EXCEPT !.witness = stacks.val[k]]]
                        ELSE inputs.val]
  IN  IF end.at = Len(d) + 1
         /\ \A j, k \in 1 .. Len(inputs.val) :
              inputs.val[j].outpoint = inputs.val[k].outpoint => j = k
      THEN {tx} ELSE {}

-----------------------------------------------------------------------------
(* src/tx/codec.py.  No input at all looks like the marker of a witness.   *)
DecodeMarked(d) ==
  IF Len(d) > 5 /\ d[5] = 0
  THEN IF d[6] = 1 THEN {tx \in ReadFrom(d, 7, TRUE) : HasWitness(tx)} ELSE {}
  ELSE ReadFrom(d, 5, FALSE)

\* Mutant: no second reading, as a template without inputs.
DecodeOnce(d) == DecodeMarked(d)

Decode(d) ==
  IF DecodeMarked(d) = {} /\ Len(d) > 5 /\ d[5] = 0
  THEN ReadFrom(d, 5, FALSE) ELSE DecodeMarked(d)

(* src/single_key_wallet/codec.py.  Amounts add up to at most MAX_MONEY,   *)
(* compared in units of 2^40 satoshis.                                     *)
Units(out) == out.value[6] + 256 * out.value[7] + 65536 * out.value[8]
MoneyRange(tx) ==
  FoldLeft(LAMBDA sum, out : sum + Units(out), 0, tx.outputs) <= 1909

Marked(d) == Len(d) > 5 /\ d[5] = 0 /\ d[6] = 1

\* Mutant: what was read is not written again and compared.
SingleDecodeOnce(d) ==
  {tx \in ReadFrom(d, IF Marked(d) THEN 7 ELSE 5, Marked(d)) :
     Len(tx.inputs) > 0 /\ MoneyRange(tx)}

SingleDecode(d) ==
  {tx \in ReadFrom(d, IF Marked(d) THEN 7 ELSE 5, Marked(d)) :
     Len(tx.inputs) > 0 /\ MoneyRange(tx) /\ Encode(tx) = d}
=============================================================================
