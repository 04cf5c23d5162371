---------------------------- MODULE MCWalletSync ----------------------------
(* One confirmed coin x1 at address a1.  pay spends it and returns change  *)
(* x2 to a2; sweep spends it and returns nothing; gift pays x3 to a2.  The  *)
(* address a2 is issued during the run.                                    *)
EXTENDS WalletSync, TLC

CONSTANTS pay, sweep, gift, x1, x2, x3, a1, a2

MCSpends == [t \in Tx |-> IF t = gift THEN {} ELSE {x1}]
MCMakes == [t \in Tx |-> CASE t = pay -> {x2} [] t = gift -> {x3} [] OTHER -> {}]
MCValue == [x \in Coin |-> CASE x = x1 -> 5 [] x = x2 -> 3 [] OTHER -> 1]
MCBook == <<a1, a2>>
MCAt == [x \in Coin |-> IF x = x1 THEN a1 ELSE a2]
Symmetry == Permutations(Syncer)

(* States that differ only in the cached history, or in the copy of it that *)
(* a scan put aside, are one state: no guard and no other variable reads    *)
(* them, and of the invariants only TypeOK speaks of them.                  *)
ButHistory ==
  <<netVars, utxos, pending, observed, pendSpent, addresses, bookVars, histVars,
    [s \in Syncer |-> [scan[s] EXCEPT !.saved = {}]]>>
=============================================================================
