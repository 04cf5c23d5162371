------------------------- MODULE MCWalletLifecycle -------------------------
(* w1 and w2 are generated, w3 is imported.                                *)
EXTENDS WalletLifecycle, TLC

CONSTANTS w1, w2, w3, s1, s2, s3

MCSeedOf == [w \in Wallet |-> CASE w = w1 -> s1 [] w = w2 -> s2 [] OTHER -> s3]
Symmetry == Permutations(Client) \cup Permutations(Name)
=============================================================================
