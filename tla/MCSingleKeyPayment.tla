------------------------- MODULE MCSingleKeyPayment -------------------------
(* Two processes and two operations that compete for a coin of a key that  *)
(* has been imported under two names; under one of them it may be removed  *)
(* and imported again.                                                     *)
EXTENDS SingleKeyPayment, TLC

CONSTANTS first, again, other, single, copy

Names == first :> single @@ again :> single @@ other :> copy

Symmetry == Permutations(Client) \cup Permutations(Op) \cup Permutations({first, again})
=============================================================================
