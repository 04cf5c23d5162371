--------------------------- MODULE MCPaymentDraft ---------------------------
(* Two processes, two drafts, two coins, a second receive address.  Three  *)
(* change indexes, so that one can be issued to each draft and one by      *)
(* hand; none in the run with scans, which leave them alone.               *)
EXTENDS PaymentDraft, TLC

Symmetry == Permutations(Client) \cup Permutations(Draft) \cup Permutations(Coin)
=============================================================================
