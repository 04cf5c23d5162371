---------------------------- MODULE MCAddressBook ----------------------------
(* Two processes, branches of three or four addresses, a gap limit of two,  *)
(* and an account that is new or was used before with an address left out.  *)
EXTENDS AddressBook, TLC

Symmetry == Permutations(Client)

NewOrUsed == {[receive |-> {}, change |-> {}], [receive |-> {1}, change |-> {0}]}
New == {[receive |-> {}, change |-> {}]}
=============================================================================
