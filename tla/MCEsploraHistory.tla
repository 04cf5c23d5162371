-------------------------- MODULE MCEsploraHistory --------------------------
(* Three transactions on pages of two.                                      *)
EXTENDS EsploraHistory
=============================================================================
