----------------------------- MODULE MCTxStore -----------------------------
(* Model checking of TxStore: three handlers race on a transaction with a  *)
(* timeout and one without; the handlers, and the writes, are              *)
(* interchangeable.                                                        *)
EXTENDS TxStore, TLC

Symmetry == Permutations(Handlers) \cup Permutations(Writes)

=============================================================================
