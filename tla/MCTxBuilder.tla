----------------------------- MODULE MCTxBuilder -----------------------------
(* Instances of TxBuilder for TLC. *)
EXTENDS TxBuilder, TLC

CONSTANTS b1, b2, t1, t2, pay, bad, k1, pub
MCBuilders == {b1, b2}
MCTxs == {t1, t2}
MCKeyLists == {<<k1>>, <<k1, pub>>}
MCSymmetry == Permutations(MCBuilders) \cup Permutations(MCTxs)
=============================================================================
