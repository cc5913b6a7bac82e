------------------------ MODULE MCEditorTransactions ------------------------
(* Small instances of EditorTransactions for TLC. *)
EXTENDS EditorTransactions, TLC

Symmetry == Permutations(Txs) \cup Permutations(Materials)
=============================================================================
