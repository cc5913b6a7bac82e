--------------------------- MODULE MCRestartEditor --------------------------
(* Small instances of RestartEditor for TLC. *)
EXTENDS RestartEditor, TLC

InvocationSymmetry == Permutations(Invocations)
=============================================================================
