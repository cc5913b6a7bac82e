--------------------------- MODULE MCBridgeServer ---------------------------
(* Small instances of BridgeServer for TLC. *)
EXTENDS BridgeServer, TLC

(* Calls and sessions are interchangeable; used by safety runs only. *)
Symmetric == Permutations(Calls) \cup Permutations(Sessions)
               \cup Permutations(Waiters)
=============================================================================
