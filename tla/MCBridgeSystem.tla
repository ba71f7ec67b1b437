--------------------------- MODULE MCBridgeSystem ---------------------------
EXTENDS BridgeSystem, TLC

MCSuppliedTtl == {1}

(* Connections are interchangeable in a run without liveness. *)
Symmetry == Permutations(Conn)

=============================================================================
