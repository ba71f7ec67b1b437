---------------------- MODULE MCUninstallTransaction ----------------------
EXTENDS UninstallTransaction, TLC

(* The files of the extension directory are interchangeable. *)
Symmetry == Permutations(Part)

=============================================================================
