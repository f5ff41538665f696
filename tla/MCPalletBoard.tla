-------------------------- MODULE MCPalletBoard --------------------------
(* Small instances of PalletBoard for TLC.                                 *)
EXTENDS PalletBoard, TLC

\* Pallets are interchangeable: no action or property names one.
PalletSymmetry == Permutations(Pallets)
=============================================================================
