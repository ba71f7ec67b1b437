-------------------------- MODULE MCWriteContract --------------------------
(* Every mutating command, and entity.transform alone, for TLC. *)
EXTENDS WriteCommands

EveryCommand == Commands
OnlyTransform == {Transform}
=============================================================================
