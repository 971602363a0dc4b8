------------------------------ MODULE MCSchema ------------------------------
(* Small instances of Schema for TLC. *)
EXTENDS Schema, TLC

Everything == Kind
CommandLine == Kind \ {"init"}      \* what the command line can run

Symmetry == Permutations(Proc)
=============================================================================
