---------------------------- MODULE MCSystemRefresh ----------------------------
(***************************************************************************)
(* Small instances of SystemRefresh for TLC.                               *)
(***************************************************************************)
EXTENDS SystemRefresh, TLC

\* Modules are interchangeable, and so are the values of a module's state.
ModelSymmetry == Permutations(Module) \cup Permutations(Value)
===============================================================================
