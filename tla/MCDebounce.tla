------------------------------ MODULE MCDebounce ------------------------------
(* Small instances of Debounce.  Paths are interchangeable in safety runs.   *)
EXTENDS Debounce, TLC

PathSymmetry == Permutations(Paths)
===============================================================================
