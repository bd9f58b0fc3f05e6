----------------------------- MODULE MCEngineLoop -----------------------------
(* Three paths of two top-level subtrees, with a worker for each subtree or   *)
(* one worker for both.                                                       *)
EXTENDS EngineLoop, TLC

SomePaths == {"d/x", "d/y", "f/z"}
TwoPaths  == {"d/x", "f/z"}
TwoWorkers == [p \in SomePaths |-> IF p = "f/z" THEN "w2" ELSE "w1"]
OnePerPath == [p \in TwoPaths |-> IF p = "f/z" THEN "w2" ELSE "w1"]
OneWorker  == [p \in TwoPaths |-> "w1"]
===============================================================================
