----------------------------- MODULE MCResolutions -----------------------------
(* Instances of Resolutions: the conflict, and also a file on one side only; *)
(* commands apart from the daemon and each other, and beside them.           *)
EXTENDS Resolutions

Contested == [s \in {"A", "B"} |-> IF s = "A" THEN 1 ELSE 2]
OneSided  == [s \in {"A", "B"} |-> IF s = "A" THEN 1 ELSE 0]
Apart     == {[disk |-> Contested, overlap |-> FALSE]}
Beside    == {[disk |-> Contested, overlap |-> TRUE]}
Mixed     == Apart \cup Beside \cup {[disk |-> OneSided, overlap |-> FALSE]}
===============================================================================
