------------------------------ MODULE MCTreeSync ------------------------------
(* Instances of TreeSync.                                                    *)
EXTENDS TreeSync
===============================================================================
