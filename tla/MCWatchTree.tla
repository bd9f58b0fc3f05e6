----------------------------- MODULE MCWatchTree -----------------------------
(* A small tree for WatchTree: a may hold a file and a directory, b a         *)
(* directory; a may become b, and each may become, or come from, the other's *)
(* directory.                                                                *)
EXTENDS WatchTree

Files == {"f"}
Tree  == {<< >>, <<"a">>, <<"b">>, <<"a", "f">>, <<"a", "c">>, <<"b", "c">>, <<"a", "c", "f">>}
Whole == Tree \cup {<<"b", "f">>}
Chain == {<< >>, <<"a">>, <<"a", "c">>}
===============================================================================
