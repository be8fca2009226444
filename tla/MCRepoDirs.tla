------------------------------ MODULE MCRepoDirs ------------------------------
(* Small instances of RepoDirs.                                              *)
EXTENDS RepoDirs, TLC

Interchangeable == Permutations(Repo) \cup Permutations(Request)
=============================================================================
