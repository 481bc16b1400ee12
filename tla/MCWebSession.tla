---------------------------- MODULE MCWebSession ----------------------------
(* Model-checking instances of WebSession: a browser with two tabs.         *)
EXTENDS WebSession, TLC

Sym == Permutations(Tabs) \cup Permutations(Families)
=============================================================================
