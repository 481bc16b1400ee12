-------------------------- MODULE MCGenerationJobs --------------------------
(* Model-checking instances of GenerationJobs.                             *)
EXTENDS GenerationJobs, TLC

CONSTANTS j1, j2, w1, w2

Sym == Permutations(Jobs) \cup Permutations(Workers)
=============================================================================
