----------------------------- MODULE MCTokenCache -----------------------------
(****************************************************************************)
(* A small instance of TokenCache: three tokens compete for two entries.    *)
(****************************************************************************)
EXTENDS TokenCache

RequestSymmetry == Permutations(Request)
=============================================================================
