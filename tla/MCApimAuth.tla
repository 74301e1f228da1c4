------------------------------ MODULE MCApimAuth ------------------------------
(****************************************************************************)
(* An instance of ApimAuth for TLC: tokens of 400 seconds, of which the     *)
(* loop sleeps away the first 100.                                          *)
(****************************************************************************)
EXTENDS ApimAuth
=============================================================================
