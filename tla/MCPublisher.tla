----------------------------- MODULE MCPublisher -----------------------------
(****************************************************************************)
(* A small instance of Publisher: pages of two, four APIs, two changes.     *)
(****************************************************************************)
EXTENDS Publisher
=============================================================================
