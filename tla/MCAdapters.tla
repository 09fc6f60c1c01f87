---------------------------- MODULE MCAdapters ----------------------------
(* All adapters. *)
EXTENDS Adapters
=============================================================================
