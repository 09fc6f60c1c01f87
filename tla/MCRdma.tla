------------------------------- MODULE MCRdma -------------------------------
(* Buffers of two bytes, so that both are registered again several times. *)
EXTENDS Rdma
=============================================================================
