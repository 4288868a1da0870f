--------------------------- MODULE MCSessionClose ---------------------------
(* Two mappings a side: one can be dropped while another is left. *)
EXTENDS SessionClose
=============================================================================
