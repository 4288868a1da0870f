--------------------------- MODULE MCChildReaper ---------------------------
(***************************************************************************)
(* Instances of ChildReaper for TLC.  The module is finite as it stands;   *)
(* the configurations choose which failures the kernel may show.           *)
(***************************************************************************)
EXTENDS ChildReaper
=============================================================================
