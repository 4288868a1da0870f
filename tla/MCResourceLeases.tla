------------------------- MODULE MCResourceLeases -------------------------
(***************************************************************************)
(* Instances of ResourceLeases for TLC.  With two regions and three pages  *)
(* the batches below meet the region limit, the byte limit, both, a zero   *)
(* length and an over-long length, alone and as the second of a pair.      *)
(***************************************************************************)
EXTENDS ResourceLeases

MCBatches == {<<1>>, <<2>>, <<0>>, <<4>>, <<1, 1>>, <<1, 2>>, <<2, 2>>, <<1, 4>>}
=============================================================================
