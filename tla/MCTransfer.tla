----------------------------- MODULE MCTransfer -----------------------------
(***************************************************************************)
(* Instances of Transfer for TLC.  One region in each direction, alone and *)
(* together, cover the transfer with and without the IMPORTED and SEALED   *)
(* round; two transactions let a refusal, a success or a failure precede   *)
(* another transfer; two active regions are one mixed batch, so the second *)
(* transfer meets the limit at either endpoint.  The stream has a run of its *)
(* own, with three records in each direction: enough for a record to be    *)
(* overtaken, repeated, or sent after one that was lost.                   *)
(***************************************************************************)
EXTENDS Transfer

MCBatches == {{"down"}, {"up"}, {"down", "up"}}
MCReceiverWrites == {"up"}

StreamBatches == {{"down"}, {"up"}}
=============================================================================
