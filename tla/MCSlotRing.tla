---------------------------- MODULE MCSlotRing ----------------------------
(***************************************************************************)
(* Instances of SlotRing for TLC.  Two words make a torn copy possible;    *)
(* two slots make an observation of the wrong slot possible; five          *)
(* sequences are three laps of slot 0, so an observation can be a lap old  *)
(* and the last lap meets the wrap check.                                  *)
(***************************************************************************)
EXTENDS SlotRing
=============================================================================
