----------------------------- MODULE MCSoakTest -----------------------------
(***************************************************************************)
(* Instances of SoakTest for TLC.                                          *)
(***************************************************************************)
EXTENDS SoakTest, TLC

ThreeSlots == {"s1", "s2", "s3"}
=============================================================================
