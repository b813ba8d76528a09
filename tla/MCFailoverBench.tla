-------------------------- MODULE MCFailoverBench --------------------------
(***************************************************************************)
(* Instances of FailoverBench for TLC; the numbers are in the cfg files.   *)
(* One tick stands for a minute: the blackout limit is one tick, a request *)
(* that keeps to its timeout ends in the tick it was issued in, the        *)
(* generator waits into the next one for one that does not, and main for   *)
(* one tick more.                                                          *)
(***************************************************************************)
EXTENDS FailoverBench
=============================================================================
