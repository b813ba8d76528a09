--------------------------- MODULE MCTuningSweep ---------------------------
(***************************************************************************)
(* Instances of SweepHistory, and so of TuningSweep, for TLC.              *)
(***************************************************************************)
EXTENDS SweepHistory, TLC

\* Three kinds of variant out of VARIANT_TABLE: the controlled baseline, the scheduling
\* variant whose value is resolved at run time, and a throughput variant behind it.
AutoTable == <<"B0", "B5", "C2a">>

TableDelta ==
  [v \in Variants |->
     CASE v = "B0"  -> <<>>
       [] v = "B5"  -> "max_running" :> "AUTO"
       [] v = "C2a" -> "block" :> "4"]
TableKeys == {"max_running", "block"}
TableValues == {"default", "AUTO", "512", "4"}
TableObjective == [v \in Variants |-> IF v = "B5" THEN "scheduling" ELSE "throughput"]

\* One shape at concurrencies 8 (a guard) and 16 (the anchor): the cell's tokens in a
\* run of one time unit, and its TTFT P99.
Cell(tokens, p99) == [tokens |-> tokens, duration |-> 1, p99 |-> p99]
At(c) == <<"1k", c>>
Run(c8, c16) == [source |-> "realistic", cells |-> At(8) :> c8 @@ At(16) :> c16]
RunGrids ==
  [plain  |-> Run(Cell(50, 100), Cell(100, 100)),
   faster |-> Run(Cell(50, 100), Cell(103, 100)),
   best   |-> Run(Cell(50, 80), Cell(110, 80)),
   noTail |-> Run(Cell(50, Unreported), Cell(103, 100)),
   thin   |-> [source |-> "realistic", cells |-> At(16) :> Cell(110, 80)]]
Pick(names) == [g \in names |-> RunGrids[g]]

EightAnd32 == {8, 32}
BothOptions == BOOLEAN
OnlyTrue == {TRUE}
OnlyFalse == {FALSE}
WholeTable == {Table}
NoResultsYet == {NoFile}
LastSilent == {"C2a"}
AllGrids == RunGrids
TwoGrids == Pick({"plain", "faster"})
=============================================================================
