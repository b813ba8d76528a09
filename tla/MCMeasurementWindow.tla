------------------------ MODULE MCMeasurementWindow ------------------------
(***************************************************************************)
(* Instances of MeasurementWindow for TLC.                                 *)
(***************************************************************************)
EXTENDS MeasurementWindow, TLC

TwoRunners == {"w1", "w2"}

\* The default label is derived from the start time, so every run has its own.
TwoLabels == {"A", "B"}
OwnLabels == [w \in Runners |-> IF w = "w1" THEN "A" ELSE "B"]

\* --run-label given twice: the second run resumes the first.
OneLabel == {"A"}
SharedLabel == [w \in Runners |-> "A"]
Symmetry == Permutations(Runners)

DeployAndSweep == <<"deploy", "sweep">>
DeployOnly == <<"deploy">>

Default         == [hold |-> TRUE, keep |-> FALSE, resume |-> FALSE]
Resuming        == [hold |-> TRUE, keep |-> FALSE, resume |-> TRUE]
DestroyOnFailure == [hold |-> FALSE, keep |-> FALSE, resume |-> FALSE]
Keeping         == [hold |-> TRUE, keep |-> TRUE, resume |-> FALSE]

DefaultOnly       == {Default}
ResumingOnly      == {Resuming}
DestroyingOnly    == {DestroyOnFailure}
KeepingOnly       == {Keeping}
HoldingOptions    == {Default, Resuming}
UnattendedOptions == {Resuming, DestroyOnFailure}
AllOptions        == {Default, Resuming, DestroyOnFailure, Keeping}

Nowhere == {}
InStages == {"stages"}
InStagesAndExit == {"stages", "exit", "teardown", "unmark"}
InStagesAndRetry == {"stages", "retry"}
InTakeover == {"check", "stages"}
=============================================================================
