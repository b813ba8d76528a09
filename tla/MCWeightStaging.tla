-------------------------- MODULE MCWeightStaging --------------------------
(***************************************************************************)
(* Instances of WeightStaging for TLC: two replicas of two nodes, so that  *)
(* every count of ready pods that the script tells apart occurs.           *)
(***************************************************************************)
EXTENDS WeightStaging

\* A session that skips the staging reads neither FORCE_WEIGHT_JOB nor the bucket, and
\* --stage-only is read after everything the bucket decides.
EveryOption ==
  {o \in OptionRecords : /\ o.skip # "no" => ~o.force /\ o.cache = "none"
                         /\ o.cache # "none" => ~o.stage_only}

\* Nobody asks to skip the staging.
NoneSkips == {o \in EveryOption : o.skip = "no"}
=============================================================================
