---------------------------- MODULE WeightStaging ----------------------------
(***************************************************************************)
(* How scripts/03_deploy_workloads.sh gets the weights onto the one        *)
(* Hyperdisk and the serving StatefulSet onto the weights: probe the disk, *)
(* stage through a job that writes it, release it, flip it to READ_ONLY_-  *)
(* MANY and apply the set.  A session is one execution of the script; it   *)
(* may fail or be killed anywhere, and what it leaves (a job that goes on, *)
(* a disk half written or not flipped) is what the next session finds.     *)
(* One session runs at a time.  The jobs, the kubelets that mount the disk *)
(* and the serving pods go their own pace.  The job downloads the weights  *)
(* or hydrates them from a backup bucket, which a second job, the seeder,  *)
(* fills from a staged disk.                                               *)
(***************************************************************************)
EXTENDS Naturals

CONSTANTS
  Options,      \* option records a session may be started with
  SERVING_PODS,
  SHARDS,       \* shards of the model
  FLOOR,        \* how many of them weigh MIN_WEIGHTS_GIB
  Indexed,      \* whether the model's repository has an index of its shards
  MaxSessions   \* bound on the sessions

\* SKIP_WEIGHT_JOB is compared with "true" and "1" in one place, with "true" in another;
\* cache: GCS_WEIGHTS_BUCKET, without or with POPULATE_WEIGHTS_CACHE.
OptionRecords == [skip : {"no", "true", "1"}, force : BOOLEAN, stage_only : BOOLEAN,
                  cache : {"none", "hydrate", "populate"}]

ASSUME StagingAssumption ==
  /\ Options \subseteq OptionRecords
  /\ SERVING_PODS \in Nat
  /\ SHARDS \in Nat /\ FLOOR \in 1 .. SHARDS
  /\ Indexed \subseteq BOOLEAN
  /\ MaxSessions \in Nat

VARIABLES
  pc,         \* program point of the session, "idle" between sessions
  opt,        \* its options
  active,     \* SERVING_ACTIVE: the ready replicas it has read
  skip_exec,  \* SKIP_STAGING_EXEC
  sessions,   \* number of sessions so far
  mode,       \* accessMode of the disk
  weights,    \* shards on it, which arrive in one order
  users,      \* who has it attached; "job" is read-write, the seeder included
  job,        \* kimi-k3-weight-staging-job
  sts,        \* the serving StatefulSet is applied
  ready,      \* its ready replicas
  seeder,     \* kimi-k3-cache-seeder
  bucket,     \* shards in the backup bucket
  indexed,    \* the repository has an index
  blind,      \* history: a session that skipped staging has flipped the disk
  weighed     \* history: a job that only weighed the shards has completed on the disk

session == <<pc, opt, active, skip_exec, sessions>>
disk == <<mode, weights, users>>
backup == <<seeder, bucket>>
\* What no step changes, and the history variables.
history == <<indexed, blind, weighed>>
cluster == <<disk, job, sts, ready, backup>>
vars == <<session, cluster, history>>

Points == {"idle", "serving", "probe", "force_clean", "delete_disk", "create_disk", "clean",
           "apply_job", "wait", "seed", "seeding", "release", "flip", "detach", "update", "serve"}

TypeOK ==
  /\ pc \in Points
  /\ opt \in OptionRecords
  /\ active \in 0 .. SERVING_PODS
  /\ skip_exec \in BOOLEAN
  /\ sessions \in 0 .. MaxSessions
  /\ mode \in {"absent", "rw", "rom"}
  /\ weights \in 0 .. SHARDS
  /\ users \in {"none", "job", "serving"}
  /\ job \in {"none", "download", "hydrate", "complete", "failed"}
  /\ sts \in BOOLEAN
  /\ ready \in 0 .. SERVING_PODS
  /\ seeder \in {"none", "running", "complete", "failed"}
  /\ bucket \in 0 .. SHARDS
  /\ indexed \in BOOLEAN /\ blind \in BOOLEAN /\ weighed \in BOOLEAN

Init ==
  /\ pc = "idle"
  /\ opt = [skip |-> "no", force |-> FALSE, stage_only |-> FALSE, cache |-> "none"]
  /\ active = 0
  /\ skip_exec = FALSE
  /\ sessions = 0
  /\ mode \in {"absent", "rw"}
  /\ weights = 0 /\ users = "none" /\ job = "none"
  /\ sts = FALSE /\ ready = 0
  /\ seeder = "none" /\ bucket \in {0, SHARDS}
  /\ indexed \in Indexed
  /\ blind = FALSE /\ weighed = FALSE

-----------------------------------------------------------------------------
(* The script *)

Start ==
  /\ pc = "idle" /\ sessions < MaxSessions
  /\ pc' = "serving"
  /\ opt' \in Options
  /\ skip_exec' = FALSE
  /\ sessions' = sessions + 1
  /\ UNCHANGED <<active, cluster, history>>

Goto(from, to) == pc = from /\ pc' = to /\ UNCHANGED <<opt, sessions>>
\* A step from one point to another that only moves on; "idle" is exit.
Pass(from, to) == Goto(from, to) /\ UNCHANGED <<active, skip_exec, cluster, history>>

\* Two replicas of two nodes make four pods: three or four ready ones are not "active".
Serving(n) == n \in {1, 2}

\* A kubectl that fails counts as no ready replica.
ReadServing ==
  /\ active' \in {ready, 0}
  /\ Goto("serving", IF opt.skip # "no" \/ Serving(active') THEN "release" ELSE "probe")
  /\ UNCHANGED <<skip_exec, cluster, history>>

\* Mutant: a mode that cannot be read is taken for a disk that is not staged.
AssumesUnstaged == Pass("probe", "clean")

\* Fail closed: a mode that cannot be read ends the session.
ProbeUnresolved == Pass("probe", "idle")

ProbeUnstaged == mode # "rom" /\ Pass("probe", "clean")
ProbeForced   == mode = "rom" /\ opt.force /\ Pass("probe", "force_clean")
ProbeStaged ==
  /\ mode = "rom" /\ ~opt.force
  /\ Goto("probe", "release")
  /\ skip_exec' = TRUE
  /\ UNCHANGED <<active, cluster, history>>

\* A claim is not deleted as long as a pod has it mounted.
SeederHolds == seeder = "running" /\ users = "job"

\* The set, the job and all claims are deleted; volumes come off the nodes later.
Clean ==
  /\ ~SeederHolds
  /\ \/ Goto("force_clean", "delete_disk")
     \/ Goto("clean", "apply_job")
  /\ sts' = FALSE /\ ready' = 0
  /\ job' = "none"
  /\ UNCHANGED <<active, skip_exec, disk, backup, history>>

\* One of the deletions fails, or the script dies between them: the set goes first.
PartlyClean ==
  /\ \E from \in {"force_clean", "clean"} : Goto(from, "idle")
  /\ \/ UNCHANGED <<sts, ready, job>>
     \/ sts' = FALSE /\ ready' = 0 /\ job' \in {job, "none"}
  /\ UNCHANGED <<active, skip_exec, disk, backup, history>>
CleanFails == ~SeederHolds /\ PartlyClean

DeleteDisk ==
  /\ users = "none"
  /\ Goto("delete_disk", "create_disk")
  /\ mode' = "absent" /\ weights' = 0
  /\ blind' = FALSE /\ weighed' = FALSE
  /\ UNCHANGED <<active, skip_exec, users, job, sts, ready, backup, indexed>>
CreateDisk ==
  /\ Goto("create_disk", "clean")
  /\ mode' = "rw"
  /\ UNCHANGED <<active, skip_exec, weights, users, job, sts, ready, backup, history>>
DiskFails == \E from \in {"delete_disk", "create_disk"} : Pass(from, "idle")

ApplyJob ==
  /\ Goto("apply_job", "wait")
  /\ job' = IF opt.cache = "hydrate" THEN "hydrate" ELSE "download"
  /\ UNCHANGED <<active, skip_exec, disk, sts, ready, backup, history>>
\* No valid token for Hugging Face, or a manifest that is rejected.
ApplyFails == Pass("apply_job", "idle")

Running == job \in {"download", "hydrate"}

JobSeenComplete ==
  /\ job = "complete"
  /\ Pass("wait", IF opt.cache = "populate" THEN "seed" ELSE "release")
JobSeenFailed == job = "failed" /\ Pass("wait", "idle")

\* Mutants: the loop is left and not the script; the loop has no timeout.
LeavesLoop == Running /\ Pass("wait", "release")
WaitsForEver == FALSE /\ Pass("wait", "idle")

\* The job is left as it is.
WaitTimesOut == Running /\ Pass("wait", "idle")

\* A seeder of an earlier session is found and not started again.
Seed ==
  /\ Goto("seed", "seeding")
  /\ seeder' = IF seeder = "none" THEN "running" ELSE seeder
  /\ UNCHANGED <<active, skip_exec, disk, job, sts, ready, bucket, history>>
Seeded ==
  /\ seeder = "complete"
  /\ Goto("seeding", "release")
  /\ seeder' = "none"
  /\ UNCHANGED <<active, skip_exec, disk, job, sts, ready, bucket, history>>
\* kubectl wait waits for completion only; the seeder is left as it is.
SeedFails == \E from \in {"seed", "seeding"} : Pass(from, "idle")

\* The test for having staged anything compares SKIP_WEIGHT_JOB with "true" only.
Release ==
  /\ Goto("release", "flip")
  /\ IF ~skip_exec /\ opt.skip # "true" /\ ~Serving(active)
     THEN job' \in {job, "none"}
     ELSE UNCHANGED job
  /\ UNCHANGED <<active, skip_exec, disk, sts, ready, backup, history>>

\* gcloud, which 01_setup_and_check.sh requires, may fail to read the mode; it prints
\* nothing then, which is not READ_ONLY_MANY.
NeedsFlip == Pass("flip", "detach")
NeedsNoFlip == mode = "rom" /\ Pass("flip", "serve")

\* An empty list of users, or one that could not be read.
Detached == Pass("detach", "update")
DetachTimesOut == Pass("detach", "idle")

\* A disk cannot change its mode while somebody writes it.
Flip ==
  /\ mode # "absent" /\ users # "job"
  /\ \E to \in {"serve", "idle"} : Goto("update", to)
  /\ mode' = "rom"
  /\ blind' = (blind \/ (mode = "rw" /\ opt.skip # "no"))
  /\ UNCHANGED <<active, skip_exec, weights, users, job, sts, ready, backup,
                indexed, weighed>>

\* Mutant: the exit is missing.
GoesOn == Pass("update", "serve")
FlipFails == Pass("update", "idle")

\* --stage-only ends here; a manifest that is missing or rejected ends the session too.
NotServed == Pass("serve", "idle")
Serve ==
  /\ ~opt.stage_only
  /\ Goto("serve", "idle")
  /\ sts' = TRUE
  /\ UNCHANGED <<active, skip_exec, disk, job, ready, backup, history>>

Killed == PartlyClean \/ \E from \in Points \ {"idle"} : Pass(from, "idle")

Script ==
  \/ ReadServing
  \/ ProbeUnresolved \/ ProbeUnstaged \/ ProbeForced \/ ProbeStaged
  \/ Clean \/ CleanFails \/ DeleteDisk \/ CreateDisk \/ DiskFails
  \/ ApplyJob \/ ApplyFails \/ JobSeenComplete \/ JobSeenFailed \/ WaitTimesOut
  \/ Seed \/ Seeded \/ SeedFails
  \/ Release \/ NeedsFlip \/ NeedsNoFlip \/ Detached \/ DetachTimesOut \/ Flip \/ FlipFails
  \/ NotServed \/ Serve

-----------------------------------------------------------------------------
(* The jobs, the nodes and the serving pods *)

MountStaging ==
  /\ Running \/ seeder = "running"
  /\ mode = "rw" /\ users = "none"
  /\ users' = "job"
  /\ UNCHANGED <<session, mode, weights, job, sts, ready, backup, history>>

\* A shard at a time; a pod that is preempted starts again on what is there.
WriteWeights ==
  /\ Running /\ users = "job"
  /\ weights < IF job = "hydrate" THEN bucket ELSE SHARDS
  /\ weights' = weights + 1
  /\ UNCHANGED <<session, mode, users, job, sts, ready, backup, history>>

\* A download whose repository has an index verifies every shard of it, another only
\* weighs what snapshot_download has left on the disk.
DownloadVerified == weights >= IF indexed THEN SHARDS ELSE FLOOR

\* A hydration only weighs what is there once it has copied the bucket, which must exist.
HydrationVerified == 0 < bucket /\ bucket <= weights /\ FLOOR <= weights

JobCompletes ==
  /\ users = "job"
  /\ \/ job = "download" /\ DownloadVerified
     \/ job = "hydrate" /\ HydrationVerified
  /\ job' = "complete"
  /\ weighed' = (weighed \/ job = "hydrate" \/ ~indexed)
  /\ UNCHANGED <<session, disk, sts, ready, backup, indexed, blind>>
JobFails ==
  /\ Running
  /\ job' = "failed"
  /\ UNCHANGED <<session, disk, sts, ready, backup, history>>

\* Mutant: cp in place of rsync, which copies again what the bucket has.
CopiesAgain ==
  /\ seeder = "running" /\ users = "job" /\ weights > 0
  /\ bucket' = bucket + 1
  /\ UNCHANGED <<session, disk, job, sts, ready, seeder, history>>

\* The seeder copies what is on the disk, while the disk is mounted.
CopyShard ==
  /\ seeder = "running" /\ users = "job" /\ bucket < weights
  /\ bucket' = bucket + 1
  /\ UNCHANGED <<session, disk, job, sts, ready, seeder, history>>
SeederEnds ==
  /\ seeder = "running"
  /\ \/ users = "job" /\ bucket >= weights /\ seeder' = "complete"
     \/ seeder' = "failed"
  /\ UNCHANGED <<session, disk, job, sts, ready, bucket, history>>

MountServing ==
  /\ sts /\ mode = "rom" /\ users = "none"
  /\ users' = "serving"
  /\ UNCHANGED <<session, mode, weights, job, sts, ready, backup, history>>

\* Pods become ready, or are preempted; without the weights none does.
ServingPods ==
  /\ users = "serving" /\ sts /\ weights = SHARDS
  /\ ready' \in 0 .. SERVING_PODS
  /\ UNCHANGED <<session, disk, job, sts, backup, history>>

\* The pods that had the disk are over, deleted or preempted; the controller of a job or
\* set that goes on starts others.
Unmount ==
  /\ users = "job" \/ (users = "serving" /\ ready = 0)
  /\ users' = "none"
  /\ UNCHANGED <<session, mode, weights, job, sts, ready, backup, history>>

Environment ==
  \/ MountStaging \/ WriteWeights \/ JobCompletes \/ JobFails \/ CopyShard \/ SeederEnds
  \/ MountServing \/ ServingPods \/ Unmount

-----------------------------------------------------------------------------
Next == Start \/ Script \/ Killed \/ Environment
Spec == Init /\ [][Next]_vars

\* The script keeps running, and its loops and waits have timeouts of their own; a seeder
\* ends, it has two retries.
FairSpec == Spec /\ WF_vars(Script) /\ WF_vars(SeederEnds)

-----------------------------------------------------------------------------
(* Properties *)

\* What the job has checked: every shard, or the weight of what is there.
Staged == weights = SHARDS \/ (weighed /\ FLOOR <= weights)

\* The mode of the disk is the script's only record of whether it is staged: whatever
\* fails or is killed, whichever sessions were forced, a READ_ONLY_MANY disk has been
\* staged, unless a session that was told to skip the staging has flipped it.
RomIsStaged == mode = "rom" /\ ~blind => Staged

\* The serving set is only applied to a disk that nobody can write any more; a job that
\* an earlier session has left running never meets it.
ServesReadOnly == sts => mode = "rom" /\ users # "job"

\* "An unreadable disk is not the same thing as an unstaged disk": serving is taken down
\* only by a session that was forced to stage again.
ServingSpared == [][sts /\ ~sts' => opt.force]_vars

\* Every session ends, whatever the job and the nodes do.
SessionEnds == pc # "idle" ~> pc = "idle"

\* "Disk kimi-k3-weights-rox is already in READ_ONLY_MANY mode with staged weights."
SaidStaged == skip_exec => weights = SHARDS

\* FORCE_WEIGHT_JOB forces re-staging: a forced session that gets past the staging has
\* recreated the disk or waited for a job, also when serving is up.
ForcedIsHonoured == pc = "serve" /\ opt.force /\ opt.skip = "no" => ~Serving(active)
=============================================================================
