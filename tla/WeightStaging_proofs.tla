------------------------- MODULE WeightStaging_proofs -------------------------
(***************************************************************************)
(* What TLAPS proves of WeightStaging, for any options, any numbers of     *)
(* serving pods, shards and sessions, and any floor.                       *)
(***************************************************************************)
EXTENDS WeightStaging, TLAPS

\* What the cluster's own rules keep true.
ClusterInv ==
  /\ users = "job" => mode = "rw"
  /\ job = "complete" => Staged
  /\ ready > 0 => sts
  /\ sts => mode = "rom"

\* What a session knows at its program points: the set is down before the disk goes, a
\* serving set is only taken down under force, and a session that stages comes to the
\* flip with a staged disk, or with one that is flipped already.
PointInv ==
  /\ pc \in {"delete_disk", "create_disk"} => ~sts /\ job = "none"
  /\ pc \in {"clean", "apply_job", "wait"} => mode # "rom"
  /\ pc = "force_clean" => opt.force
  /\ pc \in {"seed", "seeding"} => Staged
  /\ pc \in {"release", "flip", "detach", "update"} /\ opt.skip = "no" =>
       Staged \/ mode = "rom"
  /\ pc = "serve" => mode = "rom"

Inv == TypeOK /\ ClusterInv /\ PointInv /\ RomIsStaged

-----------------------------------------------------------------------------
\* A step of the session that changes nothing but where it is.
LEMMA PassKeepsInv ==
  ASSUME Inv, NEW from \in Points, NEW to \in Points, Pass(from, to),
         to \notin {"delete_disk", "create_disk"},
         to \in {"clean", "apply_job", "wait"} => mode # "rom",
         to = "force_clean" => opt.force,
         to \in {"seed", "seeding"} => Staged,
         to \in {"release", "flip", "detach", "update"} /\ opt.skip = "no" =>
           Staged \/ mode = "rom",
         to = "serve" => mode = "rom"
  PROVE  Inv'
BY DEF Pass, Goto, Inv, TypeOK, ClusterInv, PointInv, RomIsStaged, Staged, cluster, disk, backup,
       history

\* Some of the deletions.
LEMMA PartlyCleanKeepsInv == Inv /\ PartlyClean => Inv'
<1> SUFFICES ASSUME Inv, PartlyClean PROVE Inv'
  OBVIOUS
<1> USE DEF PartlyClean, Goto, disk, backup, history
<1>1. /\ pc' = "idle"
      /\ UNCHANGED <<opt, sessions, active, skip_exec, mode, weights, users, seeder, bucket,
                     indexed, blind, weighed>>
  OBVIOUS
<1>2. CASE UNCHANGED <<sts, ready, job>>
  BY <1>1, <1>2 DEF Inv, TypeOK, ClusterInv, PointInv, RomIsStaged, Staged, Points
<1>3. CASE sts' = FALSE /\ ready' = 0 /\ job' \in {job, "none"}
  <2>1. sts' \in BOOLEAN /\ ~sts'
    BY <1>3
  <2>2. ready' \in 0 .. SERVING_PODS /\ ~(ready' > 0)
    BY <1>3, StagingAssumption
  <2>3. job' \in {job, "none"}
    BY <1>3
  <2>4. TypeOK'
    BY <1>1, <2>1, <2>2, <2>3 DEF Inv, TypeOK, Points
  <2>5. ClusterInv' /\ PointInv' /\ RomIsStaged'
    BY <1>1, <2>1, <2>2, <2>3 DEF Inv, ClusterInv, PointInv, RomIsStaged, Staged
  <2> QED BY <2>4, <2>5 DEF Inv
<1> QED BY <1>2, <1>3

\* Every step of the script keeps the invariant.
LEMMA ScriptKeepsInv == Inv /\ Script => Inv'
<1> SUFFICES ASSUME Inv, Script PROVE Inv'
  OBVIOUS
<1>a. /\ pc \in Points /\ {"idle", "clean", "force_clean", "release", "flip", "detach",
                           "update", "serve", "wait", "probe", "apply_job", "seed", "seeding"} \subseteq Points
      /\ Points \ {"idle"} \subseteq Points
  BY DEF Inv, TypeOK, Points
<1>1. CASE ReadServing
  <2> USE <1>1 DEF ReadServing, Goto, Inv, cluster, disk, backup, history
  <2>1. Serving(active') => sts /\ mode = "rom"
    BY DEF Serving, TypeOK, ClusterInv
  <2>2. /\ active' \in 0 .. SERVING_PODS /\ pc' \in {"release", "probe"}
        /\ UNCHANGED <<skip_exec, opt, sessions, mode, weights, users, job, sts, ready, seeder,
                       bucket, indexed, blind, weighed>>
    BY StagingAssumption DEF TypeOK
  <2>3. pc' = "release" /\ opt.skip = "no" => mode = "rom"
    BY <2>1
  <2>4. TypeOK'
    BY <2>2 DEF TypeOK, Points
  <2>5. ClusterInv' /\ RomIsStaged'
    BY <2>2 DEF ClusterInv, RomIsStaged, Staged
  <2>6. PointInv'
    BY <2>2, <2>3 DEF PointInv, Staged
  <2> QED BY <2>4, <2>5, <2>6
<1>2. CASE ProbeUnresolved \/ ProbeUnstaged \/ ProbeForced \/ DiskFails
           \/ ApplyFails \/ JobSeenFailed \/ WaitTimesOut \/ SeedFails \/ DetachTimesOut
           \/ FlipFails \/ NotServed
  BY <1>a, <1>2, PassKeepsInv
     DEF ProbeUnresolved, ProbeUnstaged, ProbeForced, DiskFails, ApplyFails,
         JobSeenFailed, WaitTimesOut, SeedFails, DetachTimesOut, FlipFails, NotServed, Points
<1>3. CASE JobSeenComplete \/ NeedsFlip \/ NeedsNoFlip \/ Detached
  <2>1. JobSeenComplete => Staged
    BY DEF JobSeenComplete, Inv, ClusterInv
  <2>2. NeedsFlip \/ Detached => (opt.skip = "no" => Staged \/ mode = "rom")
    BY DEF NeedsFlip, Detached, Pass, Goto, Inv, PointInv
  <2> QED
    BY <1>a, <1>3, <2>1, <2>2, PassKeepsInv
       DEF JobSeenComplete, NeedsFlip, NeedsNoFlip, Detached, Points
<1>4. CASE ProbeStaged
  BY <1>4 DEF ProbeStaged, Goto, Inv, TypeOK, ClusterInv, PointInv, RomIsStaged, Staged,
         cluster, disk, backup, history, Points
<1>5. CASE Clean
  <2> USE <1>5 DEF Clean, Goto, disk, backup, history
  <2>1. /\ ready' = 0 /\ job' = "none"
        /\ UNCHANGED <<opt, sessions, active, skip_exec, mode, weights, users, seeder, bucket,
                       indexed, blind, weighed>>
    OBVIOUS
  <2>2. sts' = FALSE
    OBVIOUS
  <2>3. \/ pc = "force_clean" /\ pc' = "delete_disk"
        \/ pc = "clean" /\ pc' = "apply_job"
    OBVIOUS
  <2>4. TypeOK'
    <3>1. /\ ready' \in 0 .. SERVING_PODS /\ job' \in {"none", "download", "hydrate", "complete", "failed"}
          /\ pc' \in Points
      BY <2>1, <2>3, StagingAssumption DEF Points
    <3>2. sts' \in BOOLEAN
      BY <2>2
    <3> QED BY <2>1, <3>1, <3>2 DEF Inv, TypeOK
  <2>5. ClusterInv' /\ RomIsStaged'
    <3>1. ~(ready' > 0) /\ job' # "complete"
      BY <2>1
    <3>2. ~sts'
      BY <2>2
    <3> QED BY <2>1, <3>1, <3>2 DEF Inv, ClusterInv, RomIsStaged, Staged
  <2>6. PointInv'
    <3>1. ~sts'
      BY <2>2
    <3> QED BY <2>1, <2>3, <3>1 DEF Inv, PointInv, Staged
  <2> QED BY <2>4, <2>5, <2>6 DEF Inv
<1>6. CASE DeleteDisk
  <2> USE <1>6 DEF DeleteDisk, Goto, backup
  <2>1. /\ pc = "delete_disk" /\ pc' = "create_disk"
        /\ users = "none" /\ mode' = "absent" /\ weights' = 0
        /\ UNCHANGED <<opt, sessions, active, skip_exec, users, job, sts, ready, seeder, bucket>>
    OBVIOUS
  <2>2. blind' \in BOOLEAN /\ weighed' \in BOOLEAN /\ indexed' = indexed
    OBVIOUS
  <2>3. weights' \in 0 .. SHARDS
    BY <2>1, StagingAssumption
  <2>4. ~sts /\ job = "none"
    BY <2>1 DEF Inv, PointInv
  <2>5. TypeOK'
    BY <2>1, <2>2, <2>3 DEF Inv, TypeOK, Points
  <2>6. ClusterInv' /\ PointInv' /\ RomIsStaged'
    BY <2>1, <2>4 DEF Inv, ClusterInv, PointInv, RomIsStaged
  <2> QED BY <2>5, <2>6 DEF Inv
<1>7. CASE CreateDisk
  BY <1>7 DEF CreateDisk, Goto, Inv, TypeOK, ClusterInv, PointInv, RomIsStaged, Staged,
         disk, backup, history, Points
<1>8. CASE ApplyJob
  BY <1>8 DEF ApplyJob, Goto, Inv, TypeOK, ClusterInv, PointInv, RomIsStaged, Staged,
         disk, backup, history, Points
<1>9. CASE Release
  BY <1>9 DEF Release, Goto, Inv, TypeOK, ClusterInv, PointInv, RomIsStaged, Staged,
         disk, backup, history, Points
<1>10. CASE Flip
  <2>1. PICK to \in {"serve", "idle"} : Goto("update", to)
    BY <1>10 DEF Flip
  <2>2. mode = "rw" /\ opt.skip = "no" => Staged
    BY <2>1 DEF Goto, Inv, PointInv
  <2>3. /\ mode # "absent" /\ users # "job" /\ mode' = "rom" /\ pc' \in {"serve", "idle"}
        /\ UNCHANGED <<opt, sessions, active, skip_exec, weights, users, job, sts, ready,
                       seeder, bucket, indexed, weighed>>
    BY <1>10 DEF Flip, Goto, backup
  <2>4. blind' = (blind \/ (mode = "rw" /\ opt.skip # "no"))
    BY <1>10 DEF Flip
  <2>5. blind' \in BOOLEAN
    BY <2>4
  <2>6. TypeOK'
    BY <2>3, <2>5 DEF Inv, TypeOK, Points
  <2>7. ClusterInv' /\ PointInv'
    BY <2>3 DEF Inv, ClusterInv, PointInv, Staged
  <2>8. mode \in {"rw", "rom"}
    BY <2>3 DEF Inv, TypeOK
  <2>9. ~blind' => Staged
    <3>1. CASE mode = "rom"
      BY <3>1, <2>4 DEF Inv, RomIsStaged
    <3>2. CASE mode = "rw"
      BY <3>2, <2>2, <2>4
    <3> QED BY <2>8, <3>1, <3>2
  <2>10. RomIsStaged'
    BY <2>3, <2>9 DEF RomIsStaged, Staged
  <2> QED BY <2>6, <2>7, <2>10 DEF Inv
<1>11. CASE Serve
  BY <1>11 DEF Serve, Goto, Inv, TypeOK, ClusterInv, PointInv, RomIsStaged, Staged,
         disk, backup, history, Points
<1>12. CASE CleanFails
  BY <1>12, PartlyCleanKeepsInv DEF CleanFails
<1>13. CASE Seed
  BY <1>13 DEF Seed, Goto, Inv, TypeOK, ClusterInv, PointInv, RomIsStaged, Staged, disk, history,
         Points
<1>14. CASE Seeded
  BY <1>14 DEF Seeded, Goto, Inv, TypeOK, ClusterInv, PointInv, RomIsStaged, Staged, disk, history,
         Points
<1> QED
  BY <1>1, <1>2, <1>3, <1>4, <1>5, <1>6, <1>7, <1>8, <1>9, <1>10, <1>11, <1>12,
     <1>13, <1>14 DEF Script

\* The start and the death of a session.
LEMMA SessionKeepsInv == Inv /\ (Start \/ Killed) => Inv'
<1> SUFFICES ASSUME Inv, Start \/ Killed PROVE Inv'
  OBVIOUS
<1>1. CASE Start
  <2>1. /\ pc' = "serving" /\ sessions' = sessions + 1 /\ sessions < MaxSessions
        /\ opt' \in Options
        /\ UNCHANGED <<active, mode, weights, users, job, sts, ready, seeder, bucket,
                       indexed, blind, weighed>>
    BY <1>1 DEF Start, cluster, disk, backup, history
  <2>2. skip_exec' \in BOOLEAN
    BY <1>1 DEF Start
  <2>3. opt' \in OptionRecords
    BY <2>1, StagingAssumption
  <2>4. sessions' \in 0 .. MaxSessions
    BY <2>1, StagingAssumption DEF Inv, TypeOK
  <2>5. TypeOK'
    BY <2>1, <2>2, <2>3, <2>4 DEF Inv, TypeOK, Points
  <2>6. ClusterInv' /\ PointInv' /\ RomIsStaged'
    BY <2>1 DEF Inv, ClusterInv, PointInv, RomIsStaged, Staged
  <2> QED BY <2>5, <2>6 DEF Inv
<1>2. CASE Killed
  BY <1>2, PassKeepsInv, PartlyCleanKeepsInv DEF Killed, Points
<1> QED BY <1>1, <1>2

\* The job, the nodes and the pods.
LEMMA EnvironmentKeepsInv == Inv /\ Environment => Inv'
<1> SUFFICES ASSUME Inv, Environment PROVE Inv'
  OBVIOUS
<1> USE DEF Inv, TypeOK, ClusterInv, PointInv, RomIsStaged, Staged, Running, session, disk, backup,
           history
<1>1. CASE MountStaging
  <2>1. /\ mode = "rw" /\ users = "none" /\ users' = "job"
        /\ UNCHANGED <<pc, opt, active, skip_exec, sessions, mode, weights, job, sts, ready,
                       seeder, bucket, indexed, blind, weighed>>
    BY <1>1 DEF MountStaging
  <2>2. TypeOK'
    BY <2>1
  <2>3. ClusterInv'
    BY <2>1
  <2>4. PointInv'
    BY <2>1
  <2>5. RomIsStaged'
    BY <2>1
  <2> QED BY <2>2, <2>3, <2>4, <2>5
<1>2. CASE WriteWeights
  <2>1. /\ weights' = weights + 1 /\ weights < SHARDS /\ weights' \in 0 .. SHARDS
        /\ job \in {"download", "hydrate"} /\ users = "job"
    BY <1>2, StagingAssumption DEF WriteWeights
  <2>2. Staged => weighed /\ FLOOR <= weights'
    BY <2>1, StagingAssumption
  <2> QED BY <1>2, <2>1, <2>2 DEF WriteWeights
<1>3. CASE JobCompletes
  <2>1. CASE job = "download" /\ indexed
    <3>1. SHARDS <= weights
      BY <1>3, <2>1 DEF JobCompletes, DownloadVerified
    <3>2. weights = SHARDS
      BY <3>1, StagingAssumption
    <3> QED BY <1>3, <3>2 DEF JobCompletes
  <2>2. CASE job = "download" /\ ~indexed
    BY <1>3, <2>2 DEF JobCompletes, DownloadVerified
  <2>3. CASE job = "hydrate"
    BY <1>3, <2>3 DEF JobCompletes, HydrationVerified
  <2> QED BY <1>3, <2>1, <2>2, <2>3 DEF JobCompletes
<1>4. CASE JobFails
  BY <1>4 DEF JobFails
<1>5. CASE CopyShard
  BY <1>5, StagingAssumption DEF CopyShard
<1>6. CASE SeederEnds
  BY <1>6 DEF SeederEnds
<1>7. CASE MountServing
  BY <1>7 DEF MountServing
<1>8. CASE ServingPods
  BY <1>8 DEF ServingPods
<1>9. CASE Unmount
  BY <1>9 DEF Unmount
<1> QED BY <1>1, <1>2, <1>3, <1>4, <1>5, <1>6, <1>7, <1>8, <1>9 DEF Environment

LEMMA Inductive == Spec => []Inv
<1>1. Init => Inv
  <2> SUFFICES ASSUME Init PROVE Inv
    OBVIOUS
  <2>1. opt \in OptionRecords
    BY DEF Init, OptionRecords
  <2>2. /\ skip_exec \in BOOLEAN /\ sts \in BOOLEAN /\ ~sts
        /\ indexed \in BOOLEAN /\ blind \in BOOLEAN /\ weighed \in BOOLEAN
    BY StagingAssumption DEF Init
  <2>3. active \in 0 .. SERVING_PODS /\ ready \in 0 .. SERVING_PODS /\ sessions \in 0 .. MaxSessions
    BY StagingAssumption DEF Init
  <2>4. /\ pc = "idle" /\ ready = 0 /\ mode \in {"absent", "rw"}
        /\ weights = 0 /\ users = "none" /\ job = "none" /\ seeder = "none"
        /\ weights \in 0 .. SHARDS /\ bucket \in 0 .. SHARDS
    BY StagingAssumption DEF Init
  <2>5. TypeOK
    BY <2>1, <2>2, <2>3, <2>4 DEF TypeOK, Points
  <2>6. ClusterInv /\ PointInv /\ RomIsStaged
    BY <2>2, <2>4 DEF ClusterInv, PointInv, RomIsStaged
  <2> QED BY <2>5, <2>6 DEF Inv
<1>2. Inv /\ UNCHANGED vars => Inv'
  BY DEF Inv, TypeOK, ClusterInv, PointInv, RomIsStaged, Staged, vars, session, cluster, disk,
         backup, history
<1>3. Inv /\ [Next]_vars => Inv'
  BY <1>2, ScriptKeepsInv, SessionKeepsInv, EnvironmentKeepsInv DEF Next
<1> QED BY <1>1, <1>3, PTL DEF Spec

-----------------------------------------------------------------------------
\* Type correctness of a session and of the cluster it works on.
THEOREM StagingTyped == Spec => []TypeOK
BY Inductive, PTL DEF Inv

\* A READ_ONLY_MANY disk has been staged by a job that completed, whatever fails or is
\* killed, unless a session that was told to skip the staging has flipped it.
THEOREM ReadOnlyIsStaged == Spec => []RomIsStaged
BY Inductive, PTL DEF Inv

\* The serving set is only ever there on a read-only disk that no job has mounted.
THEOREM ServedReadOnly == Spec => []ServesReadOnly
<1>1. Inv => ServesReadOnly
  BY DEF Inv, ClusterInv, ServesReadOnly
<1> QED BY <1>1, Inductive, PTL

\* Only a forced session takes the serving set down.
THEOREM ServingIsSpared == Spec => ServingSpared
<1>1. Inv /\ [Next]_vars => [sts /\ ~sts' => opt.force]_vars
  <2> SUFFICES ASSUME Inv, Next, sts, ~sts' PROVE opt.force
    BY DEF vars, cluster, session, disk, backup, history
  <2>1. CASE Clean \/ PartlyClean
    BY <2>1 DEF Clean, PartlyClean, Goto, Inv, ClusterInv, PointInv
  <2>2. CASE Start \/ (\E from \in Points \ {"idle"} : Pass(from, "idle")) \/ Environment
    BY <2>2
       DEF Start, Pass, cluster, Environment, MountStaging, WriteWeights, JobCompletes, JobFails,
           CopyShard, SeederEnds, MountServing, ServingPods, Unmount
  <2>3. CASE Script /\ ~Clean /\ ~CleanFails
    BY <2>3
       DEF Script, ReadServing, ProbeUnresolved, ProbeUnstaged, ProbeForced, ProbeStaged,
           DeleteDisk, CreateDisk, DiskFails, ApplyJob, ApplyFails, JobSeenComplete,
           JobSeenFailed, WaitTimesOut, Seed, Seeded, SeedFails, Release, NeedsFlip,
           NeedsNoFlip, Detached, DetachTimesOut, Flip, FlipFails, NotServed, Serve, Pass, cluster
  <2> QED BY <2>1, <2>2, <2>3 DEF Next, Killed, CleanFails
<1> QED BY <1>1, Inductive, PTL DEF Spec, ServingSpared
=============================================================================
