----------------------- MODULE FailoverBench_proofs -----------------------
(***************************************************************************)
(* Proofs about the failover benchmark: the ledger of attempts is complete,*)
(* the phases keep their times, and the report's checks, applied to it,    *)
(* mean what the rule says they mean.                                      *)
(***************************************************************************)
EXTENDS FailoverBench, FiniteSums

\* When each phase of cmd_measure ends.
Clock ==
  /\ main = "baseline" => until = BaselineTime /\ now <= until
  /\ main \notin {"baseline", "aborted"} => t0 = BaselineTime /\ t0 <= now
  /\ main = "killing" => now <= t0 + KillLimit
  /\ main = "recovery" =>
       now <= until /\ t0 + RecoveryTime <= until /\ until <= t0 + KillLimit + RecoveryTime
  /\ main = "drain" => until = end + JoinTimeout
  /\ main \in {"drain", "done"} =>
       /\ t0 + RecoveryTime <= end /\ end <= t0 + KillLimit + RecoveryTime
       /\ end <= now /\ now <= end + JoinTimeout

\* The generator keeps pace with the clock until it is told to stop; a request that
\* succeeds says how long it took.
Attempts ==
  /\ IsFiniteSet(inflight) /\ IsFiniteSet(samples)
  /\ issued <= now + 1
  /\ ~Stopped => now <= issued
  /\ main \in {"drain", "done"} => end <= issued /\ issued <= end + 1
  /\ \A s \in samples : s.ok => s.latency = s.t - s.id + 1

\* The life of the target pod, and what a poll that follows the kill can have seen of it.
Replacement ==
  /\ back # "never" <=> killed /\ pod = "ready"
  /\ pod = "stopping" => killed
  /\ killed => main \notin {"baseline", "aborted"}
  /\ main \in {"baseline", "killing", "aborted"} => kill_rc = Unmeasured /\ rejoin = Unmeasured
  /\ kill_rc = 0 => killed /\ (kill_waits => pod # "stopping")
  /\ back = "late" => now - t0 > MaxRejoin
  /\ rejoin # Unmeasured => t0 <= rejoin
  /\ kill_rc = 0 /\ kill_waits /\ rejoin # Unmeasured =>
       back = "time" \/ (back = "late" /\ rejoin - t0 > MaxRejoin)

Inv == TypeOK /\ Clock /\ Attempts /\ Replacement

\* The assumptions on the constants, one by one.
LEMMA Constants ==
  /\ BaselineTime > 0 /\ MaxBlackout > 0 /\ MaxP99Ratio \in Nat /\ MaxP99Ratio > 0
  /\ MaxResidual \in Nat /\ MaxBaseline \in Nat
  /\ BaselineTime \in Nat /\ RequestTimeout \in Nat /\ KillLimit \in Nat /\ MaxInflight \in Nat
  /\ MaxInflight > 0 /\ MaxBlackout \in Nat /\ RecoveryTime \in Nat /\ RecoveryTime > MaxBlackout
  /\ MaxRejoin \in Nat /\ JoinTimeout \in Nat /\ JoinTimeout > RequestTimeout
  /\ ThreadJoin \in Nat /\ ThreadJoin > RequestTimeout
  /\ Horizon \in Nat /\ Horizon = BaselineTime + KillLimit + RecoveryTime + JoinTimeout
BY ConstantsAssumption DEF Horizon

\* The invariant holds before the first attempt.
LEMMA InitInv == Init => Inv
<1> SUFFICES ASSUME Init PROVE Inv
  OBVIOUS
<1>1. /\ kill_waits \in BOOLEAN /\ killed = FALSE
      /\ now = 0 /\ main = "baseline" /\ until = BaselineTime
      /\ issued = 0 /\ inflight = {} /\ samples = {}
      /\ t0 = Unmeasured /\ end = Unmeasured /\ kill_rc = Unmeasured /\ rejoin = Unmeasured
      /\ pod \in {"ready", "loading"} /\ back = "never"
  BY DEF Init
<1>2. IsFiniteSet({}) /\ Cardinality({}) = 0
  BY FS_EmptySet
<1>3. now \in Times /\ until \in Times /\ issued \in 0..(Horizon + 1)
  BY <1>1, Constants DEF Times
<1>4. /\ inflight \subseteq Times /\ Cardinality(inflight) <= MaxInflight
      /\ Cardinality(samples) = issued - Cardinality(inflight)
  BY <1>1, <1>2, Constants
<1>5. 0 .. (issued - 1) = {}
  BY <1>1
<1>6. inflight \union {s.id : s \in samples} = 0..(issued - 1)
  BY <1>1, <1>5
<1>7. TypeOK
  BY <1>1, <1>3, <1>4, <1>6 DEF TypeOK
<1>8. Clock
  BY <1>1, Constants DEF Clock
<1>9. Attempts
  BY <1>1, <1>2 DEF Attempts
<1>10. Replacement
  BY <1>1 DEF Replacement, Unmeasured
<1> QED BY <1>7, <1>8, <1>9, <1>10 DEF Inv

\* What the attempts of a run are, told apart from the clock.
Ledger ==
  /\ inflight \subseteq Times /\ Cardinality(inflight) <= MaxInflight
  /\ samples \subseteq [id : Times, t : Times, ok : BOOLEAN, latency : 0..(Horizon + 1)]
  /\ inflight \intersect {s.id : s \in samples} = {}
  /\ inflight \union {s.id : s \in samples} = 0..(issued - 1)
  /\ Cardinality(samples) = issued - Cardinality(inflight)

\* Types, in the terms of arithmetic.
LEMMA TypesOf ==
  ASSUME TypeOK
  PROVE  /\ now \in Nat /\ until \in Nat /\ issued \in Nat
         /\ now <= Horizon /\ until <= Horizon /\ issued <= Horizon + 1
         /\ t0 \in Int /\ end \in Int /\ rejoin \in Int
         /\ Ledger
<1>1. now \in 0 .. Horizon /\ until \in 0 .. Horizon /\ issued \in 0 .. (Horizon + 1)
  BY DEF TypeOK, Times
<1>2. t0 \in Int /\ end \in Int /\ rejoin \in Int
  <2>1. {t0, end, rejoin} \subseteq Int
    BY DEF TypeOK, Times, Unmeasured
  <2> QED BY <2>1
<1>3. Ledger
  BY DEF TypeOK, Ledger
<1> QED BY <1>1, <1>2, <1>3, Constants

\* A step of the main thread, of the clock, of the pod or of the poller: the ledger is as it was.
LEMMA SameLedger ==
  ASSUME Inv, UNCHANGED load,
         kill_waits' \in BOOLEAN, now' \in Times, until' \in Times,
         main' \in {"baseline", "killing", "recovery", "drain", "done", "aborted"},
         t0' \in Times \union {Unmeasured}, end' \in Times \union {Unmeasured},
         rejoin' \in Times \union {Unmeasured},
         kill_rc' \in {Unmeasured, 0, 1},
         pod' \in {"ready", "stopping", "loading"}, killed' \in BOOLEAN,
         back' \in {"never", "time", "late"}
  PROVE  TypeOK'
<1>1. {t0', end', rejoin'} \subseteq Times \union {Unmeasured}
  OBVIOUS
<1>2. issued' = issued /\ inflight' = inflight /\ samples' = samples
  BY DEF load
<1> QED BY <1>1, <1>2 DEF Inv, TypeOK

\* A new attempt, in flight.
LEMMA LedgerGrows ==
  ASSUME Inv, issued <= now, Cardinality(inflight) < MaxInflight
  PROVE  /\ inflight \union {issued} \subseteq Times
         /\ IsFiniteSet(inflight \union {issued})
         /\ Cardinality(inflight \union {issued}) = Cardinality(inflight) + 1
         /\ issued \notin {s.id : s \in samples}
         /\ (inflight \union {issued}) \union {s.id : s \in samples} = 0 .. issued
<1>1. Ledger /\ issued \in Nat /\ now \in Nat /\ now <= Horizon
  BY TypesOf DEF Inv
<1>2. issued \in Times
  BY <1>1, Constants DEF Times
<1>3. issued \notin 0 .. (issued - 1) /\ 0 .. issued = 0 .. (issued - 1) \union {issued}
  BY <1>1
<1>4. issued \notin inflight /\ issued \notin {s.id : s \in samples}
  BY <1>1, <1>3 DEF Ledger
<1>5. IsFiniteSet(inflight)
  BY DEF Inv, Attempts
<1>6. /\ IsFiniteSet(inflight \union {issued})
      /\ Cardinality(inflight \union {issued}) = Cardinality(inflight) + 1
  BY <1>4, <1>5, FS_AddElement
<1>7. inflight \union {issued} \subseteq Times
  BY <1>1, <1>2 DEF Ledger
<1>8. (inflight \union {issued}) \union {s.id : s \in samples} = 0 .. issued
  BY <1>1, <1>3 DEF Ledger
<1> QED BY <1>4, <1>6, <1>7, <1>8

\* A new sample, of an attempt that had none.
LEMMA SamplesGrow ==
  ASSUME Inv, NEW id \in Times, id \notin {s.id : s \in samples}, NEW ok \in BOOLEAN,
         NEW latency \in 0 .. (Horizon + 1)
  PROVE  /\ samples \union {Sample(id, ok, latency)} \subseteq
              [id : Times, t : Times, ok : BOOLEAN, latency : 0..(Horizon + 1)]
         /\ IsFiniteSet(samples \union {Sample(id, ok, latency)})
         /\ Cardinality(samples \union {Sample(id, ok, latency)}) = Cardinality(samples) + 1
         /\ {s.id : s \in samples \union {Sample(id, ok, latency)}}
              = {s.id : s \in samples} \union {id}
<1>1. PICK new : new = Sample(id, ok, latency)
  OBVIOUS
<1>2. now \in Times
  BY DEF Inv, TypeOK
<1>3. new \in [id : Times, t : Times, ok : BOOLEAN, latency : 0..(Horizon + 1)] /\ new.id = id
  BY <1>1, <1>2 DEF Sample
<1>4. new \notin samples
  BY <1>3
<1>5. IsFiniteSet(samples) /\ Ledger
  BY TypesOf DEF Inv, Attempts
<1>6. IsFiniteSet(samples \union {new}) /\ Cardinality(samples \union {new}) = Cardinality(samples) + 1
  BY <1>4, <1>5, FS_AddElement
<1>7. {s.id : s \in samples \union {new}} = {s.id : s \in samples} \union {id}
  BY <1>3
<1> QED BY <1>1, <1>3, <1>5, <1>6, <1>7 DEF Ledger

\* The two counts are numbers.
LEMMA CardinalityIsNat == Inv => Cardinality(inflight) \in Nat /\ Cardinality(samples) \in Nat
BY FS_CardinalityType DEF Inv, Attempts

\* An attempt that is made is in flight or recorded as a loss.
LEMMA IssueStep ==
  ASSUME Inv, Issue
  PROVE  Inv'
<1>1. /\ ~Stopped /\ issued <= now /\ issued' = issued + 1
      /\ UNCHANGED <<now, measure, rejoin, replica>>
  BY DEF Issue
<1>2. /\ issued \in Nat /\ now \in Nat /\ now <= Horizon /\ t0 \in Int /\ end \in Int
      /\ Ledger
  BY TypesOf DEF Inv
<1>3. main \notin {"drain", "done", "aborted"} /\ now <= issued
  BY <1>1 DEF Stopped, Inv, Attempts
<1>4. /\ inflight' \subseteq Times /\ IsFiniteSet(inflight') /\ Cardinality(inflight') <= MaxInflight
      /\ samples' \subseteq [id : Times, t : Times, ok : BOOLEAN, latency : 0..(Horizon + 1)]
      /\ IsFiniteSet(samples')
      /\ inflight' \intersect {s.id : s \in samples'} = {}
      /\ inflight' \union {s.id : s \in samples'} = 0..issued
      /\ Cardinality(samples') = issued + 1 - Cardinality(inflight')
      /\ \A s \in samples' : s.ok => s.latency = s.t - s.id + 1
  <2>1. CASE Cardinality(inflight) < MaxInflight
    <3>1. inflight' = inflight \union {issued} /\ samples' = samples
      <4>1. Cardinality(inflight) # MaxInflight
        BY <2>1, CardinalityIsNat, Constants
      <4> QED BY <4>1 DEF Issue
    <3>2. /\ inflight' \subseteq Times /\ IsFiniteSet(inflight')
          /\ Cardinality(inflight') = Cardinality(inflight) + 1
          /\ issued \notin {s.id : s \in samples}
          /\ inflight' \union {s.id : s \in samples} = 0 .. issued
      BY <1>1, <2>1, <3>1, LedgerGrows
    <3>3. Cardinality(inflight') <= MaxInflight
      BY <2>1, <3>2, CardinalityIsNat, Constants
    <3>4. Cardinality(samples') = issued + 1 - Cardinality(inflight')
      BY <1>2, <3>1, <3>2, CardinalityIsNat DEF Ledger
    <3>5. inflight' \intersect {s.id : s \in samples'} = {}
      BY <1>2, <3>1, <3>2 DEF Ledger
    <3>6. /\ IsFiniteSet(samples') /\ \A s \in samples' : s.ok => s.latency = s.t - s.id + 1
      BY <3>1 DEF Inv, Attempts
    <3>7. samples' \subseteq [id : Times, t : Times, ok : BOOLEAN, latency : 0..(Horizon + 1)]
      BY <1>2, <3>1 DEF Ledger
    <3> QED BY <3>1, <3>2, <3>3, <3>4, <3>5, <3>6, <3>7
  <2>2. CASE ~(Cardinality(inflight) < MaxInflight)
    <3>1. inflight' = inflight /\ samples' = samples \union {Sample(issued, FALSE, 0)}
      BY <2>2 DEF Issue
    <3>2. issued \in Times /\ 0 \in 0 .. (Horizon + 1)
      BY <1>1, <1>2, Constants DEF Times
    <3>3. issued \notin 0 .. (issued - 1) /\ 0 .. issued = 0 .. (issued - 1) \union {issued}
      BY <1>2
    <3>4. issued \notin inflight /\ issued \notin {s.id : s \in samples}
      BY <1>2, <3>3 DEF Ledger
    <3>5. /\ samples' \subseteq [id : Times, t : Times, ok : BOOLEAN, latency : 0..(Horizon + 1)]
          /\ IsFiniteSet(samples')
          /\ Cardinality(samples') = Cardinality(samples) + 1
          /\ {s.id : s \in samples'} = {s.id : s \in samples} \union {issued}
      BY <3>1, <3>2, <3>4, SamplesGrow
    <3>6. Cardinality(samples') = issued + 1 - Cardinality(inflight')
      BY <1>2, <3>1, <3>5, CardinalityIsNat DEF Ledger
    <3>7. /\ inflight' \intersect {s.id : s \in samples'} = {}
          /\ inflight' \union {s.id : s \in samples'} = 0 .. issued
      BY <1>2, <3>1, <3>3, <3>4, <3>5 DEF Ledger
    <3>8. \A s \in samples' : s.ok => s \in samples
      BY <3>1 DEF Sample
    <3>9. \A s \in samples' : s.ok => s.latency = s.t - s.id + 1
      BY <3>8 DEF Inv, Attempts
    <3>10. inflight' \subseteq Times /\ IsFiniteSet(inflight') /\ Cardinality(inflight') <= MaxInflight
      BY <1>2, <3>1 DEF Ledger, Inv, Attempts
    <3> QED BY <3>5, <3>6, <3>7, <3>9, <3>10
  <2> QED BY <2>1, <2>2
<1>5. issued' \in 0 .. (Horizon + 1) /\ issued' - 1 = issued
  BY <1>1, <1>2, Constants
<1>6. TypeOK'
  <2>1. /\ now' = now /\ kill_waits' = kill_waits /\ main' = main /\ until' = until /\ t0' = t0
        /\ end' = end /\ kill_rc' = kill_rc /\ rejoin' = rejoin /\ pod' = pod /\ killed' = killed
        /\ back' = back
    BY <1>1 DEF measure, replica
  <2>2. Cardinality(samples') = issued' - Cardinality(inflight')
    <3>1. issued' = issued + 1
      BY <1>1
    <3>2. Cardinality(samples') = issued + 1 - Cardinality(inflight')
      BY <1>4
    <3>3. Cardinality(inflight') \in Nat
      BY <1>4, FS_CardinalityType
    <3> QED BY <1>2, <3>1, <3>2, <3>3
  <2>3. inflight' \union {s.id : s \in samples'} = 0..(issued' - 1)
    BY <1>4, <1>5
  <2> QED BY <1>4, <1>5, <2>1, <2>2, <2>3 DEF Inv, TypeOK
<1>7. Clock'
  BY <1>1 DEF Inv, Clock, measure
<1>8. Attempts'
  <2>1. main' = main /\ now' = now /\ end' = end
    BY <1>1 DEF measure
  <2>2. issued' <= now' + 1 /\ now' <= issued'
    BY <1>1, <1>2, <1>3, <2>1
  <2> QED BY <1>3, <1>4, <2>1, <2>2 DEF Attempts
<1>9. Replacement'
  BY <1>1 DEF Inv, Replacement, measure, replica
<1> QED BY <1>6, <1>7, <1>8, <1>9 DEF Inv

\* A request that ends moves from the one to the other.
LEMMA RequestEndsStep ==
  ASSUME Inv, NEW id \in inflight, NEW ok \in BOOLEAN, RequestEnds(id, ok)
  PROVE  Inv'
<1>1. /\ inflight' = inflight \ {id} /\ samples' = samples \union {Sample(id, ok, now - id + 1)}
      /\ UNCHANGED <<now, measure, issued, rejoin, replica>>
  BY DEF RequestEnds
<1>2. /\ issued \in Nat /\ now \in Nat /\ now <= Horizon /\ t0 \in Int /\ end \in Int
      /\ Ledger /\ issued <= now + 1
  BY TypesOf DEF Inv, Attempts
<1>3. id \in 0 .. (issued - 1) /\ id \in Times /\ id \notin {s.id : s \in samples}
  BY <1>2 DEF Ledger
<1>4. now - id + 1 \in 0 .. (Horizon + 1)
  BY <1>2, <1>3, Constants
<1>5. /\ samples' \subseteq [id : Times, t : Times, ok : BOOLEAN, latency : 0..(Horizon + 1)]
      /\ IsFiniteSet(samples')
      /\ Cardinality(samples') = Cardinality(samples) + 1
      /\ {s.id : s \in samples'} = {s.id : s \in samples} \union {id}
  BY <1>1, <1>3, <1>4, SamplesGrow
<1>6. IsFiniteSet(inflight') /\ Cardinality(inflight') = Cardinality(inflight) - 1
  BY <1>1, FS_RemoveElement DEF Inv, Attempts
<1>7. /\ Cardinality(inflight') <= MaxInflight
      /\ Cardinality(samples') = issued - Cardinality(inflight')
  BY <1>2, <1>5, <1>6, CardinalityIsNat, Constants DEF Ledger
<1>8. /\ inflight' \subseteq Times
      /\ inflight' \intersect {s.id : s \in samples'} = {}
      /\ inflight' \union {s.id : s \in samples'} = 0 .. (issued - 1)
  BY <1>1, <1>2, <1>3, <1>5 DEF Ledger
<1>9. \A s \in samples' : s.ok => s.latency = s.t - s.id + 1
  BY <1>1 DEF Sample, Inv, Attempts
<1>10. /\ now' = now /\ kill_waits' = kill_waits /\ main' = main /\ until' = until /\ t0' = t0
       /\ end' = end /\ kill_rc' = kill_rc /\ rejoin' = rejoin /\ pod' = pod /\ killed' = killed
       /\ back' = back /\ issued' = issued
  BY <1>1 DEF measure, replica
<1>11. TypeOK'
  BY <1>5, <1>7, <1>8, <1>10 DEF Inv, TypeOK
<1>12. Clock'
  BY <1>10 DEF Inv, Clock
<1>13. Attempts'
  BY <1>5, <1>6, <1>9, <1>10 DEF Inv, Attempts, Stopped
<1>14. Replacement'
  BY <1>10 DEF Inv, Replacement
<1> QED BY <1>11, <1>12, <1>13, <1>14 DEF Inv

\* The main thread: each phase begins when the one before it ends.
LEMMA MainStep ==
  ASSUME Inv, Main
  PROVE  Inv'
<1>1. /\ now' = now /\ kill_waits' = kill_waits /\ load' = load /\ rejoin' = rejoin
      /\ pod' = pod /\ killed' = killed /\ back' = back
  BY DEF Main, Abort, IssueKill, KillReturns, StopLoad, Report, replica
<1>2. issued' = issued /\ inflight' = inflight /\ samples' = samples
  BY <1>1 DEF load
<1>3. /\ now \in Nat /\ until \in Nat /\ issued \in Nat /\ t0 \in Int /\ end \in Int /\ rejoin \in Int
      /\ now <= Horizon /\ now \in Times /\ until \in Times
      /\ t0 \in Times \union {Unmeasured} /\ end \in Times \union {Unmeasured}
      /\ rejoin \in Times \union {Unmeasured} /\ kill_rc \in {Unmeasured, 0, 1}
      /\ kill_waits \in BOOLEAN /\ killed \in BOOLEAN
      /\ pod \in {"ready", "stopping", "loading"} /\ back \in {"never", "time", "late"}
  BY TypesOf DEF Inv, TypeOK
<1>4. Clock /\ Attempts /\ Replacement
  BY DEF Inv
<1>5. CASE Abort
  <2>1. /\ main = "baseline" /\ main' = "aborted"
        /\ UNCHANGED <<until, t0, end, kill_rc>>
    BY <1>5 DEF Abort
  <2>2. TypeOK'
    BY <1>1, <1>3, <2>1, SameLedger
  <2>3. Clock' /\ Attempts'
    BY <1>1, <1>2, <1>4, <2>1 DEF Clock, Attempts, Stopped
  <2>4. Replacement'
    BY <1>1, <1>4, <2>1 DEF Replacement
  <2> QED BY <2>2, <2>3, <2>4 DEF Inv
<1>6. CASE IssueKill
  <2>1. /\ main = "baseline" /\ main' = "killing" /\ t0' = now /\ now = until
        /\ UNCHANGED <<until, end, kill_rc>>
    BY <1>6 DEF IssueKill
  <2>2. TypeOK'
    BY <1>1, <1>3, <2>1, SameLedger
  <2>3. Clock'
    BY <1>1, <1>3, <1>4, <2>1, Constants DEF Clock
  <2>4. Attempts'
    BY <1>1, <1>2, <1>4, <2>1 DEF Attempts, Stopped
  <2>5. killed = FALSE /\ back = "never" /\ kill_rc = Unmeasured /\ rejoin = Unmeasured
    BY <1>3, <1>4, <2>1 DEF Replacement
  <2>6. Replacement'
    BY <1>1, <1>4, <2>1, <2>5 DEF Replacement, Unmeasured
  <2> QED BY <2>2, <2>3, <2>4, <2>6 DEF Inv
<1>7. CASE \E rc \in {0, 1} : KillReturns(rc)
  <2>1. PICK rc \in {0, 1} :
          /\ main = "killing" /\ main' = "recovery" /\ until' = now + RecoveryTime /\ kill_rc' = rc
          /\ rc = 0 => killed /\ (kill_waits => pod # "stopping")
          /\ UNCHANGED <<t0, end>>
    BY <1>7 DEF KillReturns
  <2>2. now + RecoveryTime \in Times
    BY <1>3, <1>4, <2>1, Constants DEF Clock, Times
  <2>3. TypeOK'
    BY <1>1, <1>3, <2>1, <2>2, SameLedger
  <2>4. Clock'
    BY <1>1, <1>3, <1>4, <2>1, Constants DEF Clock
  <2>5. Attempts'
    BY <1>1, <1>2, <1>4, <2>1 DEF Attempts, Stopped
  <2>6. rejoin = Unmeasured
    BY <1>4, <2>1 DEF Replacement
  <2>7. Replacement'
    BY <1>1, <1>4, <2>1, <2>6 DEF Replacement
  <2> QED BY <2>3, <2>4, <2>5, <2>7 DEF Inv
<1>8. CASE StopLoad
  <2>1. /\ main = "recovery" /\ main' = "drain" /\ now = until
        /\ end' = now /\ until' = now + JoinTimeout
        /\ UNCHANGED <<t0, kill_rc>>
    BY <1>8 DEF StopLoad
  <2>2. now + JoinTimeout \in Times
    BY <1>3, <1>4, <2>1, Constants DEF Clock, Times
  <2>3. TypeOK'
    BY <1>1, <1>3, <2>1, <2>2, SameLedger
  <2>4. Clock'
    BY <1>1, <1>3, <1>4, <2>1, Constants DEF Clock
  <2>5. issued <= now + 1 /\ now <= issued
    BY <1>4, <2>1 DEF Attempts, Stopped
  <2>6. Attempts'
    BY <1>1, <1>2, <1>4, <2>1, <2>5 DEF Attempts, Stopped
  <2>7. Replacement'
    BY <1>1, <1>4, <2>1 DEF Replacement
  <2> QED BY <2>3, <2>4, <2>6, <2>7 DEF Inv
<1>9. CASE Report
  <2>1. /\ main = "drain" /\ main' = "done"
        /\ UNCHANGED <<until, t0, end, kill_rc>>
    BY <1>9 DEF Report
  <2>2. TypeOK'
    BY <1>1, <1>3, <2>1, SameLedger
  <2>3. Clock'
    BY <1>1, <1>3, <1>4, <2>1 DEF Clock
  <2>4. Attempts'
    BY <1>1, <1>2, <1>4, <2>1 DEF Attempts, Stopped
  <2>5. Replacement'
    BY <1>1, <1>4, <2>1 DEF Replacement
  <2> QED BY <2>2, <2>3, <2>4, <2>5 DEF Inv
<1> QED BY <1>5, <1>6, <1>7, <1>8, <1>9 DEF Main

\* The clock waits for whoever only waits for the clock.
LEMMA TickStep ==
  ASSUME Inv, Tick
  PROVE  Inv'
<1>1. /\ main \notin {"done", "aborted"} /\ Idle /\ now' = now + 1
      /\ UNCHANGED <<kill_waits, main, until, t0, end, kill_rc, load, rejoin, pod, killed, back>>
  BY DEF Tick, Over, measure, replica
<1>2. issued' = issued /\ inflight' = inflight /\ samples' = samples
  BY <1>1 DEF load
<1>3. /\ now \in Nat /\ until \in Nat /\ issued \in Nat /\ t0 \in Int /\ end \in Int /\ rejoin \in Int
      /\ until <= Horizon
  BY TypesOf DEF Inv
<1>4. /\ main \in {"baseline", "killing", "recovery", "drain"}
      /\ Clock /\ Attempts /\ Replacement /\ TypeOK
  BY <1>1 DEF Inv, TypeOK
<1>5. /\ main = "killing" => now < t0 + KillLimit
      /\ main # "killing" => now < until
      /\ main # "drain" => now < issued
  BY <1>1, <1>3, <1>4 DEF Idle, Stopped
<1>6. now + 1 \in Times
  <2>1. CASE main = "killing"
    <3>1. now < t0 + KillLimit /\ t0 = BaselineTime
      BY <1>4, <1>5, <2>1 DEF Clock
    <3> QED BY <1>3, <3>1, Constants DEF Times
  <2>2. CASE main # "killing"
    BY <1>3, <1>5, <2>2, Constants DEF Times
  <2> QED BY <2>1, <2>2
<1>7. TypeOK'
  BY <1>1, <1>4, <1>6, SameLedger DEF Inv, TypeOK
<1>8. Clock'
  BY <1>1, <1>3, <1>4, <1>5, Constants DEF Clock
<1>9. Attempts'
  BY <1>1, <1>2, <1>3, <1>4, <1>5 DEF Attempts, Stopped
<1>10. Replacement'
  <2>1. back' = "late" => now' - t0' > MaxRejoin
    BY <1>1, <1>3, <1>4, Constants DEF Replacement
  <2> QED BY <1>1, <1>4, <2>1 DEF Replacement
<1> QED BY <1>7, <1>8, <1>9, <1>10 DEF Inv

\* The pod and the poller, whom the clock and the attempts do not concern.
LEMMA PodStep ==
  ASSUME Inv, Poll \/ DeletionAccepted \/ PodStops \/ PodReady
  PROVE  Inv'
<1>1. now' = now /\ UNCHANGED measure /\ UNCHANGED load
  BY DEF Poll, DeletionAccepted, PodStops, PodReady
<1>2. /\ kill_waits' = kill_waits /\ main' = main /\ until' = until /\ t0' = t0 /\ end' = end
      /\ kill_rc' = kill_rc /\ issued' = issued /\ inflight' = inflight /\ samples' = samples
  BY <1>1 DEF measure, load
<1>3. Clock /\ Attempts /\ Replacement /\ TypeOK
  BY DEF Inv
<1>4. Clock' /\ Attempts'
  BY <1>1, <1>2, <1>3 DEF Clock, Attempts, Stopped
<1>5. now \in Nat /\ now \in Times /\ t0 \in Int /\ rejoin \in Int
  BY TypesOf DEF Inv, TypeOK
<1>6. /\ rejoin' \in Times \union {Unmeasured} /\ pod' \in {"ready", "stopping", "loading"}
      /\ killed' \in BOOLEAN /\ back' \in {"never", "time", "late"}
  BY <1>3, <1>5 DEF Poll, DeletionAccepted, PodStops, PodReady, replica, TypeOK
<1>7. TypeOK'
  BY <1>1, <1>2, <1>3, <1>6, SameLedger DEF TypeOK
<1>8. CASE Poll
  <2>1. /\ main \in {"recovery", "drain"} /\ pod \in {"ready", "stopping"} /\ rejoin' = now
        /\ UNCHANGED <<pod, killed, back>>
    BY <1>8 DEF Poll, replica
  <2>2. ASSUME kill_rc = 0, kill_waits
        PROVE  back = "time" \/ (back = "late" /\ now - t0 > MaxRejoin)
    <3>1. killed /\ pod = "ready"
      BY <1>3, <2>1, <2>2 DEF Replacement
    <3>2. back \in {"time", "late"}
      BY <1>3, <3>1 DEF Replacement, TypeOK
    <3> QED BY <1>3, <3>2 DEF Replacement
  <2>3. t0 <= now
    BY <1>3, <2>1 DEF Clock
  <2>4. Replacement'
    BY <1>1, <1>2, <1>3, <2>1, <2>2, <2>3 DEF Replacement
  <2> QED BY <1>4, <1>7, <2>4 DEF Inv
<1>9. CASE DeletionAccepted
  <2>1. /\ main = "killing" /\ killed = FALSE /\ killed' = TRUE /\ rejoin' = rejoin /\ back' = back
        /\ pod' = IF pod = "ready" THEN "stopping" ELSE pod
    BY <1>3, <1>9 DEF DeletionAccepted, TypeOK
  <2>2. back = "never" /\ kill_rc = Unmeasured /\ rejoin = Unmeasured /\ pod' # "ready"
    BY <1>3, <2>1 DEF Replacement, TypeOK
  <2>3. Replacement'
    BY <1>1, <1>2, <2>1, <2>2 DEF Replacement, Unmeasured
  <2> QED BY <1>4, <1>7, <2>3 DEF Inv
<1>10. CASE PodStops
  <2>1. pod = "stopping" /\ pod' = "loading" /\ UNCHANGED <<rejoin, killed, back>>
    BY <1>10 DEF PodStops
  <2>2. Replacement'
    BY <1>1, <1>2, <1>3, <2>1 DEF Replacement
  <2> QED BY <1>4, <1>7, <2>2 DEF Inv
<1>11. CASE PodReady
  <2>1. /\ killed /\ pod = "loading" /\ pod' = "ready" /\ UNCHANGED <<rejoin, killed>>
        /\ back' = IF now - t0 <= MaxRejoin THEN "time" ELSE "late"
    BY <1>11 DEF PodReady
  <2>2. back = "never"
    BY <1>3, <2>1 DEF Replacement
  <2>3. back' = "late" => now' - t0' > MaxRejoin
    BY <1>1, <1>2, <1>5, <2>1, Constants
  <2>4. ~(kill_rc = 0 /\ kill_waits /\ rejoin # Unmeasured)
    BY <1>3, <2>2 DEF Replacement
  <2>5. back' # "never" /\ main \notin {"baseline", "aborted"}
    BY <1>3, <2>1 DEF Replacement
  <2>6. Replacement'
    BY <1>1, <1>2, <1>3, <2>1, <2>3, <2>4, <2>5 DEF Replacement
  <2> QED BY <1>4, <1>7, <2>6 DEF Inv
<1> QED BY <1>8, <1>9, <1>10, <1>11

\* The invariant is inductive.
LEMMA InvStep == Inv /\ [Next]_vars => Inv'
<1> SUFFICES ASSUME Inv, [Next]_vars PROVE Inv'
  OBVIOUS
<1>1. CASE UNCHANGED vars
  <2>1. /\ UNCHANGED <<kill_waits, now, main, until, issued, inflight, samples, t0, end, kill_rc,
                       rejoin, pod, killed, back>>
    BY <1>1 DEF vars, measure, load, replica
  <2>2. TypeOK'
    BY <2>1 DEF Inv, TypeOK
  <2>3. Clock' /\ Attempts' /\ Replacement'
    BY <2>1 DEF Inv, Clock, Attempts, Stopped, Replacement
  <2> QED BY <2>2, <2>3 DEF Inv
<1> QED BY <1>1, MainStep, IssueStep, RequestEndsStep, TickStep, PodStep DEF Next

\* TypeOK: no attempt of load_generator is ever lost track of or counted twice, whatever the
\* service answers and when; with it, the phases of cmd_measure and the life of the pod.
THEOREM FailoverTyped == Spec => [](TypeOK /\ Clock /\ Attempts /\ Replacement)
<1>1. Init => TypeOK /\ Clock /\ Attempts /\ Replacement
  BY InitInv DEF Inv
<1>2. TypeOK /\ Clock /\ Attempts /\ Replacement /\ [Next]_vars
        => (TypeOK /\ Clock /\ Attempts /\ Replacement)'
  BY InvStep DEF Inv
<1> QED BY <1>1, <1>2, PTL DEF Spec

\* NoAttemptForgotten: gen.join in cmd_measure waits longer than any request is allowed to
\* take, so that what is missing from the report had outlived its timeout.
THEOREM NoAttemptForgottenHolds == Spec => []NoAttemptForgotten
<1>1. Init => NoAttemptForgotten
  BY DEF Init, NoAttemptForgotten
<1>2. TypeOK /\ Clock /\ Attempts /\ Replacement /\ NoAttemptForgotten /\ [Next]_vars
        => NoAttemptForgotten'
  <2> SUFFICES ASSUME Inv, NoAttemptForgotten, [Next]_vars, main' = "done",
                      NEW id \in inflight'
               PROVE  now' - id > RequestTimeout
    BY DEF Inv, NoAttemptForgotten
  <2>1. CASE main = "done"
    <3>1. UNCHANGED <<now, inflight>>
      BY <2>1 DEF Next, Main, Abort, IssueKill, KillReturns, StopLoad, Report, Issue, Poll, Tick,
         RequestEnds, DeletionAccepted, PodStops, PodReady, Stopped, Over, vars, measure, load
    <3> QED BY <2>1, <3>1 DEF NoAttemptForgotten
  <2>2. CASE main # "done"
    <3>1. Report
      BY <2>2 DEF Next, Main, Abort, IssueKill, KillReturns, StopLoad, Issue, Poll, Tick,
         RequestEnds, DeletionAccepted, PodStops, PodReady, vars, measure
    <3>2. /\ main = "drain" /\ id \in inflight /\ now' = now
          /\ Cardinality(inflight) * ThreadJoin <= now - end \/ now = until
      BY <3>1 DEF Report, load
    <3>3. now \in Nat /\ issued \in Nat /\ end \in Int /\ Ledger
      BY TypesOf DEF Inv
    <3>4. id \in 0 .. (issued - 1)
      BY <3>2, <3>3 DEF Ledger
    <3>5. issued <= end + 1 /\ until = end + JoinTimeout
      BY <3>2 DEF Inv, Attempts, Clock
    <3>6. CASE Cardinality(inflight) * ThreadJoin <= now - end
      <4>1. Cardinality(inflight) \in Nat /\ Cardinality(inflight) # 0
        BY <3>2, FS_CardinalityType, FS_EmptySet DEF Inv, Attempts
      <4>2. ThreadJoin <= Cardinality(inflight) * ThreadJoin
        <5> DEFINE n == Cardinality(inflight)
        <5>1. n \in Nat /\ n >= 1
          BY <4>1
        <5> HIDE DEF n
        <5>2. n * ThreadJoin = ThreadJoin + (n - 1) * ThreadJoin
          BY <5>1, Constants
        <5>3. (n - 1) * ThreadJoin >= 0
          BY <5>1, Constants
        <5> QED BY <5>1, <5>2, <5>3, Constants DEF n
      <4>3. ThreadJoin <= now - end
        BY <3>3, <3>6, <4>1, <4>2, Constants
      <4> QED BY <3>2, <3>3, <3>4, <3>5, <4>3, Constants
    <3>7. CASE now = until
      BY <3>2, <3>3, <3>4, <3>5, <3>7, Constants
    <3> QED BY <3>2, <3>6, <3>7
  <2> QED BY <2>1, <2>2
<1> QED BY <1>1, <1>2, FailoverTyped, PTL DEF Spec

\* PassMeansReturned: with a kill command that waits for the pod to be gone, what poll_rejoin
\* sees is the replacement, and a verdict of PASS says that it came back in time.
THEOREM PassMeansReturnedHolds == Spec => []PassMeansReturned
<1>1. TypeOK /\ Clock /\ Attempts /\ Replacement => PassMeansReturned
  <2> SUFFICES ASSUME Inv, Passed, kill_waits PROVE killed /\ back = "time"
    BY DEF Inv, PassMeansReturned
  <2>1. "rejoin" \in checks(report) /\ "kill_effective" \in checks(report)
    BY DEF Passed, passes
  <2>2. report.rejoin # Unmeasured /\ report.rejoin <= MaxRejoin
    BY <2>1 DEF checks
  <2>3. rejoin # Unmeasured /\ rejoin - t0 <= MaxRejoin
    BY <2>2 DEF report
  <2>4. kill_rc = 0
    BY <2>1 DEF checks, report
  <2>5. killed
    BY <2>4 DEF Inv, Replacement
  <2>6. rejoin \in Int /\ t0 \in Int
    BY TypesOf DEF Inv
  <2>7. ~(rejoin - t0 > MaxRejoin)
    BY <2>3, <2>6, Constants
  <2>8. back = "time"
    BY <2>3, <2>4, <2>7 DEF Inv, Replacement
  <2> QED BY <2>5, <2>8
<1> QED BY <1>1, FailoverTyped, PTL

-----------------------------------------------------------------------------
(***************************************************************************)
(* The blackout.                                                           *)
(***************************************************************************)

\* When the run is over, the kill is that much older than the end of the recovery phase.
LEMMA WhenDone ==
  ASSUME Inv, main = "done"
  PROVE  /\ t0 \in 0 .. Horizon /\ end \in 0 .. Horizon /\ end - t0 > MaxBlackout
         /\ t0 = BaselineTime /\ end <= issued
         /\ \A s \in samples : s.t \in 0 .. Horizon /\ s.ok \in BOOLEAN /\ s.id \in 0 .. (issued - 1)
         /\ \A s \in samples : s.ok => s.latency = s.t - s.id + 1
<1>1. now \in Nat /\ t0 \in Int /\ end \in Int /\ issued \in Nat /\ now <= Horizon /\ Ledger
  BY TypesOf DEF Inv
<1>2. t0 = BaselineTime /\ t0 + RecoveryTime <= end /\ end <= now
  BY DEF Inv, Clock
<1>3. t0 \in 0 .. Horizon /\ end \in 0 .. Horizon /\ end - t0 > MaxBlackout
  BY <1>1, <1>2, Constants
<1>4. ASSUME NEW s \in samples
      PROVE  s.t \in 0 .. Horizon /\ s.ok \in BOOLEAN /\ s.id \in 0 .. (issued - 1)
  <2>1. s \in [id : Times, t : Times, ok : BOOLEAN, latency : 0..(Horizon + 1)]
    BY <1>1 DEF Ledger
  <2>2. s.id \in 0 .. (issued - 1)
    BY <1>1 DEF Ledger
  <2> QED BY <2>1, <2>2 DEF Times
<1> QED BY <1>2, <1>3, <1>4 DEF Inv, Attempts

\* The gaps are spans of the run, and none is longer than the blackout.
LEMMA GapsAreBounded ==
  ASSUME Inv, main = "done"
  PROVE  /\ blackout(samples, t0, end) \in Nat
         /\ \A g \in Gaps(samples, t0, end) :
              g[1] \in 0 .. Horizon /\ g[2] \in 0 .. Horizon
              /\ g[2] - g[1] <= blackout(samples, t0, end)
         /\ \/ blackout(samples, t0, end) = 0
            \/ \E g \in Gaps(samples, t0, end) : g[2] - g[1] = blackout(samples, t0, end)
<1>1. PICK T : T = SuccessTimes(samples, t0)
  OBVIOUS
<1>2. PICK h \in Nat : h = Horizon
  BY Constants
<1>3. t0 \in 0 .. h /\ end \in 0 .. h
  BY <1>2, WhenDone
<1>4. T \in SUBSET (0 .. h)
  BY <1>1, <1>2, WhenDone DEF SuccessTimes, Succeeded, After
<1>5. ASSUME NEW ts PROVE Max({t0} \union {x \in T : x < ts}) \in 0 .. h
  <2>1. PICK S : S = {t0} \union {x \in T : x < ts}
    OBVIOUS
  <2>2. S \in SUBSET (0 .. h) /\ S # {}
    BY <1>3, <1>4, <2>1
  <2> QED BY <2>1, <2>2, MaxIsGreatest
<1>6. Max({t0} \union T) \in 0 .. h
  <2>1. PICK S : S = {t0} \union T
    OBVIOUS
  <2>2. S \in SUBSET (0 .. h) /\ S # {}
    BY <1>3, <1>4, <2>1
  <2> QED BY <2>1, <2>2, MaxIsGreatest
<1>7. Max({end, t0}) \in 0 .. h
  <2>1. PICK S : S = {end, t0}
    OBVIOUS
  <2>2. S \in SUBSET (0 .. h) /\ S # {}
    BY <1>3, <2>1
  <2> QED BY <2>1, <2>2, MaxIsGreatest
<1>8. PICK G : G = Gaps(samples, t0, end)
  OBVIOUS
<1>9. \A g \in G : g[1] \in 0 .. h /\ g[2] \in 0 .. h
  <2>1. G = {<<Max({t0} \union {x \in T : x < ts}), ts>> : ts \in T}
              \union {<<Max({t0} \union T), Max({end, t0})>>}
    BY <1>1, <1>8 DEF Gaps
  <2> SUFFICES ASSUME NEW g \in G PROVE g[1] \in 0 .. h /\ g[2] \in 0 .. h
    OBVIOUS
  <2>2. CASE g = <<Max({t0} \union T), Max({end, t0})>>
    BY <1>6, <1>7, <2>2
  <2>3. CASE \E ts \in T : g = <<Max({t0} \union {x \in T : x < ts}), ts>>
    <3>1. PICK ts \in T : g = <<Max({t0} \union {x \in T : x < ts}), ts>>
      BY <2>3
    <3>2. ts \in 0 .. h
      BY <1>4
    <3> QED BY <1>5, <3>1, <3>2
  <2> QED BY <2>1, <2>2, <2>3
<1>10. PICK L : L = {0} \union {g[2] - g[1] : g \in G}
  OBVIOUS
<1>11. L \in SUBSET (-h .. h) /\ L # {}
  <2>1. \A g \in G : g[2] - g[1] \in -h .. h
    BY <1>9
  <2>2. 0 \in -h .. h
    OBVIOUS
  <2> QED BY <1>10, <2>1, <2>2
<1>12. Max(L) \in L /\ \A n \in L : n <= Max(L)
  BY <1>11, MaxOfIntegers
<1>13. blackout(samples, t0, end) = Max(L)
  BY <1>8, <1>10 DEF blackout
<1>14. Max(L) \in Nat
  BY <1>10, <1>11, <1>12
<1>15. \A g \in G : g[2] - g[1] <= Max(L)
  BY <1>10, <1>12
<1>16. Max(L) = 0 \/ \E g \in G : g[2] - g[1] = Max(L)
  BY <1>10, <1>12
<1> QED BY <1>2, <1>8, <1>9, <1>13, <1>14, <1>15, <1>16

\* PassMeansService: the blackout that summarise computes from a sorted list and a cursor
\* bounds every span of the run without a success, the one before the first success and
\* the one after the last included.
THEOREM PassMeansServiceHolds == Spec => []PassMeansService
<1>1. TypeOK /\ Clock /\ Attempts /\ Replacement => PassMeansService
  <2> SUFFICES ASSUME Inv, Passed, NEW a \in t0..(end - MaxBlackout),
                      ~ \E s \in Succeeded(samples) : a <= s.t /\ s.t <= a + MaxBlackout
               PROVE  FALSE
    BY DEF Inv, PassMeansService
  <2>1. main = "done" /\ "blackout" \in checks(report)
    BY DEF Passed, passes
  <2>2. PICK m \in Nat : m = MaxBlackout
    BY Constants
  <2>3. blackout(samples, t0, end) <= m
    BY <2>1, <2>2 DEF checks, report
  <2>4. PICK h \in Nat : h = Horizon
    BY Constants
  <2>5. t0 \in 0 .. h /\ end \in 0 .. h /\ end - t0 > m /\ a \in Nat /\ t0 <= a /\ a + m <= end
    BY <2>1, <2>2, <2>4, WhenDone
  <2>6. PICK T : T = SuccessTimes(samples, t0)
    OBVIOUS
  <2>7. T \in SUBSET (0 .. h)
    BY <2>1, <2>4, <2>6, WhenDone DEF SuccessTimes, Succeeded, After
  <2>8. \A x \in T : t0 <= x /\ (x < a \/ x > a + m)
    <3>1. \A x \in T : \E s \in samples : x = s.t /\ s.ok /\ s.t >= t0
      BY <2>6 DEF SuccessTimes, Succeeded, After
    <3>2. \A x \in T : t0 <= x /\ ~(a <= x /\ x <= a + m)
      BY <2>2, <2>5, <2>7, <3>1 DEF Succeeded
    <3> QED BY <2>5, <2>7, <3>2
  <2>9. \A g \in Gaps(samples, t0, end) : g[2] - g[1] <= m
    <3>1. blackout(samples, t0, end) \in Nat
      BY <2>1, GapsAreBounded
    <3>2. \A g \in Gaps(samples, t0, end) :
            g[1] \in 0 .. h /\ g[2] \in 0 .. h /\ g[2] - g[1] <= blackout(samples, t0, end)
      BY <2>1, <2>4, GapsAreBounded
    <3> QED BY <2>3, <3>1, <3>2
  <2>10. CASE \E ts \in T : ts > a + m
    <3>1. PICK U : U = {ts \in T : ts > a + m}
      OBVIOUS
    <3>2. U \in SUBSET Nat /\ U # {}
      <4>1. \A ts \in T : ts \in Nat
        BY <2>7
      <4>2. U \subseteq T /\ U # {}
        BY <2>10, <3>1
      <4> QED BY <4>1, <4>2
    <3>3. PICK ts \in U : \A u \in U : ts <= u
      BY <3>2, LeastNat
    <3>4. ts \in T /\ ts > a + m /\ ts \in Nat
      BY <3>1, <3>2
    <3>5. PICK C : C = {t0} \union {x \in T : x < ts}
      OBVIOUS
    <3>6. C \in SUBSET (0 .. h) /\ C # {}
      BY <2>5, <2>7, <3>5
    <3>7. \A x \in C : x <= a
      BY <2>5, <2>7, <2>8, <3>1, <3>3, <3>4, <3>5
    <3>8. Max(C) \in 0 .. h /\ Max(C) <= a
      BY <3>6, <3>7, MaxIsGreatest
    <3>9. <<Max(C), ts>> \in Gaps(samples, t0, end)
      BY <2>6, <3>4, <3>5 DEF Gaps
    <3>10. ts - Max(C) <= m
      BY <2>9, <3>9
    <3> QED BY <2>5, <3>4, <3>8, <3>10
  <2>11. CASE ~ \E ts \in T : ts > a + m
    <3>1. PICK C : C = {t0} \union T
      OBVIOUS
    <3>2. C \in SUBSET (0 .. h) /\ C # {}
      BY <2>5, <2>7, <3>1
    <3>3. Max(C) \in C
      BY <3>2, MaxIsGreatest
    <3>4. Max(C) = t0 \/ Max(C) < a
      BY <2>8, <2>11, <3>1, <3>3
    <3>5. PICK e : e = Max({end, t0})
      OBVIOUS
    <3>6. e \in 0 .. h /\ end <= e
      <4>1. PICK S : S = {end, t0}
        OBVIOUS
      <4>2. S \in SUBSET (0 .. h) /\ S # {} /\ end \in S
        BY <2>5, <4>1
      <4>3. Max(S) \in S /\ \A n \in S : n <= Max(S)
        BY <4>2, MaxIsGreatest
      <4> QED BY <3>5, <4>1, <4>2, <4>3
    <3>7. <<Max(C), e>> \in Gaps(samples, t0, end)
      BY <2>6, <3>1, <3>5 DEF Gaps
    <3>8. e - Max(C) <= m
      BY <2>9, <3>7
    <3>9. Max(C) \in 0 .. h
      BY <3>2, <3>3
    <3> QED BY <2>5, <3>4, <3>6, <3>8, <3>9
  <2> QED BY <2>10, <2>11
<1> QED BY <1>1, FailoverTyped, PTL

-----------------------------------------------------------------------------
(***************************************************************************)
(* A clean run.                                                            *)
(***************************************************************************)

\* A sample without a loss passes every limit on losses.
LEMMA CleanRate ==
  ASSUME NEW S, S # {}, IsFiniteSet(S), \A s \in S : s.ok, NEW pct \in Nat
  PROVE  RateWithin(S, pct)
<1>1. S \ Succeeded(S) = {}
  BY DEF Succeeded
<1>2. Cardinality(S \ Succeeded(S)) = 0
  BY <1>1, FS_EmptySet
<1>3. PICK n \in Nat : n = Cardinality(S)
  BY FS_CardinalityType
<1>4. pct * n >= 0
  OBVIOUS
<1> QED BY <1>2, <1>3, <1>4 DEF RateWithin

\* The tail of equal latencies is that latency.
LEMMA CleanTail ==
  ASSUME NEW S, S # {}, IsFiniteSet(S), \A s \in S : s.latency = 1
  PROVE  p99(S) = 1
<1>1. PICK n \in Nat : n = Cardinality(S)
  BY FS_CardinalityType
<1>2. n > 0
  BY <1>1, FS_EmptySet
<1>3. PICK i : i = Min({(99 * n) \div 100, n - 1})
  OBVIOUS
<1>4. (99 * n) \div 100 \in Nat /\ n - 1 \in Nat
  BY <1>2
<1>5. i \in Nat /\ i <= n - 1
  <2>1. PICK M : M = {(99 * n) \div 100, n - 1}
    OBVIOUS
  <2>2. M \in SUBSET Nat /\ M # {} /\ n - 1 \in M
    BY <1>4, <2>1
  <2>3. Min(M) \in M /\ \A x \in M : Min(M) <= x
    BY <2>2, MinIsLeast
  <2> QED BY <1>3, <2>1, <2>2, <2>3
<1>6. {s.latency : s \in S} = {1}
  OBVIOUS
<1>7. {s \in S : s.latency < 1} = {} /\ {s \in S : s.latency <= 1} = S
  OBVIOUS
<1>8. Cardinality({s \in S : s.latency < 1}) <= i /\ i < Cardinality({s \in S : s.latency <= 1})
  <2>1. Cardinality({s \in S : s.latency < 1}) = 0
    BY <1>7, FS_EmptySet
  <2>2. Cardinality({s \in S : s.latency <= 1}) = n
    BY <1>1, <1>7
  <2> QED BY <1>1, <1>5, <2>1, <2>2
<1>9. p99(S) = CHOOSE v \in {1} : /\ Cardinality({s \in S : s.latency < v}) <= i
                                   /\ i < Cardinality({s \in S : s.latency <= v})
  BY <1>1, <1>3, <1>6 DEF p99
<1> QED BY <1>8, <1>9

\* Every attempt succeeded at once, up to the end of the run and no further.
Clean ==
  /\ main = "done" /\ inflight = {}
  /\ \A s \in samples : s.ok /\ s.latency = 1
  /\ \E s \in samples : s.t >= end

\* Such a run has a success at every tick, and none after its end.
LEMMA CleanTimes ==
  ASSUME Inv, Clean
  PROVE  /\ \A s \in samples : s.t \in 0 .. end
         /\ \A n \in 0 .. end : \E s \in samples : s.t = n
<1>1. /\ end \in 0 .. Horizon /\ end <= issued
      /\ \A s \in samples : /\ s.t \in 0 .. Horizon /\ s.ok \in BOOLEAN
                            /\ s.id \in 0 .. (issued - 1)
      /\ \A s \in samples : s.ok => s.latency = s.t - s.id + 1
  BY WhenDone DEF Clean
<1>2. \A s \in samples : s.t = s.id
  <2> SUFFICES ASSUME NEW s \in samples PROVE s.t = s.id
    OBVIOUS
  <2>1. s.t - s.id + 1 = 1 /\ s.t \in 0 .. Horizon /\ s.id \in 0 .. (issued - 1)
    BY <1>1 DEF Clean
  <2> QED BY <2>1
<1>3. issued \in Nat /\ Ledger
  BY TypesOf DEF Inv
<1>4. issued <= end + 1
  BY DEF Inv, Attempts, Clean
<1>5. {s.id : s \in samples} = 0 .. (issued - 1)
  BY <1>3 DEF Ledger, Clean
<1>6. PICK last \in samples : last.t >= end
  BY DEF Clean
<1>7. end <= issued - 1
  BY <1>1, <1>2, <1>3, <1>6
<1>8. issued - 1 = end
  BY <1>1, <1>3, <1>4, <1>7
<1>9. \A s \in samples : s.t \in 0 .. end
  BY <1>1, <1>2, <1>8
<1>10. \A n \in 0 .. end : \E s \in samples : s.id = n
  BY <1>5, <1>8
<1> QED BY <1>2, <1>9, <1>10

\* Its longest span without a success is one tick, and is over when the run is.
LEMMA CleanBlackout ==
  ASSUME Inv, Clean
  PROVE  blackout(samples, t0, end) <= MaxBlackout /\ blackout_end(samples, t0, end) <= end
<1>1. PICK T : T = SuccessTimes(samples, t0)
  OBVIOUS
<1>2. PICK h \in Nat : h = Horizon
  BY Constants
<1>3. t0 \in 0 .. h /\ end \in 0 .. h /\ t0 <= end
  <2>1. t0 \in 0 .. h /\ end \in 0 .. h /\ end - t0 > MaxBlackout
    BY <1>2, WhenDone DEF Clean
  <2> QED BY <2>1, Constants
<1>4. T = t0 .. end
  <2>1. \A x \in T : \E s \in samples : x = s.t /\ s.t >= t0
    BY <1>1 DEF SuccessTimes, Succeeded, After
  <2>2. \A s \in samples : s.t >= t0 => s.t \in T
    BY <1>1 DEF SuccessTimes, Succeeded, After, Clean
  <2>3. \A x \in T : x \in t0 .. end
    BY <1>3, <2>1, CleanTimes
  <2>4. \A x \in t0 .. end : x \in 0 .. end /\ x >= t0
    BY <1>3
  <2>5. \A x \in t0 .. end : x \in T
    BY <2>2, <2>4, CleanTimes
  <2> QED BY <2>3, <2>5
<1>5. ASSUME NEW g \in Gaps(samples, t0, end) PROVE g[2] - g[1] <= 1 /\ g[2] <= end
  <2>1. Gaps(samples, t0, end) =
          {<<Max({t0} \union {x \in T : x < ts}), ts>> : ts \in T}
              \union {<<Max({t0} \union T), Max({end, t0})>>}
    BY <1>1 DEF Gaps
  <2>2. CASE g = <<Max({t0} \union T), Max({end, t0})>>
    <3>1. PICK S : S = {t0} \union T
      OBVIOUS
    <3>2. S \in SUBSET (0 .. h) /\ S # {} /\ end \in S
      <4>1. T \subseteq 0 .. h /\ end \in T
        BY <1>3, <1>4
      <4> QED BY <1>3, <3>1, <4>1
    <3>3. Max(S) \in 0 .. h /\ end <= Max(S)
      BY <3>2, MaxIsGreatest
    <3>4. PICK E : E = {end, t0}
      OBVIOUS
    <3>5. E \in SUBSET (0 .. h) /\ E # {}
      BY <1>3, <3>4
    <3>6. Max(E) \in E
      BY <3>5, MaxIsGreatest
    <3>7. Max(E) \in 0 .. h /\ Max(E) <= end
      BY <1>3, <3>4, <3>6
    <3>8. g[1] = Max(S) /\ g[2] = Max(E)
      BY <2>2, <3>1, <3>4
    <3> QED BY <1>3, <3>3, <3>7, <3>8
  <2>3. CASE \E ts \in T : g = <<Max({t0} \union {x \in T : x < ts}), ts>>
    <3>1. PICK ts \in T : g = <<Max({t0} \union {x \in T : x < ts}), ts>>
      BY <2>3
    <3>2. PICK C : C = {t0} \union {x \in T : x < ts}
      OBVIOUS
    <3>3. ts \in 0 .. h /\ t0 <= ts /\ ts <= end
      BY <1>3, <1>4
    <3>4. C \in SUBSET (0 .. h) /\ C # {}
      <4>1. T \subseteq 0 .. h
        BY <1>3, <1>4
      <4> QED BY <1>3, <3>2, <4>1
    <3>5. Max(C) \in 0 .. h /\ \A x \in C : x <= Max(C)
      BY <3>4, MaxIsGreatest
    <3>6. ts = t0 \/ ts - 1 \in C
      BY <1>3, <1>4, <3>2, <3>3
    <3>7. ts - Max(C) <= 1
      BY <1>3, <3>2, <3>3, <3>5, <3>6
    <3>8. g[1] = Max(C) /\ g[2] = ts
      BY <3>1, <3>2
    <3> QED BY <3>3, <3>7, <3>8
  <2> QED BY <2>1, <2>2, <2>3
<1>6. PICK b \in Nat : b = blackout(samples, t0, end)
  BY GapsAreBounded DEF Clean
<1>7. b = 0 \/ \E g \in Gaps(samples, t0, end) : g[2] - g[1] = b
  BY <1>6, GapsAreBounded DEF Clean
<1>8. b <= 1
  BY <1>5, <1>7
<1>9. blackout_end(samples, t0, end) <= end
  <2>1. CASE b = 0
    BY <1>3, <1>6, <2>1 DEF blackout_end
  <2>2. CASE b # 0
    <3>1. PICK S : S = {g[1] : g \in {f \in Gaps(samples, t0, end) : f[2] - f[1] = b}}
      OBVIOUS
    <3>2. \A g \in Gaps(samples, t0, end) : g[1] \in 0 .. h /\ g[2] \in 0 .. h
      BY <1>2, GapsAreBounded DEF Clean
    <3>3. S \in SUBSET Nat /\ S # {}
      <4>1. \A x \in S : x \in Nat
        BY <3>1, <3>2
      <4> QED BY <1>7, <2>2, <3>1, <4>1
    <3>4. Min(S) \in S
      BY <3>3, MinIsLeast
    <3>5. PICK g \in Gaps(samples, t0, end) : g[1] = Min(S) /\ g[2] - g[1] = b
      BY <3>1, <3>4
    <3>6. Min(S) + b = g[2]
      BY <3>2, <3>5
    <3>7. blackout_end(samples, t0, end) = Min(S) + b
      BY <1>6, <2>2, <3>1 DEF blackout_end
    <3> QED BY <1>5, <3>6, <3>7
  <2> QED BY <2>1, <2>2
<1> QED BY <1>6, <1>8, <1>9, Constants

\* CleanRunPasses: the checks of cmd_verdict ask for nothing that a run without a blemish,
\* whose pod was seen back in time, could miss.
THEOREM CleanRunPassesHolds == Spec => []CleanRunPasses
<1>1. TypeOK /\ Clock /\ Attempts /\ Replacement => CleanRunPasses
  <2> SUFFICES ASSUME Inv, Clean, kill_rc = 0, rejoin # Unmeasured, rejoin - t0 <= MaxRejoin
               PROVE  Passed
    BY DEF Inv, CleanRunPasses, Clean
  <2>1. t0 = BaselineTime /\ t0 \in 0 .. Horizon /\ end \in 0 .. Horizon /\ end - t0 > MaxBlackout
    BY WhenDone DEF Clean
  <2>2. t0 > 0 /\ t0 <= end
    BY <2>1, Constants
  <2>3. PICK first \in samples : first.t = 0
    <3>1. 0 \in 0 .. end
      BY <2>1
    <3> QED BY <3>1, CleanTimes
  <2>4. PICK last \in samples : last.t = end
    <3>1. end \in 0 .. end
      BY <2>1
    <3> QED BY <3>1, CleanTimes
  <2>5. IsFiniteSet(samples)
    BY DEF Inv, Attempts
  <2>6. "blackout" \in checks(report)
    BY CleanBlackout DEF checks, report
  <2>7. RateWithin(Before(samples, t0), MaxBaseline)
    <3>1. first \in Before(samples, t0)
      BY <2>2, <2>3 DEF Before
    <3>2. Before(samples, t0) \subseteq samples
      BY DEF Before
    <3> QED BY <2>5, <3>1, <3>2, FS_Subset, CleanRate, Constants DEF Clean
  <2>8. RateWithin(Residual(samples, t0, end), MaxResidual)
    <3>1. last \in Residual(samples, t0, end)
      BY <2>2, <2>4, CleanBlackout DEF Residual, After
    <3>2. Residual(samples, t0, end) \subseteq samples
      BY DEF Residual, After
    <3> QED BY <2>5, <3>1, <3>2, FS_Subset, CleanRate, Constants DEF Clean
  <2>9. P99RatioWithin(samples, t0)
    <3>1. first \in Succeeded(Before(samples, t0)) /\ last \in Succeeded(After(samples, t0))
      BY <2>2, <2>3, <2>4 DEF Before, After, Succeeded, Clean
    <3>2. Succeeded(Before(samples, t0)) \subseteq samples /\ Succeeded(After(samples, t0)) \subseteq samples
      BY DEF Before, After, Succeeded
    <3>3. p99(Succeeded(Before(samples, t0))) = 1
      BY <2>5, <3>1, <3>2, FS_Subset, CleanTail DEF Clean
    <3>4. p99(Succeeded(After(samples, t0))) = 1
      BY <2>5, <3>1, <3>2, FS_Subset, CleanTail DEF Clean
    <3>5. 1 <= MaxP99Ratio * 1
      BY Constants
    <3> QED BY <3>1, <3>3, <3>4, <3>5 DEF P99RatioWithin
  <2>10. rejoin - t0 # Unmeasured
    <3>1. t0 <= rejoin /\ rejoin \in Int /\ t0 \in Int
      BY TypesOf DEF Inv, Replacement
    <3> QED BY <3>1 DEF Unmeasured
  <2>11. "rejoin" \in checks(report) /\ "kill_effective" \in checks(report)
    BY <2>10 DEF checks, report
  <2>12. /\ "baseline_health" \in checks(report) /\ "residual_error_rate" \in checks(report)
         /\ "recovery_p99_ratio" \in checks(report)
    BY <2>7, <2>8, <2>9 DEF checks, report
  <2>13. checks(report) \subseteq {"blackout", "baseline_health", "residual_error_rate",
                                   "recovery_p99_ratio", "rejoin", "kill_effective"}
    BY DEF checks
  <2> QED BY <2>6, <2>11, <2>12, <2>13 DEF Passed, passes, Clean
<1> QED BY <1>1, FailoverTyped, PTL
=============================================================================
