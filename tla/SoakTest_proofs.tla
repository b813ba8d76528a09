-------------------------- MODULE SoakTest_proofs --------------------------
(***************************************************************************)
(* Theorems about SoakTest, for any number of slots, any limit of failures *)
(* in a row and any bound on the requests.                                 *)
(***************************************************************************)
EXTENDS SoakTest, FiniteSetTheorems, TLAPS

\* What the main thread knows at each of its program points.
PointInv ==
  /\ pc \in {"fill", "wait"} => batch = {}
  /\ pc = "fill" => active # Slots /\ consecutive = 0 /\ ~collapsed
  /\ collapsed => pc \in {"join", "done"}
  /\ ~collapsed => consecutive < FailureLimit
  /\ pc \in {"join", "done"} => active = {} /\ batch = {}

\* What the streams of the futures it holds can be.
StreamInv ==
  /\ \A s \in active : stream[s] # "none"
  /\ \A s \in batch : stream[s] \in Ended
  /\ pc = "fill" => \A s \in Slots \ active : stream[s] = "none"

\* Every request is counted, or held, as one of active_futures or of done_set.
CountInv == ~collapsed => completed + failed + Cardinality(active \union batch) = issued

\* The requests whose results will be good although the service is dead.
Good == {s \in Slots : stream[s] \in {"talking", "whole", "cut"}}
Unfilled == IF pc = "fill" THEN Slots \ active ELSE {}

\* How many more requests can be issued once the service is dead.  Each good result
\* buys one and, after it, FailureLimit - 1 failures that each buy another.  While every
\* request is good there is no failure to read before the first of them.
LeftToFail == IF Good = Slots \/ collapsed THEN 0 ELSE FailureLimit - 1 - consecutive
Budget == Cardinality(Unfilled) + Cardinality(Good) * FailureLimit + LeftToFail

BudgetInv ==
  /\ ~dead => late = 0
  /\ dead => late + Budget <= FailureLimit * Cardinality(Slots)

PoolInv == TypeOK /\ PointInv /\ StreamInv /\ ConstantLoad

-----------------------------------------------------------------------------
(***************************************************************************)
(* The futures the main thread holds.                                      *)
(***************************************************************************)

LEMMA InitPool == Init => PoolInv
<1> SUFFICES ASSUME Init PROVE PoolInv
  OBVIOUS
<1>1. TypeOK
  <2>1. collapsed \in BOOLEAN /\ over \in BOOLEAN /\ dead \in BOOLEAN
    BY DEF Init
  <2>2. consecutive \in 0 .. FailureLimit /\ issued \in 0 .. MaxRequests /\ late \in 0 .. issued
    BY SoakAssumption DEF Init
  <2> QED BY <2>1, <2>2 DEF Init, TypeOK
<1>2. PointInv /\ StreamInv /\ ConstantLoad
  BY SoakAssumption DEF Init, PointInv, StreamInv, ConstantLoad
<1> QED BY <1>1, <1>2 DEF PoolInv

\* What a request does, or the world, takes nothing from what the main thread holds.
LEMMA OutsideKeepsPool ==
  ASSUME PoolInv, (\E s \in Slots : Worker(s)) \/ DurationPasses \/ ServiceDies
  PROVE  PoolInv'
<1>1. CASE \E s \in Slots : Worker(s)
  <2> PICK s \in Slots : Worker(s)
    BY <1>1
  <2>1. PICK how \in InFlight \union Ended :
          /\ stream[s] \in InFlight
          /\ stream' = [stream EXCEPT ![s] = how]
          /\ UNCHANGED <<pc, streamVars, over, dead, late>>
    BY DEF Worker, FirstToken, StreamEnds, InFlight, Ended
  <2>2. s \notin batch
    BY <2>1 DEF PoolInv, StreamInv, InFlight, Ended
  <2> QED BY <2>1, <2>2 DEF PoolInv, TypeOK, PointInv, StreamInv, ConstantLoad, streamVars, InFlight, Ended
<1>2. CASE DurationPasses \/ ServiceDies
  <2>1. /\ UNCHANGED <<pc, stream, active, batch, consecutive, issued, completed, failed, collapsed, late>>
        /\ over' \in BOOLEAN /\ dead' \in BOOLEAN /\ (over => over')
    BY <1>2 DEF DurationPasses, ServiceDies, PoolInv, TypeOK, streamVars
  <2> QED BY <2>1 DEF PoolInv, TypeOK, PointInv, StreamInv, ConstantLoad
<1> QED BY <1>1, <1>2

\* Reading a result: the slot leaves batch and, with a replacement, joins active.
LEMMA ReadKeepsPool ==
  ASSUME PoolInv, NEW s \in Slots, ReadSuccess(s) \/ ReadFailure(s)
  PROVE  PoolInv'
<1>1. /\ pc = "read" /\ s \in batch /\ s \notin active
      /\ batch' = batch \ {s}
      /\ consecutive' \in 0 .. FailureLimit - 1
      /\ completed' \in Nat /\ failed' \in Nat
      /\ UNCHANGED <<collapsed, over, dead>>
      /\ Replace(s) /\ Goes(batch', active')
  BY SoakAssumption DEF PoolInv, TypeOK, ReadSuccess, ReadFailure
<1>2. /\ ~collapsed
      /\ pc' = IF batch' # {} THEN "read" ELSE IF active' # {} THEN "wait" ELSE "join"
  BY <1>1 DEF PoolInv, PointInv, Goes
<1>3. CASE over
  <2>1. stream' = [stream EXCEPT ![s] = "none"] /\ UNCHANGED <<active, issued, late>>
    BY <1>1, <1>3 DEF Replace
  <2> QED BY <1>1, <1>2, <1>3, <2>1, SoakAssumption
          DEF PoolInv, TypeOK, PointInv, StreamInv, ConstantLoad, InFlight, Ended
<1>4. CASE ~over
  <2>1. /\ stream' = [stream EXCEPT ![s] = "waiting"]
        /\ issued' = issued + 1 /\ issued < MaxRequests
        /\ late' \in {late, late + 1}
        /\ active' = active \union {s}
    BY <1>1, <1>4 DEF Replace, Issue, PoolInv, TypeOK
  <2>2. TypeOK'
    BY <1>1, <1>2, <2>1, SoakAssumption DEF PoolInv, TypeOK, InFlight, Ended
  <2>3. PointInv' /\ StreamInv' /\ ConstantLoad'
    BY <1>1, <1>2, <2>1, SoakAssumption
       DEF PoolInv, TypeOK, PointInv, StreamInv, ConstantLoad, InFlight, Ended
  <2> QED BY <2>2, <2>3 DEF PoolInv
<1> QED BY <1>3, <1>4

LEMMA MainKeepsPool == PoolInv /\ Main => PoolInv'
<1> SUFFICES ASSUME PoolInv, Main PROVE PoolInv'
  OBVIOUS
<1>1. ASSUME NEW s \in Slots, Fill(s) PROVE PoolInv'
  <2>1. TypeOK'
    BY <1>1, SoakAssumption DEF Fill, Issue, PoolInv, TypeOK, PointInv, InFlight, Ended
  <2>2. PointInv' /\ StreamInv' /\ ConstantLoad'
    BY <1>1, SoakAssumption
       DEF Fill, Issue, PoolInv, TypeOK, PointInv, StreamInv, ConstantLoad, InFlight, Ended
  <2> QED BY <2>1, <2>2 DEF PoolInv
<1>2. ASSUME NEW s \in Slots, ReadSuccess(s) \/ ReadFailure(s) PROVE PoolInv'
  BY <1>2, ReadKeepsPool
<1>3. ASSUME NEW s \in Slots, Collapse(s) PROVE PoolInv'
  BY <1>3, SoakAssumption
     DEF Collapse, PoolInv, TypeOK, PointInv, StreamInv, ConstantLoad, InFlight, Ended
<1>4. CASE Wait
  <2>1. Finished \subseteq active /\ Finished # {} /\ batch = {}
    BY <1>4 DEF Wait, Finished, PoolInv, PointInv
  <2>2. \A s \in Finished : stream[s] \in Ended
    BY DEF Finished
  <2> QED BY <1>4, <2>1, <2>2 DEF Wait, PoolInv, TypeOK, PointInv, StreamInv, ConstantLoad
<1>5. CASE Join
  BY <1>5 DEF Join, PoolInv, TypeOK, PointInv, StreamInv, ConstantLoad, streamVars
<1> QED BY <1>1, <1>2, <1>3, <1>4, <1>5 DEF Main

LEMMA PoolStep == PoolInv /\ [Next]_vars => PoolInv'
<1> SUFFICES ASSUME PoolInv, [Next]_vars PROVE PoolInv'
  OBVIOUS
<1>1. CASE Next
  BY <1>1, OutsideKeepsPool, MainKeepsPool DEF Next
<1>2. CASE UNCHANGED vars
  BY <1>2 DEF vars, streamVars, PoolInv, TypeOK, PointInv, StreamInv, ConstantLoad
<1> QED BY <1>1, <1>2

LEMMA PoolAlways == Spec => []PoolInv
BY InitPool, PoolStep, PTL DEF Spec

\* The soak's variables keep their types (main and execute_stream_request).
THEOREM SoakTyped == Spec => []TypeOK
<1>1. PoolInv => TypeOK
  BY DEF PoolInv
<1> QED BY <1>1, PoolAlways, PTL

\* The load is constant until the duration has passed or the soak has collapsed.
THEOREM LoadIsConstant == Spec => []ConstantLoad
<1>1. PoolInv => ConstantLoad
  BY DEF PoolInv
<1> QED BY <1>1, PoolAlways, PTL

-----------------------------------------------------------------------------
(***************************************************************************)
(* Every request is counted.                                               *)
(***************************************************************************)

LEMMA HeldFinite ==
  PoolInv => /\ IsFiniteSet(active \union batch)
             /\ Cardinality(active \union batch) \in Nat
<1> SUFFICES ASSUME PoolInv PROVE IsFiniteSet(active \union batch)
  BY FS_CardinalityType
<1>1. active \union batch \in SUBSET Slots
  BY DEF PoolInv, TypeOK
<1> QED BY <1>1, FS_Subset, SoakAssumption

LEMMA InitCount == Init => CountInv
BY FS_EmptySet DEF Init, CountInv

LEMMA CountStep == PoolInv /\ CountInv /\ [Next]_vars => CountInv'
<1> SUFFICES ASSUME PoolInv, CountInv, [Next]_vars PROVE CountInv'
  OBVIOUS
<1> DEFINE held == active \union batch
<1>a. IsFiniteSet(held) /\ Cardinality(held) \in Nat
  BY HeldFinite
<1>b. completed \in Nat /\ failed \in Nat /\ issued \in Nat
  BY SoakAssumption DEF PoolInv, TypeOK
<1>c. ~collapsed => completed + failed + Cardinality(held) = issued
  BY DEF CountInv
<1> DEFINE heldThen == Cardinality((active \union batch)')
<1>d. (~collapsed' => completed' + failed' + heldThen = issued') => CountInv'
  BY DEF CountInv
<1> HIDE DEF held, heldThen
<1>1. ASSUME UNCHANGED <<active \union batch, issued, completed, failed, collapsed>>
      PROVE  CountInv'
  BY <1>1 DEF CountInv
<1>2. CASE (\E s \in Slots : Worker(s)) \/ DurationPasses \/ ServiceDies \/ UNCHANGED vars \/ Join
  BY <1>1, <1>2 DEF Worker, FirstToken, StreamEnds, DurationPasses, ServiceDies, Join, vars, streamVars
<1>3. ASSUME NEW s \in Slots, Fill(s) PROVE CountInv'
  <2>1. s \notin held /\ (active \union batch)' = held \union {s}
    BY <1>3 DEF Fill, Issue, PoolInv, StreamInv, PointInv, held
  <2>2. heldThen = Cardinality(held) + 1
    BY <2>1, <1>a, FS_AddElement DEF heldThen
  <2> QED BY <1>3, <1>a, <1>b, <1>c, <1>d, <2>2 DEF Fill, Issue
<1>4. ASSUME NEW s \in Slots, ReadSuccess(s) \/ ReadFailure(s) PROVE CountInv'
  <2>1. /\ s \in batch /\ s \notin active /\ batch' = batch \ {s}
        /\ Replace(s)
    BY <1>4 DEF ReadSuccess, ReadFailure, PoolInv, TypeOK
  <2>a. /\ \/ completed' = completed + 1 /\ failed' = failed
           \/ completed' = completed /\ failed' = failed + 1
        /\ ~collapsed
    BY <1>4, <1>b DEF ReadSuccess, ReadFailure, PoolInv, PointInv
  <2>b. completed + failed + Cardinality(held) = issued
    BY <2>a, <1>c
  <2>2. CASE over
    <3>1. (active \union batch)' = held \ {s} /\ s \in held
      BY <2>1, <2>2 DEF Replace, held
    <3>2. heldThen = Cardinality(held) - 1
      BY <3>1, <1>a, FS_RemoveElement DEF heldThen
    <3>3. issued' = issued
      BY <2>1, <2>2 DEF Replace
    <3>4. completed' + failed' + heldThen = issued'
      BY <2>a, <2>b, <3>2, <3>3, <1>a, <1>b
    <3> QED BY <3>4, <1>d
  <2>3. CASE ~over
    <3>1. (active \union batch)' = held
      BY <2>1, <2>3 DEF Replace, Issue, held
    <3>2. heldThen = Cardinality(held)
      BY <3>1 DEF heldThen
    <3>3. issued' = issued + 1
      BY <2>1, <2>3 DEF Replace, Issue
    <3>4. completed' + failed' + heldThen = issued'
      BY <2>a, <2>b, <3>2, <3>3, <1>a, <1>b
    <3> QED BY <3>4, <1>d
  <2> QED BY <2>2, <2>3
<1>5. ASSUME NEW s \in Slots, Collapse(s) PROVE CountInv'
  BY <1>5 DEF Collapse, CountInv
<1>6. CASE Wait
  <2>1. batch = {} /\ (active \union batch)' = active
    BY <1>6 DEF Wait, Finished, PoolInv, PointInv
  <2> QED BY <1>1, <1>6, <2>1 DEF Wait
<1> QED BY <1>2, <1>3, <1>4, <1>5, <1>6 DEF Next, Main

\* A soak that does not collapse reports every request it issued, once.
THEOREM EveryRequestIsCounted == Spec => []EveryRequestCounted
<1>1. PoolInv /\ CountInv => EveryRequestCounted
  <2> SUFFICES ASSUME PoolInv, CountInv, pc = "done", ~collapsed PROVE completed + failed = issued
    BY DEF EveryRequestCounted
  <2>1. Cardinality(active \union batch) = 0
    BY FS_EmptySet DEF PoolInv, PointInv
  <2> QED BY <2>1 DEF CountInv, PoolInv, TypeOK
<1> QED BY <1>1, InitCount, CountStep, PoolAlways, PTL DEF Spec

-----------------------------------------------------------------------------
(***************************************************************************)
(* A dead service is left alone.                                           *)
(***************************************************************************)

LEMMA Product ==
  ASSUME NEW F \in Nat \ {0}, NEW g \in Nat, NEW h \in Nat, g <= h
  PROVE  /\ g * F \in Nat /\ h * F \in Nat /\ F * h = h * F
         /\ g * F <= h * F
         /\ g < h => g * F + F <= h * F
         /\ (h - g) * F = h * F - g * F
         /\ (g + 1) * F = g * F + F
OBVIOUS

LEMMA BudgetSets ==
  PoolInv => /\ IsFiniteSet(Good) /\ IsFiniteSet(Unfilled)
             /\ Cardinality(Good) \in Nat /\ Cardinality(Unfilled) \in Nat
             /\ Cardinality(Slots) \in Nat /\ Cardinality(Good) <= Cardinality(Slots)
             /\ Good # Slots => Cardinality(Good) < Cardinality(Slots)
<1>1. Good \in SUBSET Slots /\ Unfilled \in SUBSET Slots
  BY DEF Good, Unfilled
<1>2. IsFiniteSet(Good) /\ IsFiniteSet(Unfilled)
  BY <1>1, FS_Subset, SoakAssumption
<1>3. Cardinality(Good) \in Nat /\ Cardinality(Unfilled) \in Nat /\ Cardinality(Slots) \in Nat
  BY <1>2, FS_CardinalityType, SoakAssumption
<1>4. /\ Cardinality(Good) <= Cardinality(Slots)
      /\ Cardinality(Slots) = Cardinality(Good) => Slots = Good
  BY <1>1, FS_Subset, SoakAssumption
<1> QED BY <1>2, <1>3, <1>4

LEMMA LeftToFailBounded ==
  PoolInv => /\ LeftToFail \in Nat /\ LeftToFail <= FailureLimit - 1
             /\ Good = Slots => LeftToFail = 0
             /\ Good # Slots /\ ~collapsed => LeftToFail = FailureLimit - 1 - consecutive
<1> SUFFICES ASSUME PoolInv
             PROVE  /\ LeftToFail \in Nat /\ LeftToFail <= FailureLimit - 1
                    /\ Good = Slots => LeftToFail = 0
                    /\ Good # Slots /\ ~collapsed => LeftToFail = FailureLimit - 1 - consecutive
  OBVIOUS
<1>1. CASE Good = Slots \/ collapsed
  <2>1. LeftToFail = 0
    BY <1>1 DEF LeftToFail
  <2> QED BY <1>1, <2>1, SoakAssumption
<1>2. CASE ~(Good = Slots \/ collapsed)
  <2>1. LeftToFail = FailureLimit - 1 - consecutive
    BY <1>2 DEF LeftToFail
  <2>2. consecutive < FailureLimit /\ consecutive \in Nat
    BY <1>2 DEF PoolInv, PointInv, TypeOK
  <2> QED BY <1>2, <2>1, <2>2, SoakAssumption
<1> QED BY <1>1, <1>2

\* At no time does the budget exceed what the property allows.
LEMMA BudgetBound == PoolInv => Budget <= FailureLimit * Cardinality(Slots)
<1> SUFFICES ASSUME PoolInv PROVE Budget <= FailureLimit * Cardinality(Slots)
  OBVIOUS
<1> DEFINE F == FailureLimit
           N == Cardinality(Slots)
           g == Cardinality(Good)
           u == Cardinality(Unfilled)
<1>a. g \in Nat /\ u \in Nat /\ N \in Nat /\ g <= N /\ (Good # Slots => g < N)
  BY BudgetSets
<1>b. F \in Nat \ {0}
  BY SoakAssumption
<1>c. LeftToFail \in Nat /\ LeftToFail <= F - 1 /\ (Good = Slots => LeftToFail = 0)
  BY LeftToFailBounded
<1>1. CASE pc = "fill"
  <2>1. active \in SUBSET Slots /\ active # Slots
    BY <1>1 DEF PoolInv, TypeOK, PointInv
  <2>2. Good \in SUBSET active
    BY <1>1 DEF PoolInv, StreamInv, Good
  <2>3. /\ IsFiniteSet(active) /\ Cardinality(active) \in Nat
        /\ Cardinality(active) < N /\ g <= Cardinality(active)
    <3>1. IsFiniteSet(active) /\ Cardinality(active) <= N /\ (N = Cardinality(active) => Slots = active)
      BY <2>1, FS_Subset, SoakAssumption
    <3>2. Cardinality(active) \in Nat
      BY <3>1, FS_CardinalityType
    <3>3. g <= Cardinality(active)
      BY <2>2, <3>1, FS_Subset
    <3> QED BY <3>1, <3>2, <3>3, <2>1, <1>a
  <2>4. u = N - Cardinality(active)
    <3>1. Slots = active \union Unfilled /\ active \intersect Unfilled = {}
      BY <1>1, <2>1 DEF Unfilled
    <3>2. N = Cardinality(active) + u - Cardinality(active \intersect Unfilled)
      BY <3>1, <2>3, BudgetSets, FS_Union
    <3>3. Cardinality(active \intersect Unfilled) = 0
      BY <3>1, FS_EmptySet
    <3> HIDE DEF N, u
    <3> QED BY <3>2, <3>3, <2>3, <1>a
  <2> DEFINE A == Cardinality(active)
  <2>5. Good # Slots
    BY <2>1, <2>2
  <2>6. Budget = u + g * F + LeftToFail
    BY DEF Budget
  <2> HIDE DEF A, N, u, g, F
  <2>7. g * F <= A * F /\ (N - A) * F = N * F - A * F /\ F * N = N * F
        /\ g * F \in Nat /\ A * F \in Nat /\ N * F \in Nat
    BY <1>a, <1>b, <2>3, Product DEF A
  <2>8. (N - A) + F - 1 <= (N - A) * F
    <3>1. N - A \in Nat \ {0}
      BY <2>3, <1>a DEF A
    <3> DEFINE n == N - A
    <3> HIDE DEF n
    <3>2. n \in Nat \ {0} => n + F - 1 <= n * F
      BY <1>b
    <3> QED BY <3>1, <3>2 DEF n
  <2>9. u + g * F + LeftToFail <= F * N
    BY <2>4, <2>7, <2>8, <2>3, <1>a, <1>b, <1>c DEF A
  <2> QED BY <2>6, <2>9 DEF F, N
<1>2. CASE pc # "fill"
  <2>1. u = 0
    BY <1>2, FS_EmptySet DEF Unfilled
  <2>2. CASE Good = Slots
    <3>1. Budget = u + g * F + 0 /\ g = N
      BY <2>2, <1>c DEF Budget
    <3> HIDE DEF F, N, g, u
    <3>2. Budget <= F * N
      BY <3>1, <2>1, <1>a, <1>b
    <3> QED BY <3>2 DEF F, N
  <2>3. CASE Good # Slots
    <3>1. Budget = u + g * F + LeftToFail
      BY DEF Budget
    <3> HIDE DEF F, N, g, u
    <3>2. g * F + F <= N * F /\ F * N = N * F /\ g * F \in Nat /\ N * F \in Nat
      BY <1>a, <1>b, <2>3, Product
    <3>3. u + g * F + LeftToFail <= F * N
      BY <3>2, <2>1, <1>a, <1>b, <1>c
    <3> QED BY <3>1, <3>3 DEF F, N
  <2> QED BY <2>2, <2>3
<1> QED BY <1>1, <1>2

LEMMA InitBudget == Init => BudgetInv
BY DEF Init, BudgetInv

\* Steps that issue nothing and leave the budget as it is, or only smaller.
LEMMA QuietBudget ==
  ASSUME PoolInv, BudgetInv, UNCHANGED <<late, dead, Unfilled, Good>>,
         LeftToFail' \in Nat, LeftToFail' <= LeftToFail
  PROVE  BudgetInv'
<1> DEFINE most == FailureLimit * Cardinality(Slots)
           held == Cardinality(Unfilled) + Cardinality(Good) * FailureLimit
<1>1. late \in Nat /\ most \in Nat /\ held \in Nat /\ LeftToFail \in Nat
  BY BudgetSets, LeftToFailBounded, SoakAssumption, Product DEF PoolInv, TypeOK
<1>2. Budget = held + LeftToFail /\ Budget' = held + LeftToFail'
  BY DEF Budget
<1>3. dead => late + Budget <= most
  BY DEF BudgetInv
<1> HIDE DEF most, held
<1>4. dead => late + Budget' <= most
  <2> DEFINE left == LeftToFail'
  <2>a. left \in Nat /\ left <= LeftToFail
    OBVIOUS
  <2> HIDE DEF left
  <2> SUFFICES ASSUME dead PROVE late + Budget' <= most
    OBVIOUS
  <2>1. late + (held + LeftToFail) <= most
    BY <1>2, <1>3
  <2>2. late + (held + left) <= most
    BY <2>1, <2>a, <1>1
  <2> QED BY <2>2, <1>2 DEF left
<1> QED BY <1>4 DEF BudgetInv, most

\* Once the service is dead, each step that issues a request takes one from the budget.
LEMMA BudgetStep == PoolInv /\ BudgetInv /\ [Next]_vars => BudgetInv'
<1> SUFFICES ASSUME PoolInv, BudgetInv, [Next]_vars PROVE BudgetInv'
  OBVIOUS
<1> DEFINE F == FailureLimit
           most == F * Cardinality(Slots)
           g == Cardinality(Good)
           u == Cardinality(Unfilled)
<1>a. /\ g \in Nat /\ u \in Nat /\ IsFiniteSet(Good) /\ IsFiniteSet(Unfilled)
      /\ F \in Nat \ {0} /\ g * F \in Nat /\ most \in Nat
      /\ consecutive \in Nat /\ late \in Nat
  BY BudgetSets, SoakAssumption, Product DEF PoolInv, TypeOK
<1>b. Budget = u + g * F + LeftToFail
  BY DEF Budget
<1>d. /\ LeftToFail \in Nat
      /\ Good # Slots /\ ~collapsed => LeftToFail = F - 1 - consecutive
  BY LeftToFailBounded
<1>c. /\ dead => late + Budget <= most
      /\ ~dead => late = 0
  BY DEF BudgetInv
<1> HIDE DEF F, most, g, u
<1>1. ASSUME NEW s \in Slots, Worker(s) PROVE BudgetInv'
  <2>1. CASE FirstToken(s)
    BY <2>1, <1>c DEF FirstToken, BudgetInv
  <2>2. CASE StreamEnds(s)
    <3>1. UNCHANGED <<late, dead, consecutive, collapsed, pc, active>>
      BY <2>2 DEF StreamEnds, streamVars
    <3>2. PICK how \in Ended : /\ stream' = [stream EXCEPT ![s] = how]
                             /\ \/ stream[s] = "waiting" /\ how = "empty"
                                \/ stream[s] = "talking"
      BY <2>2 DEF StreamEnds, Ended, InFlight
    <3>3. \A t \in Slots : stream'[t] = IF t = s THEN how ELSE stream[t]
      BY <3>2 DEF PoolInv, TypeOK
    <3>4. Unfilled' = Unfilled
      BY <3>1 DEF Unfilled
    <3>5. CASE stream[s] = "waiting" \/ how # "empty"
      <4>1. \A t \in Slots : stream'[t] \in {"talking", "whole", "cut"}
                              <=> stream[t] \in {"talking", "whole", "cut"}
        BY <3>2, <3>3, <3>5 DEF Ended
      <4>2. Good' = Good
        BY <4>1 DEF Good
      <4>3. LeftToFail' = LeftToFail
        BY <3>1, <4>2 DEF LeftToFail
      <4> QED BY <3>1, <3>4, <4>2, <4>3, <1>d, QuietBudget
    <3>6. CASE stream[s] = "talking" /\ how = "empty"
      <4>1. s \in Good /\ Good' = Good \ {s} /\ Good' # Slots
        BY <3>3, <3>6 DEF Good
      <4>2. Cardinality(Good') = g - 1 /\ g # 0
        BY <4>1, <1>a, FS_RemoveElement, FS_EmptySet DEF g
      <4>3. LeftToFail' \in Nat /\ LeftToFail' <= F - 1
        <5>1. ~collapsed => consecutive < F
          BY DEF PoolInv, PointInv, F
        <5>2. LeftToFail' = IF collapsed THEN 0 ELSE F - 1 - consecutive
          BY <3>1, <4>1 DEF LeftToFail, F
        <5>3. CASE collapsed
          BY <5>2, <5>3, <1>a
        <5>4. CASE ~collapsed
          BY <5>1, <5>2, <5>4, <1>a
        <5> QED BY <5>3, <5>4
      <4>4. Budget' = u + (g - 1) * F + LeftToFail'
        BY <3>4, <4>2 DEF Budget, u, F
      <4>5. (g - 1) * F = g * F - F
        <5>1. g - 1 \in Nat
          BY <4>2, <1>a
        <5> QED BY <5>1, <1>a
      <4>6. dead => late + Budget' <= most
        <5> DEFINE left == LeftToFail'
                   gF == g * F
        <5>1. left \in Nat /\ left <= F - 1
          BY <4>3
        <5>2. gF \in Nat /\ Budget' = u + (gF - F) + left
          BY <4>4, <4>5, <1>a
        <5>3. dead => late + (u + gF + LeftToFail) <= most
          BY <1>b, <1>c
        <5> HIDE DEF left, gF
        <5>4. dead => late + (u + (gF - F) + left) <= most
          BY <5>1, <5>2, <5>3, <1>a, <1>d
        <5> QED BY <5>2, <5>4
      <4> QED BY <3>1, <4>6, <1>c DEF BudgetInv, most, F
    <3> QED BY <3>2, <3>5, <3>6
  <2> QED BY <1>1, <2>1, <2>2 DEF Worker
<1>2. CASE DurationPasses
  <2>1. UNCHANGED <<late, dead, Unfilled, Good, LeftToFail>>
    BY <1>2 DEF DurationPasses, streamVars, Unfilled, Good, LeftToFail
  <2> QED BY <2>1, <1>d, QuietBudget
<1>3. CASE ServiceDies
  <2>1. dead' /\ late' = 0 /\ Budget' = Budget
    BY <1>3, <1>c DEF ServiceDies, streamVars, Budget, Unfilled, Good, LeftToFail
  <2>2. Budget <= most
    BY BudgetBound DEF most, F
  <2>3. 0 + Budget <= most
    BY <2>2, <1>a, <1>b, <1>d
  <2> QED BY <2>1, <2>3 DEF BudgetInv, most, F
<1>4. ASSUME NEW s \in Slots, Fill(s) PROVE BudgetInv'
  <2>1. /\ s \in Unfilled /\ Unfilled' = Unfilled \ {s}
        /\ Good' = Good /\ LeftToFail' = LeftToFail /\ dead' = dead
        /\ dead => late' = late + 1
        /\ ~dead => late' = late
    <3>1. Unfilled' = Unfilled \ {s} /\ s \in Unfilled
      BY <1>4 DEF Fill, Issue, Unfilled, PoolInv, StreamInv, TypeOK
    <3>2. Good' = Good
      BY <1>4 DEF Fill, Issue, Good, PoolInv, TypeOK
    <3>3. LeftToFail' = LeftToFail
      BY <3>2, <1>4 DEF Fill, LeftToFail
    <3> QED BY <3>1, <3>2, <3>3, <1>4, <1>a DEF Fill, Issue
  <2>2. Cardinality(Unfilled') = u - 1
    BY <2>1, <1>a, FS_RemoveElement DEF u
  <2>3. Budget' = (u - 1) + g * F + LeftToFail
    BY <2>1, <2>2 DEF Budget, g, F
  <2>4. dead => late' + Budget' <= most
    BY <2>1, <2>3, <1>a, <1>b, <1>c, <1>d
  <2>5. ~dead => late' = 0
    BY <2>1, <1>c
  <2> QED BY <2>1, <2>4, <2>5 DEF BudgetInv, most, F
<1>5. ASSUME NEW s \in Slots, ReadSuccess(s) \/ ReadFailure(s)
      PROVE  /\ Unfilled = {} /\ Unfilled' = {} /\ u = 0 /\ dead' = dead
             /\ consecutive < F /\ ~collapsed /\ ~collapsed'
             /\ stream' = [stream EXCEPT ![s] = "none"] \/ stream' = [stream EXCEPT ![s] = "waiting"]
             /\ dead => late' \in {late, late + 1}
             /\ ~dead => late' = 0
  <2>1. pc = "read" /\ pc' # "fill" /\ dead' = dead /\ Replace(s)
    BY <1>5 DEF ReadSuccess, ReadFailure, Goes
  <2>2. Unfilled = {} /\ Unfilled' = {} /\ u = 0
    BY <2>1, FS_EmptySet DEF Unfilled, u
  <2>3. consecutive < F /\ ~collapsed /\ ~collapsed'
    BY <2>1, <1>5 DEF PoolInv, PointInv, F, ReadSuccess, ReadFailure
  <2> QED BY <2>1, <2>2, <2>3, <1>a, <1>c DEF Replace, Issue
<1>6. ASSUME NEW s \in Slots, ReadSuccess(s) PROVE BudgetInv'
  <2>1. s \in Good /\ Good' = Good \ {s} /\ Good' # Slots
    BY <1>5, <1>6 DEF ReadSuccess, Success, Good, PoolInv, TypeOK
  <2>2. Cardinality(Good') = g - 1
    BY <2>1, <1>a, FS_RemoveElement DEF g
  <2>3. Budget' = 0 + (g - 1) * F + (F - 1 - 0)
    <3>1. Cardinality(Unfilled') = 0
      BY <1>5, <1>6, FS_EmptySet
    <3>2. LeftToFail' = F - 1 - 0
      BY <1>5, <1>6, <2>1 DEF LeftToFail, ReadSuccess, F
    <3> QED BY <3>1, <3>2, <2>2 DEF Budget, F
  <2>4. (g - 1) * F = g * F - F /\ (g - 1) * F \in Int
    <3>1. g - 1 \in Nat
      <4>1. g # 0
        BY <2>1, <1>a, FS_EmptySet DEF g
      <4> QED BY <4>1, <1>a
    <3> QED BY <3>1, <1>a
  <2>5. dead => late' + Budget' <= most
    <3>1. Budget' = g * F - 1
      BY <2>3, <2>4, <1>a
    <3>2. dead => late' \in {late, late + 1}
      BY <1>5, <1>6
    <3>3. dead' = dead /\ u = 0
      BY <1>5, <1>6
    <3> QED BY <3>1, <3>2, <3>3, <1>a, <1>b, <1>c, <1>d
  <2> QED BY <2>5, <1>5, <1>6 DEF BudgetInv, most, F
<1>7. ASSUME NEW s \in Slots, ReadFailure(s) PROVE BudgetInv'
  <2>1. s \notin Good /\ Good' = Good /\ Good # Slots
    <3>1. stream[s] \notin {"talking", "whole", "cut"}
      BY <1>7 DEF ReadFailure, Success, PoolInv, StreamInv, Ended
    <3>2. Good' = Good
      BY <1>5, <1>7, <3>1 DEF Good, PoolInv, TypeOK
    <3> QED BY <3>1, <3>2 DEF Good
  <2>2. Budget' = 0 + g * F + (F - 1 - (consecutive + 1))
    <3>1. Cardinality(Unfilled') = 0
      BY <1>5, <1>7, FS_EmptySet
    <3>2. LeftToFail' = F - 1 - (consecutive + 1)
      BY <1>5, <1>7, <2>1 DEF LeftToFail, ReadFailure, F
    <3> QED BY <3>1, <3>2, <2>1 DEF Budget, F, g
  <2>3. dead => late' + Budget' <= most
    <3>1. Budget = g * F + (F - 1 - consecutive) /\ dead' = dead
      BY <2>1, <1>5, <1>7, <1>a, <1>b, <1>d
    <3>2. dead => late' \in {late, late + 1}
      BY <1>5, <1>7
    <3> QED BY <2>2, <3>1, <3>2, <1>a, <1>c
  <2> QED BY <2>3, <1>5, <1>7 DEF BudgetInv, most, F
<1>8. ASSUME NEW s \in Slots, Collapse(s) PROVE BudgetInv'
  <2>1. stream[s] \notin {"talking", "whole", "cut"}
    BY <1>8 DEF Collapse, Success, PoolInv, StreamInv, Ended
  <2>2. Good' = Good /\ Good # Slots
    BY <1>8, <2>1 DEF Collapse, Good, PoolInv, TypeOK
  <2>3. Unfilled' = Unfilled
    BY <1>8 DEF Collapse, Unfilled
  <2>4. LeftToFail' = 0
    BY <1>8 DEF Collapse, LeftToFail
  <2> QED BY <1>8, <2>2, <2>3, <2>4, <1>d, QuietBudget DEF Collapse
<1>9. CASE Wait \/ Join \/ UNCHANGED vars
  <2>1. UNCHANGED <<late, dead, consecutive, collapsed, stream>> /\ Unfilled' = Unfilled
    BY <1>9 DEF Wait, Join, vars, streamVars, Unfilled
  <2>2. Good' = Good /\ LeftToFail' = LeftToFail
    BY <2>1 DEF Good, LeftToFail
  <2> QED BY <2>1, <2>2, <1>d, QuietBudget
<1> QED BY <1>1, <1>2, <1>3, <1>4, <1>6, <1>7, <1>8, <1>9 DEF Next, Main

\* Once the service is dead, no more than FailureLimit requests for each slot are issued.
THEOREM DeadServiceIsLeftAlone == Spec => []DeadServiceStops
<1>1. PoolInv /\ BudgetInv => DeadServiceStops
  <2> SUFFICES ASSUME PoolInv, BudgetInv PROVE late <= FailureLimit * Cardinality(Slots)
    BY DEF DeadServiceStops
  <2> DEFINE most == FailureLimit * Cardinality(Slots)
             held == Cardinality(Unfilled) + Cardinality(Good) * FailureLimit
  <2>1. most \in Nat /\ late \in Nat /\ LeftToFail \in Nat /\ held \in Nat
    BY BudgetSets, LeftToFailBounded, SoakAssumption, Product DEF PoolInv, TypeOK
  <2>2. CASE ~dead
    BY <2>1, <2>2 DEF BudgetInv
  <2>3. CASE dead
    <3>1. Budget = held + LeftToFail
      BY DEF Budget
    <3>2. late + Budget <= most
      BY <2>3 DEF BudgetInv
    <3> QED BY <3>1, <3>2, <2>1
  <2> QED BY <2>2, <2>3
<1> QED BY <1>1, InitBudget, BudgetStep, PoolAlways, PTL DEF Spec

=============================================================================
