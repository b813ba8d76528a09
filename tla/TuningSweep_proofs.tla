------------------------ MODULE TuningSweep_proofs ------------------------
(***************************************************************************)
(* Proofs about the tuning sweep and its keep/back-out rule.               *)
(*                                                                         *)
(* First the arithmetic of the rule: rounding keeps the order, a band that *)
(* pooled something has a positive rate, and the thresholds then make the  *)
(* rule one-way and monotone.  Then the sweep: what the judge reads exists,*)
(* what is measured has a source, and the baseline is a measurement of the *)
(* accepted stack for as long as the variant accepted last is its last.    *)
(***************************************************************************)
EXTENDS SweepHistory, FiniteSums

\* Rounding: a quotient reaches a bound exactly when the dividend reaches the
\* corresponding multiple of the divisor.
LEMMA QuotientBound ==
  ASSUME NEW m \in Int, NEW d \in Nat \ {0}, NEW t \in Int
  PROVE  m \div d >= t <=> m >= t * d
<1>1. PICK q \in Int : q = m \div d
  OBVIOUS
<1>2. m = d * q + (m % d) /\ m % d \in 0 .. d - 1
  BY <1>1
<1>3. PICK r \in 0 .. d - 1 : m = d * q + r
  BY <1>2
<1>4. ASSUME q >= t PROVE m >= t * d
  BY <1>3, <1>4
<1>5. ASSUME q < t PROVE m < t * d
  <2>1. PICK e \in Nat : t = q + 1 + e
    <3>1. t - q - 1 \in Nat /\ t = q + 1 + (t - q - 1)
      BY <1>5
    <3> QED BY <3>1
  <2>2. t * d = d * q + d + e * d /\ e * d \in Nat
    BY <2>1
  <2> QED BY <1>3, <2>2
<1> QED BY <1>1, <1>4, <1>5

\* A greater gain, or a smaller base, does not lower a percentage.
LEMMA PctIsMonotone ==
  ASSUME NEW b \in Nat \ {0}, NEW a \in Nat, NEW d \in Nat \ {0}, NEW c \in Nat, d <= b, a <= c
  PROVE  /\ pct_delta(b, a) \in Int /\ pct_delta(d, c) \in Int
         /\ pct_delta(b, a) <= pct_delta(d, c)
<1>1. PICK m \in Int : m = 200000 * (a - b) + b
  OBVIOUS
<1>2. PICK n \in Int : n = 200000 * (c - d) + d
  OBVIOUS
<1>3. 2 * b \in Nat \ {0} /\ 2 * d \in Nat \ {0}
  OBVIOUS
<1>4. PICK q \in Int : q = m \div (2 * b)
  BY <1>3
<1>5. n \div (2 * d) \in Int
  BY <1>3
<1>6. m >= q * (2 * b)
  BY <1>3, <1>4, QuotientBound
<1>7. n >= q * (2 * d)
  <2>1. 200000 * a >= (2 * q + 199999) * b
    BY <1>1, <1>6
  <2>2. (2 * q + 199999) * d <= 200000 * a
    <3>1. CASE 2 * q + 199999 >= 0
      <4>1. PICK u \in Nat : u = 2 * q + 199999
        BY <3>1
      <4>2. PICK e \in Nat : b = d + e
        <5>1. b - d \in Nat /\ b = d + (b - d)
          OBVIOUS
        <5> QED BY <5>1
      <4>3. u * b = u * d + u * e /\ u * e \in Nat /\ u * d \in Nat
        BY <4>1, <4>2
      <4> QED BY <2>1, <4>1, <4>3
    <3>2. CASE 2 * q + 199999 < 0
      <4>1. PICK u \in Nat : 2 * q + 199999 = 0 - u
        <5>1. 0 - (2 * q + 199999) \in Nat /\ 2 * q + 199999 = 0 - (0 - (2 * q + 199999))
          BY <3>2
        <5> QED BY <5>1
      <4>2. (2 * q + 199999) * d = 0 - (u * d) /\ u * d \in Nat
        BY <4>1
      <4> QED BY <4>2
    <3> QED BY <3>1, <3>2
  <2> QED BY <1>2, <2>2
<1>8. n \div (2 * d) >= q
  BY <1>3, <1>7, QuotientBound
<1> QED BY <1>1, <1>2, <1>4, <1>5, <1>8 DEF pct_delta

\* A gain of two percent is a gain.
LEMMA PctIsGain ==
  ASSUME NEW b \in Nat \ {0}, NEW a \in Nat, pct_delta(b, a) >= 2000
  PROVE  a > b
<1>1. PICK m \in Int : m = 200000 * (a - b) + b
  OBVIOUS
<1>2. 2 * b \in Nat \ {0} /\ m \div (2 * b) >= 2000
  BY <1>1 DEF pct_delta
<1>3. m >= 2000 * (2 * b)
  BY <1>2, QuotientBound
<1> QED BY <1>1, <1>3
-----------------------------------------------------------------------------
(***************************************************************************)
(* The rule.                                                               *)
(***************************************************************************)

\* What a band pools, for the cells of a grid.
LEMMA PooledIsNat ==
  ASSUME NEW g \in DOMAIN Grids, NEW S \in SUBSET DOMAIN Cells(Grids[g])
  PROVE  /\ Tokens(Grids[g], S) \in Nat /\ Duration(Grids[g], S) \in Nat
         /\ Counted(Grids[g], S) # {} =>
              Tokens(Grids[g], S) # 0 /\ Duration(Grids[g], S) # 0
<1>1. PICK D : D = Counted(Grids[g], S)
  OBVIOUS
<1>2. IsFiniteSet(D) /\ D \subseteq S
  BY <1>1, GridAssumption, FS_Subset DEF Counted
<1>3. \A p \in D : /\ Cells(Grids[g])[p].tokens \in Nat \ {0}
                   /\ Cells(Grids[g])[p].duration \in Nat \ {0}
  BY <1>1, <1>2, GridAssumption DEF Counted
<1>4. PICK w : w = [p \in D |-> Cells(Grids[g])[p].tokens]
  OBVIOUS
<1>5. PICK u : u = [p \in D |-> Cells(Grids[g])[p].duration]
  OBVIOUS
<1>6. w \in [D -> Nat \ {0}] /\ u \in [D -> Nat \ {0}]
  BY <1>3, <1>4, <1>5
<1>7. w \in [D -> Nat] /\ u \in [D -> Nat]
  BY <1>6
<1>8. FoldFunction(+, 0, w) \in Nat /\ FoldFunction(+, 0, u) \in Nat
  BY <1>2, <1>7, SumOfNats
<1>9. D # {} => FoldFunction(+, 0, w) # 0 /\ FoldFunction(+, 0, u) # 0
  BY <1>2, <1>6, SumOfPositives
<1> QED BY <1>1, <1>4, <1>5, <1>8, <1>9 DEF Tokens, Duration

\* A band is the same whichever side is the baseline.
LEMMA BandIsSymmetric ==
  ASSUME NEW x, NEW y, NEW c
  PROVE  /\ Band(x, y, c) = Band(y, x, c)
         /\ Band(x, y, c) \subseteq DOMAIN Cells(x)
         /\ Band(x, y, c) \subseteq DOMAIN Cells(y)
BY DEF Band, Matched

\* Two percent more in the anchor band cannot be had both ways.
LEMMA GainIsOneWay ==
  ASSUME NEW g \in DOMAIN Grids, NEW h \in DOMAIN Grids,
         decide(Grids[g], Grids[h], "throughput") = "accept"
  PROVE  decide(Grids[h], Grids[g], "throughput") # "accept"
<1> SUFFICES ASSUME decide(Grids[h], Grids[g], "throughput") = "accept" PROVE FALSE
  OBVIOUS
<1>1. /\ Comparable(Grids[g], Grids[h], Primary)
      /\ band_delta(Grids[g], Grids[h], Primary) >= 2000
      /\ band_delta(Grids[h], Grids[g], Primary) >= 2000
  BY DEF decide, Decidable, KeepsThroughput, ThroughputMinGain
<1>2. PICK S : S = Band(Grids[g], Grids[h], Primary)
  OBVIOUS
<1>3. S = Band(Grids[h], Grids[g], Primary)
  BY <1>2, BandIsSymmetric
<1>4. S \in SUBSET DOMAIN Cells(Grids[g]) /\ S \in SUBSET DOMAIN Cells(Grids[h])
  BY <1>2, BandIsSymmetric
<1>5. Counted(Grids[g], S) # {} /\ Counted(Grids[h], S) # {}
  BY <1>1, <1>2 DEF Comparable
<1>6. PICK x \in Nat \ {0}, y \in Nat \ {0} : Tokens(Grids[g], S) = x /\ Duration(Grids[g], S) = y
  BY <1>4, <1>5, PooledIsNat
<1>7. PICK u \in Nat \ {0}, v \in Nat \ {0} : Tokens(Grids[h], S) = u /\ Duration(Grids[h], S) = v
  BY <1>4, <1>5, PooledIsNat
<1>8. pct_delta(x * v, u * y) >= 2000 /\ pct_delta(u * y, x * v) >= 2000
  BY <1>1, <1>2, <1>3, <1>6, <1>7 DEF band_delta
<1>9. x * v \in Nat \ {0} /\ u * y \in Nat \ {0}
  OBVIOUS
<1>10. u * y > x * v /\ x * v > u * y
  BY <1>8, <1>9, PctIsGain
<1> QED BY <1>9, <1>10

\* Grids to compare have the same cells, and the same of them count in every band.
LEMMA SameCells ==
  ASSUME NEW g \in DOMAIN Grids, NEW h \in DOMAIN Grids, AtLeastAsGood(Grids[g], Grids[h]),
         NEW S \in SUBSET DOMAIN Cells(Grids[h])
  PROVE  /\ DOMAIN Cells(Grids[g]) = DOMAIN Cells(Grids[h])
         /\ Counted(Grids[g], S) = Counted(Grids[h], S)
<1>1. DOMAIN Cells(Grids[g]) = DOMAIN Cells(Grids[h])
  BY DEF AtLeastAsGood, Cells
<1>2. Counted(Grids[g], DOMAIN Cells(Grids[h])) = Counted(Grids[h], DOMAIN Cells(Grids[h]))
  BY DEF AtLeastAsGood, Cells
<1> QED BY <1>1, <1>2 DEF Counted

\* At least as good cells pool at least as many tokens in at most the time.
LEMMA BetterPools ==
  ASSUME NEW g \in DOMAIN Grids, NEW h \in DOMAIN Grids, AtLeastAsGood(Grids[g], Grids[h]),
         NEW S \in SUBSET DOMAIN Cells(Grids[h])
  PROVE  /\ Tokens(Grids[h], S) <= Tokens(Grids[g], S)
         /\ Duration(Grids[g], S) <= Duration(Grids[h], S)
<1>1. DOMAIN Cells(Grids[g]) = DOMAIN Cells(Grids[h])
  BY SameCells
<1>2. PICK D : D = Counted(Grids[h], S)
  OBVIOUS
<1>3. D = Counted(Grids[g], S)
  BY <1>2, SameCells
<1>4. D \subseteq S /\ IsFiniteSet(D)
  BY <1>2, GridAssumption, FS_Subset DEF Counted
<1>5. PICK v : v = [p \in D |-> Cells(Grids[h])[p].tokens]
  OBVIOUS
<1>6. PICK w : w = [p \in D |-> Cells(Grids[g])[p].tokens]
  OBVIOUS
<1>7. PICK x : x = [p \in D |-> Cells(Grids[g])[p].duration]
  OBVIOUS
<1>8. PICK y : y = [p \in D |-> Cells(Grids[h])[p].duration]
  OBVIOUS
<1>9. \A p \in D : /\ Cells(Grids[g])[p].tokens \in Nat /\ Cells(Grids[g])[p].duration \in Nat
                   /\ Cells(Grids[h])[p].tokens \in Nat /\ Cells(Grids[h])[p].duration \in Nat
  BY <1>1, <1>4, GridAssumption
<1>10. v \in [D -> Nat] /\ w \in [D -> Nat] /\ x \in [D -> Nat] /\ y \in [D -> Nat]
  BY <1>5, <1>6, <1>7, <1>8, <1>9
<1>11. \A p \in D : /\ Cells(Grids[g])[p].tokens >= Cells(Grids[h])[p].tokens
                    /\ Cells(Grids[g])[p].duration <= Cells(Grids[h])[p].duration
  BY <1>4 DEF AtLeastAsGood, Cells
<1>12. \A p \in D : v[p] <= w[p]
  BY <1>5, <1>6, <1>9, <1>11
<1>13. \A p \in D : x[p] <= y[p]
  BY <1>7, <1>8, <1>9, <1>11
<1>14. FoldFunction(+, 0, v) <= FoldFunction(+, 0, w)
  BY <1>4, <1>10, <1>12, SumIsMonotone
<1>15. FoldFunction(+, 0, x) <= FoldFunction(+, 0, y)
  BY <1>4, <1>10, <1>13, SumIsMonotone
<1> QED BY <1>2, <1>3, <1>5, <1>6, <1>7, <1>8, <1>14, <1>15 DEF Tokens, Duration

\* Multiplication of natural numbers is monotone.
LEMMA ProductIsMonotone ==
  ASSUME NEW a \in Nat, NEW b \in Nat, NEW c \in Nat, a <= b
  PROVE  c * a <= c * b /\ a * c <= b * c
<1>1. PICK e \in Nat : b = a + e
  <2>1. b - a \in Nat /\ b = a + (b - a)
    OBVIOUS
  <2> QED BY <2>1
<1>2. c * b = c * a + c * e /\ c * e \in Nat /\ c * a \in Nat
  BY <1>1
<1>3. b * c = c * b /\ a * c = c * a
  OBVIOUS
<1> QED BY <1>2, <1>3

LEMMA SameBands ==
  ASSUME NEW g \in DOMAIN Grids, NEW h \in DOMAIN Grids, NEW b \in DOMAIN Grids,
         AtLeastAsGood(Grids[g], Grids[h]), NEW c
  PROVE  /\ Matched(Grids[b], Grids[g]) = Matched(Grids[b], Grids[h])
         /\ Band(Grids[b], Grids[g], c) = Band(Grids[b], Grids[h], c)
         /\ Band(Grids[b], Grids[h], c) \subseteq DOMAIN Cells(Grids[g])
         /\ Band(Grids[b], Grids[h], c) \subseteq DOMAIN Cells(Grids[h])
         /\ Band(Grids[b], Grids[h], c) \subseteq DOMAIN Cells(Grids[b])
BY DEF AtLeastAsGood, Cells, Matched, Band

LEMMA SameComparable ==
  ASSUME NEW g \in DOMAIN Grids, NEW h \in DOMAIN Grids, NEW b \in DOMAIN Grids,
         AtLeastAsGood(Grids[g], Grids[h]), NEW c
  PROVE  Comparable(Grids[b], Grids[g], c) <=> Comparable(Grids[b], Grids[h], c)
<1>1. PICK S : S = Band(Grids[b], Grids[h], c)
  OBVIOUS
<1>2. S = Band(Grids[b], Grids[g], c)
  BY <1>1, SameBands
<1>3. S \in SUBSET DOMAIN Cells(Grids[h])
  BY <1>1, SameBands
<1>4. Counted(Grids[g], S) = Counted(Grids[h], S)
  BY <1>3, SameCells
<1> QED BY <1>1, <1>2, <1>4 DEF Comparable

\* The aggregate of a band does not fall when the candidate gets better.
LEMMA BetterBand ==
  ASSUME NEW g \in DOMAIN Grids, NEW h \in DOMAIN Grids, NEW b \in DOMAIN Grids,
         AtLeastAsGood(Grids[g], Grids[h]), NEW c, Comparable(Grids[b], Grids[h], c)
  PROVE  /\ band_delta(Grids[b], Grids[g], c) \in Int /\ band_delta(Grids[b], Grids[h], c) \in Int
         /\ band_delta(Grids[b], Grids[h], c) <= band_delta(Grids[b], Grids[g], c)
<1>1. PICK S : S = Band(Grids[b], Grids[h], c)
  OBVIOUS
<1>2. S = Band(Grids[b], Grids[g], c)
  BY <1>1, SameBands
<1>3. /\ S \in SUBSET DOMAIN Cells(Grids[g])
      /\ S \in SUBSET DOMAIN Cells(Grids[h])
      /\ S \in SUBSET DOMAIN Cells(Grids[b])
  BY <1>1, SameBands
<1>4. Counted(Grids[b], S) # {} /\ Counted(Grids[h], S) # {}
  BY <1>1 DEF Comparable
<1>5. Comparable(Grids[b], Grids[g], c)
  BY SameComparable
<1>6. Counted(Grids[g], S) # {}
  BY <1>2, <1>5 DEF Comparable
<1>7. PICK bt \in Nat \ {0}, bd \in Nat \ {0} : Tokens(Grids[b], S) = bt /\ Duration(Grids[b], S) = bd
  BY <1>3, <1>4, PooledIsNat
<1>8. PICK ht \in Nat \ {0}, hd \in Nat \ {0} : Tokens(Grids[h], S) = ht /\ Duration(Grids[h], S) = hd
  BY <1>3, <1>4, PooledIsNat
<1>9. PICK gt \in Nat \ {0}, gd \in Nat \ {0} : Tokens(Grids[g], S) = gt /\ Duration(Grids[g], S) = gd
  BY <1>3, <1>6, PooledIsNat
<1>10. ht <= gt /\ gd <= hd
  BY <1>3, <1>8, <1>9, BetterPools
<1>11. bt * gd <= bt * hd /\ ht * bd <= gt * bd
  BY <1>10, ProductIsMonotone
<1>12. bt * gd \in Nat \ {0} /\ bt * hd \in Nat \ {0} /\ ht * bd \in Nat /\ gt * bd \in Nat
  OBVIOUS
<1>13. /\ pct_delta(bt * hd, ht * bd) \in Int /\ pct_delta(bt * gd, gt * bd) \in Int
       /\ pct_delta(bt * hd, ht * bd) <= pct_delta(bt * gd, gt * bd)
  BY <1>11, <1>12, PctIsMonotone
<1>14. band_delta(Grids[b], Grids[h], c) = pct_delta(bt * hd, ht * bd)
  BY <1>1, <1>7, <1>8 DEF band_delta
<1>15. band_delta(Grids[b], Grids[g], c) = pct_delta(bt * gd, gt * bd)
  BY <1>2, <1>7, <1>9 DEF band_delta
<1> QED BY <1>13, <1>14, <1>15

\* Every tail latency of the better candidate changes at most as much.
LEMMA BetterTail ==
  ASSUME NEW g \in DOMAIN Grids, NEW h \in DOMAIN Grids, NEW b \in DOMAIN Grids,
         AtLeastAsGood(Grids[g], Grids[h]),
         NEW p \in Matched(Grids[b], Grids[h]), Cells(Grids[b])[p].p99 > 0,
         Cells(Grids[h])[p].p99 # Unreported
  PROVE  /\ Cells(Grids[g])[p].p99 # Unreported
         /\ pct_delta(Cells(Grids[b])[p].p99, Cells(Grids[g])[p].p99) \in Int
         /\ pct_delta(Cells(Grids[b])[p].p99, Cells(Grids[h])[p].p99) \in Int
         /\ pct_delta(Cells(Grids[b])[p].p99, Cells(Grids[g])[p].p99)
              <= pct_delta(Cells(Grids[b])[p].p99, Cells(Grids[h])[p].p99)
<1>1. /\ p \in DOMAIN Cells(Grids[b]) /\ p \in DOMAIN Cells(Grids[h])
      /\ p \in DOMAIN Cells(Grids[g])
  BY DEF Matched, AtLeastAsGood, Cells
<1>2. Cells(Grids[b])[p].p99 \in Nat \ {0}
  BY <1>1, GridAssumption DEF Unreported
<1>3. Cells(Grids[g])[p].p99 # Unreported
  BY <1>1 DEF AtLeastAsGood, Cells
<1>4. Cells(Grids[g])[p].p99 \in Nat /\ Cells(Grids[h])[p].p99 \in Nat
  BY <1>1, <1>3, GridAssumption
<1>5. Cells(Grids[g])[p].p99 <= Cells(Grids[h])[p].p99
  BY <1>1 DEF AtLeastAsGood, Cells
<1> QED BY <1>2, <1>3, <1>4, <1>5, PctIsMonotone

\* A cell of the better candidate reports a tail where the other one does.
LEMMA SameTails ==
  ASSUME NEW g \in DOMAIN Grids, NEW h \in DOMAIN Grids, NEW b \in DOMAIN Grids,
         AtLeastAsGood(Grids[g], Grids[h]), NEW p \in Matched(Grids[b], Grids[h])
  PROVE  Cells(Grids[g])[p].p99 # Unreported <=> Cells(Grids[h])[p].p99 # Unreported
BY DEF AtLeastAsGood, Cells, Matched

\* The rule is monotone.
LEMMA RuleIsMonotone ==
  ASSUME NEW g \in DOMAIN Grids, NEW h \in DOMAIN Grids, NEW b \in DOMAIN Grids,
         AtLeastAsGood(Grids[g], Grids[h]), NEW objective,
         decide(Grids[b], Grids[h], objective) = "accept"
  PROVE  decide(Grids[b], Grids[g], objective) = "accept"
<1>1. Decidable(Grids[b], Grids[h])
  BY DEF decide
<1>2. Matched(Grids[b], Grids[g]) = Matched(Grids[b], Grids[h])
  BY SameBands
<1>3. Decidable(Grids[b], Grids[g])
  BY <1>1, <1>2, SameComparable DEF Decidable, AtLeastAsGood
<1>4. /\ band_delta(Grids[b], Grids[g], Primary) \in Int
      /\ band_delta(Grids[b], Grids[h], Primary) \in Int
      /\ band_delta(Grids[b], Grids[h], Primary) <= band_delta(Grids[b], Grids[g], Primary)
  BY <1>1, BetterBand DEF Decidable
<1>5. \A x \in ttft_changes(Grids[b], Grids[g]) :
        \E y \in ttft_changes(Grids[b], Grids[h]) : x \in Int /\ y \in Int /\ x <= y
  BY <1>2, BetterTail, SameTails DEF ttft_changes
<1>6. \A y \in ttft_changes(Grids[b], Grids[h]) :
        \E x \in ttft_changes(Grids[b], Grids[g]) : x \in Int /\ y \in Int /\ x <= y
  BY <1>2, BetterTail DEF ttft_changes
<1>7. CASE objective = "throughput"
  <2>1. KeepsThroughput(Grids[b], Grids[h])
    BY <1>7 DEF decide
  <2>2. band_delta(Grids[b], Grids[g], Primary) >= ThroughputMinGain
    BY <1>4, <2>1 DEF KeepsThroughput, ThroughputMinGain
  <2>3. ASSUME NEW c \in Guards \ {Primary}, Comparable(Grids[b], Grids[g], c)
        PROVE  band_delta(Grids[b], Grids[g], c) >= -ThroughputMaxRegression
    <3>1. Comparable(Grids[b], Grids[h], c)
      BY <2>3, SameComparable
    <3>2. band_delta(Grids[b], Grids[h], c) >= -ThroughputMaxRegression
      BY <2>1, <3>1 DEF KeepsThroughput
    <3>3. /\ band_delta(Grids[b], Grids[g], c) \in Int /\ band_delta(Grids[b], Grids[h], c) \in Int
          /\ band_delta(Grids[b], Grids[h], c) <= band_delta(Grids[b], Grids[g], c)
      BY <3>1, BetterBand
    <3> QED BY <3>2, <3>3 DEF ThroughputMaxRegression
  <2>4. \A y \in ttft_changes(Grids[b], Grids[h]) : y <= 10000
    BY <2>1 DEF KeepsThroughput, ThroughputMaxWorsening
  <2>5. \A x \in ttft_changes(Grids[b], Grids[g]) : x <= 10000
    BY <1>5, <2>4
  <2>6. KeepsThroughput(Grids[b], Grids[g])
    BY <2>2, <2>3, <2>5 DEF KeepsThroughput, ThroughputMaxWorsening
  <2> QED BY <1>3, <1>7, <2>6 DEF decide
<1>8. CASE objective = "scheduling"
  <2>1. KeepsScheduling(Grids[b], Grids[h])
    BY <1>8 DEF decide
  <2>2. band_delta(Grids[b], Grids[g], Primary) >= -SchedulingMaxDrop
    BY <1>4, <2>1 DEF KeepsScheduling, SchedulingMaxDrop
  <2>3. \E x \in ttft_changes(Grids[b], Grids[g]) : x < 0
    BY <1>6, <2>1 DEF KeepsScheduling
  <2> QED BY <1>3, <1>8, <2>2, <2>3 DEF decide, KeepsScheduling
<1> QED BY <1>7, <1>8 DEF decide
-----------------------------------------------------------------------------
(***************************************************************************)
(* Types.                                                                  *)
(***************************************************************************)

\* From the moment a variant is taken up until its status is final.
Trying == {"apply", "rollout", "bench", "collect", "judge"}

\* What is named exists: the variant under test, the plan of a session, the results
\* file of an accepted variant and those that the judge reads.
Present ==
  /\ pc # "off" => plan \in Plans
  /\ pc \in Trying => cur \in Variants
  /\ \A v \in Variants : status[v] = "accepted" => files[v] # NoFile
  /\ baseline # NoVariant => files[baseline] # NoFile
  /\ pc = "judge" => files[cur] # NoFile /\ baseline # NoVariant

\* A session that is not over has not said how it ended; one that is over left nothing.
InSession ==
  /\ pc # "off" => outcome = "none"
  /\ pc = "off" => todo = {} /\ baseline = NoVariant

\* Environments are made of environments and deltas.
LEMMA OverlayIsTyped ==
  ASSUME NEW base \in Environments, NEW v \in Variants
  PROVE  Overlay(base, Resolved(v)) \in Environments
BY SweepAssumption DEF Overlay, Resolved, Environments

\* The last of some positions of a plan or of the table.
LEMMA LastPosition ==
  ASSUME NEW p \in Seq(Variants), NEW S \in SUBSET DOMAIN p, S # {}
  PROVE  Max(S) \in S /\ \A n \in S : n <= Max(S)
<1>1. Len(p) \in Nat /\ S \in SUBSET (0 .. Len(p))
  OBVIOUS
<1> QED BY <1>1, MaxIsGreatest

LEMMA StackIsTyped ==
  ASSUME NEW st \in [Variants -> Statuses]
  PROVE  accepted_stack_env(st) \in Environments
<1> SUFFICES ASSUME NEW k \in Keys PROVE accepted_stack_env(st)[k] \in Values
  BY DEF accepted_stack_env, Environments
<1>1. PICK S : S = {i \in DOMAIN Table : st[Table[i]] = "accepted" /\ k \in DOMAIN Delta[Table[i]]}
  OBVIOUS
<1>2. accepted_stack_env(st)[k] = IF S = {} THEN Default ELSE Delta[Table[Max(S)]][k]
  BY <1>1 DEF accepted_stack_env
<1>3. CASE S = {}
  BY <1>2, <1>3, SweepAssumption
<1>4. CASE S # {}
  <2>1. Max(S) \in S
    BY <1>1, <1>4, LastPosition, SweepAssumption
  <2>2. Table[Max(S)] \in Variants /\ k \in DOMAIN Delta[Table[Max(S)]]
    BY <1>1, <2>1 DEF Variants
  <2> QED BY <1>2, <1>4, <2>2, SweepAssumption
<1> QED BY <1>3, <1>4

LEMMA LastAcceptedIsTyped ==
  ASSUME NEW p \in Plans
  PROVE  LastAccepted(p) # NoVariant =>
           \E i \in DOMAIN p :
             /\ LastAccepted(p) = p[i] /\ p[i] \in Variants /\ status[p[i]] = "accepted"
             /\ \A j \in DOMAIN p : status[p[j]] = "accepted" => j <= i
<1>1. PICK S : S = {i \in DOMAIN p : status[p[i]] = "accepted"}
  OBVIOUS
<1>2. LastAccepted(p) = IF S = {} THEN NoVariant ELSE p[Max(S)]
  BY <1>1 DEF LastAccepted
<1>3. CASE S # {}
  <2>1. p \in Seq(Variants)
    BY SweepAssumption
  <2>2. Max(S) \in S /\ \A n \in S : n <= Max(S)
    BY <1>1, <1>3, <2>1, LastPosition
  <2>3. PICK i \in DOMAIN p :
          /\ i = Max(S) /\ status[p[i]] = "accepted"
          /\ \A j \in DOMAIN p : status[p[j]] = "accepted" => j <= i
    BY <1>1, <2>2
  <2>4. p[i] \in Variants
    BY <2>1
  <2> QED BY <1>2, <1>3, <2>3, <2>4
<1> QED BY <1>2, <1>3

\* The checkout as it is found.
LEMMA TypedInit == Init => TypeOK /\ Present /\ InSession
<1> SUFFICES ASSUME Init PROVE TypeOK /\ Present /\ InSession
  OBVIOUS
<1>1. ConfigEnv \in Environments
  BY SweepAssumption DEF ConfigEnv, Environments
<1>2. produced \in Files \union {NoFile}
  <2>1. \A f \in [grid : DOMAIN Grids, by : {NoVariant}, env : {ConfigEnv}] : f \in Files
    BY <1>1 DEF Files
  <2>2. produced \in [grid : DOMAIN Grids, by : {NoVariant}, env : {ConfigEnv}] \union {NoFile}
    BY SweepAssumption DEF Init
  <2> QED BY <2>1, <2>2
<1>3. env \in Environments /\ spec \in Environments
  BY <1>1 DEF Init
<1>4. status \in [Variants -> Statuses]
  BY DEF Init, Statuses
<1>5. files \in [Variants -> Files \union {NoFile}]
  BY DEF Init
<1>6. disruptions \in 0 .. MaxDisruptions
  BY SweepAssumption DEF Init
<1>7. stop \in BOOLEAN /\ interrupted \in BOOLEAN
  BY DEF Init
<1>8. TypeOK
  BY <1>2, <1>3, <1>4, <1>5, <1>6, <1>7 DEF Init, TypeOK, Points
<1> QED BY <1>8 DEF Init, Present, InSession, Trying

\* What giving a variant up, or settling it, leaves typed.
LEMMA StatusIsTyped ==
  ASSUME TypeOK, NEW v \in Variants, NEW s \in Statuses
  PROVE  [status EXCEPT ![v] = s] \in [Variants -> Statuses]
BY DEF TypeOK

LEMMA TypedAbandon ==
  ASSUME TypeOK, Present, InSession, pc \in Trying, NEW s \in {"failed", "undecided"}, Abandon(s),
         UNCHANGED <<plan, todo, cur, stop, env, baseline, interrupted, outcome, files, produced,
                     spec, disruptions>>
  PROVE  TypeOK' /\ Present' /\ InSession'
<1>1. cur \in Variants /\ pc # "off"
  BY DEF Present, Trying
<1>2. status' \in [Variants -> Statuses]
  BY <1>1, StatusIsTyped DEF Abandon, Statuses
<1>3. pc' \in {"next", "summary"}
  BY DEF Abandon
<1>4. TypeOK'
  BY <1>2, <1>3 DEF TypeOK, Points
<1>5. \A v \in Variants : status'[v] = "accepted" => status[v] = "accepted"
  BY <1>1 DEF Abandon, TypeOK
<1>6. Present'
  BY <1>1, <1>3, <1>5 DEF Present, Trying
<1>7. InSession'
  BY <1>1, <1>3 DEF InSession
<1> QED BY <1>4, <1>6, <1>7

LEMMA TypedTakeNext ==
  ASSUME TypeOK, Present, InSession, TakeNext
  PROVE  TypeOK' /\ Present' /\ InSession'
<1>1. PICK i \in todo : cur' = plan[i] /\ todo' = todo \ {i}
  BY DEF TakeNext
<1>2. /\ pc = "next" /\ pc' = "apply"
      /\ status' = [status EXCEPT ![cur'] = "running"]
      /\ env' = Overlay(accepted_stack_env(status'), Resolved(cur'))
      /\ UNCHANGED <<plan, stop, baseline, interrupted, outcome, files, produced, spec, disruptions>>
  BY DEF TakeNext
<1>3. plan \in Seq(Variants) /\ i \in DOMAIN plan
  BY <1>2, SweepAssumption DEF Present, TypeOK
<1>4. cur' \in Variants
  BY <1>1, <1>3
<1>5. status' \in [Variants -> Statuses]
  BY <1>2, <1>4, StatusIsTyped DEF Statuses
<1>6. env' \in Environments
  BY <1>2, <1>4, <1>5, StackIsTyped, OverlayIsTyped
<1>7. todo' \subseteq DOMAIN plan'
  BY <1>1, <1>2 DEF TypeOK
<1>8. TypeOK'
  BY <1>2, <1>4, <1>5, <1>6, <1>7 DEF TypeOK, Points
<1>9. \A v \in Variants : status'[v] = "accepted" => status[v] = "accepted"
  BY <1>2, <1>4 DEF TypeOK
<1>10. Present'
  BY <1>2, <1>4, <1>9 DEF Present, Trying
<1>11. InSession'
  BY <1>2 DEF InSession
<1> QED BY <1>8, <1>10, <1>11

LEMMA TypedAdopt ==
  ASSUME TypeOK, Present, InSession, Adopt
  PROVE  TypeOK' /\ Present' /\ InSession'
<1>1. /\ pc = "collect" /\ pc' = "next" /\ produced # NoFile
      /\ files' = [files EXCEPT ![cur] = produced]
      /\ status' = [status EXCEPT ![cur] = "accepted"]
      /\ baseline' = cur
      /\ UNCHANGED <<plan, todo, cur, stop, env, interrupted, outcome, produced, spec, disruptions>>
  BY DEF Adopt
<1>2. cur \in Variants
  BY <1>1 DEF Present, Trying
<1>3. status' \in [Variants -> Statuses]
  BY <1>1, <1>2, StatusIsTyped DEF Statuses
<1>4. files' \in [Variants -> Files \union {NoFile}]
  BY <1>1, <1>2 DEF TypeOK
<1>5. TypeOK'
  BY <1>1, <1>2, <1>3, <1>4 DEF TypeOK, Points
<1>6. files'[cur] # NoFile
  BY <1>1, <1>2 DEF TypeOK
<1>7. \A v \in Variants : v # cur => status'[v] = status[v] /\ files'[v] = files[v]
  BY <1>1, <1>2 DEF TypeOK
<1>8. Present'
  BY <1>1, <1>2, <1>6, <1>7 DEF Present, Trying
<1>9. InSession'
  BY <1>1 DEF InSession
<1> QED BY <1>5, <1>8, <1>9

LEMMA TypedCollect ==
  ASSUME TypeOK, Present, InSession, Collect
  PROVE  TypeOK' /\ Present' /\ InSession'
<1>1. /\ pc = "collect" /\ pc' = "judge" /\ produced # NoFile /\ baseline # NoVariant
      /\ files' = [files EXCEPT ![cur] = produced]
      /\ UNCHANGED <<plan, todo, cur, stop, env, baseline, interrupted, outcome, status, produced,
                     spec, disruptions>>
  BY DEF Collect
<1>2. cur \in Variants
  BY <1>1 DEF Present, Trying
<1>3. files' \in [Variants -> Files \union {NoFile}]
  BY <1>1, <1>2 DEF TypeOK
<1>4. TypeOK'
  BY <1>1, <1>3 DEF TypeOK, Points
<1>5. files'[cur] # NoFile /\ \A v \in Variants : v # cur => files'[v] = files[v]
  BY <1>1, <1>2 DEF TypeOK
<1>6. baseline \in Variants
  BY <1>1 DEF TypeOK
<1>7. Present'
  BY <1>1, <1>2, <1>5, <1>6 DEF Present, Trying
<1>8. InSession'
  BY <1>1 DEF InSession
<1> QED BY <1>4, <1>7, <1>8

LEMMA TypedJudge ==
  ASSUME TypeOK, Present, InSession, Judge
  PROVE  TypeOK' /\ Present' /\ InSession'
<1>1. /\ pc = "judge"
      /\ UNCHANGED <<plan, todo, cur, stop, env, interrupted, outcome, files, produced, spec,
                     disruptions>>
  BY DEF Judge
<1>2. cur \in Variants /\ files[cur] # NoFile /\ pc \in Trying
  BY <1>1 DEF Present, Trying
<1>3. CASE Abandon("undecided") /\ UNCHANGED baseline
  BY <1>1, <1>2, <1>3, TypedAbandon
<1>4. CASE ~(Abandon("undecided") /\ UNCHANGED baseline)
  <2>1. PICK s \in {"accepted", "backed_out"} :
          /\ status' = [status EXCEPT ![cur] = s]
          /\ pc' = "next"
          /\ baseline' \in {baseline, cur}
    BY <1>4 DEF Judge
  <2>2. status' \in [Variants -> Statuses]
    BY <1>2, <2>1, StatusIsTyped DEF Statuses
  <2>3. baseline' \in Variants \union {NoVariant}
    BY <1>2, <2>1 DEF TypeOK
  <2>4. TypeOK'
    BY <1>1, <2>1, <2>2, <2>3 DEF TypeOK, Points
  <2>5. \A v \in Variants : v # cur => status'[v] = status[v]
    BY <1>2, <2>1 DEF TypeOK
  <2>6. Present'
    BY <1>1, <1>2, <2>1, <2>5 DEF Present, Trying
  <2>7. InSession'
    BY <1>1, <2>1 DEF InSession
  <2> QED BY <2>4, <2>6, <2>7
<1> QED BY <1>3, <1>4

\* Every step, those of the lemmas above and the rest.
LEMMA TypedStep ==
  ASSUME TypeOK, Present, InSession, [Next]_vars
  PROVE  TypeOK' /\ Present' /\ InSession'
<1>1. CASE \E p \in Plans, r \in ResumeOptions : StartEmpty(p, r) \/ StartRefused(p, r)
  <2>1. PICK p \in Plans : /\ plan' = p /\ outcome' \in {"ok", "error"} /\ pc = "off"
                           /\ UNCHANGED <<pc, todo, cur, stop, env, baseline, interrupted,
                                          lastingVars, disruptions>>
    BY <1>1 DEF StartEmpty, StartRefused
  <2> QED BY <2>1 DEF TypeOK, Present, InSession, Trying, lastingVars
<1>2. CASE \E p \in Plans, r \in ResumeOptions, s \in StopOptions : Start(p, r, s)
  <2>1. PICK p \in Plans, r \in ResumeOptions, s \in StopOptions : Start(p, r, s)
    BY <1>2
  <2>2. /\ pc' = "next" /\ plan' = p /\ todo' = ToRun(p, r) /\ stop' = s
        /\ baseline' = LastAccepted(p) /\ outcome' = "none"
        /\ UNCHANGED <<cur, env, interrupted, status, files, produced, spec>>
    BY <2>1 DEF Start, lastingVars
  <2>3. disruptions' \in 0 .. MaxDisruptions
    BY <2>1, SweepAssumption DEF Start, TypeOK
  <2>4. todo' \subseteq DOMAIN plan' /\ stop' \in BOOLEAN
    BY <2>2, SweepAssumption DEF ToRun
  <2>5. /\ baseline' \in Variants \union {NoVariant}
        /\ baseline' # NoVariant => status[baseline'] = "accepted" /\ baseline' \in Variants
    BY <2>2, LastAcceptedIsTyped
  <2>6. TypeOK'
    BY <2>2, <2>3, <2>4, <2>5 DEF TypeOK, Points
  <2>7. Present'
    BY <2>2, <2>5 DEF Present, Trying
  <2> QED BY <2>2, <2>6, <2>7 DEF InSession
<1>3. CASE TakeNext
  BY <1>3, TypedTakeNext
<1>4. CASE Refused \/ RolloutTimesOut \/ NoResults
  BY <1>4, TypedAbandon DEF Refused, RolloutTimesOut, NoResults, Trying
<1>5. CASE Apply
  BY <1>5 DEF Apply, TypeOK, Present, InSession, Trying, Points
<1>6. CASE RolloutReady
  BY <1>6 DEF RolloutReady, TypeOK, Present, InSession, Trying, Points, lastingVars
<1>7. CASE \E g \in DOMAIN Grids : Bench(g)
  <2>1. PICK g \in DOMAIN Grids : Bench(g)
    BY <1>7
  <2>2. cur \in Variants
    BY <2>1 DEF Bench, Present, Trying
  <2>3. produced' \in Files \union {NoFile}
    BY <2>1, <2>2 DEF Bench, Files, TypeOK
  <2> QED BY <2>1, <2>2, <2>3 DEF Bench, TypeOK, Present, InSession, Trying, Points
<1>8. CASE BenchSilent
  BY <1>8 DEF BenchSilent, TypeOK, Present, InSession, Trying, Points, lastingVars
<1>9. CASE Adopt
  BY <1>9, TypedAdopt
<1>10. CASE Collect
  BY <1>10, TypedCollect
<1>11. CASE Judge
  BY <1>11, TypedJudge
<1>12. CASE LeaveLoop
  BY <1>12 DEF LeaveLoop, TypeOK, Present, InSession, Trying, Points, lastingVars
<1>13. ASSUME NEW how \in {"ok", "empty", "interrupted", "killed"}, SessionEnds(how),
              disruptions' \in 0 .. MaxDisruptions
       PROVE  TypeOK' /\ Present' /\ InSession'
  <2>1. env' \in Environments /\ stop' \in BOOLEAN /\ interrupted' \in BOOLEAN
    BY <1>13, SweepAssumption DEF SessionEnds, ConfigEnv, Environments
  <2> QED BY <1>13, <2>1 DEF SessionEnds, TypeOK, Present, InSession, Trying, Points, lastingVars
<1>14. CASE Finish
  BY <1>14, <1>13 DEF Finish, TypeOK
<1>15. CASE Interrupt
  <2>1. disruptions' \in 0 .. MaxDisruptions
    BY <1>15, SweepAssumption DEF Interrupt, TypeOK
  <2> QED BY <1>15, <2>1 DEF Interrupt, TypeOK, Present, InSession, Trying, lastingVars
<1>16. CASE Crash
  <2>1. disruptions' \in 0 .. MaxDisruptions
    BY <1>16, SweepAssumption DEF Crash, TypeOK
  <2> QED BY <1>16, <1>13, <2>1 DEF Crash
<1>17. CASE UNCHANGED vars
  BY <1>17 DEF vars, sessionVars, lastingVars, TypeOK, Present, InSession
<1> QED BY <1>1, <1>2, <1>3, <1>4, <1>5, <1>6, <1>7, <1>8, <1>9, <1>10, <1>11, <1>12, <1>14,
           <1>15, <1>16, <1>17 DEF Next, Starts, Steps

\* TypeOK, and with it: a session has a plan, a variant under test and, where it judges,
\* two results files; no session ends twice, and none inherits the rest of another's plan.
THEOREM SweepTyped == Spec => [](TypeOK /\ Present /\ InSession)
<1>1. Init => TypeOK /\ Present /\ InSession
  BY TypedInit
<1>2. (TypeOK /\ Present /\ InSession) /\ [Next]_vars => (TypeOK /\ Present /\ InSession)'
  BY TypedStep
<1> QED BY <1>1, <1>2, PTL DEF Spec

\* AcceptanceIsProgress, for every pair of results files on disk, whatever their cells:
\* _decide_throughput asks for more than the rounding of pct_delta could give back.
THEOREM AcceptanceIsProgressHolds == Spec => []AcceptanceIsProgress
<1>1. TypeOK => AcceptanceIsProgress
  <2> SUFFICES ASSUME TypeOK, NEW v \in Variants, NEW w \in Variants,
                      files[v] # NoFile, files[w] # NoFile,
                      Verdict(v, w, "throughput") = "accept"
               PROVE  Verdict(w, v, "throughput") # "accept"
    BY DEF AcceptanceIsProgress
  <2>1. files[v].grid \in DOMAIN Grids /\ files[w].grid \in DOMAIN Grids
    BY DEF TypeOK, Files
  <2> QED BY <2>1, GainIsOneWay DEF Verdict
<1> QED BY <1>1, SweepTyped, PTL

\* BetterIsAccepted, for both objectives and every grid: no clause of the rule turns
\* against a candidate that got faster.
THEOREM BetterIsAcceptedHolds == Spec => []BetterIsAccepted
<1>1. TypeOK /\ Present => BetterIsAccepted
  <2> SUFFICES ASSUME TypeOK, Present, pc = "judge",
                      Verdict(baseline, cur, Objective[cur]) = "accept",
                      NEW g \in DOMAIN Grids, AtLeastAsGood(Grids[g], Grids[files[cur].grid])
               PROVE  decide(Grids[files[baseline].grid], Grids[g], Objective[cur]) = "accept"
    BY DEF BetterIsAccepted
  <2>1. /\ cur \in Variants /\ files[cur] # NoFile
        /\ baseline \in Variants /\ files[baseline] # NoFile
    BY DEF Present, Trying, TypeOK
  <2>2. files[cur].grid \in DOMAIN Grids /\ files[baseline].grid \in DOMAIN Grids
    BY <2>1 DEF TypeOK, Files
  <2> QED BY <2>2, RuleIsMonotone DEF Verdict
<1> QED BY <1>1, SweepTyped, PTL
-----------------------------------------------------------------------------
(***************************************************************************)
(* What is being measured was put there by somebody.                       *)
(***************************************************************************)

\* Every tunable of the exported environment is a default, the variant's own, or an
\* accepted variant's; from the apply on it is what the StatefulSet has.
Provenance ==
  /\ pc \in Trying =>
       \A k \in Keys :
         \/ env[k] = Default
         \/ k \in DOMAIN Delta[cur] /\ env[k] = Resolved(cur)[k]
         \/ \E v \in Variants :
              status[v] = "accepted" /\ k \in DOMAIN Delta[v] /\ env[k] = Delta[v][k]
  /\ pc \in Trying \ {"apply"} => spec = env

\* The stack invents no value.
LEMMA StackHasSource ==
  ASSUME NEW st, NEW k \in Keys
  PROVE  \/ accepted_stack_env(st)[k] = Default
         \/ \E v \in Variants : /\ st[v] = "accepted" /\ k \in DOMAIN Delta[v]
                                /\ accepted_stack_env(st)[k] = Delta[v][k]
<1>1. PICK S : S = {i \in DOMAIN Table : st[Table[i]] = "accepted" /\ k \in DOMAIN Delta[Table[i]]}
  OBVIOUS
<1>2. accepted_stack_env(st)[k] = IF S = {} THEN Default ELSE Delta[Table[Max(S)]][k]
  BY <1>1 DEF accepted_stack_env
<1>3. CASE S # {}
  <2>1. Max(S) \in S
    BY <1>1, <1>3, LastPosition, SweepAssumption
  <2>2. /\ Table[Max(S)] \in Variants /\ st[Table[Max(S)]] = "accepted"
        /\ k \in DOMAIN Delta[Table[Max(S)]]
    BY <1>1, <2>1 DEF Variants
  <2> QED BY <1>2, <1>3, <2>2
<1> QED BY <1>2, <1>3

LEMMA ProvenanceStep ==
  ASSUME TypeOK, Present, Provenance, [Next]_vars
  PROVE  Provenance'
<1>1. CASE TakeNext
  <2>1. /\ pc' = "apply"
        /\ env' = Overlay(accepted_stack_env(status'), Resolved(cur'))
    BY <1>1 DEF TakeNext
  <2>2. ASSUME NEW k \in Keys
        PROVE  \/ env'[k] = Default
               \/ k \in DOMAIN Delta[cur'] /\ env'[k] = Resolved(cur')[k]
               \/ \E v \in Variants :
                    status'[v] = "accepted" /\ k \in DOMAIN Delta[v] /\ env'[k] = Delta[v][k]
    <3>1. env'[k] = IF k \in DOMAIN Delta[cur'] THEN Resolved(cur')[k]
                    ELSE accepted_stack_env(status')[k]
      BY <2>1, <2>2 DEF Overlay, Resolved
    <3> QED BY <3>1, StackHasSource
  <2> QED BY <2>1, <2>2 DEF Provenance
<1>2. CASE Apply
  BY <1>2 DEF Apply, Provenance, Trying
<1>3. CASE RolloutReady \/ BenchSilent
  BY <1>3 DEF RolloutReady, BenchSilent, Provenance, Trying, lastingVars
<1>4. CASE (\E g \in DOMAIN Grids : Bench(g)) \/ Collect
  BY <1>4 DEF Bench, Collect, Provenance, Trying
<1>5. CASE Interrupt
  BY <1>5 DEF Interrupt, Provenance, lastingVars
<1>6. CASE UNCHANGED vars
  BY <1>6 DEF vars, sessionVars, lastingVars, Provenance
<1>7. CASE \/ Starts \/ Refused \/ RolloutTimesOut \/ NoResults \/ Adopt \/ Judge
           \/ LeaveLoop \/ Finish \/ Crash
  <2>1. pc' \notin Trying
    BY <1>7 DEF Starts, StartEmpty, StartRefused, Start, Refused, RolloutTimesOut, NoResults, Adopt, Judge,
       Abandon, LeaveLoop, Finish, Crash, SessionEnds, Trying
  <2> QED BY <2>1 DEF Provenance
<1> QED BY <1>1, <1>2, <1>3, <1>4, <1>5, <1>6, <1>7 DEF Next, Steps

\* NoLeak, for every table, plan and order of resumption: rebuilding the environment from
\* the accepted stack before each variant leaves nothing of a backed-out or failed one.
THEOREM NoLeakHolds == Spec => []NoLeak
<1>1. Init => Provenance
  BY DEF Init, Provenance, Trying
<1>2. TypeOK /\ Present /\ Provenance /\ [Next]_vars => Provenance'
  BY ProvenanceStep
<1>3. Provenance => NoLeak
  BY DEF Provenance, NoLeak, Trying
<1> QED BY <1>1, <1>2, <1>3, SweepTyped, PTL DEF Spec

\* 05_run_benchmarks.sh leaves a results file of its own behind, every time.
BenchWrites == SilentBench = {} /\ ~CtrlC

OwnFile ==
  /\ pc = "collect" => produced.by = cur
  /\ pc = "judge" => files[cur].by = cur

\* JudgesOwnMeasurement, which one silent benchmark violates (run StaleMeasurement), holds
\* of every sweep whose benchmarks all write: nothing else puts a foreign file in the way.
THEOREM JudgesOwnMeasurementHolds == BenchWrites => (Spec => []JudgesOwnMeasurement)
<1> SUFFICES ASSUME BenchWrites PROVE Spec => []JudgesOwnMeasurement
  OBVIOUS
<1>1. Init => OwnFile
  BY DEF Init, OwnFile
<1>2. TypeOK /\ Present /\ OwnFile /\ [Next]_vars => OwnFile'
  <2> SUFFICES ASSUME TypeOK, Present, OwnFile, [Next]_vars PROVE OwnFile'
    OBVIOUS
  <2>1. CASE \E g \in DOMAIN Grids : Bench(g)
    BY <2>1 DEF Bench, OwnFile
  <2>2. CASE BenchSilent
    BY <2>2 DEF BenchSilent, BenchWrites
  <2>3. CASE Collect
    <3>1. cur \in Variants
      BY <2>3 DEF Collect, Present, Trying
    <3>2. files'[cur] = produced
      BY <2>3, <3>1 DEF Collect, TypeOK
    <3> QED BY <2>3, <3>2 DEF Collect, OwnFile
  <2>4. CASE Interrupt
    BY <2>4 DEF Interrupt, lastingVars, OwnFile
  <2>5. CASE UNCHANGED vars
    BY <2>5 DEF vars, sessionVars, lastingVars, OwnFile
  <2>6. CASE \/ Starts \/ TakeNext \/ Refused \/ Apply \/ RolloutReady \/ RolloutTimesOut
             \/ NoResults \/ Adopt \/ Judge \/ LeaveLoop \/ Finish \/ Crash
    <3>1. pc' \notin {"collect", "judge"}
      BY <2>6 DEF Starts, StartEmpty, StartRefused, Start, TakeNext, Refused, Apply, RolloutReady, RolloutTimesOut,
         NoResults, Adopt, Judge, Abandon, LeaveLoop, Finish, Crash, SessionEnds
    <3> QED BY <3>1 DEF OwnFile
  <2> QED BY <2>1, <2>2, <2>3, <2>4, <2>5, <2>6 DEF Next, Steps
<1>3. OwnFile => JudgesOwnMeasurement
  BY DEF OwnFile, JudgesOwnMeasurement
<1> QED BY <1>1, <1>2, <1>3, SweepTyped, PTL DEF Spec
-----------------------------------------------------------------------------
(***************************************************************************)
(* The baseline is a measurement of the accepted stack.                    *)
(***************************************************************************)

\* The history variables take nothing away and add nothing to what the sweep does.
THEOREM HistoryIsSilent == SpecH => Spec
<1>1. InitH => Init
  BY DEF InitH
<1>2. [NextH]_varsH => [Next]_vars
  BY DEF NextH, varsH, Next, Starts, Steps
<1> QED BY <1>1, <1>2, PTL DEF SpecH, Spec

\* What every step may do to the history variables.
LEMMA HistoryIsComplete ==
  ASSUME Next
  PROVE  \/ \E g \in DOMAIN Grids : Bench(g)
         \/ BenchSilent \/ Adopt \/ Judge \/ TakeNext
         \/ Starts \/ Refused \/ Apply \/ RolloutReady \/ RolloutTimesOut
         \/ NoResults \/ Collect \/ LeaveLoop \/ Finish \/ Interrupt \/ Crash
BY DEF Next, Steps

\* The accepted stack of a checkpoint, as deployed, and its last accepted variant.
Settled(st) ==
  [k \in Keys |-> IF accepted_stack_env(st)[k] = "AUTO" THEN AutoValue
                  ELSE accepted_stack_env(st)[k]]
LastOf(st, p) ==
  LET accepted == {i \in DOMAIN p : st[p[i]] = "accepted"} IN
  IF accepted = {} THEN NoVariant ELSE p[Max(accepted)]

\* What is deployed, measured and filed is the accepted stack with the delta on top, and
\* nothing in it was left for the engine to work out.
MeasuresStack ==
  /\ pc \in Trying =>
       status[cur] = "running" /\ env = Overlay(accepted_stack_env(status), Resolved(cur))
  /\ pc \in Trying \ {"apply"} => spec = env
  /\ pc \in {"bench", "collect", "judge"} => \A k \in Keys : env[k] # "AUTO"
  /\ pc = "collect" /\ wrote => produced.env = env
  /\ pc = "judge" /\ wrote => files[cur].env = env

\* The variant accepted last, if no accepted one follows it in the table, was measured
\* with all the others under it ...
LatestMeasured ==
  latest # NoVariant =>
    /\ latest \in Variants /\ status[latest] = "accepted"
    /\ latest = LastOf(status, Table) => files[latest].env = Settled(status)

\* ... and is the baseline of a session that takes it for the last one.
BaselineIsLatest ==
  pc # "off" /\ latest # NoVariant /\ latest = LastOf(status, plan) => baseline = latest

StackInv == MeasuresStack /\ LatestMeasured /\ BaselineIsLatest

LEMMA Positions ==
  /\ DOMAIN Table = 1 .. Len(Table)
  /\ \A i \in DOMAIN Table : i \in Nat /\ Table[i] \in Variants
<1>1. Table \in Seq(Variants)
  BY SweepAssumption
<1> QED BY <1>1

\* The stack and its last variant depend on who is accepted, and on nothing else.
LEMMA SameAccepted ==
  ASSUME NEW st, NEW su, \A v \in Variants : su[v] = "accepted" <=> st[v] = "accepted"
  PROVE  /\ accepted_stack_env(su) = accepted_stack_env(st)
         /\ Settled(su) = Settled(st)
         /\ \A p \in Seq(Variants) : LastOf(su, p) = LastOf(st, p)
<1>1. ASSUME NEW k \in Keys
      PROVE  {i \in DOMAIN Table : su[Table[i]] = "accepted" /\ k \in DOMAIN Delta[Table[i]]}
               = {i \in DOMAIN Table : st[Table[i]] = "accepted" /\ k \in DOMAIN Delta[Table[i]]}
  BY Positions
<1>2. accepted_stack_env(su) = accepted_stack_env(st)
  BY <1>1 DEF accepted_stack_env
<1>3. ASSUME NEW p \in Seq(Variants)
      PROVE  {i \in DOMAIN p : su[p[i]] = "accepted"} = {i \in DOMAIN p : st[p[i]] = "accepted"}
  <2>1. \A i \in DOMAIN p : p[i] \in Variants
    OBVIOUS
  <2> QED BY <2>1
<1>4. \A p \in Seq(Variants) : LastOf(su, p) = LastOf(st, p)
  BY <1>3 DEF LastOf
<1> QED BY <1>2, <1>4 DEF Settled

\* Accepting a variant behind all the accepted ones puts its delta on top.
LEMMA OneOnTop ==
  ASSUME NEW st, NEW su, NEW c \in DOMAIN Table, su[Table[c]] = "accepted",
         \A v \in Variants \ {Table[c]} : su[v] = st[v],
         st[Table[c]] # "accepted",
         \A j \in DOMAIN Table : st[Table[j]] = "accepted" => j < c
  PROVE  accepted_stack_env(su) = Overlay(accepted_stack_env(st), Delta[Table[c]])
<1> SUFFICES ASSUME NEW k \in Keys
             PROVE  accepted_stack_env(su)[k] =
                      IF k \in DOMAIN Delta[Table[c]] THEN Delta[Table[c]][k]
                      ELSE accepted_stack_env(st)[k]
  BY DEF accepted_stack_env, Overlay
<1>1. PICK S : S = {i \in DOMAIN Table : st[Table[i]] = "accepted" /\ k \in DOMAIN Delta[Table[i]]}
  OBVIOUS
<1>2. PICK U : U = {i \in DOMAIN Table : su[Table[i]] = "accepted" /\ k \in DOMAIN Delta[Table[i]]}
  OBVIOUS
<1>3. accepted_stack_env(st)[k] = IF S = {} THEN Default ELSE Delta[Table[Max(S)]][k]
  BY <1>1 DEF accepted_stack_env
<1>4. accepted_stack_env(su)[k] = IF U = {} THEN Default ELSE Delta[Table[Max(U)]][k]
  BY <1>2 DEF accepted_stack_env
<1>5. \A i \in DOMAIN Table : i # c => su[Table[i]] = st[Table[i]]
  BY Positions, SweepAssumption
<1>6. CASE k \in DOMAIN Delta[Table[c]]
  <2>1. c \in U /\ U \in SUBSET DOMAIN Table
    BY <1>2, <1>6
  <2>2. Max(U) \in U /\ \A n \in U : n <= Max(U)
    BY <2>1, LastPosition, SweepAssumption
  <2>3. \A n \in U : n # c => n < c
    BY <1>2, <1>5
  <2>4. Max(U) = c
    BY <2>1, <2>2, <2>3, Positions
  <2> QED BY <1>4, <1>6, <2>1, <2>4
<1>7. CASE k \notin DOMAIN Delta[Table[c]]
  <2>1. U = S
    BY <1>1, <1>2, <1>5, <1>7
  <2> QED BY <1>3, <1>4, <1>7, <2>1
<1> QED BY <1>6, <1>7

\* The last accepted variant of the table is behind all the others.
LEMMA LastOnTop ==
  ASSUME NEW st, NEW su, NEW v \in Variants, su[v] = "accepted", st[v] # "accepted",
         \A w \in Variants \ {v} : su[w] = st[w], v = LastOf(su, Table)
  PROVE  accepted_stack_env(su) = Overlay(accepted_stack_env(st), Delta[v])
<1>1. PICK S : S = {i \in DOMAIN Table : su[Table[i]] = "accepted"}
  OBVIOUS
<1>2. LastOf(su, Table) = IF S = {} THEN NoVariant ELSE Table[Max(S)]
  BY <1>1 DEF LastOf
<1>3. S # {}
  BY <1>2, SweepAssumption
<1>4. Max(S) \in S /\ \A n \in S : n <= Max(S)
  BY <1>1, <1>3, LastPosition, SweepAssumption
<1>5. PICK c \in DOMAIN Table : c = Max(S) /\ v = Table[c]
  BY <1>1, <1>2, <1>3, <1>4
<1>6. ASSUME NEW j \in DOMAIN Table, st[Table[j]] = "accepted"
      PROVE  j < c
  <2>1. Table[j] # v /\ Table[j] \in Variants
    BY <1>6, Positions
  <2>2. j \in S
    BY <1>1, <1>6, <2>1
  <2>3. j <= c /\ j # c
    BY <1>4, <1>5, <2>1, <2>2
  <2> QED BY <2>3, Positions
<1>7. su[Table[c]] = "accepted" /\ st[Table[c]] # "accepted"
  BY <1>5
<1>8. \A w \in Variants \ {Table[c]} : su[w] = st[w]
  BY <1>5
<1>9. accepted_stack_env(su) = Overlay(accepted_stack_env(st), Delta[Table[c]])
  BY <1>6, <1>7, <1>8, OneOnTop
<1> QED BY <1>5, <1>9

\* What was measured of such a variant, AUTO resolved, is the stack it becomes part of.
LEMMA SettledOnTop ==
  ASSUME NEW st, NEW su, NEW v \in Variants, NEW e,
         accepted_stack_env(su) = Overlay(accepted_stack_env(st), Delta[v]),
         e = Overlay(accepted_stack_env(st), Resolved(v)), \A k \in Keys : e[k] # "AUTO"
  PROVE  e = Settled(su)
<1>1. ASSUME NEW k \in Keys
      PROVE  e[k] = IF accepted_stack_env(su)[k] = "AUTO" THEN AutoValue
                    ELSE accepted_stack_env(su)[k]
  <2>1. e[k] = IF k \in DOMAIN Delta[v]
               THEN IF Delta[v][k] = "AUTO" THEN AutoValue ELSE Delta[v][k]
               ELSE accepted_stack_env(st)[k]
    BY DEF Overlay, Resolved
  <2>2. accepted_stack_env(su)[k] = IF k \in DOMAIN Delta[v] THEN Delta[v][k]
                                    ELSE accepted_stack_env(st)[k]
    BY DEF Overlay
  <2> QED BY <2>1, <2>2
<1> QED BY <1>1 DEF Settled, Overlay

\* A step that leaves the variants under and out of test alone.
LEMMA StackRests ==
  ASSUME StackInv, UNCHANGED <<status, files, baseline, plan, latest>>,
         pc' # "off" => pc # "off", MeasuresStack'
  PROVE  StackInv'
BY DEF StackInv, LatestMeasured, BaselineIsLatest

\* The variant under test is settled, or left open, without joining the stack.
LEMMA StackLeftAlone ==
  ASSUME TypeOK, Present, StackInv, pc \in Trying,
         NEW s \in {"failed", "undecided", "backed_out"},
         status' = [status EXCEPT ![cur] = s], pc' \in {"next", "summary"},
         UNCHANGED <<plan, baseline, files, latest>>
  PROVE  StackInv'
<1>1. cur \in Variants /\ status[cur] = "running" /\ pc # "off" /\ plan \in Seq(Variants)
  BY SweepAssumption DEF Present, StackInv, MeasuresStack, Trying
<1>2. \A v \in Variants : status'[v] = "accepted" <=> status[v] = "accepted"
  BY <1>1 DEF TypeOK
<1>3. /\ Settled(status') = Settled(status)
      /\ \A p \in Seq(Variants) : LastOf(status', p) = LastOf(status, p)
  BY <1>2, SameAccepted
<1>4. LatestMeasured'
  BY <1>2, <1>3, SweepAssumption DEF StackInv, LatestMeasured
<1>5. BaselineIsLatest'
  BY <1>1, <1>3 DEF StackInv, BaselineIsLatest
<1>6. MeasuresStack'
  BY DEF MeasuresStack, Trying
<1> QED BY <1>4, <1>5, <1>6 DEF StackInv

\* The variant under test joins the stack.
LEMMA StackGrows ==
  ASSUME TypeOK, Present, StackInv, pc \in {"collect", "judge"},
         status' = [status EXCEPT ![cur] = "accepted"],
         pc' = "next", baseline' = cur, wrote => files'[cur].env = env,
         latest' = (IF wrote THEN cur ELSE NoVariant)
  PROVE  StackInv'
<1>1. /\ cur \in Variants /\ status[cur] = "running"
      /\ env = Overlay(accepted_stack_env(status), Resolved(cur))
      /\ \A k \in Keys : env[k] # "AUTO"
  BY DEF Present, StackInv, MeasuresStack, Trying
<1>2. status'[cur] = "accepted"
  BY <1>1 DEF TypeOK
<1>3. ASSUME wrote, cur = LastOf(status', Table)
      PROVE  files'[cur].env = Settled(status')
  <2>1. PICK st : st = status
    OBVIOUS
  <2>2. PICK su : su = status'
    OBVIOUS
  <2>3. PICK v \in Variants : v = cur
    BY <1>1
  <2>4. PICK e : e = env
    OBVIOUS
  <2>5. /\ su[v] = "accepted" /\ st[v] # "accepted"
        /\ \A w \in Variants \ {v} : su[w] = st[w]
    BY <1>1, <1>2, <2>1, <2>2, <2>3 DEF TypeOK
  <2>6. v = LastOf(su, Table)
    BY <1>3, <2>2, <2>3
  <2>7. accepted_stack_env(su) = Overlay(accepted_stack_env(st), Delta[v])
    BY <2>5, <2>6, LastOnTop
  <2>8. e = Overlay(accepted_stack_env(st), Resolved(v)) /\ \A k \in Keys : e[k] # "AUTO"
    BY <1>1, <2>1, <2>3, <2>4
  <2>9. e = Settled(su)
    BY <2>7, <2>8, SettledOnTop
  <2> QED BY <1>3, <2>2, <2>4, <2>9
<1>4. LatestMeasured'
  BY <1>1, <1>2, <1>3 DEF LatestMeasured
<1>5. BaselineIsLatest'
  BY DEF BaselineIsLatest
<1>6. MeasuresStack'
  BY DEF MeasuresStack, Trying
<1> QED BY <1>4, <1>5, <1>6 DEF StackInv

LEMMA StackTakeNext ==
  ASSUME TypeOK, Present, StackInv, TakeNext,
         latest' = (IF status[cur'] = "accepted" THEN NoVariant ELSE latest)
  PROVE  StackInv'
<1>1. /\ pc = "next" /\ pc' = "apply"
      /\ status' = [status EXCEPT ![cur'] = "running"]
      /\ env' = Overlay(accepted_stack_env(status'), Resolved(cur'))
      /\ UNCHANGED <<plan, baseline, files>>
      /\ \E i \in todo : cur' = plan[i]
  BY DEF TakeNext
<1>2. plan \in Seq(Variants) /\ cur' \in Variants
  BY <1>1, SweepAssumption DEF Present, TypeOK
<1>3. status'[cur'] = "running" /\ \A v \in Variants \ {cur'} : status'[v] = status[v]
  BY <1>1, <1>2 DEF TypeOK
<1>4. MeasuresStack'
  BY <1>1, <1>3 DEF MeasuresStack, Trying
<1>5. CASE status[cur'] = "accepted"
  BY <1>4, <1>5 DEF StackInv, LatestMeasured, BaselineIsLatest
<1>6. CASE status[cur'] # "accepted"
  <2>1. \A v \in Variants : status'[v] = "accepted" <=> status[v] = "accepted"
    BY <1>3, <1>6
  <2>2. /\ Settled(status') = Settled(status)
        /\ \A p \in Seq(Variants) : LastOf(status', p) = LastOf(status, p)
    BY <2>1, SameAccepted
  <2>3. LatestMeasured'
    BY <1>1, <1>6, <2>1, <2>2, SweepAssumption DEF StackInv, LatestMeasured
  <2>4. BaselineIsLatest'
    BY <1>1, <1>2, <1>6, <2>2 DEF StackInv, BaselineIsLatest
  <2> QED BY <1>4, <2>3, <2>4 DEF StackInv
<1> QED BY <1>5, <1>6

LEMMA StackCollect ==
  ASSUME TypeOK, Present, StackInv, Collect, UNCHANGED <<wrote, latest>>
  PROVE  StackInv'
<1>1. /\ pc = "collect" /\ pc' = "judge"
      /\ files' = [files EXCEPT ![cur] = produced]
      /\ UNCHANGED <<plan, cur, env, baseline, status, produced, spec>>
  BY DEF Collect
<1>2. cur \in Variants /\ status[cur] = "running"
  BY <1>1 DEF Present, StackInv, MeasuresStack, Trying
<1>3. files'[cur] = produced /\ \A v \in Variants \ {cur} : files'[v] = files[v]
  BY <1>1, <1>2 DEF TypeOK
<1>4. MeasuresStack'
  BY <1>1, <1>3 DEF StackInv, MeasuresStack, Trying
<1>5. LatestMeasured'
  BY <1>1, <1>2, <1>3 DEF StackInv, LatestMeasured
<1>6. BaselineIsLatest'
  BY <1>1 DEF StackInv, BaselineIsLatest
<1> QED BY <1>4, <1>5, <1>6 DEF StackInv

\* A session begins, or says why it does not.
LEMMA StackStart ==
  ASSUME StackInv, Starts, UNCHANGED <<wrote, latest>>
  PROVE  StackInv'
<1>1. UNCHANGED <<status, files>>
  BY DEF Starts, StartEmpty, StartRefused, Start, lastingVars
<1>2. LatestMeasured'
  BY <1>1 DEF StackInv, LatestMeasured
<1>3. pc' \notin Trying
  BY DEF Starts, StartEmpty, StartRefused, Start, Trying
<1>4. pc' = "off" \/ baseline' = LastOf(status', plan')
  BY <1>1 DEF Starts, StartEmpty, StartRefused, Start, LastAccepted, LastOf
<1>5. BaselineIsLatest'
  BY <1>4 DEF BaselineIsLatest
<1>6. MeasuresStack'
  BY <1>3 DEF MeasuresStack, Trying
<1> QED BY <1>2, <1>5, <1>6 DEF StackInv

LEMMA StackStep ==
  ASSUME TypeOK, Present, StackInv, [NextH]_varsH
  PROVE  StackInv'
<1>0. MeasuresStack
  BY DEF StackInv
<1>1. CASE Starts /\ UNCHANGED <<wrote, latest>>
  BY <1>1, StackStart
<1>2. CASE TakeNext /\ latest' = (IF status[cur'] = "accepted" THEN NoVariant ELSE latest)
  BY <1>2, StackTakeNext
<1>3. CASE (Refused \/ RolloutTimesOut \/ NoResults) /\ UNCHANGED latest
  <2>1. pc \in Trying /\ Abandon("failed") /\ UNCHANGED <<plan, baseline, files, latest>>
    BY <1>3 DEF Refused, RolloutTimesOut, NoResults, Trying
  <2> QED BY <2>1, StackLeftAlone DEF Abandon
<1>4. CASE Apply /\ UNCHANGED <<wrote, latest>>
  BY <1>0, <1>4, StackRests DEF Apply, MeasuresStack, Trying
<1>5. CASE RolloutReady /\ UNCHANGED <<wrote, latest>>
  BY <1>0, <1>5, StackRests DEF RolloutReady, MeasuresStack, Trying, lastingVars
<1>6. CASE (\E g \in DOMAIN Grids : Bench(g)) /\ UNCHANGED latest
  BY <1>0, <1>6, StackRests DEF Bench, MeasuresStack, Trying
<1>7. CASE BenchSilent /\ wrote' = FALSE /\ UNCHANGED latest
  BY <1>0, <1>7, StackRests DEF BenchSilent, MeasuresStack, Trying, lastingVars
<1>8. CASE Adopt /\ latest' = (IF status'[cur] # "accepted" THEN latest
                               ELSE IF wrote THEN cur ELSE NoVariant)
  <2>1. cur \in Variants /\ pc = "collect"
    BY <1>8 DEF Adopt, Present, Trying
  <2>2. files'[cur] = produced /\ status'[cur] = "accepted"
    BY <1>8, <2>1 DEF Adopt, TypeOK
  <2>3. wrote => files'[cur].env = env
    BY <1>0, <2>1, <2>2 DEF MeasuresStack
  <2> QED BY <1>8, <2>1, <2>2, <2>3, StackGrows DEF Adopt
<1>9. CASE Judge /\ latest' = (IF status'[cur] # "accepted" THEN latest
                               ELSE IF wrote THEN cur ELSE NoVariant)
  <2>1. pc = "judge" /\ pc \in Trying /\ cur \in Variants /\ UNCHANGED <<plan, cur, env, files>>
    BY <1>9 DEF Judge, Present, Trying
  <2>2. ASSUME NEW s \in {"undecided", "backed_out"}, status' = [status EXCEPT ![cur] = s],
               pc' \in {"next", "summary"}, UNCHANGED baseline
        PROVE  StackInv'
    <3>1. status'[cur] # "accepted"
      BY <2>1, <2>2 DEF TypeOK
    <3> QED BY <1>9, <2>1, <2>2, <3>1, StackLeftAlone
  <2>3. CASE /\ status' = [status EXCEPT ![cur] = "accepted"]
             /\ baseline' = cur /\ pc' = "next"
    <3>1. status'[cur] = "accepted"
      BY <2>1, <2>3 DEF TypeOK
    <3>2. wrote => files'[cur].env = env
      BY <1>0, <2>1 DEF MeasuresStack
    <3> QED BY <1>9, <2>1, <2>3, <3>1, <3>2, StackGrows
  <2> QED BY <1>9, <2>2, <2>3 DEF Judge, Abandon
<1>10. CASE Collect /\ UNCHANGED <<wrote, latest>>
  BY <1>10, StackCollect
<1>11. CASE LeaveLoop /\ UNCHANGED <<wrote, latest>>
  BY <1>0, <1>11, StackRests DEF LeaveLoop, MeasuresStack, Trying, lastingVars
<1>12. CASE (Finish \/ Crash) /\ UNCHANGED <<wrote, latest>>
  <2>1. pc' = "off" /\ UNCHANGED <<status, files>>
    BY <1>12 DEF Finish, Crash, SessionEnds, lastingVars
  <2> QED BY <1>12, <2>1 DEF StackInv, LatestMeasured, BaselineIsLatest, MeasuresStack, Trying
<1>13. CASE Interrupt /\ UNCHANGED <<wrote, latest>>
  BY <1>0, <1>13, StackRests DEF Interrupt, MeasuresStack, Trying, lastingVars
<1>14. CASE UNCHANGED varsH
  BY <1>0, <1>14, StackRests DEF varsH, vars, sessionVars, lastingVars, MeasuresStack
<1> QED BY <1>1, <1>2, <1>3, <1>4, <1>5, <1>6, <1>7, <1>8, <1>9, <1>10, <1>11, <1>12, <1>13,
           <1>14 DEF NextH

\* BaselineIsStack, for every table (with AUTO values or without), every plan and option,
\* benchmarks that may leave the previous file in place, and any number of interrupts,
\* kills, resumptions and runs with --no-resume.
THEOREM BaselineIsStackHolds == SpecH => []BaselineIsStack
<1>1. InitH => StackInv
  BY DEF InitH, Init, StackInv, MeasuresStack, LatestMeasured, BaselineIsLatest, Trying
<1>2. TypeOK /\ Present /\ StackInv /\ [NextH]_varsH => StackInv'
  BY StackStep
<1>3. TypeOK /\ StackInv => BaselineIsStack
  <2>1. LastAccepted(Table) = LastOf(status, Table) /\ LastAccepted(plan) = LastOf(status, plan)
    BY DEF LastAccepted, LastOf
  <2>2. DeployedStack = Settled(status)
    BY DEF DeployedStack, Settled
  <2> QED BY <2>1, <2>2 DEF StackInv, LatestMeasured, BaselineIsLatest, BaselineIsStack
<1> QED BY <1>1, <1>2, <1>3, SweepTyped, HistoryIsSilent, PTL DEF SpecH
=============================================================================
