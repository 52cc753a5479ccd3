------------------------------- MODULE GnbProofs -------------------------------
(***************************************************************************)
(* Theorems about the gNB command, for every command line and config file, *)
(* every size of the CSV records, of the buffer and of the disk.           *)
(***************************************************************************)
EXTENDS GnbClient, TLAPS, FiniteSetTheorems

-------------------------------------------------------------------------------
(* Arithmetic *)

LEMMA DivBounds ==
  ASSUME NEW a \in Nat, NEW b \in Nat \ {0}
  PROVE  /\ a \div b \in Nat
         /\ (a \div b) * b <= a
         /\ a < (a \div b) * b + b
  BY SMT

(***************************************************************************)
(* The index of every percentile is within the samples (metrics.go:128):   *)
(* the two clamps of the code never change it.                             *)
(***************************************************************************)
THEOREM IndexInRange ==
  ASSUME NEW n \in Nat \ {0}, NEW p \in 0 .. 100
  PROVE  Idx(n, p) = ((n - 1) * p) \div 100 /\ Idx(n, p) \in 0 .. n - 1
<1> DEFINE i == ((n - 1) * p) \div 100
<1>1. (n - 1) * p \in Nat /\ (n - 1) * p <= (n - 1) * 100
  BY SMT
<1>2. i \in Nat /\ i * 100 <= (n - 1) * p
  BY <1>1, DivBounds
<1>3. i <= n - 1
  BY <1>1, <1>2, SMT
<1> QED
  BY <1>2, <1>3 DEF Idx

LEMMA FloorBounds ==
  ASSUME NEW a \in Int, NEW b \in Nat \ {0}
  PROVE  /\ a \div b \in Int
         /\ (a \div b) * b <= a
         /\ a < (a \div b) * b + b
  BY SMT

LEMMA PpsPerWorkerIsPositive ==
  ASSUME NEW pps \in Int, NEW workers \in Nat \ {0}
  PROVE  PpsPerWorker(pps, workers) \in Nat \ {0}
  BY FloorBounds DEF PpsPerWorker

\* A ticker fires a whole number of times.
LEMMA TicksAreNat ==
  ASSUME NEW D \in Nat, NEW k \in Nat \ {0}
  PROVE  Ticks(D, k) \in Nat
<1> DEFINE q == Interval(k)
<1>1. q \in Nat \ {0}
  BY FloorBounds DEF Interval, Microsecond, Second
<1> HIDE DEF q
<1>2. Second \div q \in Nat /\ Second % q \in Nat
  BY <1>1 DEF Second
<1>3. D * (Second \div q) \in Nat /\ D * (Second % q) \in Nat
  BY <1>2, SMT
<1>4. (D * (Second % q)) \div q \in Nat
  BY <1>1, <1>3, DivBounds
<1> QED
  BY <1>3, <1>4 DEF Ticks, q

(***************************************************************************)
(* The ticks of a run fit into its time: their number times the period is  *)
(* not more than the duration.                                             *)
(***************************************************************************)
LEMMA TicksFit ==
  ASSUME NEW D \in Nat, NEW k \in Nat \ {0}, Second \div k > 0
  PROVE  Ticks(D, k) * (Second \div k) <= D * Second
<1> DEFINE q == Second \div k
           a == Second \div q
           r == Second % q
           b == (D * r) \div q
<1>1. q \in Nat \ {0} /\ Interval(k) = q
  BY FloorBounds DEF Interval, Second
<1>2. Ticks(D, k) = D * a + b
  BY <1>1 DEF Ticks
<1> HIDE DEF q
<1>3. a \in Nat /\ r \in Nat /\ Second = q * a + r
  BY <1>1 DEF Second
<1> HIDE DEF a, r
<1>4. D * r \in Nat
  BY <1>3, SMT
<1>5. b \in Nat /\ b * q <= D * r
  BY <1>1, <1>4, DivBounds
<1> HIDE DEF b
<1>6. (D * a + b) * q = D * (q * a) + b * q
  BY <1>1, <1>3, <1>5, SMT
<1>7. D * Second = D * (q * a) + D * r
  BY <1>1, <1>3, SMT
<1>8. D * (q * a) \in Nat /\ b * q \in Nat
  BY <1>1, <1>3, <1>5, SMT
<1> QED
  BY <1>2, <1>4, <1>5, <1>6, <1>7, <1>8 DEF q

(***************************************************************************)
(* By how much the truncated period of one ticker (load.go:50) exceeds its *)
(* rate: at most one tick for every so many as the period has nanoseconds. *)
(***************************************************************************)
LEMMA TickerExcess ==
  ASSUME NEW D \in Nat, NEW k \in Nat \ {0}
  PROVE  (Ticks(D, k) - D * k) * (Second \div k) <= D * k
<1> DEFINE q == Second \div k
           T == Ticks(D, k)
<1>1. q \in Nat /\ T \in Nat /\ D * k \in Nat
  <2>1. q \in Nat
    BY DivBounds DEF Second
  <2>2. D * k \in Nat
    BY SMT
  <2> QED BY <2>1, <2>2, TicksAreNat
<1>2. CASE q = 0
  <2>1. (T - D * k) * 0 = 0
    BY <1>1, SMT
  <2> HIDE DEF q, T
  <2>2. (T - D * k) * q <= D * k
    BY <1>1, <1>2, <2>1
  <2> QED BY <2>2 DEF q, T
<1>3. CASE q # 0
  <2>1. T * q <= D * Second
    BY <1>1, <1>3, TicksFit
  <2>2. Second < q * k + k /\ Second \in Nat
    BY DivBounds DEF Second
  <2> HIDE DEF q, T
  <2>3. q * k \in Nat
    BY <1>1, SMT
  <2>4. D * Second <= D * (q * k + k)
    BY <2>2, <2>3, SMT
  <2>5. D * (q * k + k) = (D * k) * q + D * k
    BY <1>1, SMT
  <2>6. (T - D * k) * q = T * q - (D * k) * q
    BY <1>1, SMT
  <2>7. T * q \in Nat /\ (D * k) * q \in Nat /\ D * Second \in Nat
    BY <1>1, <2>2, SMT
  <2>8. T * q <= (D * k) * q + D * k
    BY <2>1, <2>4, <2>5, <2>7, <1>1
  <2> QED BY <1>1, <2>6, <2>7, <2>8 DEF q, T
<1> QED BY <1>1, <1>2, <1>3

(***************************************************************************)
(* What the tickers of all workers together allow (load.go:47-55), for     *)
(* every rate, number of workers and duration: with more workers than      *)
(* --pps it is one frame per worker and second, so --pps is not kept; and  *)
(* a rate that can be divided is exceeded by no more than the truncation   *)
(* of the period accounts for.                                             *)
(***************************************************************************)
THEOREM TickersKeepPPS ==
  ASSUME NEW pps \in Int, NEW workers \in Nat \ {0}, NEW D \in Nat,
         NEW most, most = (IF pps > workers THEN pps ELSE workers) * D
  PROVE  /\ Offered(pps, workers, D) \in Nat
         /\ pps < workers => Offered(pps, workers, D) = workers * D
         /\ (Offered(pps, workers, D) - most)
              * (Second \div PpsPerWorker(pps, workers)) <= most
<1> DEFINE k == PpsPerWorker(pps, workers)
           d == pps \div workers
           w == workers
           T == Ticks(D, k)
           q == Second \div k
           larger == IF pps > w THEN pps ELSE w
<1>1. k \in Nat \ {0}
  BY PpsPerWorkerIsPositive
<1>2. d \in Int /\ d * w <= pps /\ pps < d * w + w
  BY FloorBounds
<1>3. Offered(pps, w, D) = w * T
  BY DEF Offered
<1>4. k = IF d > 1 THEN d ELSE 1
  BY DEF PpsPerWorker
<1> HIDE DEF k, d
<1>5. T \in Nat /\ q \in Nat
  BY <1>1, TicksAreNat, DivBounds DEF Second
<1>6. (T - D * k) * q <= D * k
  BY <1>1, TickerExcess
<1>7. ASSUME pps < w PROVE w * T = w * D
  <2>1. d < 1
    <3> SUFFICES ASSUME d >= 1 PROVE FALSE
      BY <1>2
    <3>1. d * w >= w
      BY <1>2, SMT
    <3> QED
      BY <1>2, <1>7, <3>1, SMT
  <2>2. k = 1
    BY <1>2, <1>4, <2>1
  <2>3. Ticks(D, 1) = D
    BY DEF Ticks, Interval, Second
  <2> QED
    BY <2>2, <2>3
<1>8. larger \in Nat /\ w * k <= larger
  <2>1. CASE d > 1
    <3>1. w * k = d * w /\ d * w \in Nat
      BY <1>2, <1>4, <2>1, SMT
    <3> QED
      BY <1>2, <3>1
  <2>2. CASE ~(d > 1)
    BY <1>4, <2>2
  <2> QED
    BY <2>1, <2>2
<1> HIDE DEF larger, T, q
<1> DEFINE asked == (w * k) * D
<1>9. asked \in Nat /\ most \in Nat /\ asked <= most
  <2>1. w * k \in Nat /\ most = larger * D
    BY <1>1, SMT DEF larger
  <2> QED
    BY <1>8, <2>1, SMT
<1>10. (w * T - asked) * q <= asked
  <2> DEFINE e == T - D * k
  <2>1. D * k \in Nat /\ e \in Int /\ e * q \in Int
    BY <1>1, <1>5, SMT
  <2>2. w * T - asked = w * e /\ asked = w * (D * k)
    BY <1>1, <1>5, SMT
  <2>3. e * q <= D * k
    BY <1>6
  <2> HIDE DEF e, asked
  <2>4. w * (e * q) <= w * (D * k)
    BY <2>1, <2>3, SMT
  <2>5. (w * e) * q = w * (e * q)
    BY <1>5, <2>1, SMT
  <2> QED
    BY <2>2, <2>4, <2>5
<1> HIDE DEF asked
<1>11. w * T \in Nat
  BY <1>5, SMT
<1>12. (w * T - most) * q <= most
  <2>1. w * T - most <= w * T - asked
    BY <1>9, <1>11
  <2>2. (w * T - most) * q <= (w * T - asked) * q
    BY <1>5, <1>9, <1>11, <2>1, SMT
  <2>3. (w * T - most) * q \in Int /\ (w * T - asked) * q \in Int
    BY <1>5, <1>9, <1>11, SMT
  <2> QED
    BY <1>9, <1>10, <2>2, <2>3
<1> QED
  BY <1>3, <1>7, <1>11, <1>12 DEF q, k

-------------------------------------------------------------------------------
(* The rows of a run *)

\* The values that a percentile can have.
Quantiles == {Percentile(samples, p) : samples \in Seq(Nat), p \in {50, 95, 99}}

Rows == [target : Int, tx : Nat,
         p50 : Quantiles, p95 : Quantiles, p99 : Quantiles]

\* What the steps of Run keep, whatever the properties below are about.
RunInv ==
  /\ input \in Inputs
  /\ set \in Settings
  /\ rows \in Seq(Rows)
  /\ pc \in {"args", "template", "dispatch"} => rows = << >>

\* Every row has a number of frames that its tickers allow.
RowsSendable == \A i \in 1 .. Len(rows) : rows[i].tx \in 0 .. Most(rows[i].target)

LEMMA SettingsTyped ==
  ASSUME set \in Settings
  PROVE  /\ set.workers \in Int /\ set.pps \in Int
         /\ set.stepCount \in Int /\ set.stepStart \in Int
         /\ set.basePPS \in Int /\ set.stepInc \in Int
         /\ set.stepPPS \in Int
         /\ Workers \in Nat \ {0}
         /\ Steps \in Nat \ {0}
         /\ StartPPS \in Nat \ {0}
         /\ Increment \in Nat \ {0}
  BY DEF Settings, Workers, Steps, StartPPS, Increment, AtLeastOne

LEMMA SendableIsNat ==
  ASSUME set \in Settings, NEW pps \in Int
  PROVE  Most(pps) \in Nat /\ Sendable(pps) \subseteq 0 .. Most(pps)
<1>1. Seconds \in Nat
  BY DEF Seconds, Settings
<1>2. Offered(pps, Workers, Seconds) \in Nat
  BY <1>1, SettingsTyped, TickersKeepPPS
<1>3. Most(pps) \in Nat
  BY <1>2, SizesAssumption DEF Most
<1> QED
  BY <1>3 DEF Sendable

\* Samples are sequences of natural numbers.
LEMMA SamplesTyped ==
  ASSUME NEW s \in SampleSets \cup {<< >>}
  PROVE  s \in Seq(Nat)
<1>1. << >> \in Seq(Nat)
  OBVIOUS
<1> QED BY <1>1, SizesAssumption

LEMMA SnapshotIsRow ==
  ASSUME NEW pps \in Int, NEW tx \in Nat, NEW samples \in Seq(Nat)
  PROVE  /\ Snapshot(pps, tx, samples) \in Rows
         /\ Snapshot(pps, tx, samples).target = pps
         /\ Snapshot(pps, tx, samples).tx = tx
<1>1. \A p \in {50, 95, 99} : Percentile(samples, p) \in Quantiles
  BY DEF Quantiles
<1> QED
  BY <1>1 DEF Snapshot, Rows

\* An interval row has no more frames than the final one.
LEMMA InterimIsRow ==
  ASSUME NEW pps \in Int, NEW samples \in Seq(Nat), NEW got \in 0 .. Len(samples)
  PROVE  /\ Interim(pps, samples, got) \in Rows
         /\ Interim(pps, samples, got).target = pps
         /\ Interim(pps, samples, got).tx = got
<1> DEFINE part == SubSeq(samples, 1, got)
<1>1. got \in Nat
  OBVIOUS
<1>2. part \in Seq(Nat)
  BY SMTT(60)
<1>3. Interim(pps, samples, got) = Snapshot(pps, got, part)
  BY DEF Interim
<1> HIDE DEF part
<1> QED BY <1>1, <1>2, <1>3, SnapshotIsRow

LEMMA AppendIsSeq ==
  ASSUME NEW S, NEW s \in Seq(S), NEW e \in S
  PROVE  /\ Append(s, e) \in Seq(S)
         /\ Len(Append(s, e)) = Len(s) + 1
         /\ \A i \in 1 .. Len(s) : Append(s, e)[i] = s[i]
         /\ Append(s, e)[Len(s) + 1] = e
  OBVIOUS

\* A run leaves its samples, and a last row that was made of them.
FinalRowOf(pps) ==
  \E tx \in Nat, samples \in SampleSets :
    /\ latencyUS' = samples
    /\ rows' # << >>
    /\ rows'[Len(rows')] = Snapshot(pps, tx, samples)

\* The rows of a single run are those of its intervals, then the final one.
LEMMA SingleRunRows ==
  ASSUME RunInv, SingleRun
  PROVE  /\ rows' \in Seq(Rows)
         /\ \A i \in 1 .. Len(rows') :
              rows'[i].target = set.pps /\ rows'[i].tx \in 0 .. Most(set.pps)
         /\ FinalRowOf(set.pps)
<1>1. PICK tx \in Sendable(set.pps), samples \in SampleSets, n \in 0 .. MaxRows :
        /\ Len(samples) <= tx
        /\ latencyUS' = samples
        /\ \E got \in Progress(samples, n) :
             rows' = Append([i \in 1 .. n |-> Interim(set.pps, samples, got[i])],
                            Snapshot(set.pps, tx, samples))
  BY DEF SingleRun, RunEnds
<1>2. PICK got \in Progress(samples, n) :
        rows' = Append([i \in 1 .. n |-> Interim(set.pps, samples, got[i])],
                       Snapshot(set.pps, tx, samples))
  BY <1>1
<1> DEFINE final == Snapshot(set.pps, tx, samples)
           before == [i \in 1 .. n |-> Interim(set.pps, samples, got[i])]
<1>3. /\ set.pps \in Int /\ tx \in Nat /\ tx \in 0 .. Most(set.pps)
      /\ n \in Nat /\ samples \in Seq(Nat) /\ Most(set.pps) \in Nat
  <2>1. set \in Settings /\ set.pps \in Int
    BY SettingsTyped DEF RunInv
  <2>2. Most(set.pps) \in Nat /\ tx \in 0 .. Most(set.pps)
    BY <2>1, SendableIsNat
  <2>3. n \in Nat
    BY SizesAssumption
  <2>4. samples \in Seq(Nat)
    BY SamplesTyped
  <2> QED BY <2>1, <2>2, <2>3, <2>4
<1>4. \A i \in 1 .. n : got[i] \in 0 .. Len(samples)
  <2> DEFINE len == Len(samples)
             half == len \div 2
  <2>1. got \in [1 .. n -> {0, half, len}]
    BY DEF Progress
  <2>2. len \in Nat
    BY <1>3
  <2> HIDE DEF len
  <2>3. half \in 0 .. len
    BY <2>2
  <2> HIDE DEF half
  <2> QED BY <2>1, <2>2, <2>3 DEF len
<1>5. final \in Rows /\ final.target = set.pps /\ final.tx = tx
  BY <1>3, SnapshotIsRow
<1>6. \A i \in 1 .. n : /\ before[i] \in Rows
                        /\ before[i].target = set.pps
                        /\ before[i].tx \in 0 .. Most(set.pps)
  <2> SUFFICES ASSUME NEW i \in 1 .. n
               PROVE  /\ before[i] \in Rows
                      /\ before[i].target = set.pps
                      /\ before[i].tx \in 0 .. Most(set.pps)
    OBVIOUS
  <2>1. /\ Interim(set.pps, samples, got[i]) \in Rows
        /\ Interim(set.pps, samples, got[i]).target = set.pps
        /\ Interim(set.pps, samples, got[i]).tx = got[i]
    BY <1>3, <1>4, InterimIsRow
  <2>2. got[i] \in 0 .. Most(set.pps)
    BY <1>1, <1>3, <1>4
  <2> QED BY <2>1, <2>2
<1> HIDE DEF final
<1>7. rows' = Append(before, final)
  BY <1>2 DEF final
<1>8. before \in Seq(Rows) /\ Len(before) = n
  BY <1>3, <1>6
<1> HIDE DEF before
<1>9. /\ rows' \in Seq(Rows) /\ Len(rows') = n + 1 /\ rows'[n + 1] = final
      /\ \A i \in 1 .. n : rows'[i] = before[i]
  BY <1>5, <1>7, <1>8, AppendIsSeq
<1>10. ASSUME NEW i \in 1 .. Len(rows')
       PROVE  rows'[i].target = set.pps /\ rows'[i].tx \in 0 .. Most(set.pps)
  <2>1. CASE i \in 1 .. n
    BY <1>6, <1>9, <2>1
  <2>2. CASE i = n + 1
    BY <1>3, <1>5, <1>9, <2>2
  <2> QED BY <1>3, <1>9, <2>1, <2>2
<1>11. FinalRowOf(set.pps)
  BY <1>1, <1>3, <1>9 DEF FinalRowOf, final
<1> QED BY <1>9, <1>10, <1>11

\* A step of a sweep adds one row, with the next target.
LEMMA SweepStepRow ==
  ASSUME RunInv, SweepStep
  PROVE  /\ rows' \in Seq(Rows)
         /\ Len(rows') = Len(rows) + 1
         /\ \A i \in 1 .. Len(rows) : rows'[i] = rows[i]
         /\ rows'[Len(rows) + 1].target = StartPPS + Len(rows) * Increment
         /\ rows'[Len(rows) + 1].tx \in
              0 .. Most(StartPPS + Len(rows) * Increment)
         /\ FinalRowOf(StartPPS + Len(rows) * Increment)
<1> DEFINE pps == StartPPS + Len(rows) * Increment
<1>1. PICK tx \in Sendable(pps), samples \in SampleSets :
        latencyUS' = samples /\ rows' = Append(rows, Snapshot(pps, tx, samples))
  BY DEF SweepStep, RunEnds
<1>2. Len(rows) \in Nat /\ pps \in Int
  BY SettingsTyped, SMT DEF RunInv
<1> HIDE DEF pps
<1>3. tx \in Nat /\ tx \in 0 .. Most(pps)
  BY <1>2, SendableIsNat DEF RunInv
<1>4. /\ Snapshot(pps, tx, samples) \in Rows
      /\ Snapshot(pps, tx, samples).target = pps
      /\ Snapshot(pps, tx, samples).tx = tx
  BY <1>2, <1>3, SamplesTyped, SnapshotIsRow
<1>5. /\ rows' \in Seq(Rows) /\ Len(rows') = Len(rows) + 1
      /\ \A i \in 1 .. Len(rows) : rows'[i] = rows[i]
      /\ rows'[Len(rows) + 1] = Snapshot(pps, tx, samples)
  BY <1>1, <1>4, AppendIsSeq DEF RunInv
<1>6. FinalRowOf(pps)
  BY <1>1, <1>2, <1>3, <1>5 DEF FinalRowOf
<1> QED
  BY <1>3, <1>4, <1>5, <1>6 DEF pps

LEMMA RunInvariant == Spec => []RunInv
<1>1. Init => RunInv
  <2> SUFFICES ASSUME Init PROVE RunInv
    OBVIOUS
  <2>1. Defaults \in Settings
    BY DEF Defaults, Settings
  <2>2. /\ input \in Inputs /\ set = Defaults /\ rows = << >>
    BY DEF Init
  <2>3. rows \in Seq(Rows)
    BY <2>2
  <2> QED
    BY <2>1, <2>2, <2>3 DEF RunInv
<1>2. RunInv /\ [Next]_vars => RunInv'
  <2> SUFFICES ASSUME RunInv, [Next]_vars PROVE RunInv'
    OBVIOUS
  <2>1. CASE ParseArgs
    <3>1. set' \in Settings
      BY <2>1, InputsAssumption DEF ParseArgs, RunInv
    <3> QED
      BY <2>1, <3>1 DEF ParseArgs, RunInv, GoOn, Fail
  <2>2. CASE SingleRun
    BY <2>2, SingleRunRows DEF SingleRun, RunInv, GoOn
  <2>3. CASE SweepStep
    BY <2>3, SweepStepRow DEF SweepStep, RunInv
  <2>4. CASE LoadTemplate
    BY <2>4 DEF LoadTemplate, RunInv, GoOn, Fail
  <2>5. CASE Dispatch
    BY <2>5 DEF Dispatch, RunInv, GoOn, Fail
  <2>6. CASE SweepEnds
    BY <2>6 DEF SweepEnds, RunInv, GoOn
  <2>7. CASE Create
    BY <2>7 DEF Create, RunInv, GoOn, Fail
  <2>8. CASE WriteRecord
    BY <2>8 DEF WriteRecord, AfterWrite, RunInv, GoOn, Fail
  <2>9. CASE Flush
    BY <2>9 DEF Flush, RunInv, GoOn
  <2>10. CASE Summary
    BY <2>10 DEF Summary, RunInv
  <2>11. CASE Signal
    BY <2>11 DEF Signal, RunInv
  <2>12. CASE UNCHANGED vars
    BY <2>12 DEF RunInv, vars
  <2> QED
    BY <2>1, <2>2, <2>3, <2>4, <2>5, <2>6, <2>7, <2>8, <2>9, <2>10, <2>11, <2>12
    DEF Next, Run
<1> QED
  BY <1>1, <1>2, PTL DEF Spec

-------------------------------------------------------------------------------
(* The rate of the workers *)

LEMMA RowsStaySendable ==
  ASSUME RunInv, RowsSendable, [Next]_vars
  PROVE  RowsSendable'
<1>1. CASE ParseArgs
  <2>1. rows' = << >>
    BY <1>1 DEF ParseArgs, RunInv
  <2> QED
    BY <2>1 DEF RowsSendable
<1>2. ASSUME set' = set, NEW target
      PROVE  Most(target)' = Most(target)
  BY <1>2 DEF Most, Ticking, Workers, Seconds
<1>3. CASE SingleRun
  <2>1. set' = set
    BY <1>3 DEF SingleRun
  <2>2. \A i \in 1 .. Len(rows') : rows'[i].tx \in 0 .. Most(rows'[i].target)
    BY <1>3, SingleRunRows
  <2> QED
    BY <2>1, <2>2 DEF RowsSendable, Most, Ticking, Workers, Seconds
<1>4. CASE SweepStep
  <2>1. set' = set /\ Len(rows) \in Nat
    BY <1>4 DEF SweepStep, RunInv
  <2>2. SUFFICES ASSUME NEW i \in 1 .. Len(rows')
                 PROVE  rows'[i].tx \in 0 .. Most(rows'[i].target)
    BY <2>1 DEF RowsSendable, Most, Ticking, Workers, Seconds
  <2>3. CASE i \in 1 .. Len(rows)
    BY <1>4, <2>3, SweepStepRow DEF RowsSendable
  <2>4. CASE i = Len(rows) + 1
    BY <1>4, <2>4, SweepStepRow
  <2> QED
    BY <1>4, <2>1, <2>3, <2>4, SweepStepRow
<1>5. ASSUME set' = set, rows' = rows PROVE RowsSendable'
  BY <1>5 DEF RowsSendable, Most, Ticking, Workers, Seconds
<1>6. CASE LoadTemplate \/ Dispatch \/ SweepEnds
  BY <1>5, <1>6 DEF LoadTemplate, Dispatch, SweepEnds
<1>7. CASE Create \/ WriteRecord \/ Flush \/ Summary
  BY <1>5, <1>7 DEF Create, WriteRecord, Flush, Summary
<1>8. CASE Signal \/ UNCHANGED vars
  BY <1>5, <1>8 DEF Signal, vars
<1> QED
  BY <1>1, <1>3, <1>4, <1>6, <1>7, <1>8 DEF Next, Run

(***************************************************************************)
(* No row has more frames than --pps or one per worker and second, by more *)
(* than the truncated period accounts for (load.go:47-55), whatever the    *)
(* settings are.                                                           *)
(***************************************************************************)
THEOREM RateKept == Spec => []PacedRate
<1>1. Init => RowsSendable
  BY DEF Init, RowsSendable
<1>2. RunInv /\ RowsSendable => PacedRate
  <2> SUFFICES ASSUME RunInv, RowsSendable, NEW i \in 1 .. Len(rows),
                      Ticking(rows[i].target),
                      rows[i].tx - Target(rows[i].target) > 0
               PROVE  (rows[i].tx - Target(rows[i].target))
                        * (Second \div PpsPerWorker(rows[i].target, Workers))
                      <= Target(rows[i].target)
    BY DEF PacedRate
  <2> DEFINE pps == rows[i].target
             tx == rows[i].tx
             most == Target(pps)
             offered == Offered(pps, Workers, Seconds)
             q == Second \div PpsPerWorker(pps, Workers)
  <2>1. pps \in Int /\ tx \in Nat /\ Workers \in Nat \ {0} /\ Seconds \in Nat
    <3>1. rows[i] \in Rows
      BY DEF RunInv
    <3>2. Seconds \in Nat
      BY DEF Seconds, Settings, RunInv
    <3> QED
      BY <3>1, <3>2, SettingsTyped DEF RunInv, Rows
  <2>2. tx \in 0 .. offered
    BY DEF RowsSendable, Most
  <2> HIDE DEF pps, tx
  <2>3. most = (IF pps > Workers THEN pps ELSE Workers) * Seconds
    BY DEF Target
  <2>4. offered \in Nat /\ (offered - most) * q <= most
    BY <2>1, <2>3, TickersKeepPPS, Zenon
  <2>5. q \in Nat
    <3>1. PpsPerWorker(pps, Workers) \in Nat \ {0}
      BY <2>1, PpsPerWorkerIsPositive, Zenon
    <3>2. Second \in Nat
      BY DEF Second
    <3> QED BY <3>1, <3>2, DivBounds, Zenon
  <2>6. most \in Int
    BY <2>1, <2>3, SMT
  <2> HIDE DEF most, offered, q
  <2>7. (tx - most) * q <= (offered - most) * q
    BY <2>1, <2>2, <2>4, <2>5, <2>6, SMT
  <2>8. (tx - most) * q \in Int /\ (offered - most) * q \in Int
    BY <2>1, <2>4, <2>5, <2>6, SMT
  <2> QED
    BY <2>4, <2>6, <2>7, <2>8 DEF pps, tx, most, q
<1> QED
  BY <1>1, <1>2, RunInvariant, RowsStaySendable, PTL DEF Spec

-------------------------------------------------------------------------------
(* The sweep *)

\* How far the sweep is, and which target each of its rows has.
SweepInv ==
  set.mode = "throughput" /\ pc # "args" =>
    /\ pc # "run"
    /\ pc = "sweep" => Len(rows) <= Steps
    /\ pc \in {"output", "csv", "summary"} => Len(rows) = Steps
    /\ \A i \in 1 .. Len(rows) : rows[i].target = StartPPS + (i - 1) * Increment

\* What SweepInv says does not depend on the rest of the state.
LEMMA SweepInvStable ==
  ASSUME SweepInv, set' = set, rows' = rows, pc # "args",
         pc' \in {pc, "ended"} \/ {pc, pc'} \subseteq {"output", "csv", "summary"}
  PROVE  SweepInv'
  BY DEF SweepInv, Steps, StartPPS, Increment, AtLeastOne

LEMMA SweepKeepsInv ==
  ASSUME RunInv, SweepInv, [Next]_vars
  PROVE  SweepInv'
<1>1. CASE ParseArgs
  BY <1>1 DEF ParseArgs, RunInv, SweepInv, GoOn, Fail
<1>2. CASE LoadTemplate
  BY <1>2 DEF LoadTemplate, RunInv, SweepInv, GoOn, Fail
<1>3. CASE Dispatch
  <2>1. rows = << >> /\ rows' = << >> /\ set' = set
    BY <1>3 DEF Dispatch, RunInv
  <2>2. set.mode = "throughput" => pc' \in {"sweep", "ended"}
    BY <1>3 DEF Dispatch, GoOn, Fail
  <2>3. Steps' = Steps /\ Steps \in Nat
    BY <2>1, SettingsTyped DEF RunInv, Steps
  <2> QED
    BY <2>1, <2>2, <2>3 DEF SweepInv
<1>4. CASE SingleRun
  <2>1. set' = set /\ set.mode # "throughput"
    BY <1>4 DEF SingleRun, SweepInv
  <2> QED
    BY <2>1 DEF SweepInv
<1>5. CASE SweepStep
  <2>1. /\ set' = set /\ pc = "sweep" /\ pc' = "sweep"
        /\ Len(rows) < Steps /\ Len(rows) \in Nat
    BY <1>5 DEF SweepStep, MoreSteps, RunInv
  <2>2. /\ Steps' = Steps /\ StartPPS' = StartPPS /\ Increment' = Increment
        /\ Steps \in Nat /\ StartPPS \in Nat /\ Increment \in Nat
    BY <2>1, SettingsTyped
    DEF RunInv, Steps, StartPPS, Increment, AtLeastOne
  <2> SUFFICES ASSUME set.mode = "throughput"
               PROVE  /\ Len(rows') <= Steps
                      /\ \A i \in 1 .. Len(rows') :
                           rows'[i].target = StartPPS + (i - 1) * Increment
    BY <2>1, <2>2 DEF SweepInv
  <2>3. Len(rows') <= Steps
    BY <1>5, <2>1, <2>2, SweepStepRow
  <2>4. ASSUME NEW i \in 1 .. Len(rows')
        PROVE  rows'[i].target = StartPPS + (i - 1) * Increment
    <3>1. CASE i \in 1 .. Len(rows)
      BY <1>5, <2>1, <3>1, SweepStepRow DEF SweepInv
    <3>2. CASE i = Len(rows) + 1
      BY <1>5, <2>1, <3>2, SweepStepRow
    <3> QED
      BY <1>5, <2>1, <3>1, <3>2, SweepStepRow
  <2> QED
    BY <2>3, <2>4
<1>6. CASE SweepEnds
  <2>1. /\ set' = set /\ rows' = rows /\ pc = "sweep" /\ pc' = "output"
        /\ ~(Len(rows) < Steps) /\ Len(rows) \in Nat
    BY <1>6 DEF SweepEnds, MoreSteps, GoOn, RunInv
  <2>2. /\ Steps' = Steps /\ StartPPS' = StartPPS /\ Increment' = Increment
        /\ Steps \in Nat
    BY <2>1, SettingsTyped
    DEF RunInv, Steps, StartPPS, Increment, AtLeastOne
  <2> QED
    BY <2>1, <2>2 DEF SweepInv
<1>7. CASE Create \/ WriteRecord \/ Flush \/ Summary
  BY <1>7, SweepInvStable
  DEF Create, WriteRecord, AfterWrite, Flush, Summary, GoOn, Fail
<1>8. CASE Signal \/ UNCHANGED vars
  BY <1>8, SweepInvStable DEF Signal, vars, SweepInv
<1> QED
  BY <1>1, <1>2, <1>3, <1>4, <1>5, <1>6, <1>7, <1>8 DEF Next, Run

(***************************************************************************)
(* A sweep that gets to its output has one row for every step, whether it  *)
(* was cancelled or not, with positive and increasing targets              *)
(* (load.go:168-199).                                                      *)
(***************************************************************************)
THEOREM SweepsAreComplete == Spec => []SweepComplete
<1>1. Init => SweepInv
  BY DEF Init, SweepInv
<1>2. RunInv /\ SweepInv => SweepComplete
  <2> SUFFICES ASSUME RunInv, SweepInv, set.mode = "throughput",
                      pc \in {"output", "csv", "summary"}
               PROVE  /\ Len(rows) = IF set.stepCount > 0 THEN set.stepCount ELSE 1
                      /\ \A i \in 1 .. Len(rows) : rows[i].target > 0
                      /\ \A i \in 1 .. Len(rows) - 1 :
                           rows[i].target < rows[i + 1].target
    BY DEF SweepComplete
  <2>1. /\ Len(rows) = Steps
        /\ \A i \in 1 .. Len(rows) :
             rows[i].target = StartPPS + (i - 1) * Increment
    BY DEF SweepInv
  <2>2. /\ Len(rows) \in Nat /\ set.stepCount \in Int
        /\ StartPPS \in Nat \ {0} /\ Increment \in Nat \ {0}
    BY SettingsTyped DEF RunInv
  <2>3. Len(rows) = IF set.stepCount > 0 THEN set.stepCount ELSE 1
    BY <2>1, <2>2 DEF Steps
  <2>4. ASSUME NEW i \in 1 .. Len(rows) PROVE rows[i].target > 0
    <3>1. (i - 1) * Increment \in Nat
      BY <2>2, SMT
    <3> QED
      BY <2>1, <2>2, <3>1
  <2>5. ASSUME NEW i \in 1 .. Len(rows) - 1
        PROVE  rows[i].target < rows[i + 1].target
    <3>1. i \in 1 .. Len(rows) /\ i + 1 \in 1 .. Len(rows)
      BY <2>2
    <3>2. rows[i + 1].target = StartPPS + i * Increment
      BY <2>1, <2>2, <3>1
    <3>3. i * Increment = (i - 1) * Increment + Increment
      BY <2>2, SMT
    <3>4. (i - 1) * Increment \in Int
      BY <2>2, SMT
    <3>5. rows[i].target = StartPPS + (i - 1) * Increment
      BY <2>1, <3>1
    <3> QED
      BY <2>2, <3>2, <3>3, <3>4, <3>5
  <2> QED
    BY <2>3, <2>4, <2>5
<1> QED
  BY <1>1, <1>2, RunInvariant, SweepKeepsInv, PTL DEF Spec

-------------------------------------------------------------------------------
(* The CSV file *)

(***************************************************************************)
(* Every byte of the records written so far is in the file or the buffer,  *)
(* until a flush fails; what follows the deferred Flush lacks one buffer   *)
(* at most.                                                                *)
(***************************************************************************)
CsvInv ==
  /\ record \in Nat /\ file \in Nat /\ buffered \in 0 .. BufSize
  /\ space \in Nat /\ file <= space
  /\ pc # "ended" => exit = -1
  /\ pc \in {"args", "template", "dispatch", "run", "sweep", "output"} =>
       record = 0 /\ file = 0 /\ buffered = 0
  /\ pc = "csv" => record <= Records /\ file + buffered = record * RowSize
  /\ (pc = "summary" \/ (exit = 0 /\ rows # << >>)) /\ set.outCSV =>
       file >= Records * RowSize - BufSize

\* What must leave the buffer is what makes the rest of it fit.
LEMMA OverflowFits ==
  ASSUME buffered \in 0 .. BufSize
  PROVE  Overflow \in Nat /\ buffered + RowSize - Overflow \in 0 .. BufSize
<1> DEFINE all == buffered + RowSize - 1
           q == all \div BufSize
<1>1. all \in Nat /\ BufSize \in Nat \ {0} /\ RowSize \in Nat \ {0}
  BY SizesAssumption
<1> HIDE DEF all
<1>2. q \in Nat /\ q * BufSize <= all /\ all < q * BufSize + BufSize
  BY <1>1, DivBounds
<1> HIDE DEF q
<1>3. q * BufSize \in Nat
  BY <1>1, <1>2, SMT
<1>4. Overflow = q * BufSize
  BY DEF Overflow, q, all
<1> QED
  BY <1>1, <1>2, <1>3, <1>4 DEF all

LEMMA CsvInvStable ==
  ASSUME CsvInv, UNCHANGED <<set, space, rows, record, buffered, file, exit>>,
         pc' = pc
  PROVE  CsvInv'
  BY DEF CsvInv, Records

LEMMA CsvKeepsInv ==
  ASSUME RunInv, CsvInv, [Next]_vars
  PROVE  CsvInv'
<1>1. Len(rows) \in Nat /\ RowSize \in Nat \ {0} /\ BufSize \in Nat \ {0}
  BY SizesAssumption DEF RunInv
<1>2. CASE \/ ParseArgs \/ LoadTemplate \/ Dispatch
           \/ SingleRun \/ SweepStep \/ SweepEnds
  <2>1. /\ UNCHANGED <<space, record, buffered, file>>
        /\ record = 0 /\ file = 0 /\ buffered = 0
        /\ pc' \in {"template", "dispatch", "run", "sweep", "output", "ended"}
        /\ pc' # "ended" => exit' = -1
        /\ exit' \in {-1, 1, 2} \/ rows' = << >>
    BY <1>2 DEF RunInv, CsvInv, ParseArgs, LoadTemplate, Dispatch, SingleRun, SweepStep,
                SweepEnds, GoOn, Fail, output
  <2> QED
    BY <2>1 DEF CsvInv
<1>3. CASE Create
  <2>1. /\ UNCHANGED <<set, space, rows, record, buffered, file>>
        /\ record = 0 /\ file = 0 /\ buffered = 0 /\ exit = -1
        /\ pc' \in {"csv", "summary", "ended"}
        /\ pc' # "ended" => exit' = -1
        /\ exit' \in {-1, 1}
        /\ pc' = "summary" => ~set.outCSV
    BY <1>3 DEF CsvInv, Create, GoOn, Fail, output
  <2>2. Records' = Len(rows) + 1 /\ 0 * RowSize = 0
    BY <1>1, <2>1 DEF Records
  <2> QED
    BY <1>1, <2>1, <2>2 DEF CsvInv
<1>4. CASE WriteRecord
  <2>1. /\ UNCHANGED <<set, space, rows>>
        /\ pc = "csv" /\ exit = -1 /\ record < Records /\ record' = record + 1
        /\ record \in Nat /\ file \in Nat /\ space \in Nat
        /\ file + buffered = record * RowSize
    BY <1>4 DEF CsvInv, WriteRecord
  <2>2. /\ Records' = Records /\ Records \in Nat
        /\ Overflow \in Nat /\ buffered \in 0 .. BufSize
        /\ buffered + RowSize - Overflow \in 0 .. BufSize
    BY <1>1, <2>1, OverflowFits DEF Records, CsvInv
  <2>3. record' * RowSize = record * RowSize + RowSize
    BY <1>1, <2>1, SMT
  <2>4. CASE file + Overflow > space
    <3>1. /\ file' = space /\ buffered' = 0 /\ pc' = "ended" /\ exit' = 1
      BY <1>4, <2>4 DEF WriteRecord, AfterWrite, Fail
    <3> QED
      BY <1>1, <2>1, <3>1 DEF CsvInv
  <2>5. CASE ~(file + Overflow > space)
    <3>1. /\ file' = file + Overflow /\ buffered' = buffered + RowSize - Overflow
          /\ pc' = "csv" /\ exit' = -1
      BY <1>4, <2>1, <2>5 DEF WriteRecord, AfterWrite, GoOn
    <3>2. /\ file' \in Nat /\ file' <= space /\ buffered' \in 0 .. BufSize
          /\ record' \in Nat /\ record' <= Records'
      BY <2>1, <2>2, <2>5, <3>1
    <3>3. file' + buffered' = record' * RowSize
      <4> DEFINE bytes == record * RowSize
                 next == record' * RowSize
      <4>1. file + buffered = bytes /\ next = bytes + RowSize
        BY <2>1, <2>3
      <4> HIDE DEF bytes, next
      <4>2. file' + buffered' = next
        BY <1>1, <2>1, <2>2, <3>1, <4>1
      <4> QED
        BY <4>2 DEF next
    <3> QED
      BY <2>1, <3>1, <3>2, <3>3 DEF CsvInv
  <2> QED
    BY <2>4, <2>5
<1>5. CASE Flush
  <2>1. /\ UNCHANGED <<set, space, rows, record, exit>>
        /\ pc = "csv" /\ exit = -1 /\ record = Records /\ pc' = "summary"
        /\ buffered' = 0
        /\ file' = IF file + buffered > space THEN space ELSE file + buffered
        /\ record \in Nat /\ file \in Nat /\ space \in Nat /\ file <= space
        /\ buffered \in 0 .. BufSize
        /\ file + buffered = Records * RowSize
    BY <1>5 DEF CsvInv, Flush, GoOn
  <2>2. /\ Records' = Records
        /\ file' \in Nat /\ file' <= space /\ file' >= file + buffered - BufSize
    BY <1>1, <2>1 DEF Records
  <2>3. file' >= Records' * RowSize - BufSize
    <3> DEFINE bytes == Records * RowSize
    <3>1. file + buffered = bytes /\ Records' * RowSize = bytes
      BY <2>1, <2>2
    <3> HIDE DEF bytes
    <3>2. file' >= bytes - BufSize
      BY <1>1, <2>1, <2>2, <3>1
    <3> QED
      BY <3>1, <3>2
  <2> QED
    BY <1>1, <2>1, <2>2, <2>3 DEF CsvInv
<1>6. CASE Summary
  BY <1>6 DEF Summary, CsvInv, Records, output
<1>7. CASE Signal \/ UNCHANGED vars
  BY <1>7, CsvInvStable DEF Signal, vars, output
<1> QED
  BY <1>2, <1>3, <1>4, <1>5, <1>6, <1>7 DEF Next, Run

LEMMA CsvInvariant == Spec => []CsvInv
<1>1. Init => CsvInv
  <2> SUFFICES ASSUME Init PROVE CsvInv
    OBVIOUS
  <2>1. /\ pc = "args" /\ record = 0 /\ buffered = 0 /\ file = 0 /\ exit = -1
        /\ space \in Nat /\ BufSize \in Nat
    BY SizesAssumption DEF Init
  <2>2. buffered \in 0 .. BufSize /\ file <= space /\ exit # 0
    BY <2>1
  <2> QED
    BY <2>1, <2>2 DEF CsvInv
<1> QED
  BY <1>1, RunInvariant, CsvKeepsInv, PTL DEF Spec

(***************************************************************************)
(* When the command exits with 0, its CSV file lacks less than a buffer,   *)
(* although the error of the deferred Flush is lost (metrics.go:151).      *)
(***************************************************************************)
THEOREM LossIsBounded == Spec => []SilentLossBounded
<1>1. CsvInv => SilentLossBounded
  BY DEF CsvInv, SilentLossBounded
<1> QED
  BY <1>1, CsvInvariant, PTL

-------------------------------------------------------------------------------
(* The percentiles *)

\* A sample is sorted behind those that are sorted behind a smaller one.
LEMMA UpToNests ==
  ASSUME NEW s \in Seq(Nat), NEW k \in 1 .. Len(s), NEW l \in 1 .. Len(s),
         s[k] < s[l] \/ (s[k] = s[l] /\ k < l)
  PROVE  UpTo(s, k) \subseteq UpTo(s, l) /\ l \in UpTo(s, l) \ UpTo(s, k)
<1>1. \A j \in 1 .. Len(s) : s[j] \in Nat
  OBVIOUS
<1> QED BY <1>1 DEF UpTo

\* The numbers from 1 to n.
LEMMA FirstNumbers ==
  ASSUME NEW n \in Nat
  PROVE  IsFiniteSet(1 .. n) /\ Cardinality(1 .. n) = n
<1>1. 1 \in Int /\ n \in Int /\ (1 > n => n = 0) /\ n - 1 + 1 = n
  OBVIOUS
<1>2. /\ IsFiniteSet(1 .. n)
      /\ Cardinality(1 .. n) = IF 1 > n THEN 0 ELSE n - 1 + 1
  BY <1>1, FS_Interval, Zenon
<1> QED BY <1>1, <1>2

\* How many samples are sorted up to one of them: a place in the sorted copy.
LEMMA PlaceInRange ==
  ASSUME NEW s \in Seq(Nat), NEW k \in 1 .. Len(s)
  PROVE  /\ IsFiniteSet(UpTo(s, k))
         /\ Cardinality(UpTo(s, k)) \in Nat
         /\ Cardinality(UpTo(s, k)) \in 1 .. Len(s)
<1>1. /\ IsFiniteSet(1 .. Len(s)) /\ Cardinality(1 .. Len(s)) = Len(s)
      /\ Len(s) \in Nat
  BY FirstNumbers
<1>2. UpTo(s, k) \subseteq 1 .. Len(s) /\ k \in UpTo(s, k)
  BY DEF UpTo
<1>3. /\ IsFiniteSet(UpTo(s, k)) /\ Cardinality(UpTo(s, k)) <= Len(s)
  BY <1>1, <1>2, FS_Subset
<1>4. Cardinality(UpTo(s, k)) \in Nat
  BY <1>3, FS_CardinalityType
<1>5. Cardinality(UpTo(s, k)) # 0
  BY <1>2, <1>3, FS_EmptySet
<1> QED BY <1>1, <1>3, <1>4, <1>5

\* Two samples with the first sorted before the second have places in order.
LEMMA PlacesInOrder ==
  ASSUME NEW s \in Seq(Nat), NEW k \in 1 .. Len(s), NEW l \in 1 .. Len(s),
         s[k] < s[l] \/ (s[k] = s[l] /\ k < l)
  PROVE  Cardinality(UpTo(s, k)) < Cardinality(UpTo(s, l))
<1>1. /\ UpTo(s, k) \subseteq UpTo(s, l) /\ UpTo(s, k) # UpTo(s, l)
  BY UpToNests
<1>2. IsFiniteSet(UpTo(s, l))
  BY PlaceInRange
<1>3. /\ Cardinality(UpTo(s, k)) <= Cardinality(UpTo(s, l))
      /\ Cardinality(UpTo(s, k)) # Cardinality(UpTo(s, l))
  BY <1>1, <1>2, FS_Subset
<1>4. Cardinality(UpTo(s, k)) \in Nat /\ Cardinality(UpTo(s, l)) \in Nat
  BY PlaceInRange
<1> QED BY <1>3, <1>4

\* No two samples share a place, so every place is taken.
LEMMA PlacesTaken ==
  ASSUME NEW s \in Seq(Nat), NEW i \in 1 .. Len(s)
  PROVE  \E k \in 1 .. Len(s) : Cardinality(UpTo(s, k)) = i
<1> DEFINE D == 1 .. Len(s)
           place == [k \in D |-> Cardinality(UpTo(s, k))]
<1>1. place \in [D -> D]
  BY PlaceInRange
<1>2. \A k, l \in D : place[k] = place[l] => k = l
  <2> SUFFICES ASSUME NEW k \in D, NEW l \in D, k # l
               PROVE  place[k] # place[l]
    OBVIOUS
  <2>1. /\ s[k] \in Nat /\ s[l] \in Nat
        /\ place[k] \in Nat /\ place[l] \in Nat
    <3>1. s[k] \in Nat /\ s[l] \in Nat
      OBVIOUS
    <3>2. place[k] = Cardinality(UpTo(s, k)) /\ place[l] = Cardinality(UpTo(s, l))
      OBVIOUS
    <3>3. Cardinality(UpTo(s, k)) \in Nat /\ Cardinality(UpTo(s, l)) \in Nat
      BY PlaceInRange, Zenon
    <3> QED BY <3>1, <3>2, <3>3, Zenon
  <2>2. \/ s[k] < s[l] \/ (s[k] = s[l] /\ k < l)
        \/ s[l] < s[k] \/ (s[l] = s[k] /\ l < k)
    BY <2>1
  <2>3. place[k] < place[l] \/ place[l] < place[k]
    BY <2>2, PlacesInOrder
  <2> QED BY <2>1, <2>3
<1>3. IsFiniteSet(D) /\ place \in Injection(D, D)
  BY <1>1, <1>2, FirstNumbers DEF Injection, IsInjective
<1> HIDE DEF place, D
<1>4. place \in Surjection(D, D)
  BY <1>3, FS_Injection
<1>5. \E k \in D : place[k] = i
  BY <1>4 DEF Surjection, D
<1> QED BY <1>5 DEF place, D

\* What is at a place of the sorted copy.
LEMMA SortedAt ==
  ASSUME NEW s \in Seq(Nat), NEW i \in 1 .. Len(s)
  PROVE  \E k \in 1 .. Len(s) :
           Sorted(s)[i] = s[k] /\ Cardinality(UpTo(s, k)) = i
<1> DEFINE k == CHOOSE k \in 1 .. Len(s) : Cardinality(UpTo(s, k)) = i
<1>1. k \in 1 .. Len(s) /\ Cardinality(UpTo(s, k)) = i
  BY PlacesTaken
<1>2. Sorted(s)[i] = s[k]
  BY DEF Sorted
<1> QED BY <1>1, <1>2

\* The sorted copy is sorted.
LEMMA SortedAscends ==
  ASSUME NEW s \in Seq(Nat), NEW i \in 1 .. Len(s), NEW j \in 1 .. Len(s), i <= j
  PROVE  Sorted(s)[i] <= Sorted(s)[j]
<1>1. PICK k \in 1 .. Len(s) :
        Sorted(s)[i] = s[k] /\ Cardinality(UpTo(s, k)) = i
  BY SortedAt
<1>2. PICK l \in 1 .. Len(s) :
        Sorted(s)[j] = s[l] /\ Cardinality(UpTo(s, l)) = j
  BY SortedAt
<1>3. s[k] \in Nat /\ s[l] \in Nat
  OBVIOUS
<1>4. ~(s[l] < s[k])
  <2> SUFFICES ASSUME s[l] < s[k]
               PROVE  FALSE
    OBVIOUS
  <2>1. Cardinality(UpTo(s, l)) < Cardinality(UpTo(s, k))
    BY PlacesInOrder
  <2> QED BY <1>1, <1>2, <2>1
<1> QED BY <1>1, <1>2, <1>3, <1>4

\* Less than i samples are below the one at place i, and at least i are not
\* above it.
LEMMA CountAround ==
  ASSUME NEW s \in Seq(Nat), NEW i \in 1 .. Len(s), NEW v, v = Sorted(s)[i]
  PROVE  /\ v \in Nat
         /\ Cardinality({j \in 1 .. Len(s) : s[j] < v}) \in Nat
         /\ Cardinality({j \in 1 .. Len(s) : s[j] < v}) < i
         /\ Cardinality({j \in 1 .. Len(s) : s[j] <= v}) \in Nat
         /\ Cardinality({j \in 1 .. Len(s) : s[j] <= v}) >= i
<1>1. PICK k \in 1 .. Len(s) : v = s[k] /\ Cardinality(UpTo(s, k)) = i
  BY SortedAt
<1> DEFINE below == {j \in 1 .. Len(s) : s[j] < v}
           upTo  == {j \in 1 .. Len(s) : s[j] <= v}
<1>2. v \in Nat /\ \A j \in 1 .. Len(s) : s[j] \in Nat
  BY <1>1
<1>3. /\ below \subseteq UpTo(s, k) \ {k}
      /\ k \in UpTo(s, k)
      /\ UpTo(s, k) \subseteq upTo
      /\ upTo \subseteq 1 .. Len(s)
  BY <1>1, <1>2 DEF UpTo
<1> HIDE DEF below, upTo
<1>4. /\ IsFiniteSet(UpTo(s, k) \ {k})
      /\ Cardinality(UpTo(s, k) \ {k}) = i - 1
  BY <1>1, <1>3, PlaceInRange, FS_RemoveElement
<1>5. Cardinality(below) \in Nat /\ Cardinality(below) <= i - 1
  BY <1>3, <1>4, FS_Subset, FS_CardinalityType
<1>6. IsFiniteSet(upTo)
  <2>1. Len(s) \in Nat /\ IsFiniteSet(1 .. Len(s))
    BY FirstNumbers
  <2> QED BY <1>3, <2>1, FS_Subset
<1>7. Cardinality(upTo) \in Nat /\ i <= Cardinality(upTo)
  BY <1>1, <1>3, <1>6, FS_Subset, FS_CardinalityType
<1> QED BY <1>2, <1>5, <1>7 DEF below, upTo

(***************************************************************************)
(* Whatever the samples are and in whichever order they came, a percentile *)
(* of them is a sample with the rank of that percentile                    *)
(* (metrics.go:123-141).                                                   *)
(***************************************************************************)
THEOREM PercentileHasRank ==
  ASSUME NEW s \in Seq(Nat), s # << >>, NEW p \in 0 .. 100
  PROVE  /\ Percentile(s, p) \in Nat
         /\ HasRank(Percentile(s, p), s, p)
<1> DEFINE n == Len(s)
           idx == Idx(n, p)
           v == Percentile(s, p)
<1>1. n \in Nat \ {0}
  OBVIOUS
<1> HIDE DEF n
<1>2. idx = ((n - 1) * p) \div 100 /\ idx \in 0 .. n - 1
  BY <1>1, IndexInRange
<1>3. (n - 1) * p \in Nat
  BY <1>1, SMT
<1>4. idx * 100 <= (n - 1) * p /\ (n - 1) * p < idx * 100 + 100
  BY <1>2, <1>3, DivBounds
<1>5. idx + 1 \in 1 .. Len(s) /\ v = Sorted(s)[idx + 1]
  BY <1>1, <1>2 DEF Percentile, n
<1> HIDE DEF idx, v
<1> DEFINE below == Cardinality({k \in 1 .. Len(s) : s[k] < v})
           upTo  == Cardinality({k \in 1 .. Len(s) : s[k] <= v})
<1>6. v \in Nat /\ below \in Nat /\ below <= idx /\ upTo \in Nat /\ upTo >= idx + 1
  <2>1. /\ v \in Nat /\ below \in Nat /\ below < idx + 1
        /\ upTo \in Nat /\ upTo >= idx + 1
    BY <1>5, CountAround, Zenon
  <2> HIDE DEF below, upTo
  <2> QED BY <1>1, <1>2, <2>1
<1>7. HasRank(v, s, p) = (100 * below <= (n - 1) * p /\ 100 * upTo > (n - 1) * p)
  BY DEF HasRank, n
<1> DEFINE share == (n - 1) * p
<1>8. 100 * below <= share /\ 100 * upTo > share
  <2> HIDE DEF below, upTo
  <2>1. /\ share \in Nat /\ idx \in Nat
        /\ idx * 100 <= share /\ share < idx * 100 + 100
    BY <1>2, <1>3, <1>4
  <2> HIDE DEF share
  <2> QED
    BY <1>6, <2>1
<1> HIDE DEF below, upTo, share
<1>9. HasRank(v, s, p)
  BY <1>7, <1>8 DEF share
<1> QED BY <1>6, <1>9 DEF v

\* A higher percentile is not smaller.
LEMMA PercentilesAscend ==
  ASSUME NEW s \in Seq(Nat), s # << >>,
         NEW p \in 0 .. 100, NEW q \in 0 .. 100, p <= q
  PROVE  Percentile(s, p) <= Percentile(s, q)
<1> DEFINE n == Len(s)
<1>1. n \in Nat \ {0}
  OBVIOUS
<1> HIDE DEF n
<1>2. /\ Idx(n, p) = ((n - 1) * p) \div 100 /\ Idx(n, p) \in 0 .. n - 1
      /\ Idx(n, q) = ((n - 1) * q) \div 100 /\ Idx(n, q) \in 0 .. n - 1
  BY <1>1, IndexInRange
<1>3. (n - 1) * p \in Nat /\ (n - 1) * q \in Nat /\ (n - 1) * p <= (n - 1) * q
  BY <1>1, SMT
<1>4. Idx(n, p) <= Idx(n, q)
  <2> DEFINE a == (n - 1) * p
             b == (n - 1) * q
  <2>1. a \in Nat /\ b \in Nat /\ a <= b
    BY <1>3
  <2> HIDE DEF a, b
  <2>2. a \div 100 <= b \div 100
    BY <2>1
  <2> QED BY <1>2, <2>2 DEF a, b
<1>5. /\ Idx(n, p) + 1 \in 1 .. Len(s) /\ Idx(n, q) + 1 \in 1 .. Len(s)
      /\ Idx(n, p) + 1 <= Idx(n, q) + 1
  BY <1>1, <1>2, <1>4 DEF n
<1>6. Sorted(s)[Idx(n, p) + 1] <= Sorted(s)[Idx(n, q) + 1]
  BY <1>5, SortedAscends
<1> QED BY <1>6 DEF Percentile, n

\* The last row was made of the samples of the last Collector.
SamplesInv ==
  /\ latencyUS \in SampleSets \cup {<< >>}
  /\ rows # << >> =>
       /\ rows[Len(rows)].p50 = Percentile(latencyUS, 50)
       /\ rows[Len(rows)].p95 = Percentile(latencyUS, 95)
       /\ rows[Len(rows)].p99 = Percentile(latencyUS, 99)

LEMMA SamplesKept == RunInv /\ SamplesInv /\ [Next]_vars => SamplesInv'
<1> SUFFICES ASSUME RunInv, SamplesInv, [Next]_vars
             PROVE  SamplesInv'
  OBVIOUS
<1>1. ASSUME NEW pps, FinalRowOf(pps)
      PROVE  SamplesInv'
  BY <1>1 DEF FinalRowOf, Snapshot, SamplesInv
<1>2. CASE SingleRun
  BY <1>1, <1>2, SingleRunRows
<1>3. CASE SweepStep
  BY <1>1, <1>3, SweepStepRow
<1>4. CASE UNCHANGED <<rows, latencyUS>>
  BY <1>4 DEF SamplesInv
<1> QED
  BY <1>2, <1>3, <1>4
  DEF Next, Run, ParseArgs, LoadTemplate, Dispatch, SweepEnds, Create,
      WriteRecord, Flush, Summary, Signal, vars

LEMMA SamplesInvariant == Spec => []SamplesInv
<1>1. Init => SamplesInv
  BY DEF Init, SamplesInv
<1> QED BY <1>1, SamplesKept, RunInvariant, PTL DEF Spec

(***************************************************************************)
(* The final row of every run shows percentiles that are samples of that   *)
(* run with the right ranks, in ascending order, and zeros if it has none  *)
(* (metrics.go:123-141).                                                   *)
(***************************************************************************)
THEOREM RanksAreRight == Spec => []RanksRight
<1>1. SamplesInv => RanksRight
  <2> SUFFICES ASSUME SamplesInv, rows # << >>
               PROVE  RanksRight
    BY DEF RanksRight
  <2> DEFINE final == rows[Len(rows)]
  <2>1. /\ final.p50 = Percentile(latencyUS, 50)
        /\ final.p95 = Percentile(latencyUS, 95)
        /\ final.p99 = Percentile(latencyUS, 99)
    BY DEF SamplesInv
  <2>2. latencyUS \in Seq(Nat)
    BY SamplesTyped DEF SamplesInv
  <2> HIDE DEF final
  <2>3. CASE latencyUS = << >>
    BY <2>1, <2>3 DEF RanksRight, Percentile, final
  <2>4. CASE latencyUS # << >>
    <3>1. /\ HasRank(final.p50, latencyUS, 50)
          /\ HasRank(final.p95, latencyUS, 95)
          /\ HasRank(final.p99, latencyUS, 99)
      BY <2>1, <2>2, <2>4, PercentileHasRank
    <3>2. final.p50 <= final.p95 /\ final.p95 <= final.p99
      <4>1. 50 \in 0 .. 100 /\ 95 \in 0 .. 100 /\ 99 \in 0 .. 100 /\ 50 <= 95 /\ 95 <= 99
        OBVIOUS
      <4>2. Percentile(latencyUS, 50) <= Percentile(latencyUS, 95)
        BY <2>2, <2>4, <4>1, PercentilesAscend, Zenon
      <4>3. Percentile(latencyUS, 95) <= Percentile(latencyUS, 99)
        BY <2>2, <2>4, <4>1, PercentilesAscend, Zenon
      <4> QED
        BY <2>1, <4>2, <4>3, Zenon
    <3> QED BY <2>4, <3>1, <3>2 DEF RanksRight, final
  <2> QED BY <2>3, <2>4
<1> QED BY <1>1, SamplesInvariant, PTL

\* The types that no other invariant has.
LabelsTyped ==
  /\ space \in Spaces
  /\ ctxDone \in BOOLEAN
  /\ pc \in {"args", "template", "dispatch", "run", "sweep", "output", "csv",
             "summary", "ended"}
  /\ exit \in {-1, 0, 1, 2}

\* A row with percentiles of samples is a row.
LEMMA RowsTyped == Rows \subseteq Row
<1>1. Quantiles \subseteq Nat
  <2> SUFFICES ASSUME NEW s \in Seq(Nat), NEW p \in {50, 95, 99}
               PROVE  Percentile(s, p) \in Nat
    BY DEF Quantiles
  <2>1. CASE s = << >>
    BY <2>1 DEF Percentile
  <2>2. CASE s # << >>
    <3>1. p \in 0 .. 100
      OBVIOUS
    <3> QED BY <2>2, <3>1, PercentileHasRank
  <2> QED BY <2>1, <2>2
<1> QED BY <1>1 DEF Rows, Row

(***************************************************************************)
(* The variables of the command keep their types, whatever it is given:    *)
(* the file never outgrows the disk, the buffer never its size, and each   *)
(* row has natural numbers (metrics.go:85-141, metrics.go:143-201).        *)
(***************************************************************************)
THEOREM TypesKept == Spec => []TypeOK
<1>1. Init => LabelsTyped
  BY DEF Init, LabelsTyped
<1>2. LabelsTyped /\ [Next]_vars => LabelsTyped'
  BY DEF LabelsTyped, Next, Run, ParseArgs, LoadTemplate, Dispatch, SingleRun,
         SweepStep, SweepEnds, Create, WriteRecord, AfterWrite, Flush, Summary,
         Signal, GoOn, Fail, vars
<1>3. RunInv /\ CsvInv /\ SamplesInv /\ LabelsTyped => TypeOK
  <2> SUFFICES ASSUME RunInv, CsvInv, SamplesInv, LabelsTyped
               PROVE  TypeOK
    OBVIOUS
  <2>1. rows \in Seq(Row)
    BY RowsTyped DEF RunInv
  <2>2. file \in 0 .. space
    BY DEF CsvInv
  <2> QED BY <2>1, <2>2 DEF RunInv, CsvInv, SamplesInv, LabelsTyped, TypeOK
<1> QED
  BY <1>1, <1>2, <1>3, RunInvariant, CsvInvariant, SamplesInvariant, PTL DEF Spec
===============================================================================
