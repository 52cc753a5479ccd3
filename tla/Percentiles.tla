------------------------------ MODULE Percentiles ------------------------------
(***************************************************************************)
(* percentiles of pkg/metrics: order statistics of the latency samples,    *)
(* taken from a sorted copy at a truncated index.                          *)
(***************************************************************************)
EXTENDS Integers, Sequences, FiniteSets

MutNoMinusOne(n, p) == IF (n * p) \div 100 >= n THEN n - 1 ELSE (n * p) \div 100

(***************************************************************************)
(* idx: the index, from 0, of the p-th percentile among n sorted samples.  *)
(* The code computes float64(n-1)*0.50, 0.95 or 0.99 and truncates; the    *)
(* nearest floats to these factors are so close that the product is below  *)
(* the exact value by less than half a unit in the last place, hence the   *)
(* truncated product is the exact quotient for every n below 2^45.         *)
(***************************************************************************)
Idx(n, p) ==
  LET i == ((n - 1) * p) \div 100
  IN  IF i < 0 THEN 0 ELSE IF i >= n THEN n - 1 ELSE i

(***************************************************************************)
(* cp: the sorted copy.  Sorting moves the sample at k to the place that   *)
(* leaves room for the smaller ones; equal ones cannot be told apart, so   *)
(* they may as well keep their order.                                      *)
(***************************************************************************)
UpTo(samples, k) ==
  {j \in 1 .. Len(samples) :
     samples[j] < samples[k] \/ (samples[j] = samples[k] /\ j <= k)}

Sorted(samples) ==
  [i \in 1 .. Len(samples) |->
     samples[CHOOSE k \in 1 .. Len(samples) : Cardinality(UpTo(samples, k)) = i]]

Percentile(samples, p) ==
  IF samples = << >> THEN 0
  ELSE Sorted(samples)[Idx(Len(samples), p) + 1]

(***************************************************************************)
(* The definition of a percentile that the code is measured against: a     *)
(* sample with at most a share p of the other samples below it, and less   *)
(* than the rest above it.                                                 *)
(***************************************************************************)
HasRank(v, samples, p) ==
  LET n == Len(samples)
      below   == Cardinality({k \in 1 .. n : samples[k] < v})
      upTo    == Cardinality({k \in 1 .. n : samples[k] <= v})
  IN  /\ 100 * below <= (n - 1) * p
      /\ 100 * upTo > (n - 1) * p
===============================================================================
