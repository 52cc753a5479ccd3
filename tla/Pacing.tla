--------------------------------- MODULE Pacing ---------------------------------
(***************************************************************************)
(* The rate arithmetic of load.go:47-55 and load.go:123-127: --pps is      *)
(* divided among the workers, each of which has a ticker of its own.       *)
(* Durations are in nanoseconds, as time.Duration is.                      *)
(***************************************************************************)
EXTENDS Integers

Second == 1000000000
Microsecond == 1000

MutRoundUp(pps, workers) == pps \div workers + 1

\* max(1, PPS/workers).
PpsPerWorker(pps, workers) ==
  IF pps \div workers > 1 THEN pps \div workers ELSE 1

\* The period of a worker's ticker; the quotient of a rate above 1e9 is zero.
Interval(rate) ==
  IF Second \div rate <= 0 THEN Microsecond ELSE Second \div rate

(***************************************************************************)
(* How often a ticker of that period fires in a run of that many seconds:  *)
(* the duration divided by the period, for which the seconds are divided   *)
(* one by one, so that TLC's 32 bits are enough.                           *)
(***************************************************************************)
Ticks(seconds, rate) ==
  LET period == Interval(rate)
  IN  seconds * (Second \div period) + (seconds * (Second % period)) \div period

\* The attempts that all tickers together allow.
Offered(pps, workers, seconds) ==
  workers * Ticks(seconds, PpsPerWorker(pps, workers))
===============================================================================
