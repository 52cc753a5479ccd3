------------------------------ MODULE MCGnbClient ------------------------------
(***************************************************************************)
(* GnbClient for TLC.  Order statistics depend on the order of samples     *)
(* only, so three values, in blocks of several lengths and in every order, *)
(* put each percentile on either side of each boundary.                    *)
(***************************************************************************)
EXTENDS GnbClient

Block(v, n) == [k \in 1 .. n |-> v]

\* Up to 25 samples: from 21 on the 95th and the 99th percentile differ.
MCSampleSets ==
  {Block(3, a) \o Block(7, b) \o Block(5, d) :
      a \in {0, 1, 10}, b \in {0, 1, 10}, d \in {0, 2, 5}}

NoFile == [x \in {} |-> 0]

Given(flags) ==
  [config |-> "none", file |-> NoFile, readable |-> TRUE, flags |-> flags,
   parse |-> "ok"]

Filed(keys, flags) ==
  [Given(flags) EXCEPT !.config = "--config", !.file = keys]

Flood(workers, pps) == [mode |-> "flood", workers |-> workers, pps |-> pps]

Sweep(count, start, inc) ==
  [mode |-> "throughput", stepCount |-> count, stepStart |-> start,
   stepInc |-> inc]

Steps2 == [stepCount |-> 2, basePPS |-> 0, stepPPS |-> 0, workers |-> 2]

MCInputs ==
  { Given(NoFile),
    Given([workers |-> 3, pps |-> 2]),
    Given([workers |-> 3, pps |-> 100, outCSV |-> FALSE]),
    Given([rateLimit |-> FALSE, nas |-> "ok"]),
    Given([pps |-> 30000]),
    Given([pps |-> 2000000000, duration |-> 1]),
    Given([duration |-> 0]),
    Given([nas |-> "bad"]),
    Given([mode |-> "other"]),
    Given(Flood(7, 50000)),
    Given(Flood(1, -1)),
    Given(Sweep(2, 1000, 1000)),
    Given(Sweep(0, -5, 0)),
    Given([mode |-> "throughput", stepDuration |-> 0]),
    Filed([workers |-> 0, pps |-> 0], [mode |-> "latency"]),
    Filed(Steps2, [mode |-> "throughput", stepStart |-> 0, stepInc |-> -1]),
    [Filed(Steps2, NoFile) EXCEPT !.readable = FALSE],
    [Filed(Steps2, NoFile) EXCEPT !.parse = "bad"],
    [Filed(Steps2, NoFile) EXCEPT !.parse = "help"],
    [Filed([mode |-> "other"], NoFile) EXCEPT !.config = "-config"] }

\* A NAS template that the config file names.
TemplateInputs == {Filed([nas |-> "ok", pps |-> 10], NoFile)}
===============================================================================
