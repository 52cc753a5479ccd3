------------------------------- MODULE GnbClient -------------------------------
(***************************************************************************)
(* The gNB command from its arguments to its exit code: runGNB of the      *)
(* main program, GNBClient.Run of pkg/app, with RunThroughputSweep of      *)
(* pkg/load and WriteCSV of pkg/metrics.  A run of the load generator      *)
(* (RunLatency, RunFlood) is one step here: LoadRun has its inside, and    *)
(* only the numbers that reach its rows matter.                            *)
(*                                                                         *)
(* The CSV file is a number of bytes.  A record has RowSize of them; bufio *)
(* collects BufSize of them before it writes them to the file.             *)
(***************************************************************************)
EXTENDS Pacing, Percentiles

CONSTANTS
  Inputs,      \* the command lines, of which Init picks one:
               \*   config      how it names a config file
               \*   file        the settings in that file
               \*   readable    the file exists and is YAML
               \*   flags       the settings given as flags
               \*   parse       the flags are "ok", "bad", or ask for "help"
  SampleSets,  \* the latency samples that a run may collect
  MaxTx,       \* bound on the attempts of a run without a ticker
  MaxRows,     \* bound on the interval rows of a run
  RowSize,     \* bytes of a CSV record
  BufSize,     \* bytes of the bufio buffer
  Spaces       \* how many bytes the disk has left

ASSUME SizesAssumption ==
  /\ RowSize \in Nat \ {0} /\ BufSize \in Nat \ {0}
  /\ Spaces \subseteq Nat
  /\ MaxRows \in Nat /\ MaxTx \in Nat
  /\ SampleSets \subseteq Seq(Nat)

-------------------------------------------------------------------------------
(* Settings *)

Settings ==
  [mode : {"latency", "throughput", "flood", "other"},
   workers : Int, pps : Int, rateLimit : BOOLEAN, outCSV : BOOLEAN,
   nas : {"none", "ok", "bad"},  \* no template, one that decodes, or not
   stepCount : Int, stepStart : Int, basePPS : Int, stepInc : Int,
   stepPPS : Int,
   duration : Int, stepDuration : Int]  \* in seconds

\* config.Default.
Defaults ==
  [mode |-> "latency", workers |-> 1, pps |-> 1000, rateLimit |-> TRUE,
   outCSV |-> TRUE, nas |-> "none", stepCount |-> 5, stepStart |-> 1000,
   basePPS |-> 1000, stepInc |-> 1000, stepPPS |-> 1000,
   duration |-> 10, stepDuration |-> 5]

\* configPathFromArgs sees --config only; the flag package, whose -config is
\* the same flag, drops the value.
NamesFile(in) == in.config = "--config"

\* The flag whose default is not taken from the config.
FlagOnly == {"nas"}

\* A flag that is given, else the config file, else config.Default.
Effective(in) ==
  [k \in DOMAIN Defaults |->
     IF k \in DOMAIN in.flags THEN in.flags[k]
     ELSE IF NamesFile(in) /\ k \in DOMAIN in.file \ FlagOnly THEN in.file[k]
     ELSE Defaults[k]]

ASSUME InputsAssumption == \A in \in Inputs : Effective(in) \in Settings

VARIABLES
  input,      \* the command line; it never changes
  set,        \* the settings that the run uses
  space,      \* the size that the file can grow to; it never changes
  ctxDone,    \* SIGINT or SIGTERM
  pc,         \* the next step of Run
  latencyUS,  \* the samples of the latest Collector
  rows,       \* the rows so far
  record,     \* how many CSV records were passed to the csv.Writer
  buffered,   \* bytes in the buffer
  file,       \* bytes in the file
  exit        \* the exit code, -1 before the end

vars ==
  <<input, set, space, ctxDone, pc, latencyUS, rows, record, buffered, file, exit>>

Row == [target : Int, tx : Nat, p50 : Nat, p95 : Nat, p99 : Nat]

TypeOK ==
  /\ input \in Inputs
  /\ set \in Settings
  /\ space \in Spaces
  /\ ctxDone \in BOOLEAN
  /\ pc \in {"args", "template", "dispatch", "run", "sweep", "output", "csv",
             "summary", "ended"}
  /\ latencyUS \in SampleSets \cup {<< >>}
  /\ rows \in Seq(Row)
  /\ record \in Nat
  /\ buffered \in 0 .. BufSize
  /\ file \in 0 .. space
  /\ exit \in {-1, 0, 1, 2}

Init ==
  /\ input \in Inputs
  /\ set = Defaults
  /\ space \in Spaces
  /\ ctxDone = FALSE
  /\ pc = "args"
  /\ latencyUS = << >>
  /\ rows = << >>
  /\ record = 0
  /\ buffered = 0
  /\ file = 0
  /\ exit = -1

output == <<record, buffered, file>>

\* Run returns an error, and main exits with 1.
Fail == pc' = "ended" /\ exit' = 1

GoOn(label) == pc' = label /\ UNCHANGED exit

Signal ==
  /\ ~ctxDone
  /\ exit = -1
  /\ ctxDone' = TRUE
  /\ UNCHANGED <<input, set, space, pc, latencyUS, rows, output, exit>>

-------------------------------------------------------------------------------
(* The run *)

(***************************************************************************)
(* runGNB: the config file is read first, then the flags are parsed, which *)
(* ends the process with 2 if they are malformed and with 0 after -help.   *)
(***************************************************************************)
ParseArgs ==
  /\ pc = "args"
  /\ IF NamesFile(input) /\ ~input.readable THEN Fail /\ UNCHANGED set
     ELSE IF input.parse = "ok" THEN set' = Effective(input) /\ GoOn("template")
     ELSE /\ pc' = "ended"
          /\ exit' = IF input.parse = "help" THEN 0 ELSE 2
          /\ UNCHANGED set
  /\ UNCHANGED <<input, space, ctxDone, latencyUS, rows, output>>

\* The NAS template is read and decoded, if there is one.
LoadTemplate ==
  /\ pc = "template"
  /\ IF set.nas = "bad" THEN Fail ELSE GoOn("dispatch")
  /\ UNCHANGED <<input, set, space, ctxDone, latencyUS, rows, output>>

\* The switch on the mode; RunThroughputSweep refuses a step without duration.
Dispatch ==
  /\ pc = "dispatch"
  /\ IF set.mode \in {"latency", "flood"} THEN GoOn("run")
     ELSE IF set.mode = "throughput" /\ set.stepDuration > 0 THEN GoOn("sweep")
     ELSE Fail
  /\ UNCHANGED <<input, set, space, ctxDone, latencyUS, rows, output>>

\* RunLatency and RunFlood run with at least one worker.
Workers == IF set.workers <= 0 THEN 1 ELSE set.workers

\* The workers are held back by tickers.
Ticking(pps) == set.mode = "flood" \/ (set.rateLimit /\ pps > 0)

\* The time that each run has.
Seconds ==
  LET given == IF set.mode = "throughput" THEN set.stepDuration ELSE set.duration
  IN  IF given > 0 THEN given ELSE 0

(***************************************************************************)
(* How many frames a run with that --pps may send in its time.  (Left out: *)
(* those that a worker still sends when it finds both a tick and the end   *)
(* of its ctx and select takes the tick, load.go:60-63.)                   *)
(***************************************************************************)
Most(pps) == IF Ticking(pps) THEN Offered(pps, Workers, Seconds) ELSE MaxTx

Sendable(pps) == {n \in {0, 1, Most(pps)} : n <= Most(pps)}

\* A Snapshot of the Collector.
Snapshot(pps, tx, samples) ==
  [target |-> pps, tx |-> tx,
   p50 |-> Percentile(samples, 50),
   p95 |-> Percentile(samples, 95),
   p99 |-> Percentile(samples, 99)]

(***************************************************************************)
(* A run with that --pps ends, and leaves its samples and its final row.   *)
(* Flood mode has no samples.  It never returns an error, also when no     *)
(* worker could open its session.                                          *)
(***************************************************************************)
RunEnds(pps, tx, samples) ==
  /\ Len(samples) <= tx
  /\ set.mode = "flood" => samples = << >>
  /\ latencyUS' = samples

\* How many samples each of n interval rows was made of: never less than the
\* row before it.
Progress(samples, n) ==
  {got \in [1 .. n -> {0, Len(samples) \div 2, Len(samples)}] :
     \A i \in 2 .. n : got[i - 1] <= got[i]}

\* An interval row: the frames sent so far, here those that were answered, and
\* their samples.
Interim(pps, samples, got) == Snapshot(pps, got, SubSeq(samples, 1, got))

\* RunLatency or RunFlood, with some interval rows in front of the final row.
SingleRun ==
  /\ pc = "run"
  /\ \E tx \in Sendable(set.pps), samples \in SampleSets, n \in 0 .. MaxRows :
       /\ RunEnds(set.pps, tx, samples)
       /\ \E got \in Progress(samples, n) :
            rows' = Append([i \in 1 .. n |-> Interim(set.pps, samples, got[i])],
                           Snapshot(set.pps, tx, samples))
  /\ GoOn("output")
  /\ UNCHANGED <<input, set, space, ctxDone, output>>

-------------------------------------------------------------------------------
(* RunThroughputSweep *)

AtLeastOne(n) == IF n > 1 THEN n ELSE 1

Steps == IF set.stepCount <= 0 THEN 1 ELSE set.stepCount

StartPPS ==
  IF set.stepStart <= 0 THEN AtLeastOne(set.basePPS) ELSE set.stepStart

Increment == IF set.stepInc <= 0 THEN AtLeastOne(set.stepPPS) ELSE set.stepInc

MutStopSweep == Len(rows) < Steps /\ ~ctxDone

\* The loop does not look at ctx.
MoreSteps == Len(rows) < Steps

\* One step: RunLatency, of whose rows only the final one is kept.
SweepStep ==
  /\ pc = "sweep"
  /\ MoreSteps
  /\ LET pps == StartPPS + Len(rows) * Increment
     IN  \E tx \in Sendable(pps), samples \in SampleSets :
           /\ RunEnds(pps, tx, samples)
           /\ rows' = Append(rows, Snapshot(pps, tx, samples))
  /\ UNCHANGED <<input, set, space, ctxDone, pc, output, exit>>

SweepEnds ==
  /\ pc = "sweep"
  /\ ~MoreSteps
  /\ GoOn("output")
  /\ UNCHANGED <<input, set, space, ctxDone, latencyUS, rows, output>>

-------------------------------------------------------------------------------
(* WriteCSV *)

\* os.Create, which may fail, if a CSV file was asked for.
Create ==
  /\ pc = "output"
  /\ IF ~set.outCSV THEN GoOn("summary") ELSE GoOn("csv") \/ Fail
  /\ UNCHANGED <<input, set, space, ctxDone, latencyUS, rows, output>>

\* The header and the rows.
Records == Len(rows) + 1

MutOverfull == ((buffered + RowSize - 2) \div BufSize) * BufSize

\* What the buffer must give to the file before another record fits in it.
Overflow == ((buffered + RowSize - 1) \div BufSize) * BufSize

MutNotNoticed == GoOn("csv")

\* A Write whose flush fails returns the error, and WriteCSV gives up.
AfterWrite == IF file + Overflow > space THEN Fail ELSE GoOn("csv")

\* csv.Writer.Write of the next record.
WriteRecord ==
  /\ pc = "csv"
  /\ record < Records
  /\ record' = record + 1
  /\ IF file + Overflow > space
       THEN file' = space /\ buffered' = 0
       ELSE /\ file' = file + Overflow
            /\ buffered' = buffered + RowSize - Overflow
  /\ AfterWrite
  /\ UNCHANGED <<input, set, space, ctxDone, latencyUS, rows>>

(***************************************************************************)
(* The deferred Flush, whose error nobody looks at; "wrote csv" is         *)
(* printed.  Nor does anybody look at the error of the deferred f.Close:   *)
(* the disk is taken to be one that reports at the write what it has no    *)
(* room for.                                                               *)
(***************************************************************************)
Flush ==
  /\ pc = "csv"
  /\ record = Records
  /\ file' = IF file + buffered > space THEN space ELSE file + buffered
  /\ buffered' = 0
  /\ GoOn("summary")
  /\ UNCHANGED <<input, set, space, ctxDone, latencyUS, rows, record>>

\* PrintSummary of the last row, and the exit.
Summary ==
  /\ pc = "summary"
  /\ pc' = "ended"
  /\ exit' = 0
  /\ UNCHANGED <<input, set, space, ctxDone, latencyUS, rows, output>>

-------------------------------------------------------------------------------

Run ==
  \/ ParseArgs \/ LoadTemplate \/ Dispatch
  \/ SingleRun \/ SweepStep \/ SweepEnds
  \/ Create \/ WriteRecord \/ Flush \/ Summary

Next == Run \/ Signal \/ (pc = "ended" /\ UNCHANGED vars)

Spec == Init /\ [][Next]_vars

-------------------------------------------------------------------------------
(* Properties *)

(***************************************************************************)
(* A sweep has one row per configured step, with targets that are positive *)
(* and increase from row to row, whatever the settings leave out           *)
(* (load.go:169-182), and also when it was cancelled on the way            *)
(* (load.go:185): the rows after the cancellation are all there.           *)
(***************************************************************************)
SweepComplete ==
  set.mode = "throughput" /\ pc \in {"output", "csv", "summary"} =>
    /\ Len(rows) = IF set.stepCount > 0 THEN set.stepCount ELSE 1
    /\ \A i \in 1 .. Len(rows) : rows[i].target > 0
    /\ \A i \in 1 .. Len(rows) - 1 : rows[i].target < rows[i + 1].target

(***************************************************************************)
(* The percentiles of a final row (metrics.go:123-141) are samples of the  *)
(* run with the ranks that percentiles have, so they are ordered too;      *)
(* without samples they are zero.                                          *)
(***************************************************************************)
RanksRight ==
  rows # << >> =>
    LET final == rows[Len(rows)]
    IN  IF latencyUS = << >>
          THEN final.p50 = 0 /\ final.p95 = 0 /\ final.p99 = 0
          ELSE /\ HasRank(final.p50, latencyUS, 50)
               /\ HasRank(final.p95, latencyUS, 95)
               /\ HasRank(final.p99, latencyUS, 99)
               /\ final.p50 <= final.p95 /\ final.p95 <= final.p99

(***************************************************************************)
(* How far --pps is enforced (load.go:47-55), whatever the number of       *)
(* workers and the duration: each worker may send once a second, so what   *)
(* counts is --pps or the number of workers, whichever is larger; and a    *)
(* period of whole nanoseconds is too short, by which at most one frame is *)
(* added for every so many as the period has nanoseconds.  README.md:64    *)
(* and main.go:117 promise --pps itself, which is more than the code does. *)
(***************************************************************************)
Target(pps) == (IF pps > Workers THEN pps ELSE Workers) * Seconds

PacedRate ==
  \A i \in 1 .. Len(rows) :
    LET pps    == rows[i].target
        excess == rows[i].tx - Target(pps)
    IN  Ticking(pps) /\ excess > 0 =>
          excess * (Second \div PpsPerWorker(pps, Workers)) <= Target(pps)

(***************************************************************************)
(* A CSV file that came out short without an error (metrics.go:151) lacks  *)
(* at most the last buffer: every flush before the deferred one that fails *)
(* is reported and exits with 1.  (A buffer has 4096 bytes, a record less  *)
(* than 200: this can be all of a file with up to some twenty rows.)       *)
(***************************************************************************)
SilentLossBounded ==
  exit = 0 /\ rows # << >> /\ set.outCSV => file >= Records * RowSize - BufSize

-------------------------------------------------------------------------------
(* What the documentation says and the code does not do *)

\* config.example.yaml has a value for every setting in a config file: a
\* setting that no flag overrides is the one of the file.
ConfigHonoured ==
  NamesFile(input) /\ pc \notin {"args", "ended"} =>
    \A k \in DOMAIN input.file \ DOMAIN input.flags : set[k] = input.file[k]
===============================================================================
