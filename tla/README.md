# A TLA+ model of mock5g

mock5g is a performance harness: a gNB load generator sends requests to a mock
AMF over SCTP (two backends) or QUIC and reports throughput, drops and latency
percentiles. This directory specifies the parts of it whose behaviour depends on
scheduling, timing, failures and arithmetic at its edges, checks them with TLC,
and proves with TLAPS, for all values of the constants, every invariant, action
property and refinement that TLC finds to hold.

Source lines are cited as `file:line` of the repository.

## 1. Inventory

| Component | State | Operations | What is hard |
|---|---|---|---|
| load runner, `pkg/load/load.go` | ctx of the run, shared atomic `seq`, one goroutine and one session per worker, the interval rows | `RunLatency`, `RunFlood`, `RunThroughputSweep`, `open`, `collectSnapshots` | workers interleave with each other, with the row collector and with the end of ctx; a timeout races the response it gave up on; every attempt must be counted exactly once; a sweep outlives its ctx; the rate is divided in integers |
| metrics collector, `pkg/metrics` | counters and latency samples under one mutex | `Add*`, `Snapshot`, `WriteCSV` | `AddRx` and `AddLatency` are two critical sections; the final row must come after the last of them; the percentile index truncates; a flush error is discarded |
| AMF server, `pkg/app/amf.go` | ctx, a `WaitGroup`, one handler per session | `Run`, `handleSession` | cancelling ctx does not wake a handler in `Recv`; shutdown waits for all handlers; Accept runs TLS handshakes inline |
| gNB command, `pkg/app/gnb.go` | the rows | template, dispatch on the mode, CSV and summary | several steps may fail, of which some are reported |
| config and flags, `pkg/config`, `cmd/mock5g` | none | `Load`, `runGNB`, `runAMF` | three layers: flag, file, default |
| NAS template, `pkg/nas` | none | `LoadTemplate` | – |
| wire format, `pkg/wire` | none | `Encode`, `Decode` | callers discard `Encode`'s error |
| sctp backend, `pkg/transport/sctp` | connection, `closed` flag, read and write mutex | `Dial`, `Accept`, `Send`, `Recv`, `Close` | Dial and Accept return on ctx.Done while their goroutine goes on; deadline errors are discarded |
| sctp-kernel backend, `pkg/transport/sctpkernel` | descriptor, deadlines, `closed` flag | the same, over poll and raw system calls | frames are cut from a byte stream; deadlines in milliseconds; close under a running poll; reuse of descriptor numbers |
| quic backend, `pkg/transport/quic` | connection, stream | the same, over quic-go | frames are cut from a byte stream; OpenChannel and AcceptChannel may fail |
| transport interfaces, `pkg/transport`, `backend` | none | selection by type | – |
| TLS configuration, scripts, CI | none | construction, orchestration | – |

A gNB worker dials its own session and talks to the one AMF handler of that
session over a channel; the workers share `seq`, the Collector and the ctx with
the goroutine of the run, which takes a row every second until ctx is done,
waits for the workers and takes the final row. The AMF's accept loop starts the
handlers and, when its ctx is cancelled, waits for them. There is no other
shared state, and nothing is persisted.

What makes each component correct:

- load runner and collector: every attempt has exactly one outcome; no response
  is measured that does not answer the current request; every row is coherent,
  the final row complete; a run whose ctx is done returns.
- AMF: responses leave in the order of the requests; flood frames are not
  answered; `Run` returns after it is told to stop, and only then, and after its
  last handler; every connection it takes is served or closed, and each is
  attended to.
- gNB command: a sweep has a row per step; percentiles have their ranks; the
  tickers keep to `--pps`, or to one frame per worker and second, but for the
  truncation of their period; a CSV file that was not written whole is noticed.
- stream backends: what is decoded begins with a frame that was sent, each once
  and in order; a frame whose `Send` returned nil is received whole or not at
  all, and one whose `Send` failed never whole, although what was written of it
  may be accepted together with bytes of the next ones.
- fdConn: deadlines are kept to the millisecond; no close hits another
  connection's descriptor.

PROJECT.json lists all components with what is modelled of each, and the
hazards of the code with the properties that cover them.

## 2. Modules

| Module | Models |
|---|---|
| `Wire` | frames and what `Decode` and `Encode` make of them |
| `Collector` | the counters and `Snapshot`, one atomic operation per method |
| `AmfSession` | `AMFServer.Run` in outline, `handleSession` and the association they serve |
| `AmfServer` | the accept loop over the `Accept` of each backend: errors, handshakes, peers that are silent, fail or leave |
| `ServerLifecycle` | abstract: what `AMFServer.Run` promises; implemented by `AmfServer` and by `LoadRun` |
| `LoadRun` | one run of the gNB (`RunLatency` or `RunFlood`), composed with `AmfSession`, `Collector` and `Wire` |
| `AttemptLedger` | abstract: what a latency run promises about its attempts |
| `LoadRunProofs` | theorems about `LoadRun`: types and the balance of attempts |
| `LedgerProofs` | theorems about single attempts: genuine samples, the complete final row, coherent rows, the refinement of `AttemptLedger` |
| `OrderProofs` | theorems about what is on the way in a session: the order of the responses, late workers, one-way floods, oversize payloads; and the refinement of `ServerLifecycle` by `LoadRun` |
| `GnbClient` | the gNB command from its arguments to its exit code, with the throughput sweep and the CSV file; a run of the load generator is one step |
| `Pacing` | the rate arithmetic of the tickers |
| `Percentiles` | the order statistics, and what a percentile is |
| `AmfServerProofs` | theorems about the accept loop |
| `GnbProofs` | theorems about pacing, sweeps, percentiles and the CSV file |
| `FrameChannel` | abstract: one direction of a session as frames, implemented by `StreamFraming` |
| `StreamFraming` | `Send` and `Recv` of quic and sctp-kernel over one direction of a byte stream |
| `FdWait` | one `fdConn.Read` or `Write`: poll, deadline, signals |
| `FdTable` | descriptor numbers of several `fdConn`s while handshakes are interrupted |
| `StreamFramingProofs` | theorems about the byte stream: what is accepted, in which order, and the refinement of `FrameChannel` |
| `FdWaitProofs`, `FdTableProofs` | theorems about deadlines and about descriptor numbers |
| `MC*` | instances for TLC |

### LoadRun and AmfSession

`pc[w]` is the next shared-state operation of worker `w`, named after the code:
`open`; `loop` (the select, load.go:58-71, then `seq.Add`); `send`; `addtx`;
`recv`; `addrx`; `addlat`; one label per `AddDrop*` call; `done`. Everything
between two such operations is local to the goroutine, so an action takes one of
them together with the local computation before it. In flood mode `addtx` leads
back to `loop`. `mpc` is the goroutine of the run, `rows` its result. `measured`
and `dropped` record which SeqIDs the latency samples and drop counts are about;
no guard reads them.

`link[s]` is the association as its ends see it: a close or a failure at one end
makes it `lost` (what is written now disappears, what had arrived can be read)
until the other end notices, after which its calls fail. `reqs` and `resps` are
the frames in transit. `hpc[s]` is the handler of session `s`; `amfRun` the accept loop.

The circumstances of a run are the scenario `scen`, which `Init` picks from
`Scenarios` and which never changes, so that one run of TLC covers several.
`scen.stream` (quic, sctp-kernel) lets a
receive deadline tear the stream (`torn`: the gNB reads off the boundary until it
happens on one again) and a send deadline leave part of a frame behind
(`SendCut`; `cut` has the SeqIDs of these frames). Behind a cut frame the AMF's
`Recv` fills it up with bytes of the next ones, and `Decode` looks at magic,
version and length only. So a later `Send` may arrive as nothing, as bytes that do
not decode (`Garbage`), as a frame that reads on a boundary again, or `Joined`:
with the SeqID of a frame that was cut, or, when the cut was within the
SeqID, with one that nobody drew, a member of `MadeUp`. A length beyond the limit
(`TooLong`, quic.go:153) ends the handler. The AMF answers joined requests like any
other. `StreamFraming` has the bytes of all this. `scen.deadlines` says that the
connection honours the deadlines set on it: the backends discard the error of
`SetReadDeadline` (sctp.go:203), so both cases are checked. Without `scen.fits` the
payload exceeds 0xFFFF bytes and `Encode` returns nil. `scen.faults` are the faults
that may happen (`lose`, `signal`, `lateDial`, and `silent`: a peer that may never
answer a Dial), `scen.maxSeq` and `scen.maxRows` the bounds.

Simplifications. SeqID stands for the other header fields, which are copied along
with it (in a joined frame they may be from elsewhere: its `SendTSNS`, and so a
sample made of it, is then any number; and it is taken to be of a type that the
sender sends, and to have a length that fits). A payload does not contain the four
magic bytes at a place where a misaligned reader would look for them. With the sctp
backend a frame fits in one read of 64 KiB and, under TLS, in one record. Seconds
are whole.

### AmfServer

`run` is the goroutine of `AMFServer.Run`: `top` (the select), `accept` (in
`ln.Accept`), `shake` (in the TLS handshake inside it), `sleep` (the 50 ms after an
error), `draining` (in `wg.Wait`), `returned`. `conn[p]` follows the connection of
peer `p` from the listener's queue to its handler or its close; a connection that
is `taken` is neither. `helper` is the goroutine that the sctp `Accept` starts
(sctp.go:62): it may take a connection after its `Accept` returned on ctx.Done. The
backends differ in the configuration `cfg`, which `Init` picks. With sctp-kernel
an interrupted handshake with a silent peer does not end (see `FdTable`); with quic
the handshake is over before a connection is queued, and it is `AcceptChannel`
that may wait for the peer.

Handlers are only accept, serve and end here; their frames are in `AmfSession`. A
peer behaves in one way (`mood`) and may leave at any time.

### GnbClient

`pc` is the step of `runGNB` and `GNBClient.Run`. A setting (`set`) is that of a
flag, of the config file or of `config.Default`. A run of the load generator is
one step that leaves samples and rows; `LoadRun` has its inside. The number of
frames of a row is zero, one, or all that the tickers allow in the duration of the
run (`Most`), so that what a truncated period adds up to over many seconds is
there; the few frames that a worker sends when its select prefers a tick to the
end of ctx are left out. Interval rows are cumulative, as snapshots of one
Collector are. `Pacing` calculates in nanoseconds as the code does. A row keeps
its target, its frames and its percentiles.

`Percentiles` says of the sorted copy what is at each place: the sample that as
many samples are sorted up to, itself included (`UpTo`; equal samples keep their
order, which their values do not show). It truncates the exact quotient. The code
truncates a float product; the floats nearest to 0.95 and 0.99 are so close to
them that the rounded product of an exact integer is that integer, and otherwise
the quotient is at least a hundredth away from the next integer, so both truncate
to the same index for every number of samples below 2^45.

The CSV file is a number of bytes. A record has `RowSize` of them; `bufio` writes
full buffers of `BufSize` to a disk with room for `space` bytes. The flushes inside
`Write` report their error, the deferred one does not (metrics.go:151); nor is
the error of `f.Close` looked at (metrics.go:147), but a disk here reports at the
write what it has no room for. The real buffer has 4096 bytes, so a short file
may be lost whole. `--help` exits with 0, other arguments that do not parse with 2.

### StreamFraming

A byte is a pair of frame and position, so a header that was put together from
pieces can be told from a genuine one; a false header says any length, which
over-approximates what payload bytes can say, and quic may refuse it. `Decodes` is
`wire.Decode`: the `Mark` bytes at the place where it looks for magic and version
are such bytes, of whatever frames; what stands behind them may come from
anywhere. The place depends on the backend (`offset` from `Offsets`): in
sctp-kernel the header that is read first is the frame's own, in quic it is a
length in front of the frame. `Whole` strings are one frame, byte for byte; what
`Decodes` without being `Whole` is a `Joint`. Send is a sequence of partial writes within `Window`, Recv one
`ReadFull` for the header and one for the body, each a sequence of partial
reads; a deadline may end either at any point. `timed` (from `Timeouts`) is picked
in Init: with deadlines or without.

`FrameChannel` has the same channel without bytes. A frame is in transit from the
Send that returned nil to the Recv that returned it; once a call was cut short the
channel is torn: frames may be lost, and a joint may be handed on (`Join`), the
beginning of a frame whose Send failed with bytes of later frames. Nothing is
handed on twice or overtaken.
Its frames are numbered in the order of their Send and kept in sets: a Send adds a
number above all earlier ones, a Recv takes the smallest that is in transit, and
only a prefix of the frames in transit can be lost, and only by a step that tears or joins.
That is what `LoadRun` assumes of a stream backend with `torn` and `cut`, except
that `FrameChannel` does not look into a joint and `LoadRun` reads a SeqID there.

### FdWait and FdTable

`FdWait` has a clock of `UnitsPerMs` ticks per millisecond and the arithmetic of
`deadlineTimeout`. The computations around poll take no time. `FdTable` abstracts
from time; its kernel gives out the lowest free number, and a blocked poll stays
with the socket it was called for. `Dial` may fail without a socket (an address,
EMFILE) or, between the socket and `newFDConn`, with one that it closes itself
(`ConnectFails`). A handshake writes its hello and reads the answer, under the
number it holds, whoever has that number by now: `hello[k]` says whose bytes came
first on the socket of `k`, and only the answer to its own hello completes a
handshake.

## 3. Runs

| Run | Question | Bounds | Result |
|---|---|---|---|
| `latency` | Is every attempt counted once, every row coherent, the final row complete, every sample genuine? Are responses in order? What becomes of a late worker, and of a payload that does not fit? Does the run implement `AttemptLedger`? | 2 workers; the scenarios `Calm` (3 attempts), `Rowed` (2, 1 interval row), `Torn` (2, a byte stream, lost links), `Failing` (2, signal and lost links), `Oversize` (2) | yes, the order as long as no frame was cut; a late worker measures nothing more; every oversize attempt is a drop |
| `flood` | Accounting and one-way traffic in flood mode, also behind cut frames | 2 workers, 3 attempts, 1 row, a byte stream | holds |
| `shutdown` | Do the AMF and the gNB return, and does the AMF keep `ServerLifecycle`? | 2 workers, 1 attempt; `Sctp` (signal, lost links, late dials, no deadlines), `SctpOversize` (signal, no deadlines, nothing that fits), `Silent` (a byte stream, signal, a peer that may be silent) | `ServerLifecycle` is kept; the AMF returns unless the two programs wait for each other (`CircularWait`), the gNB unless a Dial hangs (`HungDial`) or a Recv has nobody to answer it (`Unanswered`) |
| `closed_loop` | One request outstanding at a time? | 1 worker, 2 attempts | violated (finding) |
| `flood_throughput` | Does a flood run report a throughput? | 1 worker, 2 attempts | violated (finding) |
| `amf_accept` | Do accept errors end the AMF? Is a connection forgotten? Is every peer attended to? Does the AMF stop, and keep `ServerLifecycle`? | 2 peers, 7 configurations | yes, but for a silent peer that no timeout reaches |
| `gnb` | Are sweeps complete, percentiles right, rates bounded, losses bounded? | 20 command lines and files, 27 sample sets of up to 25 samples, 6 disks, records of 2 bytes, a buffer of 3 | yes; the bound of the rates is not `--pps` (section 4) |
| `config_honoured` | Does a setting of the config file take effect? | 1 file | violated (finding) |
| `framing` | What does `Decode` accept, wherever deadlines cut? Is everything delivered without deadlines? Are both a `FrameChannel`? | 4 frames, header 2, bodies 0 to 3, window 3, 1 byte of magic, at the front or behind a header, with and without deadlines | frames once and in order, each whole, or a joint if its Send failed; yes; yes |
| `fd_wait` | How exact are deadlines? | 12 ticks, 3 to the millisecond | within a millisecond |
| `fd_reuse` | Does a close hit the wrong connection? Is a number lost? | 3 connections, 2 numbers | no; no (reads and writes of a closed connection do hit others) |
| `handshake_timeout` | Does the timeout of a handshake end it? | 1 connection | violated (finding) |

Bounds. Two workers give every pairwise interleaving on `seq`, the Collector and
the final row; no property relates three workers, and the theorems hold for any
number. Three attempts let one worker be late and the other be between two
counters. One interval row, taken at any time, precedes the final row, so that
two rows are compared. `maxSeq` bounds the attempts of a run; a worker
that reached it stays in its select until ctx is done, as with a slow ticker. The
liveness run has one attempt for two workers, so one worker can be idle, still
opening or unaccepted while the other is anywhere in its attempt. `MadeUp = {0, 2}`
has a SeqID below all that are drawn and one that is drawn as well, which a joined
frame can forge in the place of a real one; the theorems hold for any set. In
`amf_accept` one peer can be in its handshake, or left by the helper goroutine,
while the other is queued or served; what concerns three peers is a repetition of
that, and the safety properties are proved for any number. In `gnb`, samples
come in blocks of equal values in different orders, so every percentile falls on
either side of a boundary between blocks; from 21 samples on p95 and p99 differ.
Records of 2 bytes and a buffer of 3 give every fill level and a record that
straddles two flushes. In
`framing` both header and body can be cut in the middle, and a joint can have bytes
of three frames. In `fd_reuse` three connections share two numbers, so a number is
given out again while an earlier holder still reads and writes under it, and a Dial
can find none. Workers and connections are symmetric; symmetry is not used in
liveness runs. Deadlock is checked everywhere except in `framing`, where the
receiver waits for more frames in the end, and in `shutdown`, where the two
programs may wait for each other for good.

Fairness. Weak fairness of each goroutine: the Go scheduler runs what can run,
and a call that can end does: a Send, and a Dial unless its peer may be silent
(`HungDial`; `handshake_timeout` shows why). Strong fairness of a worker's exit: select chooses
at random among ready cases, so a worker that returns to its select after ctx is
done leaves eventually. Timers fire (`Expire`). The surviving end of an
association notices its loss (SCTP heartbeats, QUIC idle timeout). The process
of the gNB ends after its run. No fairness for signals, losses or silent peers.
In `AmfServer`: accept errors do not go on for ever (strong fairness of taking a
connection, which is enabled again after every 50 ms pause), and a peer that is
served leaves, for its run has a duration; a silent peer may stay for ever, so
`Attended` and `Stops` name the states in which it holds up the loop.

## 4. Findings

- `closed_loop`: README.md:12 calls the mode closed-loop. A worker that times
  out sends its next request while the earlier response is on its way. It reads
  one message per request, so it reads that response next, counts a mismatch, and
  is one behind from then on: `LateStaysLate` says that it never measures again while its association lives,
  though the AMF answers every request. One slow response thus turns the rest of
  a worker's run into drops.
- `flood_throughput`: README.md:15 promises throughput in the CSV. It is computed
  from responses (metrics.go:99), and flood mode has none: `achieved_pps` is 0 in
  every flood row.
- `handshake_timeout`: in the sctp-kernel backend the connect timeout of
  config.example.yaml:13 does not end a TLS handshake with a silent peer. The
  interrupter closes the descriptor, which does not wake the poll. In `LoadRun` such
  a Dial keeps a run from returning (`HungDial` in `Termination`).
- `config_honoured`: config.example.yaml:35 offers `nas_template` as a setting of a
  config file, and config.go:30 reads it; `runGNB` overwrites it with the value of
  a flag whose default is empty (main.go:114, main.go:150), so a template named in
  the file is never sent.

One more sentence is contradicted, by a theorem and not by a run of its own:
README.md:64 says that with `--latency-rate-limit` "`--pps` is enforced in latency
mode", and so does the flag's help (main.go:117). With more workers than `--pps` the
quotient of load.go:49 is raised to one, so each worker sends one frame per second:
3 workers at `--pps 2` send 3. And the period of a ticker is truncated to
nanoseconds, which adds up: at 30000 per second it is 33333 ns, and a run of ten
seconds sends 300003 frames. `TickersKeepPPS` says so for every number of workers,
rate and duration, and `PacedRate` is the bound that does hold: the larger of
`--pps` and the number of workers, with an excess of at most one frame for every
so many as the period has nanoseconds.

What the runs show of the program where no sentence of the repository promises
otherwise:

- A worker of the sctp backend whose `Recv` has no deadline and the AMF can wait for
  each other for good (`CircularWait`): the AMF has stopped accepting and waits for
  a handler, whose association was leaked by a late Dial (sctp.go:118) and is closed
  only by the end of the gNB's process; that waits for the worker, and the worker
  for the AMF to accept or abort its session. Or nothing of a request was sent, and
  handler and worker both wait in `Recv`. `AmfDrains` says that this is the only way
  for the AMF not to return.
- What a Send wrote before its deadline can be accepted with bytes of the next
  frames as a request with the SeqID of the failed attempt, or with a made-up
  one. The AMF answers it. `SamplesGenuine` says that no attempt is measured twice, or
  measured and dropped, in spite of it; the order of the responses is lost
  (`ResponsesInOrder` holds until the first cut).
- A goroutine of a closed `fdConn` may read the data of, or write into, the open
  connection that has got its descriptor number (`Read` and `Write` of `FdTable`).
  Only closes are kept from that (`OwnsItsNumber`).
- A run with no connection at all reports zeros and success (load.go:43).
- An oversize payload is counted as transmitted though nothing decodable is sent
  (load.go:74).
- A cancelled sweep adds a row for each remaining step and exits with 0.
- The end of a CSV file may be missing from a full disk while the command says that
  it wrote it (metrics.go:151; `SilentLossBounded` says how much).
- `-config` is accepted and ignored, since only `--config` is looked for
  (main.go:179).
- One silent peer in a TLS handshake keeps every other peer of an sctp-kernel AMF in
  the queue (`HeldUp`).

## 5. Proofs

For any finite non-empty set of workers, any bounds, both modes, every backend
and every fault:

- `TypeCorrect` (`LoadRunProofs`): `Spec => []TypeOK`. Inductive as it stands.
- `AttemptsConserved` (`LoadRunProofs`): `Spec => []Conservation`. Conservation
  together with TypeOK is inductive. `CountMove` says how the number of workers at
  a set of labels changes when one of them moves; a step that counts nothing stays
  within its group of labels (`QuietMove`), and each of the five counting steps
  changes one counter and one or two groups by one.
- `LedgerInvariant` (`LedgerProofs`): `Spec => [](TypeOK /\ LedgerInv)`.
  Conservation counts attempts but does not tell them apart, so it cannot say that
  a sample is not a drop as well. `LedgerInv` does: `Attempts` (busy workers hold
  different, unresolved SeqIDs, and `got = next` where a latency is recorded, which
  is what the comparison of load.go:97 is for), `Tallied` (the Collector counts the
  resolved SeqIDs), `Complete` (in latency mode an unresolved SeqID has its
  worker), `Final` (after the return the final row is the Collector). The steps
  are of four kinds: those that resolve nothing, drawing, measuring, dropping. From
  it follow
  - `OnlyGenuineSamples`: `Spec => []SamplesGenuine`,
  - `FinalRowIsComplete`: `Spec => []FinalRowComplete`, with `AttemptsConserved`,
  - `LatencyRunImplementsLedger`: `Spec => ImplementsLedger` for
    `Mode = "latency"`. Each kind of step is a step of the ledger or none; `Finish`
    is `Report` because `Complete` leaves nothing in progress and `Tallied` makes
    the columns cardinalities.
- `EveryRowIsCoherent` (`LedgerProofs`): `Spec => []RowsCoherent`. A snapshot is
  coherent by `Conservation`; what is added is that the counters have grown since
  every row (`RowsBehind`) and that flood workers never wait (`FloodCounts`).
- `OrderInvariant` (`OrderProofs`): `Spec => []OrderInv`, which says of every
  session what is on the way, from the responses over the request that the AMF
  holds to the requests. `Ordered` and `Bounded`: the SeqIDs increase along the way
  and none is above the worker's latest, as long as the worker has cut no frame. `Fresh`: what is about to be sent is newer
  than everything on the way, and when a response is accounted for, nothing is.
  The second half is why an answer to the current request means that the worker
  has caught up; it follows from `Ordered` at the moment the worker
  reads `got = next`. `Kinds`, `Boundaries`, `NoFrames`: what requests are, that a
  message backend cuts none, and that an oversize payload makes none. `Awaited`: on a
  message backend the current request or its response is on the way while its worker
  waits. From it follow
  - `OrderIsKept`: `Spec => []ResponsesInOrder`,
  - `FloodIsOneWay`: `Spec => []FloodOneWay`,
  - `OversizeIsDropped`: `Spec => []OversizeDropped`, with `LedgerInv` and the
    invariant that nothing was measured (`Unmeasured`),
  - `LateForGood`: `Spec => LateStaysLate` for `Mode = "latency"`. A worker that is
    late has an older response in front of it; what it reads next is that response,
    and by `Awaited` the response to its current request stays behind. The
    property speaks of latency runs only, since a flood worker reads nothing.
- `AmfImplementsLifecycle` (`OrderProofs`): `Spec => ImplementsLifecycle` of
  `LoadRun`: a step of a handler or of the accept loop is a step of `ServerLifecycle`
  or none (`HandlerImplements`, `RunImplements`), and no other step changes what it sees.

For any set of peers and every configuration (`AmfServerProofs`):

- `OnlyASignalStops`: `Spec => []StopsOnlyWhenTold`, `NothingIsForgotten`:
  `Spec => []NoneForgotten`, `NeverTwoHelpers`: `Spec => []OneHelper`, and
  `TypesKept`. `NoneForgotten` speaks of the places
  where a connection may be `taken`, but not of what `cur` and `helper` are there;
  `Custody` adds that (a connection in `cur` is taken, and Accept is in its
  handshake or has a finished helper), and `IInv` is inductive.
- `AcceptLoopImplementsLifecycle`: `Spec => ImplementsLifecycle`. Every step starts
  a handler (`StartRefines`), ends one, enters the draining phase (`ErrorRefines`),
  returns, or changes nothing that `ServerLifecycle` sees (`OtherSteps`). `IInv` is needed
  where `SelectResult` and the handshake start a handler: for a connection that has
  none.

For every setting of the run, any whole number of seconds, and any size of record,
buffer and disk (`GnbProofs`):

- `IndexInRange`: the index of a percentile is in range, without the clamps.
- `PercentileHasRank`: a percentile of any samples, in any order, is one of them and
  has its rank. Sorting is not computed but counted: no two samples have the same
  number of samples sorted up to them, so the map from samples to places is
  injective, hence onto (`PlacesTaken`, by `FS_Injection`), the sorted copy
  ascends, and fewer than `i` samples are below its place `i`. `RanksAreRight`:
  `Spec => []RanksRight`, for the row that each run adds last; `TypesKept`.
- `TickersKeepPPS`: what all tickers allow in `D` seconds, for any number of workers
  and any `--pps`. `TickerExcess` has one ticker of rate `k` and truncated period
  `q = 1e9 \div k`: its ticks take no longer than the run (`TicksFit`), and
  `1e9 < k q + k`, so its excess over `D k` ticks, times `q`, is at most `D k`. The
  excess of all workers is the sum of theirs.
- `RateKept`: `Spec => []PacedRate`, with the invariant that a row has a number of
  frames which the tickers allow for its target.
- `SweepsAreComplete`: `Spec => []SweepComplete`; `SweepInv` says what target each row has.
- `LossIsBounded`: `Spec => []SilentLossBounded`; `CsvInv` says that file and buffer
  together have all bytes of the records written.

For headers, bodies, windows and numbers of frames of any size, and deadlines that
pass anywhere (`StreamFramingProofs`):

- The argument is about one byte string, `Pipe`: what the running Recv has read,
  what is in transit and what the running Send has left. Send appends a frame, a
  deadline cuts a piece off one end, a Recv that returns takes its bytes off the
  front, and every other step leaves the pipe as it is. So all that is shown of a
  step is that the new pipe is a piece of the old one, or that with a frame behind
  it. `FramingInv`: the bytes of the pipe are `Rising` (`InOrder`), the last byte of a frame is written
  only when the frame is complete (`Ends`), what was accepted is complete and
  behind the pipe (`Past`), and without a torn frame every byte has the rest of its
  frame around it (`Intact`). "Consists of whole frames" is stated byte by
  byte (`Unbroken`), which needs no induction over the pipe.
- `OnlyGenuineFrames`: `Spec => []AcceptsGenuine`; `OnlyFailedFramesJoin`:
  `Spec => []AcceptsIntact`; `WholeAndInOrder`: `Spec => []DeliversInOrder`;
  `TypesKept`. The first two rest on `HeadInv`. In the pipe, and in every string
  that was returned, the places in front of a byte have the earlier bytes of its
  frame, as far as the string reaches (`Filled`); so a string with the first byte of
  the magic in its place begins with the first byte of a frame (`DecodesFirst`).
  Such strings rise and are behind the pipe (`HeadsRise`, `Behind`), and one that
  begins with a frame whose Send has not failed is that frame (`HeadsWhole`).
- `FramingImplementsChannel`: `Spec => ImplementsChannel`. `TransitInv` says that a frame that is
  complete, or still can be, is in the pipe as a whole if its first byte is (`Solid`), also after a tear,
  and that a Recv which began at its first byte knows its length (`Reading`). So a
  Write that completes a frame is a `Send`, a Read after which Recv returns a
  whole frame takes the oldest one in transit and is a `Receive`, and whatever
  else takes first bytes off the front is a `Tear` of a channel that is torn.

For clocks, deadlines and signals of any kind (`FdWaitProofs`): `NeverEarly`, `NeverLate`,
`TypesKept`. The invariant is `LimitRight`: where poll will time out, relative to
the deadline, in each of the three cases of `deadlineTimeout` (`TimeoutBounds`).

For any fdConns and any finite set of numbers (`FdTableProofs`): `OpenKeepsItsSocket`
(`OwnsItsNumber`), `NumbersComeBack` (`NoneLeaked`), `TypesKept`. `OwnsItsNumber` becomes inductive with its converse,
`NumbersHeld`: what a number denotes is an open connection that holds it. `CloseFrees` is shared by
the four places that close.

The invariants `LedgerInv`, `RowsInv`, `OrderInv`, `FramingInv`, `TransitInv` and `HeadInv`
were checked with TLC on the instances of section 3 before they were proved.
The theorems rest on the assumptions named in the modules: the workers are
finite in number and not none, `NoPeer` is no peer, `NoConn` no connection, descriptor numbers are
positive and finite in number, and the constants have their types.

Only model-checked: liveness (`AmfDrains`, `Termination`, `Delivered`, `Attended`,
`Stops`), which needs fairness and ENABLED, out of the prover's reach, and the
four violations of section 4, which are counterexamples. Every invariant, action property and
refinement that a passing run checks is a theorem.

## 6. Not modelled, and the plan

Still open: the `sctp` and `quic` calls around a session (`Dial` and its
goroutine, `OpenChannel`) are steps of `LoadRun` and `AmfServer` that may fail or
come late, not modules of their own; their states are few and their hazards are
those of section 2. What remains to be proved is what the liveness properties
need of safety: that a state in which the AMF or the gNB waits for ever is one
of the states that the exceptions of `Stops` and `AmfDrains` name.

Left out for good: TLS configuration and certificates, backend selection, socket
options, address resolution, `runAMF`'s copying of flags, `PrintSummary`, shell scripts and CI. They
keep no state and run once, without concurrency; what can fail in them is an error
that the actions above already return. The byte layout of frames is abstracted in
`Wire`.
