-------------------------------- MODULE LoadRun --------------------------------
(***************************************************************************)
(* One run of the gNB load generator, RunLatency or RunFlood of            *)
(* pkg/load/load.go, against the AMF of AmfSession: the worker goroutines, *)
(* the goroutine that collects the interval rows and then waits for the    *)
(* workers, the ctx they share, and the Collector.                         *)
(*                                                                         *)
(* A step of a worker is what no other goroutine can see half done: one    *)
(* operation on the shared atomic seq, one call of ch.Send or ch.Recv, one *)
(* call of the Collector.                                                  *)
(***************************************************************************)
EXTENDS AmfSession, Collector, FiniteSets

CONSTANTS
  Mode,           \* "latency" (RunLatency) or "flood" (RunFlood)
  RateLimit,      \* RunLatency has a ticker: LatencyRateLimit && PPS > 0
  Duration,       \* RunCfg.Duration, in seconds
  MadeUp          \* what a SeqID may read as that is joined from two frames

\* One goroutine per worker, one session per goroutine.
Workers == Sessions

ASSUME ModeAssumption == Mode \in {"latency", "flood"}
ASSUME WorkersAssumption == IsFiniteSet(Workers) /\ Workers # {}
ASSUME RateLimitAssumption == RateLimit \in BOOLEAN
ASSUME DurationAssumption == Duration \in Nat \ {0}
ASSUME MadeUpAssumption == MadeUp \subseteq Nat

VARIABLES
  ctxDone,   \* the ctx of the run: its timeout passed or it was cancelled
  seq,       \* the atomic counter the workers draw SeqIDs from
  pc,        \* pc[w]: the next step of worker w
  next,      \* next[w]: the SeqID of the attempt w is making
  got,       \* got[w]: the SeqID of the response w is accounting for, or 0
  torn,      \* torn[w]: w reads the response stream off a frame boundary
  cut,       \* cut[w]: the SeqIDs of the frames that w wrote in part
  c,         \* the Collector
  measured,  \* the SeqIDs whose latency was recorded
  dropped,   \* the SeqIDs that were counted as dropped
  mpc,       \* the goroutine of RunLatency or RunFlood itself
  rows       \* the snapshots taken so far

runVars == <<ctxDone, seq, pc, next, got, torn, cut, c, measured,
             dropped, mpc, rows>>

vars == <<amfVars, runVars>>

WorkerPCs == {"open", "loop", "send", "addtx", "recv", "addrx", "addlat",
              "done"} \cup DropKinds

TypeOK ==
  /\ AmfTypeOK
  /\ ctxDone \in BOOLEAN
  /\ seq \in Nat
  /\ pc \in [Workers -> WorkerPCs]
  /\ next \in [Workers -> Nat]
  /\ got \in [Workers -> Nat]
  /\ torn \in [Workers -> BOOLEAN]
  /\ cut \in [Workers -> SUBSET Nat]
  /\ c \in [Counters -> Nat]
  /\ measured \subseteq Nat
  /\ dropped \subseteq Nat
  /\ mpc \in {"collect", "wait", "returned"}
  /\ rows \in Seq(Rows)

\* The ctx may be cancelled before the run begins: a sweep goes on with its
\* next step after a signal.
Init ==
  /\ AmfInit
  /\ ctxDone \in BOOLEAN
  /\ seq = 0
  /\ pc = [w \in Workers |-> "open"]
  /\ next = [w \in Workers |-> 0]
  /\ got = [w \in Workers |-> 0]
  /\ torn = [w \in Workers |-> FALSE]
  /\ cut = [w \in Workers |-> {}]
  /\ c = Zero
  /\ measured = {}
  /\ dropped = {}
  /\ mpc = "collect"
  /\ rows = << >>

-------------------------------------------------------------------------------
(* The worker: opening and closing its session *)

GoTo(w, label) == pc' = [pc EXCEPT ![w] = label]

\* open succeeds: Dial established the association, OpenChannel gave a channel.
Open(w) ==
  /\ pc[w] = "open"
  /\ amfRun # "returned"
  /\ GoTo(w, "loop")
  /\ link' = [link EXCEPT ![w] = "up"]
  /\ UNCHANGED <<scen, amfRun, amfDone, reqs, resps, hpc, held, ctxDone,
                 seq, next, got, torn, cut, c, measured, dropped, mpc, rows>>

(***************************************************************************)
(* open fails and the goroutine returns without a trace in the Collector:  *)
(* Dial failed; or it succeeded and OpenChannel failed, after which open   *)
(* closes the session; or the sctp Dial returned on ctx.Done while its     *)
(* goroutine goes on to establish an association that nobody closes.  A    *)
(* Dial need not come to an end at all: see HungDial.                      *)
(***************************************************************************)
OpenFails(w) ==
  /\ pc[w] = "open"
  /\ GoTo(w, "done")
  /\ \/ UNCHANGED link
     \/ amfRun # "returned" /\ link' = [link EXCEPT ![w] = "lost"]
     \/ /\ "lateDial" \in scen.faults /\ ctxDone /\ amfRun # "returned"
        /\ link' = [link EXCEPT ![w] = "up"]
  /\ UNCHANGED <<scen, amfRun, amfDone, reqs, resps, hpc, held, ctxDone,
                 seq, next, got, torn, cut, c, measured, dropped, mpc, rows>>

\* The loop's select takes ctx.Done, and the goroutine returns; sess.Close.
Exit(w) ==
  /\ pc[w] = "loop"
  /\ ctxDone
  /\ GoTo(w, "done")
  /\ link' = [link EXCEPT ![w] = Severed(@)]
  /\ UNCHANGED <<scen, amfRun, amfDone, reqs, resps, hpc, held, ctxDone,
                 seq, next, got, torn, cut, c, measured, dropped, mpc, rows>>

-------------------------------------------------------------------------------
(* The worker: sending *)

\* RunFlood always paces its workers with a ticker.
Ticker == Mode = "flood" \/ RateLimit

(***************************************************************************)
(* The select lets the worker go on.  When ctx.Done and ticker.C are both  *)
(* ready Go picks either; without a ticker ctx.Done has precedence.        *)
(***************************************************************************)
MayBegin == ~ctxDone \/ Ticker

Begin(w) ==
  /\ pc[w] = "loop"
  /\ MayBegin
  /\ seq < scen.maxSeq
  /\ seq' = seq + 1
  /\ next' = [next EXCEPT ![w] = seq + 1]
  /\ GoTo(w, "send")
  /\ UNCHANGED <<amfVars, ctxDone, got, torn, cut, c, measured,
                 dropped, mpc, rows>>

RequestType == IF Mode = "flood" THEN "MsgFlood" ELSE "MsgReq"

(***************************************************************************)
(* Behind a frame that was written in part Recv takes the bytes of the     *)
(* next ones for its rest.  The message this makes of two or more frames   *)
(* begins like a frame, if it begins where that one did, and then decodes: *)
(* with the SeqID of that frame, or, cut within the SeqID, with one that   *)
(* nobody sent.  Elsewhere it begins amid a frame, and does not decode.    *)
(***************************************************************************)
Joined(w) == {Frame(RequestType, id) : id \in cut[w] \cup MadeUp}

(***************************************************************************)
(* What Recv makes of the bytes of one Send off the boundary: nothing yet, *)
(* a message that does not decode, a joined one, or a length it refuses,   *)
(* at once or behind another message.  Only one message that begins like a *)
(* frame ends in the bytes of one Send: the next such begins with that     *)
(* Send.  Nil buffers add only zeros, in which no frame begins.            *)
(***************************************************************************)
Misread(w) ==
  IF ~scen.fits THEN {<< >>, <<Garbage>>}
  ELSE LET messages == {<< >>, <<Garbage>>} \cup {<<m>> : m \in Joined(w)}
       IN  messages \cup {m \o <<TooLong>> : m \in messages}

(***************************************************************************)
(* What Recv makes of a Send that returned nil.  A nil buffer is written   *)
(* as nothing or as an empty message.  Behind a cut frame the AMF reads    *)
(* off the boundary, until it happens to find one.                         *)
(***************************************************************************)
Arrivals(w) ==
  LET frm == Encode(scen.fits, RequestType, next[w])
  IN  IF scen.fits /\ cut[w] = {} THEN {<<frm>>} ELSE {<<frm>>} \cup Misread(w)

SendOk(w) ==
  /\ pc[w] = "send"
  /\ link[w] # "down"
  /\ \E frames \in Arrivals(w) : reqs' = Deliver(reqs, w, frames)
  /\ GoTo(w, "addtx")
  /\ UNCHANGED <<scen, amfRun, amfDone, link, resps, hpc, held, ctxDone,
                 seq, next, got, torn, cut, c, measured, dropped, mpc, rows>>

\* The deadline of the run's ctx has passed under a blocked Send.
SendDeadline == scen.deadlines /\ ctxDone

(***************************************************************************)
(* ch.Send fails and nothing of the frame is written: the association is   *)
(* gone, the deadline passed, or SCTP refuses the empty write of a nil     *)
(* buffer.                                                                 *)
(***************************************************************************)
SendFails(w) ==
  /\ pc[w] = "send"
  /\ link[w] = "down" \/ SendDeadline \/ ~scen.fits
  /\ GoTo(w, "sendErr")
  /\ UNCHANGED <<amfVars, ctxDone, seq, next, got, torn, cut, c,
                 measured, dropped, mpc, rows>>

(***************************************************************************)
(* ch.Send fails by its deadline with a part of the frame written, which   *)
(* may complete a message that an earlier cut frame began.                 *)
(***************************************************************************)
SendCut(w) ==
  /\ pc[w] = "send"
  /\ scen.stream
  /\ SendDeadline
  /\ cut' = [cut EXCEPT ![w] = @ \cup {next[w]}]
  /\ \E frames \in IF cut[w] = {} THEN {<< >>} ELSE Misread(w) :
       reqs' = Deliver(reqs, w, frames)
  /\ GoTo(w, "sendErr")
  /\ UNCHANGED <<scen, amfRun, amfDone, link, resps, hpc, held, ctxDone,
                 seq, next, got, torn, c, measured, dropped, mpc, rows>>

\* A latency worker waits for the response, a flood worker for its ticker.
AfterTx == IF Mode = "flood" THEN "loop" ELSE "recv"

AddTx(w) ==
  /\ pc[w] = "addtx"
  /\ c' = Add(c, "tx")
  /\ GoTo(w, AfterTx)
  /\ UNCHANGED <<amfVars, ctxDone, seq, next, got, torn, cut,
                 measured, dropped, mpc, rows>>

-------------------------------------------------------------------------------
(* The worker: receiving *)

MutIgnoreSeqID(raw, id) ==
  IF ~Decodes(raw) THEN "decode"
  ELSE IF raw.msgType # "MsgResp" THEN "mismatch"
  ELSE "addrx"

\* What the worker does with a message that Recv returned.
Classify(raw, id) ==
  IF ~Decodes(raw) THEN "decode"
  ELSE IF raw.msgType # "MsgResp" \/ raw.seqID # id THEN "mismatch"
  ELSE "addrx"

\* Recv returns the next frame.
RecvFrame(w) ==
  /\ pc[w] = "recv"
  /\ ~torn[w]
  /\ resps[w] # << >>
  /\ resps' = [resps EXCEPT ![w] = Tail(@)]
  /\ got' = [got EXCEPT ![w] = Head(resps[w]).seqID]
  /\ GoTo(w, Classify(Head(resps[w]), next[w]))
  /\ UNCHANGED <<scen, amfRun, amfDone, link, reqs, hpc, held, ctxDone,
                 seq, next, torn, cut, c, measured, dropped, mpc, rows>>

(***************************************************************************)
(* Recv runs into the deadline of rctx.  On a stream ReadFull may have     *)
(* consumed a part of the frame that was arriving, and it is lost.         *)
(***************************************************************************)
RecvTimeout(w) ==
  /\ pc[w] = "recv"
  /\ scen.deadlines
  /\ LET inFrame == scen.stream /\ resps[w] # << >>
     IN  torn' \in {torn, [torn EXCEPT ![w] = @ \/ inFrame]}
  /\ GoTo(w, "timeout")
  /\ UNCHANGED <<amfVars, ctxDone, seq, next, got, cut, c,
                 measured, dropped, mpc, rows>>

MutDeafToReset(w) == FALSE

\* The association is known to be gone.
Reset(w) == link[w] = "down"

\* Recv fails with it; the idle timeout of quic counts as a timeout.
RecvFails(w) ==
  /\ pc[w] = "recv"
  /\ Reset(w)
  /\ \E kind \in {"other", "timeout"} : GoTo(w, kind)
  /\ UNCHANGED <<amfVars, ctxDone, seq, next, got, torn, cut, c,
                 measured, dropped, mpc, rows>>

(***************************************************************************)
(* Recv off the frame boundary: the bytes it takes for a length and a body *)
(* use up any prefix of what has arrived; what it returns does not decode, *)
(* or the length is refused, or the deadline passes.  It may end on a      *)
(* boundary again.                                                         *)
(***************************************************************************)
RecvTorn(w) ==
  /\ pc[w] = "recv"
  /\ torn[w]
  /\ \E k \in 0 .. Len(resps[w]) :
       /\ resps' = [resps EXCEPT ![w] = SubSeq(@, k + 1, Len(@))]
       /\ torn' \in {torn, [torn EXCEPT ![w] = k = 0]}
  /\ \E kind \in {"decode", "timeout", "other"} : GoTo(w, kind)
  /\ UNCHANGED <<scen, amfRun, amfDone, link, reqs, hpc, held, ctxDone,
                 seq, next, got, cut, c, measured, dropped, mpc, rows>>

-------------------------------------------------------------------------------
(* The worker: accounting *)

MutSampleTwice(w) ==
  /\ pc[w] = "addrx"
  /\ c' = Add(Add(c, "lat"), "rx")
  /\ GoTo(w, "addlat")
  /\ UNCHANGED <<amfVars, ctxDone, seq, next, got, torn, cut,
                 measured, dropped, mpc, rows>>

AddRx(w) ==
  /\ pc[w] = "addrx"
  /\ c' = Add(c, "rx")
  /\ GoTo(w, "addlat")
  /\ UNCHANGED <<amfVars, ctxDone, seq, next, got, torn, cut,
                 measured, dropped, mpc, rows>>

\* The sample is the age of the response's SendTSNS.
AddLatency(w) ==
  /\ pc[w] = "addlat"
  /\ c' = Add(c, "lat")
  /\ measured' = measured \cup {got[w]}
  /\ got' = [got EXCEPT ![w] = 0]
  /\ GoTo(w, "loop")
  /\ UNCHANGED <<amfVars, ctxDone, seq, next, torn, cut, dropped,
                 mpc, rows>>

MutSendAnyway(kind) == IF kind = "sendErr" THEN "addtx" ELSE "loop"

MutNoContinue(kind) == IF kind = "timeout" THEN "decode" ELSE "loop"

\* Every AddDrop is followed by continue.
AfterDrop(kind) == "loop"

\* AddDropTimeout, AddDropSendErr, AddDropDecode, AddDropMismatch, AddDrop.
AddDrop(w) ==
  /\ pc[w] \in DropKinds
  /\ c' = Add(c, pc[w])
  /\ dropped' = dropped \cup {next[w]}
  /\ got' = [got EXCEPT ![w] = 0]
  /\ GoTo(w, AfterDrop(pc[w]))
  /\ UNCHANGED <<amfVars, ctxDone, seq, next, torn, cut, measured,
                 mpc, rows>>

Worker(w) ==
  \/ Open(w)      \/ OpenFails(w)
  \/ Begin(w)     \/ Exit(w)
  \/ SendOk(w)    \/ SendFails(w)   \/ SendCut(w)  \/ AddTx(w)
  \/ RecvFrame(w) \/ RecvTimeout(w) \/ RecvFails(w) \/ RecvTorn(w)
  \/ AddRx(w)     \/ AddLatency(w)  \/ AddDrop(w)

-------------------------------------------------------------------------------
(* The goroutine of RunLatency or RunFlood *)

\* collectSnapshots: the one-second ticker fires.
Tick ==
  /\ mpc = "collect"
  /\ Len(rows) < scen.maxRows
  /\ rows' = Append(rows, Snapshot(c, Len(rows) + 1))
  /\ UNCHANGED <<amfVars, ctxDone, seq, pc, next, got, torn, cut,
                 c, measured, dropped, mpc>>

\* collectSnapshots returns.
StopCollecting ==
  /\ mpc = "collect"
  /\ ctxDone
  /\ mpc' = "wait"
  /\ UNCHANGED <<amfVars, ctxDone, seq, pc, next, got, torn, cut,
                 c, measured, dropped, rows>>

MutNoWait == \E w \in Workers : pc[w] = "done"

\* wg.Wait returns.
WorkersDone == \A w \in Workers : pc[w] = "done"

\* RunFlood divides by the configured duration, RunLatency by the time that
\* passed: less after a signal, more when a worker was blocked at the end.
Elapsed == IF Mode = "flood" THEN {Duration} ELSE 1 .. Duration + 1

\* The final row, and the return.
Finish ==
  /\ mpc = "wait"
  /\ WorkersDone
  /\ \E since \in Elapsed : rows' = Append(rows, Snapshot(c, since))
  /\ mpc' = "returned"
  /\ UNCHANGED <<amfVars, ctxDone, seq, pc, next, got, torn, cut,
                 c, measured, dropped>>

Main == Tick \/ StopCollecting \/ Finish

\* The gNB process ends after the run, and what it left open is closed.
ProcessEnds ==
  /\ mpc = "returned"
  /\ \E s \in Sessions : link[s] = "up"
  /\ link' = [s \in Sessions |-> Severed(link[s])]
  /\ UNCHANGED <<scen, amfRun, amfDone, reqs, resps, hpc, held, runVars>>

\* The timeout of the run's ctx fires, or its parent is cancelled.
Expire ==
  /\ ~ctxDone
  /\ ctxDone' = TRUE
  /\ UNCHANGED <<amfVars, seq, pc, next, got, torn, cut, c,
                 measured, dropped, mpc, rows>>

-------------------------------------------------------------------------------
(* The system *)

\* The goroutine of the AMF's Run.
AmfMain ==
  /\ (\E s \in Sessions : StartHandler(s)) \/ StopAccepting \/ AmfReturn
  /\ UNCHANGED runVars

AmfHandler(s) == Handler(s) /\ UNCHANGED runVars

Learn(s) == Notice(s) /\ UNCHANGED runVars

Environment ==
  /\ \/ AmfSignal
     \/ \E s \in Sessions : Lose(s)
  /\ UNCHANGED runVars

\* The run is over and the AMF has nothing left to do.
Terminated == mpc = "returned" /\ UNCHANGED vars

Next ==
  \/ \E w \in Workers : Worker(w)
  \/ Main
  \/ ProcessEnds
  \/ Expire
  \/ AmfMain
  \/ \E s \in Sessions : AmfHandler(s) \/ Learn(s)
  \/ Environment
  \/ Terminated

Spec == Init /\ [][Next]_vars

(***************************************************************************)
(* With "silent" the peer may never answer a Dial.  That of sctp-kernel    *)
(* with TLS then waits for ever: its connect timeout closes a descriptor   *)
(* that is being polled, which does not end the poll.                      *)
(***************************************************************************)
HungDial(w) == "silent" \in scen.faults /\ pc[w] = "open"

(***************************************************************************)
(* Fairness.  The Go scheduler runs every goroutine that can run; a Dial   *)
(* ends unless its peer may be silent, a Send ends.  A select with two     *)
(* ready cases picks each of them in the long run, so a worker that keeps  *)
(* coming back to its select after the end of ctx leaves the loop.  Timers *)
(* fire.  The live end of a dead association learns of it from heartbeats  *)
(* or an idle timeout.  Signals and losses are not fair.                   *)
(***************************************************************************)
Fairness ==
  /\ \A w \in Workers : WF_vars(Worker(w) /\ ~HungDial(w)) /\ SF_vars(Exit(w))
  /\ WF_vars(Main)
  /\ WF_vars(ProcessEnds)
  /\ WF_vars(Expire)
  /\ WF_vars(AmfMain)
  /\ \A s \in Sessions : WF_vars(AmfHandler(s)) /\ WF_vars(Learn(s))

FairSpec == Spec /\ Fairness

-------------------------------------------------------------------------------
(* Safety *)

\* How many workers have one of the labels as their next step.
Count(at, labels) == Cardinality({w \in Workers : at[w] \in labels})

\* Labels between drawing a SeqID and counting what became of the send.
Sending == {"send", "addtx", "sendErr"}

\* Labels between AddTx and the outcome of an attempt in latency mode.
Waiting == {"recv", "addrx", "timeout", "decode", "mismatch", "other"}

(***************************************************************************)
(* No attempt is lost and none is counted twice, whatever the workers'     *)
(* interleaving: every SeqID drawn from the atomic counter (load.go:72) is *)
(* being sent or was counted as sent or as a send error, and in latency    *)
(* mode every sent one is waiting or has one of the outcomes of            *)
(* load.go:84-102.                                                         *)
(***************************************************************************)
Sends ==
  seq = c["tx"] + c["sendErr"] + Count(pc, Sending)

Outcomes ==
  Mode = "latency" =>
    c["tx"] = c["rx"] + c["timeout"] + c["decode"] + c["mismatch"] + c["other"]
                + Count(pc, Waiting)

Samples == c["rx"] = c["lat"] + Count(pc, {"addlat"})

Conservation == Sends /\ Outcomes /\ Samples

(***************************************************************************)
(* A row that collectSnapshots takes while workers are between two calls   *)
(* of the Collector (load.go:225) is coherent: no more latency samples     *)
(* than responses, no more outcomes than frames sent, its drop column is   *)
(* what is not accounted for otherwise, and no column falls from one row   *)
(* to the next.                                                            *)
(***************************************************************************)
Coherent(row) ==
  /\ row.counts["lat"] <= row.counts["rx"]
  /\ Mode = "latency" =>
       row.counts["rx"] + row.drop <= row.counts["tx"] + row.counts["sendErr"]
  /\ Mode = "flood" => row.counts["rx"] = 0 /\ row.drop = row.counts["sendErr"]

RowsCoherent ==
  /\ \A i \in 1 .. Len(rows) : Coherent(rows[i])
  /\ \A i \in 1 .. Len(rows) - 1 : \A k \in Counters :
       rows[i].counts[k] <= rows[i + 1].counts[k]

(***************************************************************************)
(* The row that RunLatency and RunFlood append after wg.Wait               *)
(* (load.go:108-110, load.go:163-164) is final and complete: no worker     *)
(* changes the Collector any more, every SeqID drawn is in it, and in      *)
(* latency mode every one as a measured response or as a drop.             *)
(***************************************************************************)
FinalRowComplete ==
  mpc = "returned" =>
    LET final == rows[Len(rows)]
    IN  /\ final.counts = c
        /\ seq = c["tx"] + c["sendErr"]
        /\ Mode = "latency" => /\ seq = c["lat"] + final.drop
                               /\ c["lat"] = c["rx"]

(***************************************************************************)
(* A latency sample belongs to one attempt that is not counted otherwise   *)
(* (load.go:97-102): no attempt is both measured and dropped, and no       *)
(* attempt is measured twice, although responses arrive after the worker   *)
(* gave up on them, and messages joined of cut frames are answered with    *)
(* SeqIDs that were dropped, are another worker's, or were never drawn.    *)
(***************************************************************************)
SamplesGenuine ==
  /\ measured \cap dropped = {}
  /\ Cardinality(measured) = c["lat"]
  /\ \A w \in Workers : pc[w] \in {"send", "addtx", "recv"} \cup DropKinds =>
       next[w] \notin measured

(***************************************************************************)
(* A payload that Encode refuses, whose error load.go:74 discards, is      *)
(* never measured and never forgotten: every attempt of such a run ends as *)
(* a drop.                                                                 *)
(***************************************************************************)
OversizeDropped ==
  ~scen.fits =>
    /\ measured = {}
    /\ mpc = "returned" /\ Mode = "latency" => dropped = 1 .. seq

(***************************************************************************)
(* Flood mode is one-way (amf.go:79-80): the AMF answers no flood frame,   *)
(* nor any message that it misreads behind a cut one, and a session on     *)
(* which no frame was cut carries the flood frames in the order of their   *)
(* SeqIDs.                                                                 *)
(***************************************************************************)
Pending(w) == (IF hpc[w] = "send" THEN <<held[w]>> ELSE << >>) \o reqs[w]

InOrder(frames) ==
  \A i, j \in 1 .. Len(frames) :
    i < j /\ Decodes(frames[i]) /\ Decodes(frames[j])
      => frames[i].seqID < frames[j].seqID

FloodOneWay ==
  Mode = "flood" =>
    \A w \in Workers : /\ resps[w] = << >>
                       /\ hpc[w] # "send"
                       /\ cut[w] = {} => InOrder(reqs[w])

(***************************************************************************)
(* While a worker has cut no frame, its responses reach it in the order of *)
(* its requests and none answers a request that was not made               *)
(* (amf.go:66-78): the responses it has not read, then the request being   *)
(* answered, then the requests not read have increasing SeqIDs up to that  *)
(* of its latest attempt.  That is always so on a message backend, and on  *)
(* a byte stream up to the first Send that its deadline cut short.         *)
(***************************************************************************)
Outstanding(w) == resps[w] \o Pending(w)

ResponsesInOrder ==
  \A w \in Workers : cut[w] = {} =>
    /\ InOrder(Outstanding(w))
    /\ \A i \in 1 .. Len(Outstanding(w)) : Outstanding(w)[i].seqID <= next[w]

(***************************************************************************)
(* On a message backend a worker that timed out while the response was on  *)
(* its way never measures again (load.go:82-100): each Recv returns the    *)
(* response to an earlier request, because the worker reads one message    *)
(* per request and never discards the late ones.  It stays late for as     *)
(* long as its association lives, and while it is late it measures         *)
(* nothing.                                                                *)
(***************************************************************************)
Late(w) ==
  \E i \in 1 .. Len(Outstanding(w)) :
    /\ Decodes(Outstanding(w)[i])
    /\ Outstanding(w)[i].seqID < next[w] \/ pc[w] \notin {"addtx", "recv"}

LateStaysLate ==
  [][\A w \in Workers :
       Late(w) /\ ~scen.stream =>
         (Late(w)' \/ link'[w] # "up") /\ pc'[w] # "addrx"]_vars

-------------------------------------------------------------------------------
(* The promise of a latency run *)

\* What the final row says of the run's attempts.
RunReport ==
  IF mpc = "returned"
    THEN [measured |-> rows[Len(rows)].counts["lat"],
          dropped  |-> rows[Len(rows)].drop,
          made     |-> TRUE]
    ELSE [measured |-> 0, dropped |-> 0, made |-> FALSE]

Ledger == INSTANCE AttemptLedger WITH drawn <- seq, report <- RunReport

(***************************************************************************)
(* RunLatency keeps the promise of AttemptLedger (load.go:57-111): every   *)
(* SeqID is measured or dropped once, and the final row counts them when   *)
(* none is in progress.                                                    *)
(***************************************************************************)
ImplementsLedger == Ledger!Spec

-------------------------------------------------------------------------------
(* The promise of the AMF *)

Lifecycle == INSTANCE ServerLifecycle
  WITH phase <- amfRun, told <- amfDone,
       live <- {s \in Sessions : hpc[s] \notin {"none", "closed"}},
       past <- {s \in Sessions : hpc[s] = "closed"}

(***************************************************************************)
(* Against live workers, late dials and lost links the AMF keeps the       *)
(* promise of ServerLifecycle (amf.go:26-51, amf.go:54-84): a session gets *)
(* one handler, none starts once Run waits, and Run returns after the last *)
(* handler has returned.                                                   *)
(***************************************************************************)
ImplementsLifecycle == Lifecycle!Spec

-------------------------------------------------------------------------------
(* Liveness *)

(***************************************************************************)
(* A worker waits in a Recv without a deadline on a live association, and  *)
(* nobody will answer: the AMF takes no new session, or its handler waits  *)
(* for the request, of which nothing was sent.                             *)
(***************************************************************************)
Unanswered(w) ==
  /\ pc[w] = "recv" /\ ~scen.deadlines
  /\ link[w] = "up" /\ resps[w] = << >>
  /\ \/ hpc[w] = "none" /\ amfRun # "accepting"
     \/ hpc[w] = "recv" /\ reqs[w] = << >>

(***************************************************************************)
(* Once its ctx is done a run returns (load.go:107-111, load.go:162-165),  *)
(* unless a worker hangs for good in the one of two places where no        *)
(* deadline reaches it: a Dial whose peer is silent, or a Recv of the sctp *)
(* backend that nobody will answer.                                        *)
(***************************************************************************)
Termination ==
  \/ ctxDone ~> mpc = "returned"
  \/ <>[](\E w \in Workers : HungDial(w) \/ Unanswered(w))

(***************************************************************************)
(* A handler of the draining AMF and a worker wait for each other: the     *)
(* worker in an unanswered Recv; the handler in a Recv on the worker's own *)
(* session, or on an association that was established too late and that    *)
(* only the end of the gNB process closes, which waits for the worker.     *)
(***************************************************************************)
CircularWait ==
  /\ amfRun = "draining"
  /\ \E w \in Workers : Unanswered(w)
  /\ \E s \in Sessions : /\ hpc[s] = "recv" /\ link[s] = "up"
                         /\ Unanswered(s) \/ pc[s] = "done"

(***************************************************************************)
(* Once it is told to stop the AMF returns (amf.go:28-39), although its    *)
(* handlers do not look at ctx while they are in Recv (amf.go:61-69): the  *)
(* run ends, its workers close their sessions, and its process closes the  *)
(* associations that were established too late (sctp.go:112-119).  Only    *)
(* the circular wait of the two programs, which takes a backend without    *)
(* deadlines, keeps it from returning.                                     *)
(***************************************************************************)
AmfDrains == (amfDone ~> amfRun = "returned") \/ <>[]CircularWait

-------------------------------------------------------------------------------
(* What the documentation says and the code does not do *)

\* README: "latency (closed-loop RTT)".  A closed loop has one request
\* outstanding at a time.
ClosedLoop ==
  Mode = "latency" => \A w \in Workers : Len(Outstanding(w)) <= 1

\* README: "CSV output with throughput, drops, and RTT percentiles".  A run
\* that sent at least one frame per second reports a throughput.
ReportsThroughput ==
  mpc = "returned" /\ c["tx"] >= Duration => rows[Len(rows)].achieved > 0
===============================================================================
