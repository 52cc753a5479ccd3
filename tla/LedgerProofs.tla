------------------------------ MODULE LedgerProofs ------------------------------
(***************************************************************************)
(* What a run makes of each single attempt: no attempt is both measured    *)
(* and dropped, the final row has all of them, and a latency run           *)
(* implements AttemptLedger.  LoadRunProofs counts attempts; here they     *)
(* are told apart by their SeqIDs.  The last part is about the rows: each  *)
(* is coherent and no column falls, whatever the workers are doing when    *)
(* collectSnapshots takes it.                                              *)
(***************************************************************************)
EXTENDS LoadRunProofs

-------------------------------------------------------------------------------
(* The inductive invariant *)

\* Labels of a worker whose attempt has no outcome yet.
Busy == Sending \cup Waiting \cup {"addlat"}

Resolved == measured \cup dropped

\* The busy workers hold different SeqIDs, none of which is resolved, and a
\* worker that measures measures its own attempt.
Attempts ==
  /\ Resolved \subseteq 1 .. seq
  /\ measured \cap dropped = {}
  /\ \A w \in Workers : pc[w] \in Busy => next[w] \in (1 .. seq) \ Resolved
  /\ \A v, w \in Workers :
       v # w /\ pc[v] \in Busy /\ pc[w] \in Busy => next[v] # next[w]
  /\ \A w \in Workers : pc[w] \in {"addrx", "addlat"} => got[w] = next[w]

Drops(cc) == cc["timeout"] + cc["sendErr"] + cc["decode"] + cc["mismatch"]
               + cc["other"]

\* The Collector counts the resolved SeqIDs.
Tallied ==
  /\ Cardinality(measured) = c["lat"]
  /\ Cardinality(dropped) = Drops(c)

\* Nothing is forgotten: an attempt that is not resolved has its worker.
Complete ==
  Mode = "latency" =>
    \A id \in 1 .. seq :
      id \in Resolved \/ \E w \in Workers : pc[w] \in Busy /\ next[w] = id

\* After the return the Collector is what the final row says it is.
Final ==
  mpc = "returned" =>
    /\ WorkersDone
    /\ rows # << >>
    /\ rows[Len(rows)].counts = c
    /\ rows[Len(rows)].drop = Drops(c)

LedgerInv == Attempts /\ Tallied /\ Complete /\ Final

-------------------------------------------------------------------------------
(* The steps of a worker *)

\* The calls that neither draw a SeqID nor resolve one.
Unresolving(w) ==
  \/ Open(w)      \/ OpenFails(w)   \/ Exit(w)
  \/ SendOk(w)    \/ SendFails(w)   \/ SendCut(w) \/ AddTx(w)
  \/ RecvFrame(w) \/ RecvTimeout(w) \/ RecvFails(w) \/ RecvTorn(w)
  \/ AddRx(w)

\* Such a call keeps every SeqID where it is; the worker gets no new attempt,
\* and a latency worker keeps the one it has.
LEMMA UnresolvingStep ==
  ASSUME TypeOK, NEW w \in Workers, Unresolving(w)
  PROVE  /\ UNCHANGED <<seq, next, measured, dropped, rows, mpc>>
         /\ \E to : /\ GoTo(w, to)
                    /\ to \in Busy => pc[w] \in Busy
                    /\ Mode = "latency" /\ pc[w] \in Busy => to \in Busy
                    /\ to = "addlat" => pc[w] = "addrx"
                    /\ to = "addrx" => RecvFrame(w)
         /\ got' = got \/ RecvFrame(w)
<1> USE DEF Busy, Sending, Waiting
<1>1. CASE Open(w)
  BY <1>1 DEF Open
<1>2. CASE OpenFails(w)
  BY <1>2 DEF OpenFails
<1>3. CASE Exit(w)
  BY <1>3 DEF Exit
<1>4. CASE SendOk(w)
  BY <1>4 DEF SendOk
<1>5. CASE SendFails(w)
  BY <1>5 DEF SendFails
<1>6. CASE AddTx(w)
  <2>1. GoTo(w, AfterTx) /\ pc[w] = "addtx"
    BY <1>6 DEF AddTx
  <2>2. AfterTx \in {"loop", "recv"} /\ (Mode = "latency" => AfterTx = "recv")
    BY DEF AfterTx
  <2> QED BY <1>6, <2>1, <2>2 DEF AddTx
<1>7. CASE RecvFrame(w)
  <2>1. PICK to \in {"decode", "mismatch", "addrx"} : GoTo(w, to)
    BY <1>7 DEF RecvFrame, Classify
  <2> QED BY <1>7, <2>1 DEF RecvFrame
<1>8. CASE RecvTimeout(w)
  BY <1>8 DEF RecvTimeout
<1>9. CASE RecvFails(w)
  BY <1>9 DEF RecvFails
<1>10. CASE RecvTorn(w)
  <2>1. PICK to \in {"decode", "timeout", "other"} : GoTo(w, to)
    BY <1>10 DEF RecvTorn
  <2> QED BY <1>10, <2>1 DEF RecvTorn
<1>11. CASE AddRx(w)
  BY <1>11 DEF AddRx
<1>12. CASE SendCut(w)
  BY <1>12 DEF SendCut
<1> QED
  BY <1>1, <1>2, <1>3, <1>4, <1>5, <1>6, <1>7, <1>8, <1>9, <1>10, <1>11, <1>12
  DEF Unresolving

\* A response that passes the comparison has the SeqID of the attempt.
LEMMA ReceivedIsNext ==
  ASSUME TypeOK, NEW w \in Workers, RecvFrame(w), pc'[w] = "addrx"
  PROVE  got' = [got EXCEPT ![w] = next[w]]
<1>1. Classify(Head(resps[w]), next[w]) = "addrx"
  BY DEF RecvFrame, GoTo, TypeOK
<1>2. Head(resps[w]).seqID = next[w]
  BY <1>1 DEF Classify
<1> QED BY <1>2 DEF RecvFrame

\* Neither does such a call change what the Collector says of resolved ones.
LEMMA UnresolvingCounts ==
  ASSUME TypeOK, NEW w \in Workers, Unresolving(w)
  PROVE  c'["lat"] = c["lat"] /\ Drops(c') = Drops(c)
<1> USE DEF Counters, DropKinds
<1>1. CASE AddTx(w)
  <2>1. c' = [c EXCEPT !["tx"] = @ + 1]
    BY <1>1 DEF AddTx, Add
  <2> QED BY <2>1 DEF TypeOK, Drops
<1>2. CASE AddRx(w)
  <2>1. c' = [c EXCEPT !["rx"] = @ + 1]
    BY <1>2 DEF AddRx, Add
  <2> QED BY <2>1 DEF TypeOK, Drops
<1>3. AddTx(w) \/ AddRx(w) \/ c' = c
  BY DEF Unresolving, Open, OpenFails, Exit, SendOk, SendFails, SendCut,
         RecvFrame, RecvTimeout, RecvFails, RecvTorn
<1> QED BY <1>1, <1>2, <1>3
-------------------------------------------------------------------------------
(* Each kind of step keeps the invariant *)

\* The invariant says nothing of what the other goroutines change.
LEMMA ElsewhereKeeps ==
  ASSUME LedgerInv,
         UNCHANGED <<seq, pc, next, got, measured, dropped, c, rows, mpc>>
  PROVE  LedgerInv'
BY DEF LedgerInv, Attempts, Resolved, Tallied, Drops, Complete, Final,
       WorkersDone

\* A busy worker means that the run has not returned.
LEMMA NotReturned ==
  ASSUME LedgerInv, NEW w \in Workers, pc[w] # "done"
  PROVE  mpc # "returned"
BY DEF LedgerInv, Final, WorkersDone

\* A call that resolves nothing.
LEMMA UnresolvingKeeps ==
  ASSUME TypeOK, LedgerInv, NEW w \in Workers, Unresolving(w)
  PROVE  LedgerInv'
<1>1. UNCHANGED <<seq, next, measured, dropped, rows, mpc>>
  BY UnresolvingStep
<1>2. PICK to : /\ GoTo(w, to)
                /\ to \in Busy => pc[w] \in Busy
                /\ Mode = "latency" /\ pc[w] \in Busy => to \in Busy
                /\ to = "addlat" => pc[w] = "addrx"
                /\ to = "addrx" => RecvFrame(w)
  BY UnresolvingStep
<1>3. pc \in [Workers -> WorkerPCs] /\ got \in [Workers -> Nat]
  BY DEF TypeOK
<1>4. pc' = [pc EXCEPT ![w] = to]
  BY <1>2 DEF GoTo
<1>5. \A v \in Workers : pc'[v] = IF v = w THEN to ELSE pc[v]
  BY <1>3, <1>4
<1>6. \A v \in Workers : pc'[v] \in Busy => pc[v] \in Busy
  BY <1>2, <1>5
<1>7. Attempts'
  <2>1. \A v \in Workers : pc'[v] \in {"addrx", "addlat"} => got'[v] = next'[v]
    <3> SUFFICES ASSUME NEW v \in Workers, pc'[v] \in {"addrx", "addlat"}
                 PROVE  got'[v] = next[v]
      BY <1>1
    <3>1. CASE RecvFrame(w) /\ v = w /\ to = "addrx"
      BY <1>3, <1>5, <3>1, ReceivedIsNext
    <3>2. CASE RecvFrame(w) /\ v = w /\ to # "addrx"
      BY <1>2, <1>5, <3>2 DEF RecvFrame
    <3>3. CASE RecvFrame(w) /\ v # w
      <4>1. got'[v] = got[v]
        BY <1>3, <3>3 DEF RecvFrame
      <4> QED BY <1>5, <3>3, <4>1 DEF LedgerInv, Attempts
    <3>4. CASE ~RecvFrame(w)
      <4>1. got' = got
        BY <3>4, UnresolvingStep
      <4> QED BY <1>2, <1>5, <3>4, <4>1 DEF LedgerInv, Attempts
    <3> QED BY <3>1, <3>2, <3>3, <3>4
  <2> QED BY <1>1, <1>6, <2>1 DEF LedgerInv, Attempts, Resolved
<1>8. Tallied'
  BY <1>1, UnresolvingCounts DEF LedgerInv, Tallied
<1>9. Complete'
  BY <1>1, <1>2, <1>5 DEF LedgerInv, Complete, Resolved
<1>10. Final'
  <2>1. pc[w] # "done"
    BY DEF Unresolving, Open, OpenFails, Exit, SendOk, SendFails, SendCut,
           AddTx, RecvFrame, RecvTimeout, RecvFails, RecvTorn, AddRx
  <2> QED BY <1>1, <2>1, NotReturned DEF Final
<1> QED BY <1>7, <1>8, <1>9, <1>10 DEF LedgerInv

\* Drawing a SeqID: it is new, and its worker holds it.
LEMMA BeginKeeps ==
  ASSUME TypeOK, LedgerInv, NEW w \in Workers, Begin(w)
  PROVE  LedgerInv'
<1>1. /\ seq' = seq + 1
      /\ next' = [next EXCEPT ![w] = seq + 1]
      /\ pc' = [pc EXCEPT ![w] = "send"]
      /\ UNCHANGED <<got, c, measured, dropped, rows, mpc>>
      /\ pc[w] = "loop"
  BY DEF Begin, GoTo
<1>2. /\ pc \in [Workers -> WorkerPCs]
      /\ next \in [Workers -> Nat]
      /\ seq \in Nat
  BY DEF TypeOK
<1>3. \A v \in Workers : /\ pc'[v] = IF v = w THEN "send" ELSE pc[v]
                         /\ next'[v] = IF v = w THEN seq + 1 ELSE next[v]
  BY <1>1, <1>2
<1>4. 1 .. seq' = (1 .. seq) \cup {seq + 1} /\ seq + 1 \notin 1 .. seq
  BY <1>1, <1>2
<1>5. "send" \in Busy /\ "loop" \notin Busy
  BY DEF Busy, Sending, Waiting
<1>6. Resolved' = Resolved
  BY <1>1 DEF Resolved
<1>7. Attempts'
  BY <1>1, <1>3, <1>4, <1>5, <1>6 DEF LedgerInv, Attempts
<1>8. Complete'
  <2> SUFFICES ASSUME Mode = "latency", NEW id \in 1 .. seq',
                      id \notin Resolved
               PROVE  \E v \in Workers : pc'[v] \in Busy /\ next'[v] = id
    BY <1>6 DEF Complete
  <2>1. CASE id = seq + 1
    BY <1>3, <1>5, <2>1
  <2>2. CASE id \in 1 .. seq
    <3>1. PICK v \in Workers : pc[v] \in Busy /\ next[v] = id
      BY <2>2 DEF LedgerInv, Complete
    <3> QED BY <1>1, <1>3, <1>5, <3>1
  <2> QED BY <1>4, <2>1, <2>2
<1>9. Tallied' /\ Final'
  BY <1>1, NotReturned DEF LedgerInv, Tallied, Drops, Final
<1> QED BY <1>7, <1>8, <1>9 DEF LedgerInv
(***************************************************************************)
(* Resolving the attempt of w: the worker gives up its SeqID, which goes   *)
(* to the measured or to the dropped ones, and no other worker has it.     *)
(***************************************************************************)
LEMMA ResolveKeeps ==
  ASSUME TypeOK, LedgerInv, NEW w \in Workers, pc[w] \in Busy,
         pc' = [pc EXCEPT ![w] = "loop"],
         got' = [got EXCEPT ![w] = 0],
         UNCHANGED <<seq, next, rows, mpc>>,
         \/ /\ measured' = measured \cup {next[w]}
            /\ dropped' = dropped
         \/ /\ measured' = measured
            /\ dropped' = dropped \cup {next[w]}
  PROVE  Attempts' /\ Complete' /\ Final'
<1>1. pc \in [Workers -> WorkerPCs] /\ got \in [Workers -> Nat]
  BY DEF TypeOK
<1>2. \A v \in Workers : pc'[v] = IF v = w THEN "loop" ELSE pc[v]
  BY <1>1
<1>3. "loop" \notin Busy /\ "done" \notin Busy
  BY DEF Busy, Sending, Waiting
<1>4. Resolved' = Resolved \cup {next[w]}
  BY DEF Resolved
<1>5. next[w] \in (1 .. seq) \ Resolved
  BY DEF LedgerInv, Attempts
<1>6. Attempts'
  <2>1. Resolved' \subseteq 1 .. seq /\ measured' \cap dropped' = {}
    BY <1>4, <1>5 DEF LedgerInv, Attempts, Resolved
  <2>2. ASSUME NEW v \in Workers, pc'[v] \in Busy
        PROVE  next[v] \in (1 .. seq) \ Resolved'
    <3>1. v # w /\ pc[v] \in Busy
      BY <1>2, <1>3, <2>2
    <3>2. next[v] # next[w]
      BY <3>1 DEF LedgerInv, Attempts
    <3> QED BY <1>4, <3>1, <3>2 DEF LedgerInv, Attempts
  <2>3. \A u, v \in Workers :
          u # v /\ pc'[u] \in Busy /\ pc'[v] \in Busy => next[u] # next[v]
    BY <1>2, <1>3 DEF LedgerInv, Attempts
  <2>4. \A v \in Workers : pc'[v] \in {"addrx", "addlat"} => got'[v] = next[v]
    BY <1>1, <1>2 DEF LedgerInv, Attempts
  <2> QED BY <2>1, <2>2, <2>3, <2>4 DEF Attempts
<1>7. Complete'
  <2> SUFFICES ASSUME Mode = "latency", NEW id \in 1 .. seq,
                      id \notin Resolved'
               PROVE  \E v \in Workers : pc'[v] \in Busy /\ next[v] = id
    BY DEF Complete
  <2>1. PICK v \in Workers : pc[v] \in Busy /\ next[v] = id
    BY <1>4 DEF LedgerInv, Complete
  <2>2. v # w
    BY <1>4, <2>1
  <2> QED BY <1>2, <2>1, <2>2
<1>8. Final'
  BY <1>3, NotReturned DEF Final
<1> QED BY <1>6, <1>7, <1>8

\* The SeqIDs that are resolved are finite in number.
LEMMA ResolvedFinite ==
  ASSUME TypeOK, LedgerInv
  PROVE  IsFiniteSet(measured) /\ IsFiniteSet(dropped)
<1>1. IsFiniteSet(1 .. seq)
  BY FS_Interval DEF TypeOK
<1>2. measured \subseteq 1 .. seq /\ dropped \subseteq 1 .. seq
  BY DEF LedgerInv, Attempts, Resolved
<1> QED BY <1>1, <1>2, FS_Subset

\* A measurement: the SeqID is new among the samples.
LEMMA AddLatencyKeeps ==
  ASSUME TypeOK, LedgerInv, NEW w \in Workers, AddLatency(w)
  PROVE  LedgerInv'
<1> USE DEF Counters, DropKinds
<1>1. pc[w] = "addlat" /\ got[w] = next[w] /\ pc[w] \in Busy
  BY DEF AddLatency, LedgerInv, Attempts, Busy
<1>2. /\ measured' = measured \cup {next[w]}
      /\ dropped' = dropped
      /\ c' = [c EXCEPT !["lat"] = @ + 1]
  BY <1>1 DEF AddLatency, Add
<1>3. Attempts' /\ Complete' /\ Final'
  BY <1>1, <1>2, ResolveKeeps DEF AddLatency, GoTo
<1>4. Tallied'
  <2>1. IsFiniteSet(measured) /\ next[w] \notin measured
    BY <1>1, ResolvedFinite DEF LedgerInv, Attempts, Resolved
  <2>2. Cardinality(measured') = Cardinality(measured) + 1
    BY <1>2, <2>1, FS_AddElement
  <2>3. c'["lat"] = c["lat"] + 1 /\ Drops(c') = Drops(c)
    BY <1>2 DEF TypeOK, Drops
  <2> QED BY <1>2, <2>2, <2>3 DEF LedgerInv, Tallied
<1> QED BY <1>3, <1>4 DEF LedgerInv

\* A drop: the SeqID is new among the dropped ones.
LEMMA AddDropKeeps ==
  ASSUME TypeOK, LedgerInv, NEW w \in Workers, AddDrop(w)
  PROVE  LedgerInv'
<1> USE DEF Counters, DropKinds
<1>1. PICK kind \in DropKinds : kind = pc[w]
  BY DEF AddDrop
<1>2. pc[w] \in Busy
  BY <1>1 DEF Busy, Sending, Waiting
<1>3. /\ dropped' = dropped \cup {next[w]}
      /\ measured' = measured
      /\ c' = [c EXCEPT ![kind] = @ + 1]
  BY <1>1 DEF AddDrop, Add
<1>4. Attempts' /\ Complete' /\ Final'
  BY <1>2, <1>3, ResolveKeeps DEF AddDrop, GoTo, AfterDrop
<1>5. Tallied'
  <2>1. IsFiniteSet(dropped) /\ next[w] \notin dropped
    BY <1>2, ResolvedFinite DEF LedgerInv, Attempts, Resolved
  <2>2. Cardinality(dropped') = Cardinality(dropped) + 1
    BY <1>3, <2>1, FS_AddElement
  <2>3. /\ c["timeout"] \in Nat /\ c["sendErr"] \in Nat /\ c["decode"] \in Nat
        /\ c["mismatch"] \in Nat /\ c["other"] \in Nat
    BY DEF TypeOK
  <2>4. \A k \in Counters : c'[k] = IF k = kind THEN c[k] + 1 ELSE c[k]
    BY <1>3 DEF TypeOK
  <2>5. c'["lat"] = c["lat"]
    BY <2>4
  <2>6. Drops(c') = Drops(c) + 1
    <3> DEFINE one(k) == IF kind = k THEN 1 ELSE 0
    <3>1. /\ c'["timeout"] = c["timeout"] + one("timeout")
          /\ c'["sendErr"] = c["sendErr"] + one("sendErr")
          /\ c'["decode"] = c["decode"] + one("decode")
          /\ c'["mismatch"] = c["mismatch"] + one("mismatch")
          /\ c'["other"] = c["other"] + one("other")
      BY <2>3, <2>4
    <3>2. one("timeout") + one("sendErr") + one("decode") + one("mismatch")
            + one("other") = 1
      OBVIOUS
    <3>3. /\ one("timeout") \in Nat /\ one("sendErr") \in Nat
          /\ one("decode") \in Nat /\ one("mismatch") \in Nat
          /\ one("other") \in Nat
      OBVIOUS
    <3> HIDE DEF one
    <3>4. Drops(c') = (c["timeout"] + one("timeout"))
                      + (c["sendErr"] + one("sendErr"))
                      + (c["decode"] + one("decode"))
                      + (c["mismatch"] + one("mismatch"))
                      + (c["other"] + one("other"))
      BY <3>1, Zenon DEF Drops
    <3>5. Drops(c) = c["timeout"] + c["sendErr"] + c["decode"] + c["mismatch"]
                     + c["other"]
      BY Zenon DEF Drops
    <3> QED BY <2>3, <3>2, <3>3, <3>4, <3>5
  <2> QED BY <1>3, <2>2, <2>5, <2>6 DEF LedgerInv, Tallied
<1> QED BY <1>4, <1>5 DEF LedgerInv

\* The goroutine of the run: the final row is taken when all workers are done.
LEMMA MainKeeps ==
  ASSUME TypeOK, LedgerInv, Main
  PROVE  LedgerInv'
<1>1. UNCHANGED <<seq, pc, next, got, measured, dropped, c>>
  BY DEF Main, Tick, StopCollecting, Finish
<1>2. Attempts' /\ Tallied' /\ Complete'
  BY <1>1 DEF LedgerInv, Attempts, Resolved, Tallied, Drops, Complete
<1>3. CASE Tick \/ StopCollecting
  <2>1. mpc' # "returned"
    BY <1>3 DEF Tick, StopCollecting
  <2> QED BY <1>2, <2>1 DEF LedgerInv, Final
<1>4. CASE Finish
  <2>1. PICK since \in Elapsed : rows' = Append(rows, Snapshot(c, since))
    BY <1>4 DEF Finish
  <2>2. since \in Nat \ {0} /\ c \in [Counters -> Nat] /\ rows \in Seq(Rows)
    BY DurationAssumption DEF Elapsed, TypeOK
  <2>3. Snapshot(c, since) \in Rows
    BY <2>2, SnapshotType
  <2>4. rows' # << >> /\ rows'[Len(rows')] = Snapshot(c, since)
    BY <2>1, <2>2, <2>3
  <2>5. Final'
    BY <1>1, <1>4, <2>4 DEF Final, Finish, WorkersDone, Snapshot, Drops
  <2> QED BY <1>2, <2>5 DEF LedgerInv
<1> QED BY <1>3, <1>4 DEF Main

\* Every step of the program keeps the invariant.
LEMMA LedgerInvStep == TypeOK /\ LedgerInv /\ [Next]_vars => LedgerInv'
<1> SUFFICES ASSUME TypeOK, LedgerInv, [Next]_vars
             PROVE  LedgerInv'
  OBVIOUS
<1>1. ASSUME NEW w \in Workers, Worker(w)
      PROVE  LedgerInv'
  <2>1. Unresolving(w) \/ Begin(w) \/ AddLatency(w) \/ AddDrop(w)
    BY <1>1 DEF Worker, Unresolving
  <2> QED BY <2>1, UnresolvingKeeps, BeginKeeps, AddLatencyKeeps, AddDropKeeps
<1>2. CASE Main
  BY <1>2, MainKeeps
<1>3. CASE UNCHANGED <<seq, pc, next, got, measured, dropped, c, rows, mpc>>
  BY <1>3, ElsewhereKeeps
<1>4. \/ \E w \in Workers : Worker(w)
      \/ Main
      \/ UNCHANGED <<seq, pc, next, got, measured, dropped, c, rows, mpc>>
  BY DEF Next, vars, runVars, ProcessEnds, Expire, AmfMain, AmfHandler, Learn,
         Environment, Terminated
<1> QED BY <1>1, <1>2, <1>3, <1>4

\* Nothing is drawn or resolved at the start.
LEMMA LedgerInvInit == Init => LedgerInv
<1> SUFFICES ASSUME Init
             PROVE  LedgerInv
  OBVIOUS
<1>1. \A w \in Workers : pc[w] = "open"
  BY DEF Init
<1>2. "open" \notin Busy
  BY DEF Busy, Sending, Waiting
<1>3. Attempts /\ Complete /\ Final
  BY <1>1, <1>2 DEF Init, Attempts, Resolved, Complete, Final
<1>4. c["lat"] = 0 /\ Drops(c) = 0
  BY DEF Init, Zero, Counters, DropKinds, Drops
<1>5. Tallied
  BY <1>4, FS_EmptySet DEF Init, Tallied
<1> QED BY <1>3, <1>5 DEF LedgerInv

(***************************************************************************)
(* In every run each SeqID is held by at most one worker until it is       *)
(* measured or dropped, and the Collector counts those that are            *)
(* (load.go:72-102).                                                       *)
(***************************************************************************)
THEOREM LedgerInvariant == Spec => [](TypeOK /\ LedgerInv)
<1>1. Init => TypeOK /\ LedgerInv
  BY TypeInit, LedgerInvInit
<1>2. TypeOK /\ LedgerInv /\ [Next]_vars => TypeOK' /\ LedgerInv'
  BY TypeStep, LedgerInvStep
<1> QED BY <1>1, <1>2, PTL DEF Spec

-------------------------------------------------------------------------------
(* What follows *)

(***************************************************************************)
(* A latency sample is the round trip of one attempt, which is counted     *)
(* neither twice nor as a drop, however late responses are                 *)
(* (load.go:97-102).                                                       *)
(***************************************************************************)
THEOREM OnlyGenuineSamples == Spec => []SamplesGenuine
<1>1. LedgerInv => SamplesGenuine
  <2>1. {"send", "addtx", "recv"} \cup DropKinds \subseteq Busy
    BY DEF DropKinds, Busy, Sending, Waiting
  <2> QED BY <2>1 DEF LedgerInv, Attempts, Tallied, Resolved, SamplesGenuine
<1> QED BY <1>1, LedgerInvariant, PTL

\* The balance of attempts in a state without busy workers.
LEMMA BalanceAtRest ==
  ASSUME TypeOK, Conservation, WorkersDone
  PROVE  /\ seq = c["tx"] + c["sendErr"]
         /\ Mode = "latency" => seq = c["lat"] + Drops(c)
         /\ c["lat"] = c["rx"]
<1>1. /\ Count(pc, Sending) = 0
      /\ Count(pc, Waiting) = 0
      /\ Count(pc, {"addlat"}) = 0
  BY CountZero DEF WorkersDone, Sending, Waiting
<1>2. /\ c["tx"] \in Nat /\ c["rx"] \in Nat /\ c["lat"] \in Nat
      /\ c["timeout"] \in Nat /\ c["sendErr"] \in Nat /\ c["decode"] \in Nat
      /\ c["mismatch"] \in Nat /\ c["other"] \in Nat
  BY DEF TypeOK, Counters, DropKinds
<1>3. seq = c["tx"] + c["sendErr"]
  BY <1>1, <1>2 DEF Conservation, Sends
<1>4. c["lat"] = c["rx"]
  BY <1>1, <1>2 DEF Conservation, Samples
<1>5. ASSUME Mode = "latency"
      PROVE  seq = c["lat"] + Drops(c)
  <2>1. c["tx"] = c["rx"] + c["timeout"] + c["decode"] + c["mismatch"]
                    + c["other"]
    BY <1>1, <1>2, <1>5 DEF Conservation, Outcomes
  <2>2. Drops(c) = c["timeout"] + c["sendErr"] + c["decode"] + c["mismatch"]
                     + c["other"]
    BY Zenon DEF Drops
  <2> QED BY <1>2, <1>3, <1>4, <2>1, <2>2
<1> QED BY <1>3, <1>4, <1>5

(***************************************************************************)
(* The row that RunLatency and RunFlood append after wg.Wait is final and  *)
(* has every attempt of the run (load.go:108-110, load.go:163-164).        *)
(***************************************************************************)
THEOREM FinalRowIsComplete == Spec => []FinalRowComplete
<1>1. TypeOK /\ Conservation /\ LedgerInv => FinalRowComplete
  BY BalanceAtRest DEF LedgerInv, Final, FinalRowComplete
<1> QED BY <1>1, LedgerInvariant, AttemptsConserved, PTL

-------------------------------------------------------------------------------
(* The refinement *)

\* The run has not reported before it returned.
LEMMA ReportType ==
  /\ RunReport.made = (mpc = "returned")
  /\ mpc # "returned" => RunReport = Ledger!NoReport
BY DEF RunReport, Ledger!NoReport

\* The ledger counts sets as the run does.
LEMMA SameCardinality == \A S : Ledger!Cardinality(S) = Cardinality(S)
BY DEF Cardinality, Ledger!Cardinality

\* The initial states are initial states of the ledger.
LEMMA LedgerStarts == Init => Ledger!Init
BY ReportType DEF Init, Ledger!Init

\* A step of a worker draws, measures, drops, or does nothing to the ledger.
LEMMA WorkerRefines ==
  ASSUME TypeOK, LedgerInv, NEW w \in Workers, Worker(w)
  PROVE  Ledger!Next \/ UNCHANGED <<seq, measured, dropped, RunReport>>
<1>1. pc[w] # "done"
  BY DEF Worker, Open, OpenFails, Exit, Begin, SendOk, SendFails, SendCut,
         AddTx, RecvFrame, RecvTimeout, RecvFails, RecvTorn, AddRx, AddLatency,
         AddDrop, DropKinds
<1>2. mpc # "returned"
  BY <1>1, NotReturned
<1>3. mpc' = mpc /\ rows' = rows
  BY DEF Worker, Open, OpenFails, Exit, Begin, SendOk, SendFails, SendCut,
         AddTx, RecvFrame, RecvTimeout, RecvFails, RecvTorn, AddRx, AddLatency,
         AddDrop
<1>4. ~RunReport.made /\ RunReport' = RunReport
  BY <1>2, <1>3 DEF RunReport
<1>5. CASE Unresolving(w)
  BY <1>4, <1>5, UnresolvingStep
<1>6. CASE Begin(w)
  <2>1. Ledger!Draw
    BY <1>4, <1>6 DEF Begin, Ledger!Draw
  <2> QED BY <2>1 DEF Ledger!Next
<1>7. ASSUME pc[w] \in Busy
      PROVE  next[w] \in Ledger!InProgress
  BY <1>7 DEF LedgerInv, Attempts, Resolved, Ledger!InProgress
<1>8. CASE AddLatency(w)
  <2>1. pc[w] \in Busy /\ got[w] = next[w]
    BY <1>8 DEF AddLatency, LedgerInv, Attempts, Busy
  <2>2. Ledger!Measure(next[w])
    BY <1>4, <1>8, <2>1 DEF AddLatency, Ledger!Measure
  <2> QED BY <1>7, <2>1, <2>2 DEF Ledger!Next
<1>9. CASE AddDrop(w)
  <2>1. pc[w] \in Busy
    BY <1>9 DEF AddDrop, DropKinds, Busy, Sending, Waiting
  <2>2. Ledger!GiveUp(next[w])
    BY <1>4, <1>9 DEF AddDrop, Ledger!GiveUp
  <2> QED BY <1>7, <2>1, <2>2 DEF Ledger!Next
<1> QED BY <1>5, <1>6, <1>8, <1>9 DEF Worker, Unresolving

\* The final row is the report of the ledger: no attempt is in progress.
LEMMA FinishRefines ==
  ASSUME Mode = "latency", TypeOK, LedgerInv, LedgerInv', Finish
  PROVE  Ledger!Report
<1>1. WorkersDone /\ mpc # "returned" /\ mpc' = "returned"
  BY DEF Finish
<1>2. UNCHANGED <<seq, measured, dropped, c>>
  BY DEF Finish
<1>3. "done" \notin Busy
  BY DEF Busy, Sending, Waiting
<1>4. Ledger!InProgress = {}
  BY <1>1, <1>3
  DEF LedgerInv, Complete, WorkersDone, Resolved, Ledger!InProgress
<1>5. /\ rows'[Len(rows')].counts = c
      /\ rows'[Len(rows')].drop = Drops(c)
  BY <1>1, <1>2 DEF LedgerInv, Final, Drops
<1>6. RunReport' = [measured |-> Cardinality(measured),
                    dropped  |-> Cardinality(dropped),
                    made     |-> TRUE]
  BY <1>1, <1>5 DEF RunReport, LedgerInv, Tallied
<1> QED
  BY <1>1, <1>2, <1>4, <1>6, ReportType, SameCardinality DEF Ledger!Report

\* Every step of a latency run is a step of the ledger, or none.
LEMMA LedgerSteps ==
  ASSUME Mode = "latency", TypeOK, LedgerInv, LedgerInv', [Next]_vars
  PROVE  Ledger!Next \/ UNCHANGED <<seq, measured, dropped, RunReport>>
<1>1. ASSUME NEW w \in Workers, Worker(w)
      PROVE  Ledger!Next \/ UNCHANGED <<seq, measured, dropped, RunReport>>
  BY <1>1, WorkerRefines
<1>2. CASE Finish
  BY <1>2, FinishRefines DEF Ledger!Next
<1>3. CASE Tick \/ StopCollecting
  BY <1>3 DEF Tick, StopCollecting, RunReport
<1>4. CASE UNCHANGED <<seq, measured, dropped, rows, mpc>>
  BY <1>4 DEF RunReport
<1>5. \/ \E w \in Workers : Worker(w)
      \/ Main
      \/ UNCHANGED <<seq, measured, dropped, rows, mpc>>
  BY DEF Next, vars, runVars, ProcessEnds, Expire, AmfMain, AmfHandler, Learn,
         Environment, Terminated
<1> QED BY <1>1, <1>2, <1>3, <1>4, <1>5 DEF Main

(***************************************************************************)
(* RunLatency keeps the promise of AttemptLedger (load.go:57-111): every   *)
(* attempt is measured or dropped once, and the one report counts them     *)
(* when none is in progress.                                               *)
(***************************************************************************)
THEOREM LatencyRunImplementsLedger ==
  ASSUME Mode = "latency"
  PROVE  Spec => ImplementsLedger
<1>1. Init => Ledger!Init
  BY LedgerStarts
<1>2. TypeOK /\ LedgerInv /\ LedgerInv' /\ [Next]_vars
        => [Ledger!Next]_<<seq, measured, dropped, RunReport>>
  BY LedgerSteps
<1> QED
  BY <1>1, <1>2, LedgerInvariant, PTL DEF Spec, ImplementsLedger, Ledger!Spec

-------------------------------------------------------------------------------
(* The interval rows *)

\* A flood worker never waits for a response.
FloodLabels == {"open", "loop", "send", "addtx", "sendErr", "done"}

\* Hence nothing but frames sent and send errors is counted in flood mode.
FloodCounts ==
  Mode = "flood" =>
    /\ \A w \in Workers : pc[w] \in FloodLabels
    /\ \A k \in Counters \ {"tx", "sendErr"} : c[k] = 0

\* The counters have grown since every row.
RowsBehind ==
  \A i \in 1 .. Len(rows) : \A k \in Counters : rows[i].counts[k] <= c[k]

RowsInv == FloodCounts /\ RowsBehind /\ RowsCoherent

-------------------------------------------------------------------------------
(* Steps of the workers, as the rows see them *)

\* A step of a worker adds to at most one counter.
LEMMA CountersGrow ==
  ASSUME TypeOK, NEW w \in Workers, Worker(w), NEW k \in Counters
  PROVE  c[k] <= c'[k]
<1>1. c[k] \in Nat
  BY DEF TypeOK
<1>2. CASE UNCHANGED c
  BY <1>1, <1>2
<1>3. CASE \E j \in Counters : c' = Add(c, j)
  BY <1>1, <1>3 DEF Add, TypeOK
<1>4. UNCHANGED c \/ \E j \in Counters : c' = Add(c, j)
  BY DEF Worker, Open, OpenFails, Exit, Begin, SendOk, SendFails, SendCut,
         AddTx, RecvFrame, RecvTimeout, RecvFails, RecvTorn, AddRx, AddLatency,
         AddDrop, Counters
<1> QED BY <1>2, <1>3, <1>4

\* In flood mode a worker sends and does nothing else.
LEMMA FloodStep ==
  ASSUME TypeOK, FloodCounts, NEW w \in Workers, Worker(w)
  PROVE  FloodCounts'
<1> SUFFICES ASSUME Mode = "flood"
             PROVE  /\ \A v \in Workers : pc'[v] \in FloodLabels
                    /\ \A k \in Counters \ {"tx", "sendErr"} : c'[k] = 0
  BY DEF FloodCounts
<1>1. pc[w] \in FloodLabels
  BY DEF FloodCounts
<1>2. \/ Open(w) \/ OpenFails(w) \/ Begin(w) \/ Exit(w) \/ SendOk(w)
      \/ SendFails(w) \/ SendCut(w) \/ AddTx(w) \/ AddDrop(w)
  BY <1>1 DEF Worker, FloodLabels, RecvFrame, RecvTimeout, RecvFails, RecvTorn,
              AddRx, AddLatency
<1>3. \E to \in FloodLabels : GoTo(w, to)
  BY <1>2 DEF FloodLabels, Open, OpenFails, Begin, Exit, SendOk, SendFails,
              SendCut, AddTx, AfterTx, AddDrop, AfterDrop
<1>4. \A v \in Workers : pc'[v] \in FloodLabels
  BY <1>3 DEF GoTo, TypeOK, FloodCounts
<1>5. c' = c \/ c' = Add(c, "tx") \/ c' = Add(c, "sendErr")
  <2>1. CASE AddDrop(w)
    <3>1. pc[w] = "sendErr"
      BY <1>1, <2>1 DEF AddDrop, FloodLabels, DropKinds
    <3> QED BY <2>1, <3>1 DEF AddDrop
  <2> QED
    BY <1>2, <2>1
    DEF Open, OpenFails, Begin, Exit, SendOk, SendFails, SendCut, AddTx
<1>6. \A k \in Counters \ {"tx", "sendErr"} : c'[k] = 0
  BY <1>5 DEF Add, TypeOK, FloodCounts
<1> QED BY <1>4, <1>6

-------------------------------------------------------------------------------
(* Taking a row *)

\* The balance of attempts makes every snapshot coherent.
LEMMA SnapshotCoherent ==
  ASSUME TypeOK, Conservation, FloodCounts, NEW since
  PROVE  Coherent(Snapshot(c, since))
<1> DEFINE row == Snapshot(c, since)
<1>1. row.counts = c /\ row.drop = Drops(c)
  BY DEF Snapshot, Drops
<1>2. /\ c["tx"] \in Nat /\ c["rx"] \in Nat /\ c["lat"] \in Nat
      /\ c["timeout"] \in Nat /\ c["sendErr"] \in Nat /\ c["decode"] \in Nat
      /\ c["mismatch"] \in Nat /\ c["other"] \in Nat
  BY DEF TypeOK, Counters, DropKinds
<1>3. Count(pc, Waiting) \in Nat /\ Count(pc, {"addlat"}) \in Nat
  BY CountType
<1>4. Drops(c) = c["timeout"] + c["sendErr"] + c["decode"] + c["mismatch"]
                   + c["other"]
  BY Zenon DEF Drops
<1> HIDE DEF row
<1>5. row.counts["lat"] <= row.counts["rx"]
  BY <1>1, <1>2, <1>3 DEF Conservation, Samples
<1>6. ASSUME Mode = "latency"
      PROVE  row.counts["rx"] + row.drop
               <= row.counts["tx"] + row.counts["sendErr"]
  <2>1. c["tx"] = c["rx"] + c["timeout"] + c["decode"] + c["mismatch"]
                    + c["other"] + Count(pc, Waiting)
    BY <1>6 DEF Conservation, Outcomes
  <2>2. c["rx"] + Drops(c) <= c["tx"] + c["sendErr"]
    BY <1>2, <1>3, <1>4, <2>1
  <2> QED BY <1>1, <2>2
<1>7. ASSUME Mode = "flood"
      PROVE  row.counts["rx"] = 0 /\ row.drop = row.counts["sendErr"]
  <2>1. /\ c["rx"] = 0 /\ c["timeout"] = 0 /\ c["decode"] = 0
        /\ c["mismatch"] = 0 /\ c["other"] = 0
    BY <1>7 DEF FloodCounts, Counters, DropKinds
  <2>2. Drops(c) = c["sendErr"]
    BY <1>2, <1>4, <2>1
  <2> QED BY <1>1, <2>1, <2>2
<1>8. Coherent(row)
  BY <1>5, <1>6, <1>7 DEF Coherent
<1> QED BY <1>8 DEF row

\* A row appended to the report keeps it coherent.
LEMMA RowTaken ==
  ASSUME TypeOK, Conservation, RowsInv, NEW since \in Nat \ {0},
         rows' = Append(rows, Snapshot(c, since)), UNCHANGED <<pc, c>>
  PROVE  RowsInv'
<1> DEFINE row == Snapshot(c, since)
           n == Len(rows)
<1>1. row \in Rows /\ rows \in Seq(Rows) /\ n \in Nat
  <2>1. c \in [Counters -> Nat] /\ rows \in Seq(Rows)
    BY DEF TypeOK
  <2>2. row \in Rows
    BY <2>1, SnapshotType
  <2> QED BY <2>1, <2>2
<1>2. row.counts = c
  BY DEF Snapshot
<1>3. Coherent(row)
  BY SnapshotCoherent DEF RowsInv
<1> HIDE DEF row
<1>4. /\ Len(rows') = n + 1
      /\ rows'[n + 1] = row
      /\ \A i \in 1 .. n : rows'[i] = rows[i]
  BY <1>1 DEF row
<1>5. \A k \in Counters : c[k] \in Nat
  BY DEF TypeOK
<1>6. \A i \in 1 .. n + 1 : i \in 1 .. n \/ i = n + 1
  BY <1>1
<1>7. FloodCounts'
  BY DEF RowsInv, FloodCounts
<1>8. RowsBehind'
  <2> SUFFICES ASSUME NEW i \in 1 .. n + 1, NEW k \in Counters
               PROVE  rows'[i].counts[k] <= c[k]
    BY <1>4 DEF RowsBehind
  <2>1. CASE i = n + 1
    BY <1>2, <1>4, <1>5, <2>1
  <2>2. CASE i \in 1 .. n
    BY <1>4, <2>2 DEF RowsInv, RowsBehind
  <2> QED BY <1>6, <2>1, <2>2
<1>9. RowsCoherent'
  <2>1. \A i \in 1 .. n + 1 : Coherent(rows'[i])
    BY <1>3, <1>4, <1>6 DEF RowsInv, RowsCoherent
  <2>2. ASSUME NEW i \in 1 .. n, NEW k \in Counters
        PROVE  rows'[i].counts[k] <= rows'[i + 1].counts[k]
    <3>1. CASE i = n
      BY <1>1, <1>2, <1>4, <3>1 DEF RowsInv, RowsBehind
    <3>2. CASE i \in 1 .. n - 1
      <4>1. i + 1 \in 1 .. n
        BY <1>1, <3>2
      <4> QED BY <1>4, <3>2, <4>1 DEF RowsInv, RowsCoherent
    <3> QED BY <1>1, <3>1, <3>2
  <2>3. Len(rows') - 1 = n
    BY <1>1, <1>4
  <2> QED BY <1>4, <2>1, <2>2, <2>3 DEF RowsCoherent, Coherent
<1> QED BY <1>7, <1>8, <1>9 DEF RowsInv

-------------------------------------------------------------------------------
(* The theorem *)

\* Every step of the program keeps the invariant.
LEMMA RowsInvStep ==
  TypeOK /\ Conservation /\ RowsInv /\ [Next]_vars => RowsInv'
<1> SUFFICES ASSUME TypeOK, Conservation, RowsInv, [Next]_vars
             PROVE  RowsInv'
  OBVIOUS
<1>1. ASSUME NEW w \in Workers, Worker(w)
      PROVE  RowsInv'
  <2>1. rows' = rows
    BY <1>1 DEF Worker, Open, OpenFails, Exit, Begin, SendOk, SendFails,
                SendCut, AddTx, RecvFrame, RecvTimeout, RecvFails, RecvTorn,
                AddRx, AddLatency, AddDrop
  <2>2. FloodCounts'
    BY <1>1, FloodStep DEF RowsInv
  <2>3. RowsBehind'
    <3> SUFFICES ASSUME NEW i \in 1 .. Len(rows), NEW k \in Counters
                 PROVE  rows[i].counts[k] <= c'[k]
      BY <2>1 DEF RowsBehind
    <3>1. rows[i].counts[k] <= c[k] /\ c[k] <= c'[k]
      BY <1>1, CountersGrow DEF RowsInv, RowsBehind
    <3>2. rows[i] \in Rows /\ c[k] \in Nat /\ c'[k] \in Nat
      BY <1>1, WorkerTypeStep DEF TypeOK
    <3>3. rows[i].counts[k] \in Nat
      BY <3>2 DEF Rows
    <3> QED BY <3>1, <3>2, <3>3
  <2>4. RowsCoherent'
    BY <2>1 DEF RowsInv, RowsCoherent, Coherent
  <2> QED BY <2>2, <2>3, <2>4 DEF RowsInv
<1>2. CASE Tick
  <2>1. Len(rows) + 1 \in Nat \ {0}
    BY DEF TypeOK
  <2> QED BY <1>2, <2>1, RowTaken DEF Tick
<1>3. CASE Finish
  <2>1. Elapsed \subseteq Nat \ {0}
    BY DurationAssumption DEF Elapsed
  <2> QED BY <1>3, <2>1, RowTaken DEF Finish
<1>4. CASE UNCHANGED <<pc, c, rows>>
  BY <1>4 DEF RowsInv, FloodCounts, RowsBehind, RowsCoherent, Coherent
<1>5. \/ \E w \in Workers : Worker(w)
      \/ Tick
      \/ Finish
      \/ UNCHANGED <<pc, c, rows>>
  BY DEF Next, vars, runVars, Main, StopCollecting, ProcessEnds, Expire,
         AmfMain, AmfHandler, Learn, Environment, Terminated
<1> QED BY <1>1, <1>2, <1>3, <1>4, <1>5

(***************************************************************************)
(* Every row of a report is coherent, and its columns do not fall from row *)
(* to row (load.go:225, metrics.go:93-121).                                *)
(***************************************************************************)
THEOREM EveryRowIsCoherent == Spec => []RowsCoherent
<1>1. Init => RowsInv
  BY DEF Init, RowsInv, FloodCounts, FloodLabels, RowsBehind, RowsCoherent,
         Zero, Counters, DropKinds
<1>2. TypeOK /\ Conservation /\ RowsInv /\ [Next]_vars => RowsInv'
  BY RowsInvStep
<1>3. RowsInv => RowsCoherent
  BY DEF RowsInv
<1> QED BY <1>1, <1>2, <1>3, TypeCorrect, AttemptsConserved, PTL DEF Spec
===============================================================================
