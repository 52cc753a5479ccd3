----------------------------- MODULE LoadRunProofs -----------------------------
(***************************************************************************)
(* Theorems about LoadRun, for every number of workers and attempts, both  *)
(* modes, every kind of connection and every fault.                        *)
(***************************************************************************)
EXTENDS LoadRun, TLAPS, FiniteSetTheorems

\* The constants that the types of LoadRun and AmfSession are built from.
USE DEF Workers

-------------------------------------------------------------------------------
(* Types *)

\* A snapshot of counters over a positive time is a row of the report.
LEMMA SnapshotType ==
  ASSUME NEW cc \in [Counters -> Nat], NEW since \in Nat \ {0}
  PROVE  Snapshot(cc, since) \in Rows
<1>1. cc["rx"] \div since \in Nat
  <2>1. cc["rx"] \in Nat
    BY DEF Counters
  <2> QED BY <2>1
<1>2. cc["timeout"] + cc["sendErr"] + cc["decode"] + cc["mismatch"]
        + cc["other"] \in Nat
  BY DEF Counters, DropKinds
<1> QED BY <1>1, <1>2 DEF Snapshot, Rows

\* Incrementing a counter keeps the counters' type.
LEMMA AddType ==
  ASSUME NEW cc \in [Counters -> Nat], NEW k \in Counters
  PROVE  Add(cc, k) \in [Counters -> Nat]
BY DEF Add

\* The frames that a Send or a response puts on a channel are raw messages.
LEMMA DeliverType ==
  ASSUME NEW q \in [Sessions -> Seq(Raw)], NEW s \in Sessions,
         NEW frames \in Seq(Raw)
  PROVE  Deliver(q, s, frames) \in [Sessions -> Seq(Raw)]
BY DEF Deliver

\* What may be on a channel.
LEMMA RawTypes ==
  /\ Garbage \in Raw /\ TooLong \in Raw
  /\ \A type \in MsgTypes, id \in Nat : Frame(type, id) \in Raw
  /\ \A f \in Raw : f.seqID \in Nat
BY DEF Garbage, TooLong, Frame, Raw

\* Every step of the AMF and of the network keeps the AMF's types.
LEMMA AmfTypeStep ==
  ASSUME AmfTypeOK,
         \/ AmfMain
         \/ \E s \in Sessions : AmfHandler(s) \/ Learn(s)
         \/ Environment
  PROVE  AmfTypeOK'
<1> USE DEF AmfTypeOK
<1>1. CASE AmfMain
  <2>1. CASE \E s \in Sessions : StartHandler(s)
    BY <2>1 DEF StartHandler, HandlerPCs
  <2>2. CASE StopAccepting
    BY <2>2 DEF StopAccepting
  <2>3. CASE AmfReturn
    BY <2>3 DEF AmfReturn, Severed, Links
  <2> QED BY <1>1, <2>1, <2>2, <2>3 DEF AmfMain
<1>2. ASSUME NEW s \in Sessions, AmfHandler(s)
      PROVE  AmfTypeOK'
  <2> USE DEF HandlerPCs
  <2>1. CASE AcceptChannel(s)
    BY <2>1 DEF AcceptChannel, Return, Severed, Links
  <2>2. CASE CheckDone(s)
    BY <2>2 DEF CheckDone, Return, Severed, Links
  <2>3. CASE HandleFrame(s)
    <3>1. Head(reqs[s]) \in Raw /\ Tail(reqs[s]) \in Seq(Raw)
      BY <2>3 DEF HandleFrame
    <3> QED BY <2>3, <3>1 DEF HandleFrame
  <2>4. CASE HandleRecvError(s)
    BY <2>4 DEF HandleRecvError, RecvError, Return, Severed, Links
  <2>5. CASE Respond(s)
    <3>1. <<Frame("MsgResp", held[s].seqID)>> \in Seq(Raw)
      BY RawTypes DEF MsgTypes
    <3>2. resps' \in [Sessions -> Seq(Raw)]
      BY <2>5, <3>1, DeliverType DEF Respond
    <3> QED BY <2>5, <3>2 DEF Respond
  <2> QED BY <1>2, <2>1, <2>2, <2>3, <2>4, <2>5 DEF AmfHandler, Handler
<1>3. ASSUME NEW s \in Sessions, Learn(s)
      PROVE  AmfTypeOK'
  BY <1>3 DEF Learn, Notice, Links
<1>4. CASE Environment
  BY <1>4 DEF Environment, AmfSignal, Lose, Links
<1> QED BY <1>1, <1>2, <1>3, <1>4

\* What Recv makes of the bytes of a Send.
LEMMA ArrivalsType ==
  ASSUME TypeOK, NEW w \in Workers
  PROVE  Arrivals(w) \subseteq Seq(Raw) /\ Misread(w) \subseteq Seq(Raw)
<1>1. RequestType \in MsgTypes /\ next[w] \in Nat /\ cut[w] \subseteq Nat
  BY DEF TypeOK, MsgTypes, RequestType
<1>2. Joined(w) \subseteq Raw
  BY <1>1, RawTypes, MadeUpAssumption DEF Joined
<1>3. Encode(scen.fits, RequestType, next[w]) \in Raw
  BY <1>1, RawTypes DEF Encode
<1>4. ASSUME NEW frames \in Misread(w)
      PROVE  frames \in Seq(Raw)
  <2> DEFINE messages == {<< >>, <<Garbage>>} \cup {<<m>> : m \in Joined(w)}
  <2>1. \A m \in messages : m \in Seq(Raw) /\ m \o <<TooLong>> \in Seq(Raw)
    <3> SUFFICES ASSUME NEW m \in messages
                 PROVE  m \in Seq(Raw) /\ m \o <<TooLong>> \in Seq(Raw)
      OBVIOUS
    <3>1. m \in Seq(Raw)
      <4>1. m = << >> \/ m = <<Garbage>> \/ \E f \in Joined(w) : m = <<f>>
        OBVIOUS
      <4>2. \A f \in Raw : <<f>> \in Seq(Raw)
        OBVIOUS
      <4>3. << >> \in Seq(Raw)
        OBVIOUS
      <4> QED BY <1>2, <4>1, <4>2, <4>3, RawTypes, Zenon
    <3>2. <<TooLong>> \in Seq(Raw)
      BY RawTypes
    <3> QED BY <3>1, <3>2
  <2>2. frames \in messages \/ \E m \in messages : frames = m \o <<TooLong>>
    BY <1>4, Zenon DEF Misread
  <2> HIDE DEF messages
  <2> QED BY <2>1, <2>2
<1>5. ASSUME NEW frames \in Arrivals(w)
      PROVE  \/ frames \in Misread(w)
             \/ frames = <<Encode(scen.fits, RequestType, next[w])>>
  BY <1>5, Zenon DEF Arrivals
<1>6. <<Encode(scen.fits, RequestType, next[w])>> \in Seq(Raw)
  BY <1>3
<1> QED BY <1>4, <1>5, <1>6, Zenon

\* Every step of a worker keeps the types.
LEMMA WorkerTypeStep ==
  ASSUME TypeOK, NEW w \in Workers, Worker(w)
  PROVE  TypeOK'
<1> USE DEF TypeOK, WorkerPCs, DropKinds, GoTo, runVars, amfVars
<1>1. CASE Open(w)
  BY <1>1 DEF Open, AmfTypeOK, Links
<1>2. CASE OpenFails(w)
  BY <1>2 DEF OpenFails, AmfTypeOK, Links
<1>3. CASE Begin(w)
  BY <1>3 DEF Begin, AmfTypeOK
<1>4. CASE Exit(w)
  BY <1>4 DEF Exit, AmfTypeOK, Severed, Links
<1>5. CASE SendOk(w)
  <2>1. PICK frames \in Arrivals(w) : reqs' = Deliver(reqs, w, frames)
    BY <1>5 DEF SendOk
  <2>3. frames \in Seq(Raw)
    BY <2>1, ArrivalsType
  <2>4. reqs' \in [Sessions -> Seq(Raw)]
    BY <2>1, <2>3, DeliverType DEF AmfTypeOK
  <2> QED BY <1>5, <2>4 DEF SendOk, AmfTypeOK
<1>6. CASE SendFails(w)
  BY <1>6 DEF SendFails, AmfTypeOK
<1>15. CASE SendCut(w)
  <2>1. PICK frames \in IF cut[w] = {} THEN {<< >>} ELSE Misread(w) :
          reqs' = Deliver(reqs, w, frames)
    BY <1>15 DEF SendCut
  <2>2. frames \in Seq(Raw)
    <3>1. << >> \in Seq(Raw)
      OBVIOUS
    <3> QED BY <2>1, <3>1, ArrivalsType
  <2>3. reqs' \in [Sessions -> Seq(Raw)]
    BY <2>1, <2>2, DeliverType DEF AmfTypeOK
  <2>4. cut' \in [Workers -> SUBSET Nat]
    BY <1>15 DEF SendCut
  <2> QED BY <1>15, <2>3, <2>4 DEF SendCut, AmfTypeOK
<1>7. CASE AddTx(w)
  BY <1>7, AddType DEF AddTx, AmfTypeOK, AfterTx, Counters
<1>8. CASE RecvFrame(w)
  <2>1. Head(resps[w]) \in Raw /\ Tail(resps[w]) \in Seq(Raw)
    BY <1>8 DEF RecvFrame, AmfTypeOK
  <2>2. Head(resps[w]).seqID \in Nat
    BY <2>1 DEF Raw
  <2>3. Classify(Head(resps[w]), next[w]) \in WorkerPCs
    BY DEF Classify
  <2> QED BY <1>8, <2>1, <2>2, <2>3 DEF RecvFrame, AmfTypeOK
<1>9. CASE RecvTimeout(w)
  BY <1>9, ScenariosAssumption DEF RecvTimeout, AmfTypeOK
<1>10. CASE RecvFails(w)
  BY <1>10 DEF RecvFails, AmfTypeOK
<1>11. CASE RecvTorn(w)
  <2>1. PICK k \in 0 .. Len(resps[w]) :
          /\ resps' = [resps EXCEPT ![w] = SubSeq(@, k + 1, Len(@))]
          /\ torn' \in {torn, [torn EXCEPT ![w] = k = 0]}
    BY <1>11 DEF RecvTorn
  <2>2. SubSeq(resps[w], k + 1, Len(resps[w])) \in Seq(Raw)
    BY DEF AmfTypeOK
  <2>3. resps' \in [Sessions -> Seq(Raw)] /\ torn' \in [Workers -> BOOLEAN]
    BY <2>1, <2>2 DEF AmfTypeOK
  <2>4. pc' \in [Workers -> WorkerPCs]
    BY <1>11 DEF RecvTorn
  <2> QED BY <1>11, <2>3, <2>4, Zenon DEF RecvTorn, AmfTypeOK
<1>12. CASE AddRx(w)
  BY <1>12, AddType DEF AddRx, AmfTypeOK, Counters
<1>13. CASE AddLatency(w)
  BY <1>13, AddType DEF AddLatency, AmfTypeOK, Counters
<1>14. CASE AddDrop(w)
  <2>1. c' \in [Counters -> Nat]
    BY <1>14, AddType DEF AddDrop, Counters
  <2>2. dropped' \subseteq Nat
    BY <1>14 DEF AddDrop
  <2>3. got' \in [Workers -> Nat] /\ pc' \in [Workers -> WorkerPCs]
    BY <1>14 DEF AddDrop, AfterDrop
  <2> QED BY <1>14, <2>1, <2>2, <2>3, Zenon DEF AddDrop, AmfTypeOK
<1> QED
  BY <1>1, <1>2, <1>3, <1>4, <1>5, <1>6, <1>7, <1>8, <1>9, <1>10, <1>11,
     <1>12, <1>13, <1>14, <1>15 DEF Worker

\* Every step of the program keeps the types.
LEMMA TypeStep == TypeOK /\ [Next]_vars => TypeOK'
<1> SUFFICES ASSUME TypeOK, [Next]_vars
             PROVE  TypeOK'
  OBVIOUS
<1> USE DEF TypeOK, runVars, amfVars
<1>1. CASE \E w \in Workers : Worker(w)
  BY <1>1, WorkerTypeStep
<1>2. CASE Tick
  <2>1. Len(rows) + 1 \in Nat \ {0} /\ c \in [Counters -> Nat]
    OBVIOUS
  <2>2. Snapshot(c, Len(rows) + 1) \in Rows
    BY <2>1, SnapshotType
  <2> QED BY <1>2, <2>2 DEF Tick, AmfTypeOK
<1>3. CASE StopCollecting
  BY <1>3 DEF StopCollecting, AmfTypeOK
<1>4. CASE Finish
  <2>1. PICK since \in Elapsed : rows' = Append(rows, Snapshot(c, since))
    BY <1>4 DEF Finish
  <2>2. since \in Nat \ {0}
    BY DurationAssumption DEF Elapsed
  <2>3. Snapshot(c, since) \in Rows
    BY <2>2, SnapshotType
  <2> QED BY <1>4, <2>1, <2>3 DEF Finish, AmfTypeOK
<1>5. CASE Expire
  BY <1>5 DEF Expire, AmfTypeOK
<1>6. CASE \/ AmfMain
           \/ \E s \in Sessions : AmfHandler(s) \/ Learn(s)
           \/ Environment
  <2>1. AmfTypeOK'
    BY <1>6, AmfTypeStep
  <2> QED BY <1>6, <2>1 DEF AmfMain, AmfHandler, Learn, Environment
<1>7. CASE UNCHANGED vars
  BY <1>7 DEF vars, AmfTypeOK
<1>8. CASE ProcessEnds
  BY <1>8 DEF ProcessEnds, AmfTypeOK, Severed, Links
<1> QED
  BY <1>1, <1>2, <1>3, <1>4, <1>5, <1>6, <1>7, <1>8 DEF Next, Main, Terminated

\* The initial state has the types.
LEMMA TypeInit == Init => TypeOK
<1> SUFFICES ASSUME Init
             PROVE  TypeOK
  OBVIOUS
<1>1. AmfTypeOK
  <2>1. Garbage \in Raw
    BY DEF Garbage, Raw
  <2>2. [s \in Sessions |-> << >>] \in [Sessions -> Seq(Raw)]
    OBVIOUS
  <2>3. [s \in Sessions |-> Garbage] \in [Sessions -> Raw]
    BY <2>1
  <2> QED BY <2>2, <2>3 DEF Init, AmfInit, AmfTypeOK, Links, HandlerPCs
<1>2. Zero \in [Counters -> Nat]
  BY DEF Zero
<1> QED BY <1>1, <1>2 DEF Init, TypeOK, WorkerPCs

(***************************************************************************)
(* The variables of the gNB and of the AMF keep their types in every run.  *)
(***************************************************************************)
THEOREM TypeCorrect == Spec => []TypeOK
<1>1. Init => TypeOK
  BY TypeInit
<1>2. TypeOK /\ [Next]_vars => TypeOK'
  BY TypeStep
<1> QED BY <1>1, <1>2, PTL DEF Spec

-------------------------------------------------------------------------------
(* Counting workers *)

\* The number of workers at some labels is a natural number.
LEMMA CountType ==
  ASSUME NEW at, NEW labels
  PROVE  Count(at, labels) \in Nat
<1> DEFINE there == {v \in Workers : at[v] \in labels}
<1>1. IsFiniteSet(there)
  BY WorkersAssumption, FS_Subset
<1> QED BY <1>1, FS_CardinalityType DEF Count

\* When one worker moves, the count changes by that worker alone.
LEMMA CountMove ==
  ASSUME NEW at \in [Workers -> WorkerPCs], NEW w \in Workers, NEW to,
         NEW labels
  PROVE  Count([at EXCEPT ![w] = to], labels)
           = Count(at, labels) + (IF to \in labels THEN 1 ELSE 0)
                               - (IF at[w] \in labels THEN 1 ELSE 0)
<1> DEFINE others == {v \in Workers \ {w} : at[v] \in labels}
           before == {v \in Workers : at[v] \in labels}
           moved  == [at EXCEPT ![w] = to]
           after  == {v \in Workers : moved[v] \in labels}
<1>1. IsFiniteSet(others) /\ w \notin others
  BY WorkersAssumption, FS_Subset
<1>2. Cardinality(others) \in Nat
  BY <1>1, FS_CardinalityType
<1>3. Cardinality(others \cup {w}) = Cardinality(others) + 1
  BY <1>1, FS_AddElement
<1>4. before = IF at[w] \in labels THEN others \cup {w} ELSE others
  OBVIOUS
<1>5. after = IF to \in labels THEN others \cup {w} ELSE others
  OBVIOUS
<1>6. Cardinality(before)
        = Cardinality(others) + (IF at[w] \in labels THEN 1 ELSE 0)
  <2>1. CASE at[w] \in labels
    BY <2>1, <1>3, <1>4, Zenon
  <2>2. CASE at[w] \notin labels
    <3>1. before = others
      BY <2>2, <1>4, Zenon
    <3>2. Cardinality(others) + 0 = Cardinality(others)
      BY <1>2
    <3> QED BY <2>2, <3>1, <3>2, Zenon
  <2> QED BY <2>1, <2>2
<1>7. Cardinality(after)
        = Cardinality(others) + (IF to \in labels THEN 1 ELSE 0)
  <2>1. CASE to \in labels
    BY <2>1, <1>3, <1>5, Zenon
  <2>2. CASE to \notin labels
    <3>1. after = others
      BY <2>2, <1>5, Zenon
    <3>2. Cardinality(others) + 0 = Cardinality(others)
      BY <1>2
    <3> QED BY <2>2, <3>1, <3>2, Zenon
  <2> QED BY <2>1, <2>2
<1>8. /\ Count(at, labels) = Cardinality(before)
      /\ Count(moved, labels) = Cardinality(after)
  BY DEF Count
<1> HIDE DEF others, before, moved, after
<1>9. Count(moved, labels)
        = Count(at, labels) + (IF to \in labels THEN 1 ELSE 0)
                            - (IF at[w] \in labels THEN 1 ELSE 0)
  BY <1>2, <1>6, <1>7, <1>8
<1> QED BY <1>9 DEF moved

\* Nobody is counted at labels where no worker is.
LEMMA CountZero ==
  ASSUME NEW at, NEW labels, \A w \in Workers : at[w] \notin labels
  PROVE  Count(at, labels) = 0
<1>1. {v \in Workers : at[v] \in labels} = {}
  OBVIOUS
<1> QED BY <1>1, FS_EmptySet DEF Count

-------------------------------------------------------------------------------
(* No attempt is lost or counted twice *)

\* The groups of labels that Conservation counts, before and after a move.
LEMMA MoveCounts ==
  ASSUME TypeOK, NEW w \in Workers, NEW to, GoTo(w, to)
  PROVE  /\ Count(pc, Sending) \in Nat
         /\ Count(pc, Waiting) \in Nat
         /\ Count(pc, {"addlat"}) \in Nat
         /\ Count(pc', Sending)
              = Count(pc, Sending) + (IF to \in Sending THEN 1 ELSE 0)
                                   - (IF pc[w] \in Sending THEN 1 ELSE 0)
         /\ Count(pc', Waiting)
              = Count(pc, Waiting) + (IF to \in Waiting THEN 1 ELSE 0)
                                   - (IF pc[w] \in Waiting THEN 1 ELSE 0)
         /\ Count(pc', {"addlat"})
              = Count(pc, {"addlat"}) + (IF to \in {"addlat"} THEN 1 ELSE 0)
                                      - (IF pc[w] \in {"addlat"} THEN 1 ELSE 0)
<1>1. pc \in [Workers -> WorkerPCs] /\ pc' = [pc EXCEPT ![w] = to]
  BY DEF TypeOK, GoTo
<1>2. \A labels : Count(pc, labels) \in Nat
  BY CountType
<1>3. \A labels : Count([pc EXCEPT ![w] = to], labels)
                  = Count(pc, labels) + (IF to \in labels THEN 1 ELSE 0)
                                      - (IF pc[w] \in labels THEN 1 ELSE 0)
  BY <1>1, CountMove
<1> QED BY <1>1, <1>2, <1>3, Zenon

\* A move that counts nothing and stays within the same group of labels.
LEMMA QuietMove ==
  ASSUME TypeOK, Conservation, NEW w \in Workers, NEW to, GoTo(w, to),
         UNCHANGED <<seq, c>>,
         to \in Sending <=> pc[w] \in Sending,
         to \in Waiting <=> pc[w] \in Waiting,
         to \in {"addlat"} <=> pc[w] \in {"addlat"}
  PROVE  Conservation'
<1>1. /\ Count(pc', Sending) = Count(pc, Sending)
      /\ Count(pc', Waiting) = Count(pc, Waiting)
      /\ Count(pc', {"addlat"}) = Count(pc, {"addlat"})
  BY MoveCounts
<1> QED BY <1>1 DEF Conservation, Sends, Outcomes, Samples

\* A worker keeps the balance of attempts in each of its steps.
LEMMA WorkerConserves ==
  ASSUME TypeOK, Conservation, NEW w \in Workers, Worker(w)
  PROVE  Conservation'
<1> USE DEF Counters, DropKinds
<1>1. c \in [Counters -> Nat] /\ seq \in Nat
  BY DEF TypeOK
<1>2. /\ c["tx"] \in Nat /\ c["rx"] \in Nat /\ c["lat"] \in Nat
      /\ c["timeout"] \in Nat /\ c["sendErr"] \in Nat /\ c["decode"] \in Nat
      /\ c["mismatch"] \in Nat /\ c["other"] \in Nat
  BY <1>1
<1>3. \A k, j \in Counters : Add(c, k)[j] = IF j = k THEN c[j] + 1 ELSE c[j]
  BY <1>1 DEF Add
<1>4. /\ Count(pc, Sending) \in Nat
      /\ Count(pc, Waiting) \in Nat
      /\ Count(pc, {"addlat"}) \in Nat
  BY CountType
<1>5. CASE \/ Open(w) \/ OpenFails(w) \/ Exit(w) \/ SendOk(w) \/ SendFails(w)
           \/ SendCut(w) \/ RecvFrame(w) \/ RecvTimeout(w) \/ RecvFails(w)
           \/ RecvTorn(w)
  <2>1. \E to : /\ GoTo(w, to)
                /\ to \in Sending <=> pc[w] \in Sending
                /\ to \in Waiting <=> pc[w] \in Waiting
                /\ to \in {"addlat"} <=> pc[w] \in {"addlat"}
    <3> USE DEF Sending, Waiting
    <3>1. CASE Open(w)
      BY <3>1 DEF Open
    <3>2. CASE OpenFails(w)
      BY <3>2 DEF OpenFails
    <3>3. CASE Exit(w)
      BY <3>3 DEF Exit
    <3>4. CASE SendOk(w)
      BY <3>4 DEF SendOk
    <3>5. CASE SendFails(w)
      BY <3>5 DEF SendFails
    <3>6. CASE RecvFrame(w)
      <4>1. PICK to \in {"decode", "mismatch", "addrx"} : GoTo(w, to)
        BY <3>6 DEF RecvFrame, Classify
      <4> QED BY <3>6, <4>1 DEF RecvFrame
    <3>7. CASE RecvTimeout(w)
      BY <3>7 DEF RecvTimeout
    <3>8. CASE RecvFails(w)
      BY <3>8 DEF RecvFails
    <3>9. CASE RecvTorn(w)
      BY <3>9 DEF RecvTorn
    <3>10. CASE SendCut(w)
      BY <3>10 DEF SendCut
    <3> QED
      BY <1>5, <3>1, <3>2, <3>3, <3>4, <3>5, <3>6, <3>7, <3>8, <3>9, <3>10
  <2>2. UNCHANGED <<seq, c>>
    BY <1>5 DEF Open, OpenFails, Exit, SendOk, SendFails, SendCut, RecvFrame,
                RecvTimeout, RecvFails, RecvTorn
  <2> QED BY <2>1, <2>2, QuietMove
<1>6. CASE Begin(w)
  <2>1. /\ Count(pc', Sending) = Count(pc, Sending) + 1
        /\ Count(pc', Waiting) = Count(pc, Waiting)
        /\ Count(pc', {"addlat"}) = Count(pc, {"addlat"})
    BY <1>4, <1>6, MoveCounts DEF Begin, Sending, Waiting
  <2>2. seq' = seq + 1 /\ c' = c
    BY <1>6 DEF Begin
  <2> QED
    BY <1>1, <1>2, <1>4, <2>1, <2>2
    DEF Conservation, Sends, Outcomes, Samples
<1>7. CASE AddTx(w)
  <2>1. /\ Count(pc', Sending) = Count(pc, Sending) - 1
        /\ Mode = "latency" => Count(pc', Waiting) = Count(pc, Waiting) + 1
        /\ Count(pc', {"addlat"}) = Count(pc, {"addlat"})
    BY <1>4, <1>7, MoveCounts DEF AddTx, AfterTx, Sending, Waiting
  <2>2. /\ seq' = seq
        /\ \A j \in Counters : c'[j] = IF j = "tx" THEN c[j] + 1 ELSE c[j]
    BY <1>3, <1>7 DEF AddTx
  <2> QED
    BY <1>1, <1>2, <1>4, <2>1, <2>2
    DEF Conservation, Sends, Outcomes, Samples
<1>8. CASE AddRx(w)
  <2>1. /\ Count(pc', Sending) = Count(pc, Sending)
        /\ Count(pc', Waiting) = Count(pc, Waiting) - 1
        /\ Count(pc', {"addlat"}) = Count(pc, {"addlat"}) + 1
    BY <1>4, <1>8, MoveCounts DEF AddRx, Sending, Waiting
  <2>2. /\ seq' = seq
        /\ c'["rx"] = c["rx"] + 1
        /\ c'["tx"] = c["tx"] /\ c'["lat"] = c["lat"]
        /\ c'["timeout"] = c["timeout"] /\ c'["sendErr"] = c["sendErr"]
        /\ c'["decode"] = c["decode"] /\ c'["mismatch"] = c["mismatch"]
        /\ c'["other"] = c["other"]
    BY <1>3, <1>8 DEF AddRx
  <2>3. Sends' /\ Samples'
    BY <1>1, <1>2, <1>4, <2>1, <2>2 DEF Conservation, Sends, Samples
  <2>4. Outcomes'
    <3> SUFFICES ASSUME Mode = "latency"
                 PROVE  Outcomes'
      BY DEF Outcomes
    <3>1. c["tx"] = c["rx"] + c["timeout"] + c["decode"] + c["mismatch"]
                      + c["other"] + Count(pc, Waiting)
      BY DEF Conservation, Outcomes
    <3>2. c'["tx"] = c'["rx"] + c'["timeout"] + c'["decode"] + c'["mismatch"]
                       + c'["other"] + Count(pc', Waiting)
      BY <1>2, <1>4, <2>1, <2>2, <3>1
    <3> QED BY <3>2 DEF Outcomes
  <2> QED BY <2>3, <2>4 DEF Conservation
<1>9. CASE AddLatency(w)
  <2>1. /\ Count(pc', Sending) = Count(pc, Sending)
        /\ Count(pc', Waiting) = Count(pc, Waiting)
        /\ Count(pc', {"addlat"}) = Count(pc, {"addlat"}) - 1
    BY <1>4, <1>9, MoveCounts DEF AddLatency, Sending, Waiting
  <2>2. /\ seq' = seq
        /\ \A j \in Counters : c'[j] = IF j = "lat" THEN c[j] + 1 ELSE c[j]
    BY <1>3, <1>9 DEF AddLatency
  <2> QED
    BY <1>1, <1>2, <1>4, <2>1, <2>2
    DEF Conservation, Sends, Outcomes, Samples
<1>10. CASE AddDrop(w)
  <2> DEFINE kind == pc[w]
  <2>1. kind \in DropKinds /\ GoTo(w, "loop")
    BY <1>10 DEF AddDrop, AfterDrop
  <2>2. /\ Count(pc', Sending)
             = Count(pc, Sending) - (IF kind = "sendErr" THEN 1 ELSE 0)
        /\ Count(pc', Waiting)
             = Count(pc, Waiting) - (IF kind = "sendErr" THEN 0 ELSE 1)
        /\ Count(pc', {"addlat"}) = Count(pc, {"addlat"})
    BY <1>4, <2>1, MoveCounts DEF Sending, Waiting
  <2>3. /\ seq' = seq
        /\ \A j \in Counters : c'[j] = IF j = kind THEN c[j] + 1 ELSE c[j]
    BY <1>3, <1>10 DEF AddDrop
  <2> HIDE DEF kind
  <2>4. Sends' /\ Samples'
    BY <1>1, <1>2, <1>4, <2>1, <2>2, <2>3 DEF Conservation, Sends, Samples
  <2>5. Outcomes'
    <3> SUFFICES ASSUME Mode = "latency"
                 PROVE  Outcomes'
      BY DEF Outcomes
    <3>1. c'["tx"] = c["tx"] /\ c'["rx"] = c["rx"]
      BY <2>1, <2>3
    <3>2. c'["timeout"] = c["timeout"] + (IF kind = "timeout" THEN 1 ELSE 0)
      BY <1>2, <2>3
    <3>3. c'["decode"] = c["decode"] + (IF kind = "decode" THEN 1 ELSE 0)
      BY <1>2, <2>3
    <3>4. c'["mismatch"] = c["mismatch"] + (IF kind = "mismatch" THEN 1 ELSE 0)
      BY <1>2, <2>3
    <3>5. c'["other"] = c["other"] + (IF kind = "other" THEN 1 ELSE 0)
      BY <1>2, <2>3
    <3>6. c["tx"] = c["rx"] + c["timeout"] + c["decode"] + c["mismatch"]
                      + c["other"] + Count(pc, Waiting)
      BY DEF Conservation, Outcomes
    <3>7. c'["tx"] = c'["rx"] + c'["timeout"] + c'["decode"] + c'["mismatch"]
                       + c'["other"] + Count(pc', Waiting)
      BY <1>2, <1>4, <2>1, <2>2, <3>1, <3>2, <3>3, <3>4, <3>5, <3>6
    <3> QED BY <3>7 DEF Outcomes
  <2> QED BY <2>4, <2>5 DEF Conservation
<1> QED BY <1>5, <1>6, <1>7, <1>8, <1>9, <1>10 DEF Worker

\* Every step of the program keeps the balance of attempts.
LEMMA ConservationStep ==
  TypeOK /\ Conservation /\ [Next]_vars => Conservation'
<1> SUFFICES ASSUME TypeOK, Conservation, [Next]_vars
             PROVE  Conservation'
  OBVIOUS
<1>1. CASE \E w \in Workers : Worker(w)
  BY <1>1, WorkerConserves
<1>2. CASE UNCHANGED <<seq, pc, c>>
  BY <1>2 DEF Conservation, Sends, Outcomes, Samples
<1>3. (\E w \in Workers : Worker(w)) \/ UNCHANGED <<seq, pc, c>>
  BY DEF Next, vars, runVars, Main, Tick, StopCollecting, Finish, ProcessEnds,
         Expire,
         AmfMain, AmfHandler, Learn, Environment, Terminated
<1> QED BY <1>1, <1>2, <1>3

\* Nothing has been attempted or counted at the start.
LEMMA ConservationInit == Init => Conservation
<1> SUFFICES ASSUME Init
             PROVE  Conservation
  OBVIOUS
<1>1. \A w \in Workers : pc[w] = "open"
  BY DEF Init
<1>2. /\ Count(pc, Sending) = 0
      /\ Count(pc, Waiting) = 0
      /\ Count(pc, {"addlat"}) = 0
  BY <1>1, CountZero DEF Sending, Waiting
<1>3. seq = 0 /\ \A k \in Counters : c[k] = 0
  BY DEF Init, Zero
<1> QED BY <1>2, <1>3
        DEF Conservation, Sends, Outcomes, Samples, Counters, DropKinds

(***************************************************************************)
(* Every attempt that a worker starts is accounted for exactly once, at    *)
(* every moment and however the workers, the AMF and the network interleave*)
(* (load.go:72-102, load.go:149-156).                                      *)
(***************************************************************************)
THEOREM AttemptsConserved == Spec => []Conservation
<1>1. Init => TypeOK /\ Conservation
  BY TypeInit, ConservationInit
<1>2. TypeOK /\ Conservation /\ [Next]_vars => TypeOK' /\ Conservation'
  BY TypeStep, ConservationStep
<1> QED BY <1>1, <1>2, PTL DEF Spec
===============================================================================
