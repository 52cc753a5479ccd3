------------------------------ MODULE OrderProofs ------------------------------
(***************************************************************************)
(* What is on the way between the workers and the AMF: in which order the  *)
(* responses come, what becomes of a worker that has one outstanding when  *)
(* it should not, and what the AMF may do with the frames of each mode.    *)
(***************************************************************************)
EXTENDS LedgerProofs

\* One session per worker.
USE DEF Workers

-------------------------------------------------------------------------------
(* The SeqIDs of a sequence of frames *)

\* The SeqIDs of the frames that decode, and of all frames.
Ids(frames) ==
  {frames[i].seqID : i \in {j \in 1 .. Len(frames) : Decodes(frames[j])}}

Numbers(frames) == {frames[i].seqID : i \in 1 .. Len(frames)}

Before(A, B) == \A a \in A, b \in B : a < b

\* SeqIDs are natural numbers.
LEMMA IdsType ==
  ASSUME NEW s \in Seq(Raw)
  PROVE  Ids(s) \subseteq Numbers(s) /\ Numbers(s) \subseteq Nat
<1>1. \A i \in 1 .. Len(s) : s[i] \in Raw
  OBVIOUS
<1>2. \A f \in Raw : f.seqID \in Nat
  BY DEF Raw
<1>3. Numbers(s) \subseteq Nat
  BY <1>1, <1>2 DEF Numbers
<1> QED BY <1>3 DEF Ids, Numbers

\* Being in order, for two frames that decode.
LEMMA InOrderPair ==
  ASSUME NEW s \in Seq(Raw), InOrder(s), NEW i \in 1 .. Len(s),
         NEW j \in 1 .. Len(s), i < j, Decodes(s[i]), Decodes(s[j])
  PROVE  s[i].seqID < s[j].seqID
BY DEF InOrder

\* What is left of a sequence behind its first k frames.
LEMMA Behind ==
  ASSUME NEW s \in Seq(Raw), NEW k \in 0 .. Len(s),
         NEW u \in Seq(Raw), Len(u) = Len(s) - k,
         \A i \in 1 .. Len(u) : u[i] = s[k + i]
  PROVE  /\ Ids(u) \subseteq Ids(s)
         /\ Numbers(u) \subseteq Numbers(s)
         /\ InOrder(s) => InOrder(u)
<1>1. \A i \in 1 .. Len(u) : k + i \in 1 .. Len(s)
  OBVIOUS
<1>2. Ids(u) \subseteq Ids(s)
  <2> SUFFICES ASSUME NEW i \in 1 .. Len(u), Decodes(u[i])
               PROVE  u[i].seqID \in Ids(s)
    BY DEF Ids
  <2> QED BY <1>1 DEF Ids
<1>3. Numbers(u) \subseteq Numbers(s)
  BY <1>1 DEF Numbers
<1>4. ASSUME InOrder(s)
      PROVE  InOrder(u)
  <2> SUFFICES ASSUME NEW i \in 1 .. Len(u), NEW j \in 1 .. Len(u), i < j,
                      Decodes(u[i]), Decodes(u[j])
               PROVE  u[i].seqID < u[j].seqID
    BY DEF InOrder
  <2>1. k + i \in 1 .. Len(s) /\ k + j \in 1 .. Len(s) /\ k + i < k + j
    BY <1>1
  <2>2. u[i] = s[k + i] /\ u[j] = s[k + j]
    OBVIOUS
  <2> QED BY <1>4, <2>1, <2>2, InOrderPair
<1> QED BY <1>2, <1>3, <1>4

\* Taking the first frame off.
LEMMA TailFrames ==
  ASSUME NEW s \in Seq(Raw), s # << >>
  PROVE  /\ Tail(s) \in Seq(Raw)
         /\ Head(s) = s[1] /\ Head(s) \in Raw
         /\ Ids(Tail(s)) \subseteq Ids(s)
         /\ Numbers(Tail(s)) \subseteq Numbers(s)
         /\ InOrder(s) => InOrder(Tail(s))
         /\ Head(s).seqID \in Numbers(s)
         /\ Decodes(Head(s)) => Head(s).seqID \in Ids(s)
         /\ Ids(s) \subseteq
              Ids(Tail(s)) \cup (IF Decodes(Head(s)) THEN {Head(s).seqID} ELSE {})
         /\ InOrder(s) /\ Decodes(Head(s)) =>
              \A id \in Ids(Tail(s)) : Head(s).seqID < id
<1> DEFINE u == Tail(s)
<1>1. /\ u \in Seq(Raw) /\ Len(u) = Len(s) - 1
      /\ 1 \in 0 .. Len(s)
      /\ \A i \in 1 .. Len(u) : u[i] = s[1 + i]
      /\ Head(s) = s[1] /\ 1 \in 1 .. Len(s) /\ Head(s) \in Raw
  OBVIOUS
<1> HIDE DEF u
<1>2. /\ Ids(u) \subseteq Ids(s)
      /\ Numbers(u) \subseteq Numbers(s)
      /\ InOrder(s) => InOrder(u)
  BY <1>1, Behind
<1>3. /\ Head(s).seqID \in Numbers(s)
      /\ Decodes(Head(s)) => Head(s).seqID \in Ids(s)
  BY <1>1 DEF Numbers, Ids
<1>4. ASSUME NEW i \in 1 .. Len(s), Decodes(s[i])
      PROVE  s[i].seqID
               \in Ids(u) \cup (IF Decodes(Head(s)) THEN {Head(s).seqID} ELSE {})
  <2>1. CASE i = 1
    BY <1>1, <1>4, <2>1
  <2>2. CASE i # 1
    <3>1. i - 1 \in 1 .. Len(u) /\ u[i - 1] = s[i]
      BY <1>1, <2>2
    <3>2. s[i].seqID \in Ids(u)
      BY <1>4, <3>1 DEF Ids
    <3> QED BY <3>2
  <2> QED BY <2>1, <2>2
<1>5. ASSUME InOrder(s), Decodes(Head(s)), NEW i \in 1 .. Len(u), Decodes(u[i])
      PROVE  Head(s).seqID < u[i].seqID
  <2>1. 1 + i \in 1 .. Len(s) /\ 1 < 1 + i /\ u[i] = s[1 + i]
    BY <1>1
  <2> QED BY <1>1, <1>5, <2>1, InOrderPair
<1>6. Ids(s) \subseteq
        Ids(u) \cup (IF Decodes(Head(s)) THEN {Head(s).seqID} ELSE {})
  BY <1>4 DEF Ids
<1>7. InOrder(s) /\ Decodes(Head(s)) => \A id \in Ids(u) : Head(s).seqID < id
  BY <1>5 DEF Ids
<1> QED BY <1>1, <1>2, <1>3, <1>6, <1>7 DEF u

\* Joining two sequences.
LEMMA Together ==
  ASSUME NEW s \in Seq(Raw), NEW t \in Seq(Raw)
  PROVE  /\ s \o t \in Seq(Raw)
         /\ Len(s \o t) = Len(s) + Len(t)
         /\ Ids(s \o t) = Ids(s) \cup Ids(t)
         /\ Numbers(s \o t) = Numbers(s) \cup Numbers(t)
         /\ InOrder(s) /\ InOrder(t) /\ Before(Ids(s), Ids(t)) => InOrder(s \o t)
<1> DEFINE u == s \o t
<1>1. /\ u \in Seq(Raw) /\ Len(u) = Len(s) + Len(t)
      /\ \A i \in 1 .. Len(s) : u[i] = s[i]
      /\ \A i \in 1 .. Len(t) : u[Len(s) + i] = t[i]
      /\ Len(s) \in Nat /\ Len(t) \in Nat
  OBVIOUS
<1> HIDE DEF u
<1>2. \A i \in 1 .. Len(u) :
        \/ i \in 1 .. Len(s) /\ u[i] = s[i]
        \/ i - Len(s) \in 1 .. Len(t) /\ u[i] = t[i - Len(s)]
  <2> SUFFICES ASSUME NEW i \in 1 .. Len(u), ~(i <= Len(s))
               PROVE  i - Len(s) \in 1 .. Len(t) /\ u[i] = t[i - Len(s)]
    BY <1>1
  <2>1. i - Len(s) \in 1 .. Len(t) /\ Len(s) + (i - Len(s)) = i
    BY <1>1
  <2> QED BY <1>1, <2>1
<1>3. \A i \in 1 .. Len(t) : Len(s) + i \in 1 .. Len(u)
  BY <1>1
<1>4. \A i \in 1 .. Len(s) : i \in 1 .. Len(u)
  BY <1>1
<1>5. Ids(u) \subseteq Ids(s) \cup Ids(t)
  BY <1>2 DEF Ids
<1>6. Ids(s) \cup Ids(t) \subseteq Ids(u)
  <2>1. ASSUME NEW i \in 1 .. Len(s), Decodes(s[i])
        PROVE  s[i].seqID \in Ids(u)
    BY <1>1, <1>4, <2>1 DEF Ids
  <2>2. ASSUME NEW i \in 1 .. Len(t), Decodes(t[i])
        PROVE  t[i].seqID \in Ids(u)
    BY <1>1, <1>3, <2>2 DEF Ids
  <2> QED BY <2>1, <2>2 DEF Ids
<1>7. Numbers(u) \subseteq Numbers(s) \cup Numbers(t)
  BY <1>2 DEF Numbers
<1>8. Numbers(s) \cup Numbers(t) \subseteq Numbers(u)
  <2>1. ASSUME NEW i \in 1 .. Len(s)
        PROVE  s[i].seqID \in Numbers(u)
    BY <1>1, <1>4 DEF Numbers
  <2>2. ASSUME NEW i \in 1 .. Len(t)
        PROVE  t[i].seqID \in Numbers(u)
    BY <1>1, <1>3 DEF Numbers
  <2> QED BY <2>1, <2>2 DEF Numbers
<1>9. ASSUME InOrder(s), InOrder(t), Before(Ids(s), Ids(t))
      PROVE  InOrder(u)
  <2> SUFFICES ASSUME NEW i \in 1 .. Len(u), NEW j \in 1 .. Len(u), i < j,
                      Decodes(u[i]), Decodes(u[j])
               PROVE  u[i].seqID < u[j].seqID
    BY DEF InOrder
  <2>1. CASE j <= Len(s)
    <3>1. /\ i \in 1 .. Len(s) /\ u[i] = s[i]
          /\ j \in 1 .. Len(s) /\ u[j] = s[j]
      BY <1>1, <2>1
    <3> QED BY <1>9, <3>1, InOrderPair
  <2>2. CASE i > Len(s)
    <3>1. /\ i - Len(s) \in 1 .. Len(t) /\ u[i] = t[i - Len(s)]
          /\ j - Len(s) \in 1 .. Len(t) /\ u[j] = t[j - Len(s)]
          /\ i - Len(s) < j - Len(s)
      BY <1>1, <1>2, <2>2
    <3> QED BY <1>9, <3>1, InOrderPair
  <2>3. CASE i <= Len(s) /\ j > Len(s)
    <3>1. /\ i \in 1 .. Len(s) /\ u[i] = s[i]
          /\ j - Len(s) \in 1 .. Len(t) /\ u[j] = t[j - Len(s)]
      BY <1>1, <1>2, <2>3
    <3>2. u[i].seqID \in Ids(s) /\ u[j].seqID \in Ids(t)
      BY <3>1 DEF Ids
    <3> QED BY <1>9, <3>2 DEF Before
  <2> QED BY <1>1, <2>1, <2>2, <2>3
<1> QED BY <1>1, <1>5, <1>6, <1>7, <1>8, <1>9 DEF u

\* A sequence of one frame, and the empty one.
LEMMA OneFrame ==
  ASSUME NEW f \in Raw
  PROVE  /\ <<f>> \in Seq(Raw)
         /\ Ids(<<f>>) = IF Decodes(f) THEN {f.seqID} ELSE {}
         /\ Numbers(<<f>>) = {f.seqID}
         /\ InOrder(<<f>>)
<1>1. <<f>> \in Seq(Raw) /\ Len(<<f>>) = 1 /\ <<f>>[1] = f
  OBVIOUS
<1>2. 1 .. Len(<<f>>) = {1}
  BY <1>1
<1>3. Ids(<<f>>) = IF Decodes(f) THEN {f.seqID} ELSE {}
  BY <1>1, <1>2 DEF Ids
<1>4. Numbers(<<f>>) = {f.seqID} /\ InOrder(<<f>>)
  BY <1>1, <1>2 DEF Numbers, InOrder
<1> QED BY <1>1, <1>3, <1>4

LEMMA NoFrame ==
  << >> \in Seq(Raw) /\ Ids(<< >>) = {} /\ Numbers(<< >>) = {} /\ InOrder(<< >>)
<1>1. << >> \in Seq(Raw) /\ 1 .. Len(<< >>) = {}
  OBVIOUS
<1> QED BY <1>1 DEF Ids, Numbers, InOrder

-------------------------------------------------------------------------------
(* The inductive invariant *)

\* The SeqID of the request that the AMF is answering.
HeldIds(w) == IF hpc[w] = "send" THEN {held[w].seqID} ELSE {}

\* The SeqIDs on the way between worker w and the AMF.
Carried(w) == Ids(resps[w]) \cup HeldIds(w) \cup Ids(reqs[w])

\* The worker has cut no frame.  Of a session on which one was cut neither the
\* order nor the numbers of what is on the way say anything.
Uncut(w) == cut[w] = {}

\* Responses, then the request being answered, then requests.
Ordered(w) == Uncut(w) =>
  /\ InOrder(resps[w]) /\ InOrder(reqs[w])
  /\ Before(Ids(resps[w]), HeldIds(w) \cup Ids(reqs[w]))
  /\ Before(HeldIds(w), Ids(reqs[w]))

\* No frame on the way is newer than the latest attempt.
Bounded(w) == Uncut(w) =>
  /\ next[w] <= seq
  /\ \A n \in Numbers(resps[w]) \cup HeldIds(w) \cup Numbers(reqs[w]) :
       n <= next[w]

\* A SeqID that is about to be sent is newer than all on the way, and nothing
\* is on the way when a response is accounted for.
Fresh(w) == Uncut(w) =>
  /\ pc[w] = "send" => \A id \in Carried(w) : id < next[w]
  /\ pc[w] \in {"addrx", "addlat"} => Carried(w) = {}

\* Requests are of the run's type, and the AMF answers MsgReq only.
Kinds(w) ==
  /\ hpc[w] = "send" => Answers(held[w])
  /\ \A i \in 1 .. Len(reqs[w]) :
       Decodes(reqs[w][i]) => reqs[w][i].msgType = RequestType
  /\ Mode = "flood" => resps[w] = << >> /\ hpc[w] # "send"

\* A message backend cuts no frame.
Boundaries(w) == ~scen.stream => ~torn[w] /\ Uncut(w)

\* A payload that Encode refuses makes no frame.
NoFrames(w) ==
  ~scen.fits => Carried(w) = {} /\ pc[w] \notin {"addrx", "addlat"}

\* On a message backend whose association lives, the request that a latency
\* worker waits for, or the response to it, is on the way.
Awaited(w) ==
  Mode = "latency" /\ ~scen.stream /\ scen.fits /\ link[w] = "up" =>
    (pc[w] \in {"addtx", "recv"} => next[w] \in Carried(w))

Session(w) ==
  /\ Ordered(w) /\ Bounded(w) /\ Fresh(w) /\ Kinds(w)
  /\ Boundaries(w) /\ NoFrames(w) /\ Awaited(w)

OrderInv == \A w \in Workers : Session(w)

\* The types of one session.
LEMMA SessionTypes ==
  ASSUME TypeOK, NEW w \in Workers
  PROVE  /\ resps[w] \in Seq(Raw) /\ reqs[w] \in Seq(Raw) /\ held[w] \in Raw
         /\ held[w].seqID \in Nat /\ next[w] \in Nat /\ seq \in Nat
         /\ pc[w] \in WorkerPCs /\ hpc[w] \in HandlerPCs
         /\ Carried(w) \subseteq Nat
         /\ scen.fits \in BOOLEAN /\ scen.stream \in BOOLEAN
<1>1. /\ resps[w] \in Seq(Raw) /\ reqs[w] \in Seq(Raw) /\ held[w] \in Raw
      /\ next[w] \in Nat /\ seq \in Nat
      /\ pc[w] \in WorkerPCs /\ hpc[w] \in HandlerPCs
      /\ scen \in Scenarios
  BY DEF TypeOK, AmfTypeOK
<1>2. held[w].seqID \in Nat
  BY <1>1 DEF Raw
<1>3. Carried(w) \subseteq Nat
  BY <1>1, <1>2, IdsType DEF Carried, HeldIds
<1>4. scen.fits \in BOOLEAN /\ scen.stream \in BOOLEAN
  BY <1>1, ScenariosAssumption
<1> QED BY <1>1, <1>2, <1>3, <1>4

\* Nothing is on the way before a session is open.
LEMMA OrderInit == Init => OrderInv
<1> SUFFICES ASSUME Init, NEW w \in Workers
             PROVE  Session(w)
  BY DEF OrderInv
<1>1. /\ resps[w] = << >> /\ reqs[w] = << >> /\ hpc[w] = "none"
      /\ pc[w] = "open" /\ next[w] = 0 /\ seq = 0 /\ ~torn[w] /\ Uncut(w)
  BY DEF Init, AmfInit, Uncut
<1>2. Carried(w) = {} /\ HeldIds(w) = {}
  BY <1>1, NoFrame DEF Carried, HeldIds
<1> QED
  BY <1>1, <1>2, NoFrame
  DEF Session, Ordered, Before, Bounded, Fresh, Kinds, Boundaries, NoFrames,
      Awaited

-------------------------------------------------------------------------------
(* Steps that move no frame of a session *)

(***************************************************************************)
(* A session keeps its invariant when its frames stay where they are and   *)
(* its worker draws no SeqID and gets no response.                         *)
(***************************************************************************)
LEMMA Quiet ==
  ASSUME TypeOK, NEW w \in Workers, Session(w),
         scen' = scen, seq' \in Nat, seq <= seq', next'[w] = next[w],
         resps'[w] = resps[w], reqs'[w] = reqs[w],
         \/ hpc'[w] = hpc[w] /\ held'[w] = held[w]
         \/ hpc'[w] # "send" /\ hpc[w] # "send",
         cut'[w] = cut[w], ~scen.stream => torn'[w] = torn[w],
         pc'[w] = "send" => pc[w] = "send",
         pc'[w] \in {"addrx", "addlat"} => pc[w] \in {"addrx", "addlat"},
         Mode = "latency" /\ link'[w] = "up" /\ pc'[w] \in {"addtx", "recv"} =>
           link[w] = "up" /\ pc[w] \in {"addtx", "recv"}
  PROVE  Session(w)'
<1>1. /\ HeldIds(w)' = HeldIds(w) /\ Carried(w)' = Carried(w)
      /\ Uncut(w)' = Uncut(w)
  BY DEF HeldIds, Carried, Uncut
<1>2. Ordered(w)'
  BY <1>1 DEF Session, Ordered
<1>3. Bounded(w)'
  BY <1>1, SessionTypes DEF Session, Bounded
<1>4. Fresh(w)'
  BY <1>1 DEF Session, Fresh
<1>5. Kinds(w)'
  BY DEF Session, Kinds
<1>6. Boundaries(w)' /\ NoFrames(w)' /\ Awaited(w)'
  BY <1>1 DEF Session, Boundaries, NoFrames, Awaited
<1> QED BY <1>2, <1>3, <1>4, <1>5, <1>6 DEF Session

-------------------------------------------------------------------------------
(* Steps of the AMF that move a frame *)

\* In latency mode no frame that decodes gets lost on an association that is
\* still alive behind the step.
Kept(w) ==
  Mode = "latency" /\ link'[w] = "up" =>
    link[w] = "up" /\ Carried(w) \subseteq Carried(w)'

\* Frames that the AMF drops disturb nothing that depends on their number,
\* unless a latency worker waits for them on a live association.
LEMMA Fewer ==
  ASSUME NEW w \in Workers, Session(w),
         UNCHANGED <<scen, runVars>>,
         Carried(w)' \subseteq Carried(w), Kept(w)
  PROVE  Fresh(w)' /\ Boundaries(w)' /\ NoFrames(w)' /\ Awaited(w)'
<1>1. /\ pc' = pc /\ next' = next /\ torn' = torn /\ Uncut(w)' = Uncut(w)
  BY DEF runVars, Uncut
<1>2. Fresh(w)'
  BY <1>1 DEF Session, Fresh
<1>3. Boundaries(w)' /\ NoFrames(w)'
  BY <1>1 DEF Session, Boundaries, NoFrames
<1>4. Awaited(w)'
  BY <1>1 DEF Session, Awaited, Kept
<1> QED BY <1>2, <1>3, <1>4

\* The AMF takes a frame: it will answer it, or it is none that is answered.
LEMMA HandleFrameKeeps ==
  ASSUME TypeOK, NEW w \in Workers, Session(w), HandleFrame(w),
         UNCHANGED runVars
  PROVE  Session(w)' /\ Kept(w)
<1> DEFINE f == Head(reqs[w])
           rest == Tail(reqs[w])
<1>1. /\ reqs[w] \in Seq(Raw) /\ resps[w] \in Seq(Raw) /\ reqs[w] # << >>
      /\ next[w] \in Nat /\ seq \in Nat
  BY SessionTypes DEF HandleFrame
<1>2. /\ reqs'[w] = rest /\ resps' = resps /\ scen' = scen /\ link' = link
      /\ hpc[w] = "recv" /\ HeldIds(w) = {}
      /\ pc' = pc /\ next' = next /\ seq' = seq /\ Uncut(w)' = Uncut(w)
  BY DEF HandleFrame, TypeOK, AmfTypeOK, HeldIds, runVars, Uncut
<1>3. /\ IF Answers(f) THEN hpc'[w] = "send" /\ held'[w] = f
         ELSE hpc'[w] = "top" /\ held'[w] = held[w]
  BY DEF HandleFrame, TypeOK, AmfTypeOK
<1>4. /\ rest \in Seq(Raw) /\ f = reqs[w][1] /\ f \in Raw
      /\ Ids(rest) \subseteq Ids(reqs[w])
      /\ Numbers(rest) \subseteq Numbers(reqs[w])
      /\ InOrder(reqs[w]) => InOrder(rest)
      /\ f.seqID \in Numbers(reqs[w])
      /\ Decodes(f) => f.seqID \in Ids(reqs[w])
      /\ Ids(reqs[w]) \subseteq
           Ids(rest) \cup (IF Decodes(f) THEN {f.seqID} ELSE {})
      /\ InOrder(reqs[w]) /\ Decodes(f) => \A id \in Ids(rest) : f.seqID < id
  BY <1>1, TailFrames
<1>5. \A i \in 1 .. Len(rest) :
        Decodes(rest[i]) => rest[i].msgType = RequestType
  <2>1. \A i \in 1 .. Len(rest) :
          i + 1 \in 1 .. Len(reqs[w]) /\ rest[i] = reqs[w][i + 1]
    BY <1>1
  <2> QED BY <2>1 DEF Session, Kinds
<1>6. Decodes(f) => f.msgType = RequestType
  <2>1. 1 \in 1 .. Len(reqs[w])
    BY <1>1
  <2> QED BY <1>4, <2>1 DEF Session, Kinds
<1>7. Mode = "flood" => ~Answers(f)
  BY <1>6 DEF RequestType, Answers
<1>8. Mode = "latency" => (Decodes(f) <=> Answers(f))
  BY <1>6 DEF RequestType, Answers
<1> HIDE DEF f, rest
<1>9. CASE Answers(f)
  <2>1. Decodes(f) /\ HeldIds(w)' = {f.seqID}
    BY <1>3, <1>9 DEF Answers, HeldIds
  <2>2. Carried(w)' = Carried(w)
    BY <1>2, <1>4, <2>1 DEF Carried
  <2>3. Ordered(w)'
    BY <1>2, <1>4, <2>1 DEF Session, Ordered, Before
  <2>4. Bounded(w)'
    BY <1>2, <1>4, <2>1 DEF Session, Bounded
  <2>5. Kinds(w)'
    BY <1>2, <1>3, <1>5, <1>7, <1>9 DEF Session, Kinds
  <2>6. Kept(w)
    BY <1>2, <2>2 DEF Kept
  <2> QED BY <1>2, <2>2, <2>3, <2>4, <2>5, <2>6, Fewer DEF Session
<1>10. CASE ~Answers(f)
  <2>1. HeldIds(w)' = {}
    BY <1>3, <1>10 DEF HeldIds
  <2>2. Carried(w)' \subseteq Carried(w)
    BY <1>2, <1>4, <2>1 DEF Carried
  <2>3. Mode = "latency" => Carried(w) \subseteq Carried(w)'
    BY <1>2, <1>4, <1>8, <1>10, <2>1 DEF Carried
  <2>4. Ordered(w)'
    BY <1>2, <1>4, <2>1 DEF Session, Ordered, Before
  <2>5. Bounded(w)'
    BY <1>2, <1>4, <2>1 DEF Session, Bounded
  <2>6. Kinds(w)'
    BY <1>2, <1>3, <1>5, <1>10 DEF Session, Kinds
  <2>7. Kept(w)
    BY <1>2, <2>3 DEF Kept
  <2> QED BY <1>2, <2>2, <2>4, <2>5, <2>6, <2>7, Fewer DEF Session
<1> QED BY <1>9, <1>10

\* The AMF answers: behind the responses before it, or into the void.
LEMMA RespondKeeps ==
  ASSUME TypeOK, NEW w \in Workers, Session(w), Respond(w), UNCHANGED runVars
  PROVE  Session(w)' /\ Kept(w)
<1> DEFINE f == Frame("MsgResp", held[w].seqID)
<1>1. /\ resps[w] \in Seq(Raw) /\ held[w].seqID \in Nat
      /\ next[w] \in Nat /\ seq \in Nat
  BY SessionTypes
<1>2. /\ hpc[w] = "send" /\ HeldIds(w) = {held[w].seqID}
      /\ hpc'[w] = "top" /\ HeldIds(w)' = {}
      /\ reqs' = reqs /\ scen' = scen /\ link' = link
      /\ pc' = pc /\ next' = next /\ seq' = seq /\ Uncut(w)' = Uncut(w)
  BY DEF Respond, TypeOK, AmfTypeOK, HeldIds, runVars, Uncut
<1>3. f \in Raw /\ Decodes(f) /\ f.seqID = held[w].seqID
  BY <1>1 DEF Frame, Raw, MsgTypes, Decodes
<1>4. resps'[w] = IF link[w] = "up" THEN resps[w] \o <<f>> ELSE resps[w]
  BY DEF Respond, Deliver, TypeOK, AmfTypeOK
<1>5. Mode # "flood"
  BY <1>2 DEF Session, Kinds
<1>6. Kinds(w)'
  BY <1>2, <1>5 DEF Session, Kinds
<1> HIDE DEF f
<1>7. CASE link[w] = "up"
  <2>1. /\ <<f>> \in Seq(Raw) /\ Ids(<<f>>) = {f.seqID}
        /\ Numbers(<<f>>) = {f.seqID} /\ InOrder(<<f>>)
    BY <1>3, OneFrame
  <2>2. Uncut(w) => Before(Ids(resps[w]), Ids(<<f>>)) /\ InOrder(resps[w])
    BY <1>2, <1>3, <2>1 DEF Session, Ordered, Before
  <2>3. /\ Ids(resps'[w]) = Ids(resps[w]) \cup {f.seqID}
        /\ Numbers(resps'[w]) = Numbers(resps[w]) \cup {f.seqID}
        /\ Uncut(w) => InOrder(resps'[w])
    <3>1. resps'[w] = resps[w] \o <<f>>
      BY <1>4, <1>7
    <3>2. /\ Ids(resps[w] \o <<f>>) = Ids(resps[w]) \cup Ids(<<f>>)
          /\ Numbers(resps[w] \o <<f>>) = Numbers(resps[w]) \cup Numbers(<<f>>)
          /\ Uncut(w) => InOrder(resps[w] \o <<f>>)
      BY <1>1, <2>1, <2>2, <3>1, Together, Zenon
    <3> QED BY <2>1, <3>1, <3>2, Zenon
  <2>4. Carried(w)' = Carried(w)
    BY <1>2, <1>3, <2>3 DEF Carried
  <2>5. Ordered(w)'
    BY <1>2, <1>3, <2>3 DEF Session, Ordered, Before
  <2>6. Bounded(w)'
    BY <1>2, <1>3, <2>3 DEF Session, Bounded
  <2>7. Kept(w)
    BY <1>2, <2>4 DEF Kept
  <2> QED BY <1>2, <1>6, <2>4, <2>5, <2>6, <2>7, Fewer DEF Session
<1>8. CASE link[w] # "up"
  <2>1. resps'[w] = resps[w] /\ link'[w] # "up"
    BY <1>2, <1>4, <1>8
  <2>2. Carried(w)' \subseteq Carried(w)
    BY <1>2, <2>1 DEF Carried
  <2>3. Ordered(w)'
    BY <1>2, <2>1 DEF Session, Ordered, Before
  <2>4. Bounded(w)'
    BY <1>2, <2>1 DEF Session, Bounded
  <2>5. Kept(w)
    BY <2>1 DEF Kept
  <2> QED BY <1>2, <1>6, <2>2, <2>3, <2>4, <2>5, Fewer DEF Session
<1> QED BY <1>7, <1>8

-------------------------------------------------------------------------------
(* Steps of a worker that draw a SeqID or move a frame *)

\* The drawn SeqID is newer than all on the way.
LEMMA BeginOrdered ==
  ASSUME TypeOK, NEW w \in Workers, Session(w), Begin(w)
  PROVE  Session(w)'
<1>1. /\ next'[w] = seq + 1 /\ seq' = seq + 1 /\ pc'[w] = "send"
      /\ UNCHANGED <<scen, link, reqs, resps, hpc, held, torn, cut>>
  BY DEF Begin, GoTo, TypeOK, amfVars
<1>2. /\ HeldIds(w)' = HeldIds(w) /\ Carried(w)' = Carried(w)
      /\ Uncut(w)' = Uncut(w)
  BY <1>1 DEF HeldIds, Carried, Uncut
<1>3. next[w] \in Nat /\ seq \in Nat /\ (Uncut(w) => next[w] <= seq)
  BY SessionTypes DEF Session, Bounded
<1>4. /\ Numbers(resps[w]) \subseteq Nat /\ Numbers(reqs[w]) \subseteq Nat
      /\ Ids(resps[w]) \subseteq Numbers(resps[w])
      /\ Ids(reqs[w]) \subseteq Numbers(reqs[w])
      /\ HeldIds(w) \subseteq Nat
  BY SessionTypes, IdsType DEF HeldIds
<1>5. Uncut(w) =>
        \A n \in Numbers(resps[w]) \cup HeldIds(w) \cup Numbers(reqs[w]) :
          n < seq + 1
  BY <1>3, <1>4 DEF Session, Bounded
<1>6. Ordered(w)' /\ Kinds(w)'
  BY <1>1, <1>2 DEF Session, Ordered, Kinds
<1>7. Bounded(w)'
  BY <1>1, <1>2, <1>3, <1>4, <1>5 DEF Bounded
<1>8. Fresh(w)'
  BY <1>1, <1>2, <1>4, <1>5 DEF Fresh, Carried
<1>9. Boundaries(w)' /\ NoFrames(w)' /\ Awaited(w)'
  BY <1>1, <1>2 DEF Session, Boundaries, NoFrames, Awaited
<1> QED BY <1>6, <1>7, <1>8, <1>9 DEF Session

\* What a Send adds to the requests on the way of a session without cut
\* frames: the frame, or, without one, nothing or garbage.
LEMMA SendAdds ==
  ASSUME TypeOK, NEW w \in Workers, SendOk(w), Uncut(w)
  PROVE  \/ /\ reqs'[w] = reqs[w]
            /\ link[w] = "up" => ~scen.fits
         \/ /\ reqs'[w] = reqs[w] \o <<Garbage>>
            /\ ~scen.fits
         \/ /\ reqs'[w] = reqs[w] \o <<Frame(RequestType, next[w])>>
            /\ scen.fits
<1> DEFINE frm == Encode(scen.fits, RequestType, next[w])
<1>1. PICK frames \in Arrivals(w) : reqs' = Deliver(reqs, w, frames)
  BY DEF SendOk
<1>2. reqs'[w] = IF link[w] = "up" THEN reqs[w] \o frames ELSE reqs[w]
  BY <1>1 DEF Deliver, TypeOK, AmfTypeOK
<1>3. frm = IF scen.fits THEN Frame(RequestType, next[w]) ELSE Garbage
  BY DEF Encode
<1>4. \/ frames = <<frm>>
      \/ frames \in {<< >>, <<Garbage>>} /\ ~scen.fits
  BY <1>1 DEF Arrivals, Misread, Uncut
<1>5. reqs[w] \o << >> = reqs[w]
  BY SessionTypes
<1> HIDE DEF frm
<1> QED BY <1>2, <1>3, <1>4, <1>5

\* All that Recv makes of a Send and that decodes is of the run's type.
LEMMA ArrivalsKinds ==
  ASSUME TypeOK, NEW w \in Workers, NEW frames \in Arrivals(w) \cup Misread(w)
  PROVE  /\ frames \in Seq(Raw)
         /\ \A i \in 1 .. Len(frames) :
              Decodes(frames[i]) => frames[i].msgType = RequestType /\ scen.fits
<1> DEFINE Kind(f) == Decodes(f) => f.msgType = RequestType /\ scen.fits
           Kinded(m) == m \in Seq(Raw) /\ \A i \in 1 .. Len(m) : Kind(m[i])
           frm == Encode(scen.fits, RequestType, next[w])
           messages == {<< >>, <<Garbage>>} \cup {<<m>> : m \in Joined(w)}
<1>1. Kind(Garbage) /\ Kind(TooLong) /\ Garbage \in Raw /\ TooLong \in Raw
  BY RawTypes DEF Garbage, TooLong, Decodes, MsgTypes
<1>2. Kind(frm) /\ frm \in Raw
  BY <1>1, RawTypes
  DEF Encode, Frame, Garbage, TypeOK, RequestType, MsgTypes
<1>3. ASSUME scen.fits, NEW f \in Joined(w)
      PROVE  Kind(f) /\ f \in Raw
  BY <1>3, RawTypes, MadeUpAssumption
  DEF Joined, Frame, TypeOK, RequestType, MsgTypes
<1> HIDE DEF Kind, frm
<1>4. \A f \in Raw : Kind(f) => Kinded(<<f>>)
  OBVIOUS
<1>5. Kinded(<< >>)
  OBVIOUS
<1>6. ASSUME NEW m, Kinded(m)
      PROVE  Kinded(m \o <<TooLong>>)
  <2>1. m \in Seq(Raw) /\ <<TooLong>> \in Seq(Raw) /\ Len(<<TooLong>>) = 1
        /\ <<TooLong>>[1] = TooLong
    BY <1>1, <1>6
  <2>2. /\ m \o <<TooLong>> \in Seq(Raw)
        /\ Len(m \o <<TooLong>>) = Len(m) + 1
        /\ \A i \in 1 .. Len(m) : (m \o <<TooLong>>)[i] = m[i]
        /\ (m \o <<TooLong>>)[Len(m) + 1] = TooLong
    BY <2>1
  <2>3. \A i \in 1 .. Len(m) + 1 : i \in 1 .. Len(m) \/ i = Len(m) + 1
    BY <2>1
  <2> QED BY <1>1, <1>6, <2>2, <2>3
<1> HIDE DEF Kinded
<1>7. ASSUME scen.fits, NEW m \in messages
      PROVE  Kinded(m)
  <2>1. m = << >> \/ m = <<Garbage>> \/ \E f \in Joined(w) : m = <<f>>
    BY <1>7
  <2> QED BY <1>1, <1>3, <1>4, <1>5, <1>7, <2>1, Zenon
<1>8. \/ frames \in {<< >>, <<Garbage>>, <<frm>>}
      \/ scen.fits /\ frames \in messages
      \/ scen.fits /\ \E m \in messages : frames = m \o <<TooLong>>
  BY Zenon DEF Arrivals, Misread, frm
<1> HIDE DEF messages
<1>9. Kinded(frames)
  <2>1. Kinded(<<Garbage>>) /\ Kinded(<<frm>>)
    BY <1>1, <1>2, <1>4
  <2> QED BY <1>5, <1>6, <1>7, <1>8, <2>1, Zenon
<1> QED BY <1>9 DEF Kinded, Kind

\* What comes behind a cut frame is of the run's type, and that is all.
LEMMA MisreadKeeps ==
  ASSUME TypeOK, NEW w \in Workers, Session(w), ~Uncut(w), ~Uncut(w)',
         NEW frames \in Arrivals(w) \cup Misread(w),
         reqs' = Deliver(reqs, w, frames),
         UNCHANGED <<scen, link, resps, hpc, held, torn>>,
         pc'[w] \notin {"addrx", "addlat"}
  PROVE  Session(w)'
<1>1. /\ frames \in Seq(Raw)
      /\ \A i \in 1 .. Len(frames) :
           Decodes(frames[i]) => frames[i].msgType = RequestType /\ scen.fits
  BY ArrivalsKinds
<1>2. reqs[w] \in Seq(Raw) /\ scen.stream
  BY SessionTypes DEF Session, Boundaries
<1>3. /\ Ids(reqs[w] \o frames) = Ids(reqs[w]) \cup Ids(frames)
      /\ Len(reqs[w] \o frames) = Len(reqs[w]) + Len(frames)
      /\ \A i \in 1 .. Len(reqs[w]) : (reqs[w] \o frames)[i] = reqs[w][i]
      /\ \A i \in 1 .. Len(frames) :
           (reqs[w] \o frames)[Len(reqs[w]) + i] = frames[i]
  <2>1. Ids(reqs[w] \o frames) = Ids(reqs[w]) \cup Ids(frames)
    BY <1>1, <1>2, Together, Zenon
  <2> QED BY <1>1, <1>2, <2>1
<1>4. reqs'[w] = reqs[w] \o frames \/ reqs'[w] = reqs[w]
  BY DEF Deliver, TypeOK, AmfTypeOK
<1>5. Kinds(w)'
  <2>1. \A i \in 1 .. Len(reqs[w]) + Len(frames) :
          i \in 1 .. Len(reqs[w]) \/ i - Len(reqs[w]) \in 1 .. Len(frames)
    BY <1>1, <1>2
  <2>2. ASSUME NEW i \in 1 .. Len(reqs[w] \o frames),
               Decodes((reqs[w] \o frames)[i])
        PROVE  (reqs[w] \o frames)[i].msgType = RequestType
    <3>1. CASE i \in 1 .. Len(reqs[w])
      BY <1>3, <2>2, <3>1 DEF Session, Kinds
    <3>2. CASE i - Len(reqs[w]) \in 1 .. Len(frames)
      <4>1. Len(reqs[w]) + (i - Len(reqs[w])) = i
        BY <1>2
      <4> QED BY <1>1, <1>3, <2>2, <3>2, <4>1
    <3> QED BY <1>3, <2>1, <3>1, <3>2
  <2>3. \A i \in 1 .. Len(reqs'[w]) :
          Decodes(reqs'[w][i]) => reqs'[w][i].msgType = RequestType
    BY <1>4, <2>2 DEF Session, Kinds
  <2> QED BY <2>3 DEF Session, Kinds
<1>6. NoFrames(w)'
  <2> SUFFICES ASSUME ~scen.fits
               PROVE  Carried(w)' = {}
    BY DEF NoFrames
  <2>1. Ids(frames) = {}
    BY <1>1 DEF Ids
  <2>2. Ids(reqs'[w]) = Ids(reqs[w])
    BY <1>3, <1>4, <2>1
  <2> QED BY <2>2 DEF Session, NoFrames, Carried, HeldIds
<1>7. Ordered(w)' /\ Bounded(w)' /\ Fresh(w)' /\ Boundaries(w)' /\ Awaited(w)'
  BY <1>2 DEF Ordered, Bounded, Fresh, Boundaries, Awaited
<1> QED BY <1>5, <1>6, <1>7 DEF Session

\* A frame is cut.
LEMMA CutOrdered ==
  ASSUME TypeOK, NEW w \in Workers, Session(w), SendCut(w)
  PROVE  Session(w)'
<1>1. /\ scen.stream /\ ~Uncut(w)' /\ pc'[w] = "sendErr"
      /\ UNCHANGED <<scen, link, resps, hpc, held, torn, seq, next>>
  BY DEF SendCut, GoTo, TypeOK, Uncut
<1>2. PICK frames \in IF cut[w] = {} THEN {<< >>} ELSE Misread(w) :
        reqs' = Deliver(reqs, w, frames)
  BY DEF SendCut
<1>3. CASE Uncut(w)
  <2>1. reqs'[w] = reqs[w]
    <3>1. frames = << >> /\ reqs[w] \in Seq(Raw)
      BY <1>2, <1>3, SessionTypes DEF Uncut
    <3>2. reqs[w] \o << >> = reqs[w]
      BY <3>1
    <3> QED BY <1>2, <3>1, <3>2 DEF Deliver, TypeOK, AmfTypeOK
  <2>2. Carried(w)' = Carried(w)
    BY <1>1, <2>1 DEF Carried, HeldIds
  <2> QED
    BY <1>1, <2>1, <2>2
    DEF Session, Ordered, Bounded, Fresh, Kinds, Boundaries, NoFrames, Awaited
<1>4. CASE ~Uncut(w)
  <2>1. frames \in Arrivals(w) \cup Misread(w)
    BY <1>2, <1>4 DEF Uncut
  <2> QED BY <1>1, <1>2, <1>4, <2>1, MisreadKeeps
<1> QED BY <1>3, <1>4

\* A request goes behind all that is on the way.
LEMMA SendOrdered ==
  ASSUME TypeOK, NEW w \in Workers, Session(w), SendOk(w), Uncut(w)
  PROVE  Session(w)'
<1>1. /\ pc[w] = "send" /\ pc'[w] = "addtx"
      /\ next' = next /\ seq' = seq
      /\ UNCHANGED <<scen, link, resps, hpc, held, torn>>
      /\ HeldIds(w)' = HeldIds(w) /\ Uncut(w)'
  BY DEF SendOk, GoTo, TypeOK, HeldIds, Uncut
<1>2. /\ reqs[w] \in Seq(Raw) /\ resps[w] \in Seq(Raw)
      /\ next[w] \in Nat /\ seq \in Nat
      /\ scen.fits \in BOOLEAN /\ scen.stream \in BOOLEAN
  BY SessionTypes
<1>3. \A id \in Carried(w) : id < next[w]
  BY <1>1 DEF Session, Fresh
<1>4. Fresh(w)' /\ Boundaries(w)'
  BY <1>1 DEF Session, Fresh, Boundaries
<1>5. CASE reqs'[w] = reqs[w] /\ (link[w] = "up" => ~scen.fits)
  <2>1. Carried(w)' = Carried(w)
    BY <1>1, <1>5 DEF Carried
  <2>2. Ordered(w)' /\ Bounded(w)' /\ Kinds(w)'
    BY <1>1, <1>5 DEF Session, Ordered, Bounded, Kinds
  <2>3. NoFrames(w)' /\ Awaited(w)'
    BY <1>1, <1>5, <2>1 DEF Session, NoFrames, Awaited, Boundaries
  <2> QED BY <1>4, <2>2, <2>3 DEF Session
<1>6. ASSUME NEW f \in Raw, reqs'[w] = reqs[w] \o <<f>>,
             f.seqID <= next[w],
             Decodes(f) => /\ scen.fits
                           /\ f.seqID = next[w]
                           /\ f.msgType = RequestType,
             ~Decodes(f) => ~scen.fits
      PROVE  Session(w)'
  <2> DEFINE new == IF Decodes(f) THEN {f.seqID} ELSE {}
  <2>1. /\ <<f>> \in Seq(Raw) /\ Ids(<<f>>) = new
        /\ Numbers(<<f>>) = {f.seqID} /\ InOrder(<<f>>)
    BY <1>6, OneFrame
  <2>2. Before(Carried(w), new)
    BY <1>3, <1>6 DEF Before
  <2> HIDE DEF new
  <2>3. Before(Ids(reqs[w]), Ids(<<f>>))
    BY <2>1, <2>2 DEF Before, Carried
  <2>4. /\ reqs'[w] \in Seq(Raw) /\ Len(reqs'[w]) = Len(reqs[w]) + 1
        /\ Ids(reqs'[w]) = Ids(reqs[w]) \cup new
        /\ Numbers(reqs'[w]) = Numbers(reqs[w]) \cup {f.seqID}
        /\ InOrder(reqs'[w])
    <3> DEFINE t == <<f>>
    <3>1. Len(t) = 1
      OBVIOUS
    <3> HIDE DEF t
    <3>2. /\ t \in Seq(Raw) /\ Ids(t) = new /\ Numbers(t) = {f.seqID}
          /\ InOrder(t) /\ Before(Ids(reqs[w]), Ids(t))
          /\ reqs'[w] = reqs[w] \o t /\ InOrder(reqs[w])
      BY <1>6, <2>1, <2>3 DEF t, Session, Ordered
    <3>3. /\ reqs[w] \o t \in Seq(Raw)
          /\ Len(reqs[w] \o t) = Len(reqs[w]) + Len(t)
          /\ Ids(reqs[w] \o t) = Ids(reqs[w]) \cup Ids(t)
          /\ Numbers(reqs[w] \o t) = Numbers(reqs[w]) \cup Numbers(t)
          /\ InOrder(reqs[w] \o t)
      BY <1>2, <3>2, Together, Zenon
    <3> QED BY <3>1, <3>2, <3>3
  <2>5. Carried(w)' = Carried(w) \cup new
    BY <1>1, <2>4 DEF Carried
  <2>6. Ordered(w)'
    BY <1>1, <2>2, <2>4 DEF Session, Ordered, Before, Carried
  <2>7. Bounded(w)'
    BY <1>1, <1>6, <2>4 DEF Session, Bounded
  <2>8. Kinds(w)'
    <3>1. \A i \in 1 .. Len(reqs'[w]) :
            Decodes(reqs'[w][i]) => reqs'[w][i].msgType = RequestType
      <4>1. /\ \A i \in 1 .. Len(reqs[w]) : (reqs[w] \o <<f>>)[i] = reqs[w][i]
            /\ (reqs[w] \o <<f>>)[Len(reqs[w]) + 1] = f
        <5>1. /\ reqs[w] \in Seq(Raw) /\ <<f>> \in Seq(Raw)
              /\ Len(<<f>>) = 1 /\ <<f>>[1] = f
          BY <1>2, <2>1
        <5> QED BY <5>1
      <4>2. /\ \A i \in 1 .. Len(reqs[w]) : reqs'[w][i] = reqs[w][i]
            /\ reqs'[w][Len(reqs[w]) + 1] = f
        BY <1>6, <4>1
      <4>3. \A i \in 1 .. Len(reqs'[w]) :
              i \in 1 .. Len(reqs[w]) \/ i = Len(reqs[w]) + 1
        BY <1>2, <2>4
      <4> QED BY <1>6, <4>2, <4>3 DEF Session, Kinds
    <3> QED BY <1>1, <3>1 DEF Session, Kinds
  <2>9. NoFrames(w)' /\ Awaited(w)'
    BY <1>1, <1>6, <2>5 DEF Session, NoFrames, Awaited, Boundaries, new
  <2> QED BY <1>4, <2>6, <2>7, <2>8, <2>9 DEF Session
<1>7. ASSUME reqs'[w] = reqs[w] \o <<Garbage>>, ~scen.fits
      PROVE  Session(w)'
  <2>1. Garbage \in Raw /\ Garbage.seqID = 0 /\ ~Decodes(Garbage)
    BY DEF Garbage, Raw, Decodes, MsgTypes
  <2> QED BY <1>2, <1>6, <1>7, <2>1
<1>8. ASSUME reqs'[w] = reqs[w] \o <<Frame(RequestType, next[w])>>, scen.fits
      PROVE  Session(w)'
  <2> DEFINE f == Frame(RequestType, next[w])
  <2>1. /\ f \in Raw /\ f.seqID = next[w] /\ f.msgType = RequestType
        /\ Decodes(f)
    BY <1>2 DEF Frame, Raw, MsgTypes, RequestType, Decodes
  <2> HIDE DEF f
  <2> QED BY <1>2, <1>6, <1>8, <2>1 DEF f
<1> QED BY <1>5, <1>7, <1>8, SendAdds

\* Receiving takes frames off the front; a response that is accepted was the
\* newest on the way.
LEMMA RecvOrdered ==
  ASSUME TypeOK, NEW w \in Workers, Session(w), RecvFrame(w)
  PROVE  Session(w)'
<1> DEFINE f == Head(resps[w])
           rest == Tail(resps[w])
<1>1. /\ resps[w] \in Seq(Raw) /\ reqs[w] \in Seq(Raw) /\ resps[w] # << >>
      /\ next[w] \in Nat /\ seq \in Nat /\ Carried(w) \subseteq Nat
  BY SessionTypes DEF RecvFrame
<1>2. /\ resps'[w] = rest /\ pc[w] = "recv" /\ pc'[w] = Classify(f, next[w])
      /\ UNCHANGED <<scen, link, reqs, hpc, held, next, seq, torn>>
      /\ HeldIds(w)' = HeldIds(w) /\ Uncut(w)' = Uncut(w)
  BY DEF RecvFrame, GoTo, TypeOK, AmfTypeOK, HeldIds, Uncut
<1>3. /\ rest \in Seq(Raw)
      /\ Ids(rest) \subseteq Ids(resps[w])
      /\ Numbers(rest) \subseteq Numbers(resps[w])
      /\ InOrder(resps[w]) => InOrder(rest)
      /\ Decodes(f) => f.seqID \in Ids(resps[w])
      /\ InOrder(resps[w]) /\ Decodes(f) => \A id \in Ids(rest) : f.seqID < id
  BY <1>1, TailFrames
<1>4. Uncut(w) => \A id \in Carried(w) : id <= next[w]
  BY <1>1, IdsType DEF Carried, Session, Bounded
<1> HIDE DEF f, rest
<1>5. /\ pc'[w] \in {"decode", "mismatch", "addrx"}
      /\ pc'[w] = "addrx" => Decodes(f) /\ f.seqID = next[w]
  BY <1>2 DEF Classify
<1>6. Carried(w)' \subseteq Carried(w)
  BY <1>2, <1>3 DEF Carried
<1>7. Uncut(w) /\ Decodes(f) => \A id \in Carried(w)' : f.seqID < id
  BY <1>2, <1>3 DEF Carried, Session, Ordered, Before
<1>8. Uncut(w) /\ pc'[w] = "addrx" => Carried(w)' = {}
  <2> SUFFICES ASSUME Uncut(w), pc'[w] = "addrx", NEW id \in Carried(w)'
               PROVE  FALSE
    OBVIOUS
  <2>1. next[w] < id /\ id <= next[w] /\ id \in Nat
    BY <1>1, <1>4, <1>5, <1>6, <1>7
  <2> QED BY <1>1, <2>1
<1>9. Ordered(w)'
  BY <1>2, <1>3 DEF Session, Ordered, Before
<1>10. Bounded(w)' /\ Boundaries(w)'
  BY <1>2, <1>3 DEF Session, Bounded, Boundaries
<1>11. Fresh(w)' /\ Awaited(w)'
  BY <1>2, <1>5, <1>8 DEF Fresh, Awaited
<1>12. NoFrames(w)'
  <2> SUFFICES ASSUME ~scen.fits
               PROVE  Carried(w)' = {} /\ pc'[w] # "addrx"
    BY <1>2, <1>5 DEF NoFrames
  <2>1. Carried(w) = {}
    BY DEF Session, NoFrames
  <2>2. ~Decodes(f)
    BY <1>3, <2>1 DEF Carried
  <2> QED BY <1>5, <1>6, <2>1, <2>2
<1>13. Kinds(w)'
  <2>1. Mode # "flood"
    BY <1>1 DEF Session, Kinds
  <2> QED BY <1>2, <2>1 DEF Session, Kinds
<1> QED BY <1>9, <1>10, <1>11, <1>12, <1>13 DEF Session

LEMMA RecvTornOrdered ==
  ASSUME TypeOK, NEW w \in Workers, Session(w), RecvTorn(w)
  PROVE  Session(w)'
<1>1. /\ resps[w] \in Seq(Raw) /\ reqs[w] \in Seq(Raw)
      /\ next[w] \in Nat /\ seq \in Nat
  BY SessionTypes
<1>2. PICK k \in 0 .. Len(resps[w]) :
        resps' = [resps EXCEPT ![w] = SubSeq(@, k + 1, Len(@))]
  BY DEF RecvTorn
<1> DEFINE rest == SubSeq(resps[w], k + 1, Len(resps[w]))
<1>3. resps'[w] = rest
  BY <1>2 DEF TypeOK, AmfTypeOK
<1>4. /\ rest \in Seq(Raw) /\ Len(rest) = Len(resps[w]) - k
      /\ \A i \in 1 .. Len(rest) : rest[i] = resps[w][k + i]
  BY <1>1, <1>2
<1> HIDE DEF rest
<1>5. /\ Ids(rest) \subseteq Ids(resps[w])
      /\ Numbers(rest) \subseteq Numbers(resps[w])
      /\ InOrder(resps[w]) => InOrder(rest)
  BY <1>1, <1>2, <1>4, Behind
<1>6. /\ torn[w] /\ pc'[w] \in {"decode", "timeout", "other"}
      /\ UNCHANGED <<scen, link, reqs, hpc, held, next, seq>>
      /\ HeldIds(w)' = HeldIds(w) /\ Uncut(w)' = Uncut(w)
  BY DEF RecvTorn, GoTo, TypeOK, HeldIds, Uncut
<1>7. Carried(w)' \subseteq Carried(w)
  BY <1>3, <1>5, <1>6 DEF Carried
<1>8. Ordered(w)'
  BY <1>3, <1>5, <1>6 DEF Session, Ordered, Before
<1>9. Bounded(w)'
  BY <1>3, <1>5, <1>6 DEF Session, Bounded
<1>10. Fresh(w)' /\ NoFrames(w)' /\ Awaited(w)'
  BY <1>6, <1>7 DEF Session, Fresh, NoFrames, Awaited
<1>11. Boundaries(w)'
  BY <1>6 DEF Session, Boundaries
<1>12. Kinds(w)'
  <2>1. Mode = "flood" => rest = << >>
    <3> SUFFICES ASSUME Mode = "flood"
                 PROVE  rest = << >>
      OBVIOUS
    <3>1. resps[w] = << >>
      BY DEF Session, Kinds
    <3>2. Len(rest) = 0
      BY <1>2, <1>4, <3>1
    <3> QED BY <1>4, <3>2
  <2> QED BY <1>3, <1>6, <2>1 DEF Session, Kinds
<1> QED BY <1>8, <1>9, <1>10, <1>11, <1>12 DEF Session

-------------------------------------------------------------------------------
(* Every step *)

\* The calls of a worker that draw no SeqID and move no frame.
LEMMA QuietWorker ==
  ASSUME TypeOK, NEW w \in Workers, Session(w),
         \/ Open(w) \/ OpenFails(w) \/ Exit(w) \/ SendFails(w) \/ AddTx(w)
         \/ RecvTimeout(w) \/ RecvFails(w) \/ AddRx(w) \/ AddLatency(w)
         \/ AddDrop(w)
  PROVE  Session(w)'
<1>1. /\ UNCHANGED <<scen, seq, next, resps, reqs, hpc, held>>
      /\ seq \in Nat /\ scen.stream \in BOOLEAN
  <2>1. UNCHANGED <<scen, seq, next, resps, reqs, hpc, held>>
    BY DEF Open, OpenFails, Exit, SendFails, AddTx, RecvTimeout, RecvFails,
           AddRx, AddLatency, AddDrop, amfVars
  <2> QED BY <2>1, SessionTypes
<1>2. cut'[w] = cut[w] /\ (~scen.stream => torn'[w] = torn[w])
  <2>1. CASE RecvTimeout(w)
    BY <2>1 DEF RecvTimeout, TypeOK
  <2>2. CASE UNCHANGED <<torn, cut>>
    BY <2>2
  <2> QED
    BY <2>1, <2>2
    DEF Open, OpenFails, Exit, SendFails, AddTx, RecvFails, AddRx, AddLatency,
        AddDrop
<1>3. /\ pc'[w] # "send"
      /\ pc'[w] \in {"addrx", "addlat"} => pc[w] \in {"addrx", "addlat"}
      /\ Mode = "latency" /\ link'[w] = "up" /\ pc'[w] \in {"addtx", "recv"} =>
           link[w] = "up" /\ pc[w] \in {"addtx", "recv"}
  <2> USE DEF GoTo, TypeOK
  <2>1. CASE AddTx(w)
    BY <2>1 DEF AddTx, AfterTx, amfVars
  <2>2. CASE AddRx(w)
    BY <2>2 DEF AddRx
  <2>3. CASE AddDrop(w)
    BY <2>3 DEF AddDrop, AfterDrop
  <2>4. CASE \/ Open(w) \/ OpenFails(w) \/ Exit(w) \/ SendFails(w)
             \/ RecvTimeout(w) \/ RecvFails(w) \/ AddLatency(w)
    BY <2>4 DEF Open, OpenFails, Exit, SendFails, RecvTimeout, RecvFails,
                AddLatency
  <2> QED BY <2>1, <2>2, <2>3, <2>4
<1> QED BY <1>1, <1>2, <1>3, Quiet

\* What a worker leaves alone.
LEMMA OtherWorkers ==
  ASSUME TypeOK, NEW w \in Workers, Worker(w), NEW v \in Workers, v # w
  PROVE  /\ pc'[v] = pc[v] /\ next'[v] = next[v]
         /\ link'[v] = link[v] /\ resps'[v] = resps[v] /\ reqs'[v] = reqs[v]
         /\ torn'[v] = torn[v] /\ cut'[v] = cut[v]
         /\ UNCHANGED <<scen, hpc, held>>
         /\ seq' \in Nat /\ seq <= seq'
<1> USE DEF TypeOK, AmfTypeOK, GoTo
<1>1. CASE Open(w) \/ OpenFails(w) \/ Exit(w)
  BY <1>1 DEF Open, OpenFails, Exit
<1>2. CASE Begin(w)
  BY <1>2 DEF Begin, amfVars
<1>3. CASE SendOk(w)
  BY <1>3 DEF SendOk, Deliver
<1>4. CASE SendFails(w) \/ AddTx(w)
  BY <1>4 DEF SendFails, AddTx, amfVars
<1>9. CASE SendCut(w)
  BY <1>9 DEF SendCut, Deliver
<1>5. CASE RecvFrame(w)
  BY <1>5 DEF RecvFrame
<1>6. CASE RecvTorn(w)
  BY <1>6 DEF RecvTorn
<1>7. CASE RecvTimeout(w) \/ RecvFails(w)
  BY <1>7 DEF RecvTimeout, RecvFails, amfVars
<1>8. CASE AddRx(w) \/ AddLatency(w) \/ AddDrop(w)
  BY <1>8 DEF AddRx, AddLatency, AddDrop, amfVars
<1> QED
  BY <1>1, <1>2, <1>3, <1>4, <1>5, <1>6, <1>7, <1>8, <1>9 DEF Worker

\* A step of a worker.
LEMMA WorkerOrdered ==
  ASSUME TypeOK, NEW w \in Workers, Worker(w), NEW v \in Workers, Session(v)
  PROVE  Session(v)'
<1>1. CASE v = w
  <2>1. CASE SendOk(w) /\ ~Uncut(w)
    <3>1. /\ UNCHANGED <<scen, link, resps, hpc, held, torn>>
          /\ pc'[w] = "addtx" /\ ~Uncut(w)'
      BY <2>1 DEF SendOk, GoTo, TypeOK, Uncut
    <3>2. PICK frames \in Arrivals(w) : reqs' = Deliver(reqs, w, frames)
      BY <2>1 DEF SendOk
    <3> QED BY <1>1, <2>1, <3>1, <3>2, MisreadKeeps
  <2> QED
    BY <1>1, <2>1, BeginOrdered, SendOrdered, CutOrdered, RecvOrdered,
       RecvTornOrdered, QuietWorker
    DEF Worker
<1>2. CASE v # w
  BY <1>2, OtherWorkers, Quiet
<1> QED BY <1>1, <1>2

\* The steps of the AMF and of the network that move no frame of session v.
LEMMA QuietAmf ==
  ASSUME TypeOK, NEW v \in Workers, Session(v),
         UNCHANGED <<scen, seq, pc, next, torn, cut, resps, held>>,
         reqs'[v] = reqs[v],
         hpc'[v] = hpc[v] \/ (hpc'[v] # "send" /\ hpc[v] # "send"),
         link'[v] = "up" => link[v] = "up"
  PROVE  Session(v)'
<1>1. seq \in Nat
  BY SessionTypes
<1>2. /\ pc'[v] = pc[v] /\ next'[v] = next[v] /\ torn'[v] = torn[v]
      /\ cut'[v] = cut[v] /\ resps'[v] = resps[v] /\ held'[v] = held[v]
      /\ scen' = scen /\ seq' = seq
  OBVIOUS
<1> QED BY <1>1, <1>2, Quiet

\* A step of the handler of a session.
LEMMA HandlerOrdered ==
  ASSUME TypeOK, NEW s \in Sessions, AmfHandler(s), NEW v \in Workers, Session(v)
  PROVE  Session(v)'
<1>1. Handler(s) /\ UNCHANGED runVars
  BY DEF AmfHandler
<1>2. UNCHANGED <<seq, pc, next, torn, cut>>
  BY <1>1 DEF runVars
<1>3. CASE AcceptChannel(s) \/ CheckDone(s) \/ HandleRecvError(s)
  <2>1. /\ UNCHANGED <<scen, reqs, resps, held>>
        /\ hpc'[v] = hpc[v] \/ (hpc'[v] # "send" /\ hpc[v] # "send")
        /\ link'[v] = "up" => link[v] = "up"
    BY <1>3 DEF AcceptChannel, CheckDone, HandleRecvError, Return, Severed,
                TypeOK, AmfTypeOK
  <2> QED BY <1>2, <2>1, QuietAmf
<1>4. CASE HandleFrame(s)
  <2>1. CASE v = s
    BY <1>1, <1>4, <2>1, HandleFrameKeeps
  <2>2. CASE v # s
    <3>1. /\ UNCHANGED <<scen, resps, link>>
          /\ reqs'[v] = reqs[v] /\ hpc'[v] = hpc[v] /\ held'[v] = held[v]
      BY <1>4, <2>2 DEF HandleFrame, TypeOK, AmfTypeOK
    <3> QED BY <1>2, <3>1, SessionTypes, Quiet
  <2> QED BY <2>1, <2>2
<1>5. CASE Respond(s)
  <2>1. CASE v = s
    BY <1>1, <1>5, <2>1, RespondKeeps
  <2>2. CASE v # s
    <3>1. /\ UNCHANGED <<scen, reqs, held, link>>
          /\ resps'[v] = resps[v] /\ hpc'[v] = hpc[v]
      BY <1>5, <2>2 DEF Respond, Deliver, TypeOK, AmfTypeOK
    <3> QED BY <1>2, <3>1, SessionTypes, Quiet
  <2> QED BY <2>1, <2>2
<1> QED BY <1>1, <1>3, <1>4, <1>5 DEF Handler

\* The steps of the other goroutines and of the network.
LEMMA ElsewhereOrdered ==
  ASSUME TypeOK, NEW v \in Workers, Session(v),
         \/ Main \/ ProcessEnds \/ Expire \/ AmfMain \/ Environment
         \/ \E s \in Sessions : Learn(s)
         \/ UNCHANGED vars
  PROVE  Session(v)'
<1>1. UNCHANGED <<scen, seq, pc, next, torn, cut, resps, held, reqs>>
  BY DEF Main, Tick, StopCollecting, Finish, ProcessEnds, Expire, AmfMain,
         StartHandler, StopAccepting, AmfReturn, Environment, AmfSignal, Lose,
         Learn, Notice, vars, runVars, amfVars
<1>2. hpc'[v] = hpc[v] \/ (hpc'[v] # "send" /\ hpc[v] # "send")
  <2>1. CASE \E s \in Sessions : StartHandler(s)
    BY <2>1 DEF StartHandler, TypeOK, AmfTypeOK
  <2>2. CASE UNCHANGED hpc
    BY <2>2
  <2> QED
    BY <2>1, <2>2
    DEF Main, Tick, StopCollecting, Finish, ProcessEnds, Expire, AmfMain,
        StopAccepting, AmfReturn, Environment, AmfSignal, Lose,
        Learn, Notice, vars, runVars, amfVars
<1>3. link'[v] = "up" => link[v] = "up"
  <2>1. CASE ProcessEnds \/ AmfReturn
    BY <2>1 DEF ProcessEnds, AmfReturn, Severed, TypeOK, AmfTypeOK
  <2>2. CASE \E s \in Sessions : Lose(s) \/ Notice(s)
    BY <2>2 DEF Lose, Notice, TypeOK, AmfTypeOK
  <2>3. CASE UNCHANGED link
    BY <2>3
  <2> QED
    BY <2>1, <2>2, <2>3
    DEF Main, Tick, StopCollecting, Finish, Expire, AmfMain, StartHandler,
        StopAccepting, Environment, AmfSignal, Learn, vars, runVars, amfVars
<1> QED BY <1>1, <1>2, <1>3, QuietAmf

\* Every step of the program.
LEMMA OrderStep == TypeOK /\ OrderInv /\ [Next]_vars => OrderInv'
<1> SUFFICES ASSUME TypeOK, OrderInv, [Next]_vars, NEW v \in Workers
             PROVE  Session(v)'
  BY DEF OrderInv
<1>1. Session(v)
  BY DEF OrderInv
<1>2. CASE \E w \in Workers : Worker(w)
  BY <1>1, <1>2, WorkerOrdered
<1>3. CASE \E s \in Sessions : AmfHandler(s)
  BY <1>1, <1>3, HandlerOrdered
<1>4. CASE \/ Main \/ ProcessEnds \/ Expire \/ AmfMain \/ Environment
           \/ \E s \in Sessions : Learn(s)
           \/ UNCHANGED vars
  BY <1>1, <1>4, ElsewhereOrdered
<1> QED BY <1>2, <1>3, <1>4 DEF Next, Terminated

\* The invariant, of every run.
LEMMA OrderInvariant == Spec => [](TypeOK /\ OrderInv)
<1>1. Init => TypeOK /\ OrderInv
  BY TypeInit, OrderInit
<1>2. TypeOK /\ OrderInv /\ [Next]_vars => TypeOK' /\ OrderInv'
  BY TypeStep, OrderStep
<1> QED BY <1>1, <1>2, PTL DEF Spec

-------------------------------------------------------------------------------
(* What follows *)

\* The invariant speaks of the responses, the request being answered and the
\* requests one by one; here they are the one sequence Outstanding.
LEMMA OnTheWay ==
  ASSUME TypeOK, NEW w \in Workers, Session(w)
  PROVE  /\ Outstanding(w) \in Seq(Raw)
         /\ Ids(Outstanding(w)) = Carried(w)
         /\ Uncut(w) => /\ InOrder(Outstanding(w))
                        /\ \A n \in Numbers(Outstanding(w)) : n <= next[w]
<1> DEFINE h == IF hpc[w] = "send" THEN <<held[w]>> ELSE << >>
           p == h \o reqs[w]
<1>1. resps[w] \in Seq(Raw) /\ reqs[w] \in Seq(Raw) /\ held[w] \in Raw
  BY SessionTypes
<1>2. /\ h \in Seq(Raw) /\ Ids(h) = HeldIds(w) /\ Numbers(h) = HeldIds(w)
      /\ InOrder(h)
  <2>1. CASE hpc[w] = "send"
    <3>1. Decodes(held[w])
      BY <2>1 DEF Session, Kinds, Answers
    <3> QED BY <1>1, <2>1, <3>1, OneFrame DEF HeldIds
  <2>2. CASE hpc[w] # "send"
    BY <2>2, NoFrame DEF HeldIds
  <2> QED BY <2>1, <2>2
<1>3. Outstanding(w) = resps[w] \o p
  BY DEF Outstanding, Pending
<1> HIDE DEF h
<1>4. /\ p \in Seq(Raw)
      /\ Ids(p) = HeldIds(w) \cup Ids(reqs[w])
      /\ Numbers(p) = HeldIds(w) \cup Numbers(reqs[w])
      /\ Uncut(w) => InOrder(p)
  <2>1. Uncut(w) => InOrder(reqs[w]) /\ Before(Ids(h), Ids(reqs[w]))
    BY <1>2 DEF Session, Ordered
  <2>2. /\ h \o reqs[w] \in Seq(Raw)
        /\ Ids(h \o reqs[w]) = Ids(h) \cup Ids(reqs[w])
        /\ Numbers(h \o reqs[w]) = Numbers(h) \cup Numbers(reqs[w])
        /\ Uncut(w) => InOrder(h \o reqs[w])
    BY <1>1, <1>2, <2>1, Together, Zenon
  <2> QED BY <1>2, <2>2
<1> HIDE DEF p
<1>5. /\ Outstanding(w) \in Seq(Raw)
      /\ Ids(Outstanding(w)) = Ids(resps[w]) \cup Ids(p)
      /\ Numbers(Outstanding(w)) = Numbers(resps[w]) \cup Numbers(p)
      /\ Uncut(w) => InOrder(Outstanding(w))
  <2>1. Uncut(w) => InOrder(resps[w]) /\ Before(Ids(resps[w]), Ids(p))
    BY <1>4 DEF Session, Ordered
  <2>2. /\ resps[w] \o p \in Seq(Raw)
        /\ Ids(resps[w] \o p) = Ids(resps[w]) \cup Ids(p)
        /\ Numbers(resps[w] \o p) = Numbers(resps[w]) \cup Numbers(p)
        /\ Uncut(w) => InOrder(resps[w] \o p)
    BY <1>1, <1>4, <2>1, Together, Zenon
  <2> QED BY <1>3, <2>2
<1>6. Ids(Outstanding(w)) = Carried(w)
  BY <1>4, <1>5 DEF Carried
<1>7. Uncut(w) => \A n \in Numbers(Outstanding(w)) : n <= next[w]
  BY <1>4, <1>5 DEF Session, Bounded
<1> QED BY <1>5, <1>6, <1>7

(***************************************************************************)
(* Whatever is lost, late or torn on other sessions, while a worker has    *)
(* cut no frame the responses it has not read, the request being answered  *)
(* and the requests not read are in the order of their SeqIDs, and none is *)
(* newer than its latest attempt (amf.go:66-78).                           *)
(***************************************************************************)
THEOREM OrderIsKept == Spec => []ResponsesInOrder
<1>1. TypeOK /\ OrderInv => ResponsesInOrder
  <2> SUFFICES ASSUME TypeOK, OrderInv, NEW w \in Workers, cut[w] = {}
               PROVE  /\ InOrder(Outstanding(w))
                      /\ \A i \in 1 .. Len(Outstanding(w)) :
                           Outstanding(w)[i].seqID <= next[w]
    BY DEF ResponsesInOrder
  <2>1. /\ InOrder(Outstanding(w))
        /\ \A n \in Numbers(Outstanding(w)) : n <= next[w]
    BY OnTheWay DEF OrderInv, Uncut
  <2> QED BY <2>1 DEF Numbers
<1> QED BY <1>1, OrderInvariant, PTL

(***************************************************************************)
(* In flood mode the AMF never answers, not even a message joined of cut   *)
(* frames, and while a worker has cut none what the AMF reads of it is in  *)
(* the order of the SeqIDs (amf.go:79-80).                                 *)
(***************************************************************************)
THEOREM FloodIsOneWay == Spec => []FloodOneWay
<1>1. OrderInv => FloodOneWay
  BY DEF OrderInv, Session, Kinds, Ordered, Uncut, FloodOneWay
<1> QED BY <1>1, OrderInvariant, PTL

\* A worker that sent no frame that decodes never accounts for a response.
Unmeasured == ~scen.fits => measured = {}

LEMMA UnmeasuredStep ==
  ASSUME OrderInv, Unmeasured, [Next]_vars
  PROVE  Unmeasured'
<1>1. CASE \E w \in Workers : AddLatency(w)
  <2>1. scen.fits /\ scen' = scen
    BY <1>1 DEF OrderInv, Session, NoFrames, AddLatency, amfVars
  <2> QED BY <2>1 DEF Unmeasured
<1>2. CASE UNCHANGED <<scen, measured>>
  BY <1>2 DEF Unmeasured
<1>3. (\E w \in Workers : AddLatency(w)) \/ UNCHANGED <<scen, measured>>
  <2>1. ASSUME NEW w \in Workers, Worker(w), ~AddLatency(w)
        PROVE  UNCHANGED <<scen, measured>>
    BY <2>1
    DEF Worker, Open, OpenFails, Begin, Exit, SendOk, SendFails, SendCut, AddTx,
        RecvFrame, RecvTimeout, RecvFails, RecvTorn, AddRx, AddDrop, amfVars
  <2>2. ASSUME NEW s \in Sessions, AmfHandler(s) \/ Learn(s)
        PROVE  UNCHANGED <<scen, measured>>
    BY <2>2
    DEF AmfHandler, Handler, AcceptChannel, CheckDone, HandleFrame,
        HandleRecvError, Respond, Learn, Notice, runVars
  <2>3. CASE \/ Main \/ ProcessEnds \/ Expire \/ AmfMain \/ Environment
             \/ UNCHANGED vars
    BY <2>3
    DEF Main, Tick, StopCollecting, Finish, ProcessEnds, Expire, AmfMain,
        StartHandler, StopAccepting, AmfReturn, Environment, AmfSignal, Lose,
        vars, runVars, amfVars
  <2> QED BY <2>1, <2>2, <2>3 DEF Next, Terminated
<1> QED BY <1>1, <1>2, <1>3

(***************************************************************************)
(* A run whose payload Encode refuses measures nothing, whatever the       *)
(* partly written or empty messages look like to the AMF, and at the end   *)
(* of a latency run all its attempts are drops (load.go:74).               *)
(***************************************************************************)
THEOREM OversizeIsDropped == Spec => []OversizeDropped
<1>1. Init => Unmeasured
  BY DEF Init, Unmeasured
<1>2. OrderInv /\ Unmeasured /\ [Next]_vars => Unmeasured'
  BY UnmeasuredStep
<1>3. LedgerInv /\ Unmeasured => OversizeDropped
  <2> SUFFICES ASSUME LedgerInv, ~scen.fits, measured = {}, Mode = "latency",
                      mpc = "returned"
               PROVE  dropped = 1 .. seq
    BY DEF Unmeasured, OversizeDropped
  <2>1. \A w \in Workers : pc[w] \notin Busy
    BY DEF LedgerInv, Final, WorkersDone, Busy, Sending, Waiting
  <2>2. \A id \in 1 .. seq : id \in dropped
    BY <2>1 DEF LedgerInv, Complete, Resolved
  <2>3. dropped \subseteq 1 .. seq
    BY DEF LedgerInv, Attempts, Resolved
  <2> QED BY <2>2, <2>3
<1> QED BY <1>1, <1>2, <1>3, OrderInvariant, LedgerInvariant, PTL DEF Spec

-------------------------------------------------------------------------------
(* A worker that has fallen behind *)

\* Late, in terms of what is on the way.
Delayed(w) ==
  \E id \in Carried(w) : id < next[w] \/ pc[w] \notin {"addtx", "recv"}

LateIsDelayed == \A w \in Workers : Late(w) <=> Delayed(w)

LEMMA LateMeansDelayed == TypeOK /\ OrderInv => LateIsDelayed
<1> SUFFICES ASSUME TypeOK, OrderInv, NEW w \in Workers
             PROVE  Late(w) <=> Delayed(w)
  BY DEF LateIsDelayed
<1>1. Ids(Outstanding(w)) = Carried(w)
  BY OnTheWay DEF OrderInv
<1> QED BY <1>1 DEF Late, Delayed, Ids

\* What a step that takes no frame from a late worker has to leave in place.
Behaves(w) ==
  /\ link'[w] = "up" => Carried(w) \subseteq Carried(w)'
  /\ \/ pc'[w] \notin {"addtx", "recv"}
     \/ pc[w] \in {"send", "addtx", "recv"} /\ next'[w] = next[w]
  /\ pc'[w] = "addrx" => pc[w] = "addrx"

LEMMA BehavesStaysLate ==
  ASSUME NEW w \in Workers, Session(w), Delayed(w), ~scen.stream, Behaves(w)
  PROVE  (link'[w] = "up" => Delayed(w)') /\ pc'[w] # "addrx"
<1> USE DEF Boundaries
<1>1. PICK id \in Carried(w) : id < next[w] \/ pc[w] \notin {"addtx", "recv"}
  BY DEF Delayed
<1>2. pc'[w] # "addrx"
  BY <1>1 DEF Behaves, Session, Fresh
<1>3. ASSUME link'[w] = "up"
      PROVE  Delayed(w)'
  <2>1. id \in Carried(w)'
    BY <1>3 DEF Behaves
  <2>2. id < next'[w] \/ pc'[w] \notin {"addtx", "recv"}
    BY <1>1 DEF Behaves, Session, Fresh
  <2> QED BY <2>1, <2>2 DEF Delayed
<1> QED BY <1>2, <1>3

\* The frame that a late worker receives is older than the one it waits for,
\* which stays on the way.
LEMMA ReceivesTheOld ==
  ASSUME TypeOK, NEW w \in Workers, Session(w), Delayed(w), ~scen.stream,
         Mode = "latency", RecvFrame(w)
  PROVE  (link'[w] = "up" => Delayed(w)') /\ pc'[w] # "addrx"
<1> DEFINE f == Head(resps[w])
           rest == Tail(resps[w])
<1>1. PICK id \in Carried(w) : id < next[w]
  BY DEF Delayed, RecvFrame
<1>2. /\ resps'[w] = rest /\ pc[w] = "recv" /\ pc'[w] = Classify(f, next[w])
      /\ UNCHANGED <<scen, link, reqs, next>>
      /\ HeldIds(w)' = HeldIds(w)
  BY DEF RecvFrame, GoTo, TypeOK, AmfTypeOK, HeldIds
<1>3. /\ Ids(resps[w]) \subseteq
           Ids(rest) \cup (IF Decodes(f) THEN {f.seqID} ELSE {})
      /\ Decodes(f) => f.seqID \in Ids(resps[w])
      /\ InOrder(resps[w]) /\ Decodes(f) => \A n \in Ids(rest) : f.seqID < n
  BY SessionTypes, TailFrames DEF RecvFrame
<1> HIDE DEF f, rest
<1>4. pc'[w] \in {"decode", "mismatch", "addrx"}
  BY <1>2 DEF Classify
<1>5. Decodes(f) => f.seqID # next[w]
  <2> SUFFICES ASSUME Decodes(f), f.seqID = next[w]
               PROVE  FALSE
    OBVIOUS
  <2>1. f.seqID \in Ids(resps[w])
    BY <1>3
  <2>2. \A n \in Carried(w) : n = f.seqID \/ f.seqID < n
    BY <1>3, <2>1 DEF Carried, Session, Ordered, Boundaries, Before
  <2>3. id \in Nat /\ next[w] \in Nat /\ ~(id < next[w])
    BY <2>2, SessionTypes
  <2> QED BY <1>1, <2>3
<1>6. pc'[w] # "addrx"
  BY <1>2, <1>5 DEF Classify
<1>7. ASSUME link'[w] = "up"
      PROVE  Delayed(w)'
  <2>1. next[w] \in Carried(w)
    BY <1>1, <1>2, <1>7 DEF Session, Awaited, NoFrames
  <2>2. next[w] \in Carried(w)'
    BY <1>2, <1>3, <1>5, <2>1 DEF Carried
  <2> QED BY <1>4, <2>2 DEF Delayed
<1> QED BY <1>6, <1>7

\* The other steps of a worker.
LEMMA WorkerBehaves ==
  ASSUME TypeOK, NEW w \in Workers, Session(w), ~scen.stream, Worker(w),
         ~RecvFrame(w)
  PROVE  Behaves(w)
<1> USE DEF Behaves
<1>1. Uncut(w) /\ ~RecvTorn(w) /\ ~SendCut(w)
  BY DEF Session, Boundaries, RecvTorn, SendCut
<1>2. /\ pc'[w] = "addrx" => pc[w] = "addrx"
      /\ \/ pc'[w] \notin {"addtx", "recv"}
         \/ pc[w] \in {"send", "addtx", "recv"} /\ next'[w] = next[w]
  <2> USE DEF GoTo, TypeOK
  <2>1. CASE Open(w) \/ OpenFails(w) \/ Begin(w) \/ Exit(w) \/ SendFails(w)
    BY <2>1 DEF Open, OpenFails, Begin, Exit, SendFails
  <2>2. CASE SendOk(w) \/ AddTx(w)
    BY <2>2 DEF SendOk, AddTx, AfterTx
  <2>3. CASE RecvTimeout(w) \/ RecvFails(w) \/ AddRx(w) \/ AddLatency(w)
    BY <2>3 DEF RecvTimeout, RecvFails, AddRx, AddLatency
  <2>4. CASE AddDrop(w)
    BY <2>4 DEF AddDrop, AfterDrop
  <2> QED BY <1>1, <2>1, <2>2, <2>3, <2>4 DEF Worker
<1>3. CASE SendOk(w)
  <2>1. Ids(reqs[w]) \subseteq Ids(reqs'[w])
    <3>1. /\ reqs[w] \in Seq(Raw) /\ <<Garbage>> \in Seq(Raw)
          /\ <<Frame(RequestType, next[w])>> \in Seq(Raw)
      <4>1. Garbage \in Raw /\ Frame(RequestType, next[w]) \in Raw
        BY RawTypes, SessionTypes DEF RequestType, MsgTypes
      <4> QED BY <4>1, SessionTypes
    <3>2. /\ Ids(reqs[w] \o <<Garbage>>) = Ids(reqs[w]) \cup Ids(<<Garbage>>)
          /\ Ids(reqs[w] \o <<Frame(RequestType, next[w])>>)
               = Ids(reqs[w]) \cup Ids(<<Frame(RequestType, next[w])>>)
      BY <3>1, Together, Zenon
    <3> QED BY <1>1, <1>3, <3>2, SendAdds
  <2>2. UNCHANGED <<resps, hpc, held>>
    BY <1>3 DEF SendOk
  <2> QED BY <1>2, <2>1, <2>2 DEF Carried, HeldIds
<1>4. CASE ~SendOk(w)
  <2>1. UNCHANGED <<reqs, resps, hpc, held>>
    BY <1>1, <1>4
    DEF Worker, Open, OpenFails, Begin, Exit, SendFails, AddTx, RecvTimeout,
        RecvFails, AddRx, AddLatency, AddDrop, amfVars
  <2> QED BY <1>2, <2>1 DEF Carried, HeldIds
<1> QED BY <1>3, <1>4

\* The steps of everyone else.
LEMMA OthersBehave ==
  ASSUME TypeOK, NEW w \in Workers, Session(w), Mode = "latency",
         [Next]_vars, ~Worker(w)
  PROVE  Behaves(w)
<1>1. ASSUME pc'[w] = pc[w], next'[w] = next[w],
             link'[w] = "up" => Carried(w) \subseteq Carried(w)'
      PROVE  Behaves(w)
  BY <1>1 DEF Behaves
<1>2. ASSUME NEW v \in Workers, Worker(v)
      PROVE  Behaves(w)
  <2>1. /\ pc'[w] = pc[w] /\ next'[w] = next[w] /\ resps'[w] = resps[w]
        /\ reqs'[w] = reqs[w] /\ UNCHANGED <<hpc, held>>
    BY <1>2, OtherWorkers
  <2>2. Carried(w)' = Carried(w)
    BY <2>1 DEF Carried, HeldIds
  <2> QED BY <1>1, <2>1, <2>2
<1>3. ASSUME NEW s \in Sessions, AmfHandler(s)
      PROVE  Behaves(w)
  <2>1. Handler(s) /\ UNCHANGED runVars /\ pc'[w] = pc[w] /\ next'[w] = next[w]
    BY <1>3 DEF AmfHandler, runVars
  <2>2. CASE s = w /\ (HandleFrame(s) \/ Respond(s))
    <3>1. Kept(w)
      BY <2>1, <2>2, HandleFrameKeeps, RespondKeeps
    <3> QED BY <1>1, <2>1, <3>1 DEF Kept
  <2>3. CASE ~(s = w /\ (HandleFrame(s) \/ Respond(s)))
    <3>1. /\ reqs'[w] = reqs[w] /\ resps'[w] = resps[w]
          /\ HeldIds(w)' = HeldIds(w)
      BY <2>1, <2>3
      DEF Handler, AcceptChannel, CheckDone, HandleFrame, HandleRecvError,
          Respond, Return, Deliver, HeldIds, TypeOK, AmfTypeOK
    <3>2. Carried(w)' = Carried(w)
      BY <3>1 DEF Carried
    <3> QED BY <1>1, <2>1, <3>2
  <2> QED BY <2>2, <2>3
<1>4. CASE \/ Main \/ ProcessEnds \/ Expire \/ AmfMain \/ Environment
           \/ \E s \in Sessions : Learn(s)
           \/ UNCHANGED vars
  <2>1. UNCHANGED <<pc, next, reqs, resps, held>>
    BY <1>4
    DEF Main, Tick, StopCollecting, Finish, ProcessEnds, Expire, AmfMain,
        StartHandler, StopAccepting, AmfReturn, Environment, AmfSignal, Lose,
        Learn, Notice, vars, runVars, amfVars
  <2>2. HeldIds(w)' = HeldIds(w)
    <3>1. CASE \E s \in Sessions : StartHandler(s)
      BY <2>1, <3>1 DEF StartHandler, HeldIds, TypeOK, AmfTypeOK
    <3>2. CASE UNCHANGED hpc
      BY <2>1, <3>2 DEF HeldIds
    <3> QED
      BY <1>4, <3>1, <3>2
      DEF Main, Tick, StopCollecting, Finish, ProcessEnds, Expire, AmfMain,
          StopAccepting, AmfReturn, Environment, AmfSignal, Lose,
          Learn, Notice, vars, runVars, amfVars
  <2>3. Carried(w)' = Carried(w)
    BY <2>1, <2>2 DEF Carried
  <2> QED BY <1>1, <2>1, <2>3
<1> QED BY <1>2, <1>3, <1>4 DEF Next, Terminated

(***************************************************************************)
(* On a message backend a worker of a latency run that has fallen behind   *)
(* its responses stays behind while its association lives, whatever the    *)
(* AMF and the other workers do, and measures nothing (load.go:82-100).    *)
(***************************************************************************)
THEOREM LateForGood ==
  ASSUME Mode = "latency"
  PROVE  Spec => LateStaysLate
<1> DEFINE Good == TypeOK /\ OrderInv
           Stays(w) == Late(w) /\ ~scen.stream =>
                         (Late(w)' \/ link'[w] # "up") /\ pc'[w] # "addrx"
<1>1. Good => LateIsDelayed
  BY LateMeansDelayed
<1>2. Good /\ LateIsDelayed /\ LateIsDelayed' /\ [Next]_vars =>
        \A w \in Workers : Stays(w)
  <2> SUFFICES ASSUME Good, LateIsDelayed, LateIsDelayed', [Next]_vars,
                      NEW w \in Workers, Late(w), ~scen.stream
               PROVE  (Late(w)' \/ link'[w] # "up") /\ pc'[w] # "addrx"
    OBVIOUS
  <2>1. Session(w) /\ Delayed(w) /\ (Late(w)' <=> Delayed(w)')
    BY DEF OrderInv, LateIsDelayed
  <2>2. (link'[w] = "up" => Delayed(w)') /\ pc'[w] # "addrx"
    <3>1. CASE RecvFrame(w)
      BY <2>1, <3>1, ReceivesTheOld
    <3>2. CASE ~RecvFrame(w)
      <4>1. Behaves(w)
        BY <2>1, <3>2, WorkerBehaves, OthersBehave
      <4> QED BY <2>1, <4>1, BehavesStaysLate
    <3> QED BY <3>1, <3>2
  <2> QED BY <2>1, <2>2
<1> HIDE DEF Good
<1>3. Spec => []Good
  BY OrderInvariant DEF Good
<1>4. Spec => [][\A w \in Workers : Stays(w)]_vars
  BY <1>1, <1>2, <1>3, PTL DEF Spec
<1> QED BY <1>4 DEF LateStaysLate

-------------------------------------------------------------------------------
(* The promise of the AMF *)

Live == {s \in Sessions : hpc[s] \notin {"none", "closed"}}

Past == {s \in Sessions : hpc[s] = "closed"}

\* A step that changes no session's standing changes nothing of the promise.
LEMMA SameStanding ==
  ASSUME UNCHANGED <<amfRun, amfDone>>,
         \A s \in Sessions : /\ hpc'[s] = "none" <=> hpc[s] = "none"
                             /\ hpc'[s] = "closed" <=> hpc[s] = "closed"
  PROVE  UNCHANGED <<amfRun, amfDone, Live, Past>>
BY DEF Live, Past

\* The handler of a session that returns ends it.
LEMMA ReturnEnds ==
  ASSUME TypeOK, NEW s \in Sessions, hpc[s] \notin {"none", "closed"},
         Return(s), UNCHANGED <<amfRun, amfDone>>
  PROVE  Lifecycle!End(s)
<1>1. hpc' = [hpc EXCEPT ![s] = "closed"] /\ hpc \in [Sessions -> HandlerPCs]
  BY DEF Return, TypeOK, AmfTypeOK
<1>2. s \in Live /\ Live' = Live \ {s} /\ Past' = Past \cup {s}
  BY <1>1 DEF Live, Past
<1> QED BY <1>2 DEF Lifecycle!End, Live, Past

\* A step of a handler serves the session, or ends it.
LEMMA HandlerImplements ==
  ASSUME TypeOK, NEW s \in Sessions, AmfHandler(s)
  PROVE  Lifecycle!End(s) \/ UNCHANGED <<amfRun, amfDone, Live, Past>>
<1>1. Handler(s) /\ UNCHANGED <<amfRun, amfDone>>
  BY DEF AmfHandler, Handler, AcceptChannel, CheckDone, HandleFrame,
         HandleRecvError, Respond
<1>2. CASE hpc[s] \notin {"none", "closed"} /\ Return(s)
  BY <1>1, <1>2, ReturnEnds
<1>3. CASE /\ hpc[s] \in {"accept", "top", "recv", "send"}
           /\ \E label \in {"top", "recv", "send"} :
                hpc' = [hpc EXCEPT ![s] = label]
  <2>1. \A t \in Sessions : /\ hpc'[t] = "none" <=> hpc[t] = "none"
                            /\ hpc'[t] = "closed" <=> hpc[t] = "closed"
    BY <1>3 DEF TypeOK, AmfTypeOK
  <2> QED BY <1>1, <2>1, SameStanding
<1> QED
  BY <1>1, <1>2, <1>3
  DEF Handler, AcceptChannel, CheckDone, HandleFrame, HandleRecvError, Respond

\* A step of Run and of its environment.
LEMMA RunImplements ==
  ASSUME TypeOK, AmfMain \/ Environment
  PROVE  \/ Lifecycle!Next
         \/ UNCHANGED <<amfRun, amfDone, Live, Past>>
<1>1. ASSUME NEW s \in Sessions, StartHandler(s)
      PROVE  Lifecycle!Begin(s)
  <2>1. /\ hpc[s] = "none" /\ hpc' = [hpc EXCEPT ![s] = "accept"]
        /\ hpc \in [Sessions -> HandlerPCs]
    BY <1>1 DEF StartHandler, TypeOK, AmfTypeOK
  <2>2. s \notin Live \cup Past /\ Live' = Live \cup {s} /\ Past' = Past
    BY <2>1 DEF Live, Past
  <2> QED BY <1>1, <2>2 DEF StartHandler, Lifecycle!Begin, Live, Past
<1>2. CASE StopAccepting
  BY <1>2 DEF StopAccepting, Lifecycle!Next, Lifecycle!Drain
<1>3. CASE AmfReturn
  <2>1. Live = {}
    BY <1>3 DEF AmfReturn, WaitGroupZero, Live
  <2> QED BY <1>3, <2>1 DEF AmfReturn, Lifecycle!Next, Lifecycle!Return, Live
<1>4. CASE AmfSignal
  BY <1>4 DEF AmfSignal, Lifecycle!Next, Lifecycle!Tell
<1>5. CASE \E s \in Sessions : Lose(s)
  BY <1>5, SameStanding DEF Lose
<1> QED
  BY <1>1, <1>2, <1>3, <1>4, <1>5 DEF AmfMain, Environment, Lifecycle!Next

\* The workers, the run and the network do not touch the AMF.
LEMMA OthersImplement ==
  ASSUME \/ \E w \in Workers : Worker(w)
         \/ Main \/ ProcessEnds \/ Expire
         \/ \E s \in Sessions : Learn(s)
         \/ UNCHANGED vars
  PROVE  UNCHANGED <<amfRun, amfDone, Live, Past>>
<1>1. UNCHANGED <<amfRun, amfDone, hpc>>
  <2>1. CASE \E w \in Workers : Worker(w)
    BY <2>1
    DEF Worker, Open, OpenFails, Begin, Exit, SendOk, SendFails, SendCut, AddTx,
        RecvFrame, RecvTimeout, RecvFails, RecvTorn, AddRx, AddLatency,
        AddDrop, amfVars
  <2>2. CASE ~ \E w \in Workers : Worker(w)
    BY <2>2
    DEF Main, Tick, StopCollecting, Finish, ProcessEnds, Expire, Learn, Notice,
        vars, amfVars
  <2> QED BY <2>1, <2>2
<1> QED BY <1>1 DEF Live, Past

(***************************************************************************)
(* With live workers, late dials, lost links and signals in any order, the *)
(* AMF keeps the promise of ServerLifecycle (amf.go:26-51, amf.go:54-84):  *)
(* one handler per session, none begun once Run waits, and Run returns     *)
(* behind the last handler.                                                *)
(***************************************************************************)
THEOREM AmfImplementsLifecycle == Spec => ImplementsLifecycle
<1>1. Init => Lifecycle!Init
  BY DEF Init, AmfInit, Lifecycle!Init
<1>2. TypeOK /\ [Next]_vars =>
        [Lifecycle!Next]_<<amfRun, amfDone, Live, Past>>
  <2> SUFFICES ASSUME TypeOK, [Next]_vars
               PROVE  \/ Lifecycle!Next
                      \/ UNCHANGED <<amfRun, amfDone, Live, Past>>
    OBVIOUS
  <2>1. ASSUME NEW s \in Sessions, AmfHandler(s)
        PROVE  \/ Lifecycle!Next
               \/ UNCHANGED <<amfRun, amfDone, Live, Past>>
    BY <2>1, HandlerImplements DEF Lifecycle!Next
  <2>2. CASE AmfMain \/ Environment
    BY <2>2, RunImplements
  <2> QED BY <2>1, <2>2, OthersImplement DEF Next, Terminated
<1>3. Spec => []TypeOK
  BY TypeCorrect
<1>4. Spec => Lifecycle!Init /\ [][Lifecycle!Next]_<<amfRun, amfDone, Live, Past>>
  BY <1>1, <1>2, <1>3, PTL DEF Spec
<1> QED BY <1>4, PTL DEF ImplementsLifecycle, Lifecycle!Spec, Live, Past
===============================================================================
