---------------------------- MODULE AmfServerProofs ----------------------------
(***************************************************************************)
(* Theorems about the accept loop, for any set of peers, whatever they do, *)
(* and every configuration.                                                *)
(***************************************************************************)
EXTENDS AmfServer, TLAPS

(***************************************************************************)
(* Where the connection is that Accept is busy with, and where Run can be  *)
(* while the goroutine of the sctp Accept exists.                          *)
(***************************************************************************)
Custody ==
  /\ cur # NoPeer => conn[cur] = "taken" \/ run = "returned"
  /\ cur # NoPeer =>
       \/ run = "shake"
       \/ helper = "done" /\ run \in {"accept", "draining", "returned"}
  /\ run = "shake" => cfg.tls
  /\ helper # "none" => cfg.backend = "sctp"
  /\ helper # "none" => run \in {"accept", "draining", "returned"}

Taken == \A p \in Peers : conn[p] = "taken" => p = cur

IInv == TypeOK /\ StopsOnlyWhenTold /\ Custody /\ Taken

-------------------------------------------------------------------------------
(* IInv is inductive *)

LEMMA PeerSteps ==
  ASSUME IInv, NEW p \in Peers,
         Connect(p) \/ Hangup(p) \/ AcceptChannel(p) \/ PeerEnds(p) \/ CtxEnds(p)
  PROVE  IInv'
<1>1. /\ UNCHANGED <<cfg, mood, told, run, helper, cur>>
      /\ gone' \in [Peers -> BOOLEAN]
  BY DEF IInv, TypeOK, Connect, Hangup, AcceptChannel, PeerEnds, CtxEnds
<1>2. /\ conn' \in [Peers -> ConnStates]
      /\ \A q \in Peers : conn'[q] = "taken" <=> conn[q] = "taken"
  BY DEF IInv, TypeOK, ConnStates, Becomes,
         Connect, Hangup, AcceptChannel, PeerEnds, CtxEnds
<1> QED
  BY <1>1, <1>2 DEF IInv, TypeOK, StopsOnlyWhenTold, Custody, Taken

LEMMA RunSteps ==
  ASSUME IInv, Signal \/ Top \/ Wake \/ AcceptCancelled \/ HelperFails
  PROVE  IInv'
<1>1. CASE Signal
  BY <1>1 DEF IInv, TypeOK, StopsOnlyWhenTold, Custody, Taken, Signal
<1>2. CASE Top
  BY <1>2 DEF IInv, TypeOK, RunPCs, StopsOnlyWhenTold, Custody, Taken, Top
<1>3. CASE Wake
  BY <1>3 DEF IInv, TypeOK, RunPCs, StopsOnlyWhenTold, Custody, Taken, Wake
<1>4. CASE AcceptCancelled
  BY <1>4 DEF IInv, TypeOK, RunPCs, StopsOnlyWhenTold, Custody, Taken,
              AcceptCancelled, AfterError
<1>5. CASE HelperFails
  BY <1>5 DEF IInv, TypeOK, StopsOnlyWhenTold, Custody, Taken, HelperFails
<1> QED
  BY <1>1, <1>2, <1>3, <1>4, <1>5

LEMMA EndSteps ==
  ASSUME IInv, Return \/ ProcessEnds
  PROVE  IInv'
<1>1. CASE Return
  BY <1>1 DEF IInv, TypeOK, ConnStates, RunPCs, StopsOnlyWhenTold, Custody,
              Taken, Return
<1>2. CASE ProcessEnds
  BY <1>2 DEF IInv, TypeOK, ConnStates, StopsOnlyWhenTold, Custody, Taken,
              ProcessEnds
<1> QED
  BY <1>1, <1>2

LEMMA AcceptSteps ==
  ASSUME IInv,
         \/ \E p \in Peers : HelperTakes(p) \/ AcceptTakes(p)
         \/ SelectResult \/ AcceptFails
  PROVE  IInv'
<1>1. ASSUME NEW p \in Peers, HelperTakes(p) PROVE IInv'
  BY <1>1, NoPeerAssumption
  DEF IInv, TypeOK, ConnStates, StopsOnlyWhenTold, Custody, Taken, Becomes,
      HelperTakes
<1>2. ASSUME NEW p \in Peers, AcceptTakes(p) PROVE IInv'
  BY <1>2, NoPeerAssumption
  DEF IInv, TypeOK, ConnStates, RunPCs, StopsOnlyWhenTold, Custody, Taken,
      Becomes, AcceptTakes, Proceed
<1>3. CASE SelectResult
  <2>1. CASE cur = NoPeer
    BY <1>3, <2>1
    DEF IInv, TypeOK, RunPCs, StopsOnlyWhenTold, Custody, Taken, SelectResult,
        AfterError
  <2>2. CASE cur # NoPeer
    BY <1>3, <2>2, NoPeerAssumption
    DEF IInv, TypeOK, ConnStates, RunPCs, StopsOnlyWhenTold, Custody, Taken,
        SelectResult, Proceed, Becomes
  <2> QED
    BY <2>1, <2>2
<1>4. CASE AcceptFails
  <2>1. /\ UNCHANGED <<cfg, mood, gone, told, helper, cur>>
        /\ run = "accept" /\ cfg.backend # "sctp"
        /\ run' = AfterError
    BY <1>4 DEF AcceptFails
  <2>2. /\ conn' \in [Peers -> ConnStates]
        /\ \A q \in Peers : conn'[q] = "taken" <=> conn[q] = "taken"
    BY <1>4 DEF IInv, TypeOK, ConnStates, Becomes, AcceptFails
  <2> QED
    BY <2>1, <2>2
    DEF IInv, TypeOK, RunPCs, StopsOnlyWhenTold, Custody, Taken, AfterError
<1> QED
  BY <1>1, <1>2, <1>3, <1>4

LEMMA ShakeSteps ==
  ASSUME IInv, Shake
  PROVE  IInv'
<1>1. CASE ShakeSucceeds
  BY <1>1, NoPeerAssumption
  DEF IInv, TypeOK, ConnStates, RunPCs, StopsOnlyWhenTold, Custody, Taken,
      Becomes, ShakeSucceeds
<1>2. CASE ShakeFails
  BY <1>2, NoPeerAssumption
  DEF IInv, TypeOK, ConnStates, RunPCs, StopsOnlyWhenTold, Custody, Taken,
      Becomes, ShakeFails, AfterFailure, AfterError
<1> QED
  BY <1>1, <1>2 DEF Shake

LEMMA Inductive == Spec => []IInv
<1>1. Init => IInv
  BY DEF Init, IInv, TypeOK, ConnStates, RunPCs, StopsOnlyWhenTold, Custody, Taken
<1>2. IInv /\ [Next]_vars => IInv'
  <2> SUFFICES ASSUME IInv, [Next]_vars PROVE IInv'
    OBVIOUS
  <2>1. CASE UNCHANGED vars
    BY <2>1 DEF vars, IInv, TypeOK, StopsOnlyWhenTold, Custody, Taken
  <2> QED
    BY <2>1, PeerSteps, RunSteps, EndSteps, AcceptSteps, ShakeSteps
    DEF Next, Take
<1> QED
  BY <1>1, <1>2, PTL DEF Spec

-------------------------------------------------------------------------------
(* Theorems *)

(***************************************************************************)
(* Neither accept errors nor peers end the AMF (amf.go:36-45).             *)
(***************************************************************************)
THEOREM OnlyASignalStops == Spec => []StopsOnlyWhenTold
<1>1. IInv => StopsOnlyWhenTold
  BY DEF IInv
<1> QED
  BY <1>1, Inductive, PTL

(***************************************************************************)
(* Every connection off the queue is closed, handed to a handler, or the   *)
(* one that Accept holds (sctp.go:62-82, sctpkernel_linux.go:77-103).      *)
(***************************************************************************)
THEOREM NothingIsForgotten == Spec => []NoneForgotten
<1>1. IInv => NoneForgotten
  BY NoPeerAssumption
  DEF IInv, TypeOK, RunPCs, StopsOnlyWhenTold, Custody, Taken, NoneForgotten
<1> QED
  BY <1>1, Inductive, PTL

(***************************************************************************)
(* Run never calls the sctp Accept while the goroutine of an earlier call  *)
(* is still in AcceptSCTP, so that no two of them compete for the queue    *)
(* (sctp.go:63-66).                                                        *)
(***************************************************************************)
THEOREM NeverTwoHelpers == Spec => []OneHelper
<1>1. IInv => OneHelper
  BY DEF IInv, Custody, StopsOnlyWhenTold, Taken, OneHelper, TypeOK, RunPCs
<1> QED
  BY <1>1, Inductive, PTL

\* The peers, their connections and the accept loop keep their types.
THEOREM TypesKept == Spec => []TypeOK
<1>1. IInv => TypeOK
  BY DEF IInv
<1> QED
  BY <1>1, Inductive, PTL

-------------------------------------------------------------------------------
(* The accept loop implements ServerLifecycle *)

Past == {p \in Peers : conn[p] = "served"}

LEMMA HandlerStepsRefine ==
  ASSUME IInv, NEW p \in Peers, AcceptChannel(p) \/ PeerEnds(p) \/ CtxEnds(p)
  PROVE  Lifecycle!Next \/ UNCHANGED <<RunPhase, told, Handled, Past>>
<1>1. /\ UNCHANGED <<told, RunPhase>>
      /\ conn \in [Peers -> ConnStates]
      /\ conn[p] \in {"started", "serving"}
      /\ \/ conn' = [conn EXCEPT ![p] = "serving"]
         \/ conn' = [conn EXCEPT ![p] = "served"]
  BY DEF IInv, TypeOK, AcceptChannel, PeerEnds, CtxEnds, Becomes, RunPhase
<1>2. CASE conn' = [conn EXCEPT ![p] = "serving"]
  BY <1>1, <1>2 DEF Handled, Past
<1>3. CASE conn' = [conn EXCEPT ![p] = "served"]
  <2>1. p \in Handled /\ Handled' = Handled \ {p} /\ Past' = Past \cup {p}
    BY <1>1, <1>3 DEF Handled, Past
  <2>2. Lifecycle!End(p)
    BY <1>1, <2>1 DEF Lifecycle!End, Past
  <2> QED
    BY <2>2 DEF Lifecycle!Next
<1> QED
  BY <1>1, <1>2, <1>3

\* A step that starts the handler of p, from a connection without one.
LEMMA StartRefines ==
  ASSUME TypeOK, NEW p \in Peers, conn[p] \in {"queued", "taken"},
         Becomes(p, "started"), run \in {"accept", "shake"}, run' = "top",
         UNCHANGED told
  PROVE  Lifecycle!Next
<1>1. /\ RunPhase = "accepting" /\ RunPhase' = "accepting"
      /\ p \notin Handled \cup Past
      /\ Handled' = Handled \cup {p} /\ Past' = Past
  BY DEF TypeOK, Becomes, RunPhase, Handled, Past
<1>2. Lifecycle!Begin(p)
  BY <1>1 DEF Lifecycle!Begin, Past
<1> QED
  BY <1>2 DEF Lifecycle!Next

\* A step that neither starts nor ends a handler.
LEMMA OtherSteps ==
  ASSUME TypeOK, UNCHANGED told, RunPhase' = RunPhase,
         conn' \in [Peers -> ConnStates],
         \A p \in Peers : conn[p] # conn'[p] =>
           {conn[p], conn'[p]} \subseteq {"away", "queued", "taken", "closed"}
  PROVE  UNCHANGED <<RunPhase, told, Handled, Past>>
<1>1. Handled' = Handled
  BY DEF TypeOK, Handled
<1>2. Past' = Past
  BY DEF TypeOK, Past
<1> QED
  BY <1>1, <1>2

\* A failed or cancelled Accept: the end of the loop, if it was told to stop.
LEMMA ErrorRefines ==
  ASSUME IInv, run \in {"accept", "shake"}, run' = AfterError, UNCHANGED told,
         conn' \in [Peers -> ConnStates],
         \A p \in Peers : conn[p] # conn'[p] =>
           {conn[p], conn'[p]} \subseteq {"away", "queued", "taken", "closed"}
  PROVE  Lifecycle!Next \/ UNCHANGED <<RunPhase, told, Handled, Past>>
<1>1. Handled' = Handled /\ Past' = Past
  BY DEF IInv, TypeOK, Handled, Past
<1>2. CASE told
  <2>1. RunPhase = "accepting" /\ RunPhase' = "draining"
    BY <1>2 DEF AfterError, RunPhase
  <2>2. Lifecycle!Drain
    BY <1>1, <1>2, <2>1 DEF Lifecycle!Drain, Past
  <2> QED
    BY <2>2 DEF Lifecycle!Next
<1>3. CASE ~told
  BY <1>1, <1>3 DEF AfterError, RunPhase
<1> QED
  BY <1>2, <1>3

LEMMA StepRefines ==
  ASSUME IInv, Next
  PROVE  Lifecycle!Next \/ UNCHANGED <<RunPhase, told, Handled, Past>>
<1> DEFINE Quiet == \A p \in Peers : conn[p] # conn'[p] =>
             {conn[p], conn'[p]} \subseteq {"away", "queued", "taken", "closed"}
<1>0. TypeOK /\ conn \in [Peers -> ConnStates]
  BY DEF IInv, TypeOK
<1>1. ASSUME NEW p \in Peers, Connect(p) \/ Hangup(p)
      PROVE  UNCHANGED <<RunPhase, told, Handled, Past>>
  <2>1. UNCHANGED <<told, run>> /\ conn' \in [Peers -> ConnStates] /\ Quiet
    BY <1>0, <1>1 DEF Connect, Hangup, Becomes, ConnStates
  <2> QED
    BY <1>0, <2>1, OtherSteps DEF RunPhase
<1>2. CASE Signal
  <2>1. Lifecycle!Tell
    BY <1>2 DEF Signal, Lifecycle!Tell, RunPhase, Handled, Past
  <2> QED
    BY <2>1 DEF Lifecycle!Next
<1>3. CASE Top
  <2>1. UNCHANGED <<told, conn>> /\ run = "top"
    BY <1>3 DEF Top
  <2>2. Handled' = Handled /\ Past' = Past
    BY <2>1 DEF Handled, Past
  <2>3. CASE told
    <3>1. Lifecycle!Drain
      BY <1>3, <2>1, <2>2, <2>3 DEF Top, Lifecycle!Drain, RunPhase, Past
    <3> QED
      BY <3>1 DEF Lifecycle!Next
  <2>4. CASE ~told
    BY <1>3, <2>1, <2>2, <2>4 DEF Top, RunPhase
  <2> QED
    BY <2>3, <2>4
<1>4. CASE Wake \/ HelperFails
  BY <1>4 DEF Wake, HelperFails, RunPhase, Handled, Past
<1>5. CASE Return
  <2>1. /\ UNCHANGED told /\ run = "draining" /\ run' = "returned"
        /\ Handled = {}
        /\ conn' = [p \in Peers |-> IF conn[p] = "queued" THEN "closed" ELSE conn[p]]
    BY <1>5 DEF Return, WaitGroupZero
  <2>2. Handled' = Handled /\ Past' = Past
    BY <1>0, <2>1 DEF Handled, Past
  <2>3. Lifecycle!Return
    BY <2>1, <2>2 DEF Lifecycle!Return, RunPhase, Past
  <2> QED
    BY <2>3 DEF Lifecycle!Next
<1>6. CASE ProcessEnds
  <2>1. UNCHANGED <<told, run>> /\ conn' \in [Peers -> ConnStates] /\ Quiet
    BY <1>0, <1>6 DEF ProcessEnds, ConnStates
  <2> QED
    BY <1>0, <2>1, OtherSteps DEF RunPhase
<1>7. ASSUME NEW p \in Peers, HelperTakes(p)
      PROVE  UNCHANGED <<RunPhase, told, Handled, Past>>
  <2>1. UNCHANGED <<told, run>> /\ conn' \in [Peers -> ConnStates] /\ Quiet
    BY <1>0, <1>7 DEF HelperTakes, Becomes, ConnStates
  <2> QED
    BY <1>0, <2>1, OtherSteps DEF RunPhase
<1>8. ASSUME NEW p \in Peers, conn[p] \in {"queued", "taken"}, Proceed(p),
             run = "accept", UNCHANGED told
      PROVE  Lifecycle!Next \/ UNCHANGED <<RunPhase, told, Handled, Past>>
  <2>1. CASE cfg.tls
    <3>1. /\ run' = "shake" /\ conn' \in [Peers -> ConnStates] /\ Quiet
      BY <1>0, <1>8, <2>1 DEF Proceed, Becomes, ConnStates
    <3> QED
      BY <1>0, <1>8, <3>1, OtherSteps DEF RunPhase
  <2>2. CASE ~cfg.tls
    BY <1>0, <1>8, <2>2, StartRefines DEF Proceed
  <2> QED
    BY <2>1, <2>2
<1>9. ASSUME NEW p \in Peers, AcceptTakes(p)
      PROVE  Lifecycle!Next \/ UNCHANGED <<RunPhase, told, Handled, Past>>
  BY <1>8, <1>9 DEF AcceptTakes
<1>10. CASE SelectResult
  <2>1. UNCHANGED told /\ run = "accept"
    BY <1>10 DEF SelectResult
  <2>2. CASE cur = NoPeer
    <3>1. run' = AfterError /\ UNCHANGED conn
      BY <1>10, <2>2 DEF SelectResult
    <3> QED
      BY <1>0, <2>1, <3>1, ErrorRefines
  <2>3. CASE cur # NoPeer
    <3>1. cur \in Peers /\ conn[cur] = "taken" /\ Proceed(cur)
      BY <1>10, <2>1, <2>3 DEF SelectResult, IInv, TypeOK, Custody
    <3> QED
      BY <1>8, <2>1, <3>1
  <2> QED
    BY <2>2, <2>3
<1>11. CASE AcceptFails \/ AcceptCancelled
  <2>1. /\ UNCHANGED told /\ run = "accept" /\ run' = AfterError
        /\ conn' \in [Peers -> ConnStates] /\ Quiet
    BY <1>0, <1>11 DEF AcceptFails, AcceptCancelled, Becomes, ConnStates
  <2> QED
    BY <2>1, ErrorRefines
<1>12. CASE Shake
  <2>1. cur \in Peers /\ conn[cur] = "taken" /\ run = "shake" /\ UNCHANGED told
    BY <1>12, NoPeerAssumption
    DEF Shake, ShakeSucceeds, ShakeFails, IInv, TypeOK, Custody
  <2>2. CASE ShakeSucceeds
    BY <1>0, <2>1, <2>2, StartRefines DEF ShakeSucceeds
  <2>3. CASE ShakeFails
    <3>1. /\ run' = AfterError /\ conn' \in [Peers -> ConnStates] /\ Quiet
      BY <1>0, <2>1, <2>3 DEF ShakeFails, AfterFailure, Becomes, ConnStates
    <3> QED
      BY <2>1, <3>1, ErrorRefines
  <2> QED
    BY <1>12, <2>2, <2>3 DEF Shake
<1>13. ASSUME NEW p \in Peers, AcceptChannel(p) \/ PeerEnds(p) \/ CtxEnds(p)
       PROVE  Lifecycle!Next \/ UNCHANGED <<RunPhase, told, Handled, Past>>
  BY <1>13, HandlerStepsRefine
<1>14. CASE UNCHANGED vars
  BY <1>14 DEF vars, RunPhase, Handled, Past
<1> QED
  BY <1>1, <1>2, <1>3, <1>4, <1>5, <1>6, <1>7, <1>9, <1>10, <1>11, <1>12,
     <1>13, <1>14
  DEF Next, Take

(***************************************************************************)
(* On every backend, the accept loop serves each connection at most once,  *)
(* starts no handler after it was left, and returns after the last handler *)
(* (amf.go:26-51).                                                         *)
(***************************************************************************)
THEOREM AcceptLoopImplementsLifecycle == Spec => ImplementsLifecycle
<1>1. Init => Lifecycle!Init
  BY DEF Init, Lifecycle!Init, RunPhase, Handled
<1>2. IInv /\ [Next]_vars
        => [Lifecycle!Next]_<<RunPhase, told, Handled, Past>>
  <2>1. UNCHANGED vars => UNCHANGED <<RunPhase, told, Handled, Past>>
    BY DEF vars, RunPhase, Handled, Past
  <2> QED
    BY <2>1, StepRefines
<1> QED
  BY <1>1, <1>2, Inductive, PTL
  DEF Spec, ImplementsLifecycle, Lifecycle!Spec, Past
===============================================================================
