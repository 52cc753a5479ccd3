------------------------------ MODULE AmfSession ------------------------------
(***************************************************************************)
(* The AMF of pkg/app/amf.go: the accept loop of Run and handleSession,    *)
(* one goroutine per session, over the session's ordered, reliable,        *)
(* bidirectional channel.                                                  *)
(*                                                                         *)
(* The channel is the part of transport.Channel that every backend gives:  *)
(* bytes arrive in the order they were sent, none is duplicated, and they  *)
(* are lost only together with the association.  A queue holds what Recv   *)
(* will make of them.  link[s] is the state of the association:            *)
(*   "none"  not established yet                                           *)
(*   "up"    both ends are there                                           *)
(*   "lost"  one end closed it, or the network failed, and the other end   *)
(*           has not noticed: what it writes is lost, what had arrived can *)
(*           still be read                                                 *)
(*   "down"  noticed: writes and reads fail                                *)
(***************************************************************************)
EXTENDS Wire, Sequences

CONSTANTS
  Sessions,
  Scenarios  \* the circumstances of a run, of which Init picks one:
             \*   fits       the payload fits in a frame, so Encode succeeds
             \*   stream     quic, sctp-kernel: frames are cut from a byte stream
             \*   deadlines  the connection honours the deadlines set on it
             \*   faults     what may happen: "signal" stops the AMF, "lose"
             \*              cuts a link, "lateDial" establishes an
             \*              association after its caller left, "silent"
             \*              leaves a Dial without an answer for ever
             \*   maxSeq, maxRows   bounds on the attempts and interval rows

ASSUME ScenariosAssumption ==
  Scenarios \subseteq [fits : BOOLEAN, stream : BOOLEAN, deadlines : BOOLEAN,
                       faults : SUBSET {"signal", "lose", "lateDial", "silent"},
                       maxSeq : Nat, maxRows : Nat]

VARIABLES
  scen,     \* the scenario; it never changes
  amfRun,   \* where Run is: accepting, draining (wg.Wait) or returned
  amfDone,  \* the AMF's ctx is cancelled (SIGINT or SIGTERM)
  link,     \* link[s]: see above
  reqs,     \* reqs[s]: frames from the gNB that the AMF has not read
  resps,    \* resps[s]: frames from the AMF that the gNB has not read
  hpc,      \* hpc[s]: where the handleSession goroutine of s is
  held      \* held[s]: the request the handler is answering

amfVars == <<scen, amfRun, amfDone, link, reqs, resps, hpc, held>>

Links == {"none", "up", "lost", "down"}

HandlerPCs == {"none", "accept", "top", "recv", "send", "closed"}

AmfTypeOK ==
  /\ scen \in Scenarios
  /\ amfRun \in {"accepting", "draining", "returned"}
  /\ amfDone \in BOOLEAN
  /\ link \in [Sessions -> Links]
  /\ reqs \in [Sessions -> Seq(Raw)]
  /\ resps \in [Sessions -> Seq(Raw)]
  /\ hpc \in [Sessions -> HandlerPCs]
  /\ held \in [Sessions -> Raw]

AmfInit ==
  /\ scen \in Scenarios
  /\ amfRun = "accepting"
  /\ amfDone = FALSE
  /\ link  = [s \in Sessions |-> "none"]
  /\ reqs  = [s \in Sessions |-> << >>]
  /\ resps = [s \in Sessions |-> << >>]
  /\ hpc   = [s \in Sessions |-> "none"]
  /\ held  = [s \in Sessions |-> Garbage]

-------------------------------------------------------------------------------
(* The association *)

\* What Close does to the association as the peer sees it.
Severed(l) == IF l = "up" THEN "lost" ELSE l

\* The network or the peer's process fails.
Lose(s) ==
  /\ "lose" \in scen.faults
  /\ link[s] = "up"
  /\ link' = [link EXCEPT ![s] = "lost"]
  /\ UNCHANGED <<scen, amfRun, amfDone, reqs, resps, hpc, held>>

\* Heartbeats, a shutdown chunk or an idle timeout tell the surviving end.
Notice(s) ==
  /\ link[s] = "lost"
  /\ link' = [link EXCEPT ![s] = "down"]
  /\ UNCHANGED <<scen, amfRun, amfDone, reqs, resps, hpc, held>>

MutOvertake(queue, s, frames) ==
  IF link[s] = "up" THEN [queue EXCEPT ![s] = frames \o @] ELSE queue

\* Frames written on s: they reach the peer's queue only on a live link.
Deliver(queue, s, frames) ==
  IF link[s] = "up" THEN [queue EXCEPT ![s] = @ \o frames] ELSE queue

-------------------------------------------------------------------------------
(* Run *)

\* SIGINT or SIGTERM at the AMF.
AmfSignal ==
  /\ "signal" \in scen.faults
  /\ ~amfDone
  /\ amfDone' = TRUE
  /\ UNCHANGED <<scen, amfRun, link, reqs, resps, hpc, held>>

(***************************************************************************)
(* Accept returned a session, and Run starts its goroutine.  Accept may    *)
(* return a session after the ctx was cancelled: Run looks at ctx only     *)
(* before it calls Accept and when Accept fails.                           *)
(***************************************************************************)
StartHandler(s) ==
  /\ amfRun = "accepting"
  /\ hpc[s] = "none"
  /\ link[s] # "none"
  /\ hpc' = [hpc EXCEPT ![s] = "accept"]
  /\ UNCHANGED <<scen, amfRun, amfDone, link, reqs, resps, held>>

\* Run sees the cancelled ctx, at the top of the loop or after a failed Accept.
StopAccepting ==
  /\ amfRun = "accepting"
  /\ amfDone
  /\ amfRun' = "draining"
  /\ UNCHANGED <<scen, amfDone, link, reqs, resps, hpc, held>>

MutReturnAtOnce == TRUE

\* wg.Wait: every handler that was started has returned.
WaitGroupZero == \A s \in Sessions : hpc[s] \in {"none", "closed"}

(***************************************************************************)
(* Run returns; the deferred ln.Close aborts the associations that nobody  *)
(* accepted.                                                               *)
(***************************************************************************)
AmfReturn ==
  /\ amfRun = "draining"
  /\ WaitGroupZero
  /\ amfRun' = "returned"
  /\ link' = [s \in Sessions |->
                 IF hpc[s] = "none" THEN Severed(link[s]) ELSE link[s]]
  /\ UNCHANGED <<scen, amfDone, reqs, resps, hpc, held>>

-------------------------------------------------------------------------------
(* handleSession *)

\* The deferred sess.Close.
Return(s) ==
  /\ hpc' = [hpc EXCEPT ![s] = "closed"]
  /\ link' = [link EXCEPT ![s] = Severed(@)]

\* AcceptChannel: quic waits for the stream and may fail, sctp never fails.
AcceptChannel(s) ==
  /\ hpc[s] = "accept"
  /\ \/ /\ hpc' = [hpc EXCEPT ![s] = "top"]
        /\ UNCHANGED link
     \/ /\ amfDone \/ link[s] = "down"
        /\ Return(s)
  /\ UNCHANGED <<scen, amfRun, amfDone, reqs, resps, held>>

\* The non-blocking select at the top of the loop.
CheckDone(s) ==
  /\ hpc[s] = "top"
  /\ IF amfDone
       THEN Return(s)
       ELSE /\ hpc' = [hpc EXCEPT ![s] = "recv"]
            /\ UNCHANGED link
  /\ UNCHANGED <<scen, amfRun, amfDone, reqs, resps, held>>

MutEcho(frm) == Decodes(frm)

\* The frames that the switch answers.
Answers(frm) == Decodes(frm) /\ frm.msgType = "MsgReq"

(***************************************************************************)
(* ch.Recv and wire.Decode.  The ctx of the AMF has no deadline, so Recv   *)
(* blocks until a frame arrives or the association is known to be gone;    *)
(* cancelling the ctx does not wake it.  A frame that does not decode and  *)
(* a frame that is not a request are skipped.                              *)
(***************************************************************************)
HandleFrame(s) ==
  /\ hpc[s] = "recv"
  /\ reqs[s] # << >>
  /\ Head(reqs[s]) # TooLong
  /\ reqs' = [reqs EXCEPT ![s] = Tail(@)]
  /\ LET frm == Head(reqs[s])
     IN  IF Answers(frm)
           THEN /\ held' = [held EXCEPT ![s] = frm]
                /\ hpc' = [hpc EXCEPT ![s] = "send"]
           ELSE /\ hpc' = [hpc EXCEPT ![s] = "top"]
                /\ UNCHANGED held
  /\ UNCHANGED <<scen, amfRun, amfDone, link, resps>>

MutNeverFails(s) == FALSE

\* Recv fails: the association is gone, or the length is refused.
RecvError(s) ==
  \/ link[s] = "down"
  \/ reqs[s] # << >> /\ Head(reqs[s]) = TooLong

HandleRecvError(s) ==
  /\ hpc[s] = "recv"
  /\ RecvError(s)
  /\ Return(s)
  /\ UNCHANGED <<scen, amfRun, amfDone, reqs, resps, held>>

\* The echo; the error of ch.Send is discarded.
Respond(s) ==
  /\ hpc[s] = "send"
  /\ resps' = Deliver(resps, s, <<Frame("MsgResp", held[s].seqID)>>)
  /\ hpc' = [hpc EXCEPT ![s] = "top"]
  /\ UNCHANGED <<scen, amfRun, amfDone, link, reqs, held>>

Handler(s) ==
  \/ AcceptChannel(s)
  \/ CheckDone(s)
  \/ HandleFrame(s)
  \/ HandleRecvError(s)
  \/ Respond(s)
===============================================================================
