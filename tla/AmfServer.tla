------------------------------- MODULE AmfServer -------------------------------
(***************************************************************************)
(* How the AMF comes by its sessions: the accept loop of AMFServer.Run     *)
(* over the Accept of each backend, with accept errors, TLS handshakes     *)
(* that run inside Accept, and peers that are silent, fail or leave.       *)
(* What a session does with its frames is in AmfSession.                   *)
(*                                                                         *)
(* conn[p] is the connection of peer p:                                    *)
(*   "away"     p has not connected                                        *)
(*   "queued"   established, in the listener's queue                       *)
(*   "taken"    off the queue, neither closed nor a session yet            *)
(*   "started"  its handler runs, in AcceptChannel                         *)
(*   "serving"  its handler runs, in the Recv loop                         *)
(*   "served"   its handler has returned and closed it                     *)
(*   "closed"   closed or aborted without a handler                        *)
(***************************************************************************)
EXTENDS FiniteSets

CONSTANTS
  Peers,
  NoPeer,   \* no connection
  Configs   \* the configurations, of which Init picks one:
            \*   backend  the transport type
            \*   tls      Accept runs a TLS handshake (never for quic, whose
            \*            handshakes run before a connection is queued)
            \*   timeout  ConnectTimeout > 0

ASSUME NoPeerAssumption == NoPeer \notin Peers
ASSUME ConfigsAssumption ==
  Configs \subseteq
    [backend : {"sctp", "sctp-kernel", "quic"}, tls : BOOLEAN,
     timeout : BOOLEAN]

VARIABLES
  cfg,     \* the configuration; it never changes
  mood,    \* mood[p]: how p behaves in a handshake; it never changes
  gone,    \* gone[p]: p has left
  conn,    \* conn[p]: see above
  told,    \* the ctx of the AMF is cancelled
  run,     \* where the goroutine of Run is
  helper,  \* the goroutine of the sctp Accept: none, waiting in AcceptSCTP,
           \* or done, with its result in resCh
  cur      \* the connection that Accept is busy with, or NoPeer

vars == <<cfg, mood, gone, conn, told, run, helper, cur>>

ConnStates ==
  {"away", "queued", "taken", "started", "serving", "served", "closed"}

RunPCs == {"top", "accept", "shake", "sleep", "draining", "returned"}

TypeOK ==
  /\ cfg \in Configs
  /\ mood \in [Peers -> {"honest", "silent", "faulty"}]
  /\ gone \in [Peers -> BOOLEAN]
  /\ conn \in [Peers -> ConnStates]
  /\ told \in BOOLEAN
  /\ run \in RunPCs
  /\ helper \in {"none", "waiting", "done"}
  /\ cur \in Peers \cup {NoPeer}
  /\ run = "shake" => cur \in Peers

Init ==
  /\ cfg \in Configs
  /\ mood \in [Peers -> {"honest", "silent", "faulty"}]
  /\ gone = [p \in Peers |-> FALSE]
  /\ conn = [p \in Peers |-> "away"]
  /\ told = FALSE
  /\ run = "top"
  /\ helper = "none"
  /\ cur = NoPeer

Becomes(p, state) == conn' = [conn EXCEPT ![p] = state]

Handled == {p \in Peers : conn[p] \in {"started", "serving"}}

-------------------------------------------------------------------------------
(* Peers and signals *)

\* A connection is established; on quic only after its handshake.
Connect(p) ==
  /\ conn[p] = "away"
  /\ run # "returned"
  /\ cfg.backend = "quic" => mood[p] # "faulty"
  /\ Becomes(p, "queued")
  /\ UNCHANGED <<cfg, mood, gone, told, run, helper, cur>>

\* A peer leaves; its connection may vanish from the queue.
Hangup(p) ==
  /\ conn[p] \notin {"away", "closed", "served"}
  /\ ~gone[p]
  /\ gone' = [gone EXCEPT ![p] = TRUE]
  /\ \/ UNCHANGED conn
     \/ conn[p] = "queued" /\ Becomes(p, "closed")
  /\ UNCHANGED <<cfg, mood, told, run, helper, cur>>

\* SIGINT or SIGTERM.
Signal ==
  /\ ~told
  /\ told' = TRUE
  /\ UNCHANGED <<cfg, mood, gone, conn, run, helper, cur>>

-------------------------------------------------------------------------------
(* Run *)

\* The select at the top of the loop; the sctp Accept starts its goroutine.
Top ==
  /\ run = "top"
  /\ IF told
       THEN run' = "draining" /\ UNCHANGED helper
       ELSE /\ run' = "accept"
            /\ helper' = IF cfg.backend = "sctp" THEN "waiting" ELSE helper
  /\ UNCHANGED <<cfg, mood, gone, conn, told, cur>>

MutGiveUp == "draining"

MutRetryAlways == "sleep"

MutFallThrough == run

\* Accept returned an error: the end if ctx is cancelled, a pause otherwise.
AfterError == IF told THEN "draining" ELSE "sleep"

\* 50 ms after a failed Accept.
Wake ==
  /\ run = "sleep"
  /\ run' = "top"
  /\ UNCHANGED <<cfg, mood, gone, conn, told, helper, cur>>

\* Accept has the connection of p: the handshake comes next if there is one,
\* and otherwise Run starts the handler.
Proceed(p) ==
  IF cfg.tls
    THEN run' = "shake" /\ cur' = p /\ Becomes(p, "taken")
    ELSE run' = "top" /\ cur' = NoPeer /\ Becomes(p, "started")

MutNoWait == TRUE

\* wg.Wait: every handler has returned.
WaitGroupZero == Handled = {}

\* Run returns; the deferred ln.Close aborts what is queued.
Return ==
  /\ run = "draining"
  /\ WaitGroupZero
  /\ run' = "returned"
  /\ conn' = [p \in Peers |-> IF conn[p] = "queued" THEN "closed" ELSE conn[p]]
  /\ UNCHANGED <<cfg, mood, gone, told, helper, cur>>

\* The process ends, and with it whatever it left open.
ProcessEnds ==
  /\ run = "returned"
  /\ \E p \in Peers : conn[p] = "taken"
  /\ conn' = [p \in Peers |-> IF conn[p] = "taken" THEN "closed" ELSE conn[p]]
  /\ UNCHANGED <<cfg, mood, gone, told, run, helper, cur>>

-------------------------------------------------------------------------------
(* Accept: sctp *)

(***************************************************************************)
(* The goroutine in AcceptSCTP takes a connection off the queue, also when *)
(* the Accept that started it has returned on ctx.Done.                    *)
(***************************************************************************)
HelperTakes(p) ==
  /\ helper = "waiting"
  /\ run # "returned"
  /\ conn[p] = "queued"
  /\ Becomes(p, "taken")
  /\ helper' = "done"
  /\ cur' = p
  /\ UNCHANGED <<cfg, mood, gone, told, run>>

\* AcceptSCTP fails.
HelperFails ==
  /\ helper = "waiting"
  /\ helper' = "done"
  /\ UNCHANGED <<cfg, mood, gone, conn, told, run, cur>>

\* The select of Accept takes resCh, though ctx may be done as well.
SelectResult ==
  /\ run = "accept"
  /\ helper = "done"
  /\ helper' = "none"
  /\ IF cur = NoPeer
       THEN run' = AfterError /\ UNCHANGED <<conn, cur>>
       ELSE Proceed(cur)
  /\ UNCHANGED <<cfg, mood, gone, told>>

-------------------------------------------------------------------------------
(* Accept: sctp-kernel and quic *)

\* The poll of the listener, or quic-go, has a connection; ctx was looked at
\* before.
AcceptTakes(p) ==
  /\ run = "accept"
  /\ cfg.backend # "sctp"
  /\ conn[p] = "queued"
  /\ Proceed(p)
  /\ UNCHANGED <<cfg, mood, gone, told, helper>>

\* accept fails, or the new descriptor cannot be made non-blocking, in which
\* case it is closed.
AcceptFails ==
  /\ run = "accept"
  /\ cfg.backend # "sctp"
  /\ \/ UNCHANGED conn
     \/ /\ cfg.backend = "sctp-kernel"
        /\ \E p \in Peers : conn[p] = "queued" /\ Becomes(p, "closed")
  /\ run' = AfterError
  /\ UNCHANGED <<cfg, mood, gone, told, helper, cur>>

(***************************************************************************)
(* Accept returns ctx.Err: the sctp select takes ctx.Done, pollFD looks at *)
(* ctx every 100 ms, quic-go selects on it.  The sctp goroutine goes on,   *)
(* and a connection in resCh is dropped without being closed.              *)
(***************************************************************************)
AcceptCancelled ==
  /\ run = "accept"
  /\ told
  /\ run' = AfterError
  /\ UNCHANGED <<cfg, mood, gone, conn, told, helper, cur>>

-------------------------------------------------------------------------------
(* The TLS handshake inside Accept *)

ShakeSucceeds ==
  /\ run = "shake"
  /\ mood[cur] = "honest" /\ ~gone[cur]
  /\ Becomes(cur, "started")
  /\ run' = "top"
  /\ cur' = NoPeer
  /\ UNCHANGED <<cfg, mood, gone, told, helper>>

MutNeverInterrupted == FALSE

(***************************************************************************)
(* hctx is done, by its timeout or through the ctx of the AMF, and the     *)
(* interrupter of HandshakeContext has closed the connection.  On sctp the *)
(* blocked read returns; on sctp-kernel the poll goes on until the peer    *)
(* sends something or leaves (see FdTable).                                *)
(***************************************************************************)
Interrupted ==
  /\ cfg.timeout \/ told
  /\ cfg.backend = "sctp" \/ mood[cur] # "silent"

MutLeaveOpen(p) == conn[p]

\* Accept closes the connection of a failed handshake.
AfterFailure(p) == "closed"

ShakeFails ==
  /\ run = "shake"
  /\ mood[cur] = "faulty" \/ gone[cur] \/ Interrupted
  /\ Becomes(cur, AfterFailure(cur))
  /\ run' = AfterError
  /\ cur' = NoPeer
  /\ UNCHANGED <<cfg, mood, gone, told, helper>>

-------------------------------------------------------------------------------
(* Handlers *)

\* A quic session waits for the peer to open the stream, or for ctx.
AcceptChannel(p) ==
  /\ conn[p] = "started"
  /\ \/ /\ cfg.backend # "quic" \/ mood[p] = "honest"
        /\ Becomes(p, "serving")
     \/ /\ cfg.backend = "quic"
        /\ told \/ gone[p]
        /\ Becomes(p, "served")
  /\ UNCHANGED <<cfg, mood, gone, told, run, helper, cur>>

\* Recv fails because the peer has left.
PeerEnds(p) ==
  /\ conn[p] = "serving"
  /\ gone[p]
  /\ Becomes(p, "served")
  /\ UNCHANGED <<cfg, mood, gone, told, run, helper, cur>>

\* The handler sees the cancelled ctx, between two frames.
CtxEnds(p) ==
  /\ conn[p] = "serving"
  /\ told
  /\ Becomes(p, "served")
  /\ UNCHANGED <<cfg, mood, gone, told, run, helper, cur>>

-------------------------------------------------------------------------------
(* The system *)

Take == \E p \in Peers : HelperTakes(p) \/ AcceptTakes(p)

Shake == ShakeSucceeds \/ ShakeFails

Next ==
  \/ \E p \in Peers : Connect(p) \/ Hangup(p)
  \/ Signal
  \/ Top \/ Wake \/ Return \/ ProcessEnds
  \/ Take \/ HelperFails \/ SelectResult \/ AcceptFails \/ AcceptCancelled
  \/ Shake
  \/ \E p \in Peers : AcceptChannel(p) \/ PeerEnds(p) \/ CtxEnds(p)
  \/ run = "returned" /\ UNCHANGED vars

Spec == Init /\ [][Next]_vars

(***************************************************************************)
(* Fairness.  The goroutines run and timers fire.  Accept errors are not   *)
(* for ever: an accept that is tried again and again succeeds in the end.  *)
(* A peer that is served leaves in the end, because its run has a          *)
(* duration; other peers may stay and be silent for ever.                  *)
(***************************************************************************)
FairSpec ==
  /\ Spec
  /\ WF_vars(Top) /\ WF_vars(Wake) /\ WF_vars(Return) /\ WF_vars(ProcessEnds)
  /\ SF_vars(Take) /\ WF_vars(SelectResult) /\ WF_vars(AcceptCancelled)
  /\ WF_vars(Shake)
  /\ \A p \in Peers :
       /\ WF_vars(AcceptChannel(p))
       /\ WF_vars(PeerEnds(p))
       /\ WF_vars(p \in Handled /\ Hangup(p))

-------------------------------------------------------------------------------
(* Properties *)

(***************************************************************************)
(* "Handshake and accept failures should not terminate the whole AMF"      *)
(* (amf.go:42): whatever its peers do, it stops only when it is told to.   *)
(***************************************************************************)
StopsOnlyWhenTold == run \in {"draining", "returned"} => told

(***************************************************************************)
(* Every connection that was taken off the queue is closed or gets a       *)
(* handler (sctp.go:62-82, sctpkernel_linux.go:77-103): at most one is     *)
(* neither, and it is the one that Accept is busy with, or, on sctp and    *)
(* after the AMF was told to stop, the one whose Accept left on ctx.Done.  *)
(***************************************************************************)
NoneForgotten ==
  \A p \in Peers : conn[p] = "taken" =>
    /\ p = cur
    /\ \/ run = "accept" /\ helper = "done"
       \/ run = "shake" /\ cfg.tls
       \/ run \in {"draining", "returned"} /\ told /\ cfg.backend = "sctp"

(***************************************************************************)
(* There is never a second goroutine in AcceptSCTP (sctp.go:63-66), so     *)
(* that no connection is taken by one Accept and awaited by another: Run   *)
(* does not call Accept again before the goroutine of the last call ended. *)
(***************************************************************************)
OneHelper == run \in {"top", "shake", "sleep"} => helper = "none"

\* A silent peer holds the handshake, and nothing will end it.
HeldUp(mayInterrupt) ==
  /\ run = "shake"
  /\ mood[cur] = "silent"
  /\ ~mayInterrupt

(***************************************************************************)
(* A peer that connected is attended to (amf.go:35-50), although the       *)
(* handshakes of the peers before it run inside Accept, one after the      *)
(* other: it leaves the queue unless the AMF is told to stop, or a silent  *)
(* peer is before it and no timeout is configured or the timeout is        *)
(* without effect (sctp-kernel).                                           *)
(***************************************************************************)
Attended ==
  \A p \in Peers :
    conn[p] = "queued"
      ~> conn[p] # "queued" \/ told \/ HeldUp(cfg.timeout /\ cfg.backend = "sctp")

(***************************************************************************)
(* Once told to stop the AMF returns (amf.go:28-39), whatever handshake    *)
(* Accept is in, except one with a silent peer on sctp-kernel; and then    *)
(* nothing that it accepted is open any more.                              *)
(***************************************************************************)
Stops ==
  told ~> \/ run = "returned" /\ \A p \in Peers : conn[p] # "taken"
          \/ HeldUp(cfg.backend # "sctp-kernel")

-------------------------------------------------------------------------------
(* The promise of the server *)

RunPhase == IF run \in {"draining", "returned"} THEN run ELSE "accepting"

Lifecycle == INSTANCE ServerLifecycle
  WITH Sessions <- Peers, phase <- RunPhase, live <- Handled,
       past <- {p \in Peers : conn[p] = "served"}

(***************************************************************************)
(* With every backend, and whatever its peers do, the accept loop keeps    *)
(* the promise of ServerLifecycle (amf.go:26-51): a connection gets one    *)
(* handler, none starts after the loop was left, and Run returns after the *)
(* last handler.                                                           *)
(***************************************************************************)
ImplementsLifecycle == Lifecycle!Spec
===============================================================================
