---------------------------- MODULE ServerLifecycle ----------------------------
(***************************************************************************)
(* What AMFServer.Run promises, without transports, peers or frames: it    *)
(* serves sessions, each at most once, until it is told to stop; then it   *)
(* starts no more of them, and it returns when the last one has ended.     *)
(***************************************************************************)
CONSTANT Sessions

VARIABLES
  phase,  \* accepting, draining or returned
  told,   \* the server was told to stop
  live,   \* the sessions that are being served
  past    \* the sessions that were served

Init ==
  /\ phase = "accepting"
  /\ told = FALSE
  /\ live = {}
  /\ past = {}

Tell ==
  /\ told' = TRUE
  /\ UNCHANGED <<phase, live, past>>

Begin(s) ==
  /\ phase = "accepting"
  /\ s \notin live \cup past
  /\ live' = live \cup {s}
  /\ UNCHANGED <<phase, told, past>>

End(s) ==
  /\ s \in live
  /\ live' = live \ {s}
  /\ past' = past \cup {s}
  /\ UNCHANGED <<phase, told>>

Drain ==
  /\ phase = "accepting"
  /\ told
  /\ phase' = "draining"
  /\ UNCHANGED <<told, live, past>>

Return ==
  /\ phase = "draining"
  /\ live = {}
  /\ phase' = "returned"
  /\ UNCHANGED <<told, live, past>>

Next ==
  \/ Tell
  \/ \E s \in Sessions : Begin(s) \/ End(s)
  \/ Drain
  \/ Return

Spec == Init /\ [][Next]_<<phase, told, live, past>>
===============================================================================
