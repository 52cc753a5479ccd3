------------------------------- MODULE MCLoadRun -------------------------------
(***************************************************************************)
(* LoadRun for TLC: the scenarios of its runs.  Workers are                *)
(* interchangeable: nothing in the program depends on the worker's number  *)
(* but the channel id, which no property reads.                            *)
(***************************************************************************)
EXTENDS LoadRun, TLC

WorkerSymmetry == Permutations(Sessions)

\* A message backend on which nothing fails but the timers.
Calm == [fits |-> TRUE, stream |-> FALSE, deadlines |-> TRUE, faults |-> {},
         maxSeq |-> 3, maxRows |-> 0]

\* A row is taken while the workers are between two calls of the Collector.
Rowed == [Calm EXCEPT !.maxSeq = 2, !.maxRows = 1]

\* A byte stream that deadlines tear, and links that are lost.
Torn == [Calm EXCEPT !.stream = TRUE, !.faults = {"lose"}, !.maxSeq = 2]

\* A message backend whose links are lost and whose AMF is stopped.
Failing == [Calm EXCEPT !.faults = {"lose", "signal"}, !.maxSeq = 2]

\* A payload that Encode refuses.
Oversize == [Calm EXCEPT !.fits = FALSE, !.maxSeq = 2]

\* The sctp backend: its Recv has no deadline, and its Dial may be overtaken
\* by ctx.  The AMF is stopped and links are lost.
Sctp == [Calm EXCEPT !.deadlines = FALSE, !.maxSeq = 1,
                     !.faults = {"signal", "lose", "lateDial"}]

\* The same backend with a payload that Encode refuses.
SctpOversize == [Sctp EXCEPT !.fits = FALSE, !.faults = {"signal"}]

\* The sctp-kernel backend with TLS, whose Dial a silent peer may hold up.
Silent == [Calm EXCEPT !.stream = TRUE, !.maxSeq = 1,
                       !.faults = {"signal", "silent"}]

LatencyScenarios  == {Calm, Rowed, Torn, Failing, Oversize}
FloodScenarios    == {[Calm EXCEPT !.stream = TRUE, !.maxRows = 1]}
ShutdownScenarios == {Sctp, SctpOversize, Silent}
ShortScenarios    == {[Calm EXCEPT !.maxSeq = 2]}
===============================================================================
