----------------------------- MODULE AttemptLedger -----------------------------
(***************************************************************************)
(* What a latency run promises, without workers, messages or timeouts:     *)
(* attempts are numbered 1, 2, ...; each of them is in progress until it   *)
(* is either measured or dropped, once and for all; and a single report,   *)
(* which gives the numbers of measured and of dropped attempts, is made    *)
(* when no attempt is in progress and ends the run.                        *)
(***************************************************************************)
EXTENDS Naturals, FiniteSets

VARIABLES
  drawn,     \* the number of attempts that were begun
  measured,  \* the attempts whose round trip was measured
  dropped,   \* the attempts that were given up
  report     \* NoReport, or what the run reported

NoReport == [measured |-> 0, dropped |-> 0, made |-> FALSE]

InProgress == (1 .. drawn) \ (measured \cup dropped)

Init ==
  /\ drawn = 0
  /\ measured = {}
  /\ dropped = {}
  /\ report = NoReport

Draw ==
  /\ ~report.made
  /\ drawn' = drawn + 1
  /\ UNCHANGED <<measured, dropped, report>>

Measure(id) ==
  /\ ~report.made
  /\ measured' = measured \cup {id}
  /\ UNCHANGED <<drawn, dropped, report>>

GiveUp(id) ==
  /\ ~report.made
  /\ dropped' = dropped \cup {id}
  /\ UNCHANGED <<drawn, measured, report>>

Report ==
  /\ ~report.made
  /\ InProgress = {}
  /\ report' = [measured |-> Cardinality(measured),
                dropped  |-> Cardinality(dropped),
                made     |-> TRUE]
  /\ UNCHANGED <<drawn, measured, dropped>>

Next ==
  \/ Draw
  \/ \E id \in InProgress : Measure(id) \/ GiveUp(id)
  \/ Report

Spec == Init /\ [][Next]_<<drawn, measured, dropped, report>>
===============================================================================
