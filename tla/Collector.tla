------------------------------- MODULE Collector -------------------------------
(***************************************************************************)
(* metrics.Collector: counters behind one mutex.  Every method takes the   *)
(* mutex for the whole of its body, so each is one atomic operation on the *)
(* counters; two calls in a row are two operations, between which another  *)
(* goroutine may run.                                                      *)
(***************************************************************************)
EXTENDS Naturals

\* The five reasons of the drop breakdown; AddDrop without a reason is "other".
DropKinds == {"timeout", "sendErr", "decode", "mismatch", "other"}

\* "lat" is the length of latencyUS.
Counters == {"tx", "rx", "lat"} \cup DropKinds

Zero == [k \in Counters |-> 0]

MutTakeBack(c, k) == [c EXCEPT ![k] = @ - 1]

\* AddTx, AddRx, AddLatency and the AddDrop family, always called with n = 1.
Add(c, k) == [c EXCEPT ![k] = @ + 1]

(***************************************************************************)
(* Snapshot: one row of the report.  "since" is in whole seconds; the      *)
(* quotient is truncated as int(float64(rx)/since.Seconds()) is.           *)
(***************************************************************************)
Snapshot(c, since) ==
  [ counts   |-> c,
    drop     |-> c["timeout"] + c["sendErr"] + c["decode"]
                   + c["mismatch"] + c["other"],
    achieved |-> IF since > 0 THEN c["rx"] \div since ELSE 0 ]

Rows == [counts : [Counters -> Nat], drop : Nat, achieved : Nat]
===============================================================================
