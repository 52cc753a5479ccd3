-------------------------------- MODULE FdWait --------------------------------
(***************************************************************************)
(* One fdConn.Read (or Write) of the sctp-kernel backend: poll with a      *)
(* timeout computed from the deadline, then the system call, again and     *)
(* again until there is a result.  Time advances in ticks, UnitsPerMs of   *)
(* them to the millisecond that poll counts in, so that a deadline can     *)
(* fall within a millisecond.                                              *)
(***************************************************************************)
EXTENDS Integers

CONSTANTS
  UnitsPerMs,  \* ticks per millisecond
  MaxTime,     \* bound on the clock
  NoDeadline   \* the zero time.Time

ASSUME FdWaitAssumption ==
  /\ UnitsPerMs \in Nat \ {0}
  /\ MaxTime \in Nat
  /\ NoDeadline \notin Nat

Times == 0 .. MaxTime

VARIABLES
  now,       \* the clock
  began,     \* when the call began
  deadline,  \* readDL or writeDL
  limit,     \* when the running poll times out; -1 if it does not
  state,     \* where the call is, or how it ended
  ready,     \* the descriptor is readable (writable)
  hup        \* the peer hung up, or the socket is in error

vars == <<now, began, deadline, limit, state, ready, hup>>

Running == {"wait", "poll", "io"}
Results == {"ok", "timeout", "error"}

TypeOK ==
  /\ now \in Times /\ began \in Times
  /\ deadline \in Nat \cup {NoDeadline}
  /\ limit \in Nat \cup {-1}
  /\ state \in Running \cup Results
  /\ ready \in BOOLEAN /\ hup \in BOOLEAN

\* The deadline may have passed before the call: the ctx of a run is used on.
Init ==
  /\ now \in Times
  /\ began = now
  /\ deadline \in Times \cup {NoDeadline}
  /\ limit = -1
  /\ state = "wait"
  /\ ready \in BOOLEAN
  /\ hup \in BOOLEAN

MutRoundUp(left) ==
  IF left <= 0 THEN 0 ELSE left \div UnitsPerMs + 2

MutNoExpiry(left) == IF left = 0 THEN 0 ELSE left \div UnitsPerMs

\* deadlineTimeout, in milliseconds, of the time that is left.
TimeoutMs(left) ==
  IF left <= 0 THEN 0
  ELSE IF left \div UnitsPerMs = 0 THEN 1
  ELSE left \div UnitsPerMs

\* wait calls deadlineTimeout and enters poll.
EnterPoll ==
  /\ state = "wait"
  /\ limit' = IF deadline = NoDeadline THEN -1
              ELSE now + UnitsPerMs * TimeoutMs(deadline - now)
  /\ state' = "poll"
  /\ UNCHANGED <<now, began, deadline, ready, hup>>

\* A signal interrupts poll; wait computes the timeout anew.
Interrupted ==
  /\ state = "poll"
  /\ state' = "wait"
  /\ UNCHANGED <<now, began, deadline, limit, ready, hup>>

MutSignalIsTimeout == ~ready /\ ~hup

\* poll returns 0: its time is over and there was nothing to report.
NothingReported == limit = now /\ ~ready /\ ~hup

PollTimesOut ==
  /\ state = "poll"
  /\ NothingReported
  /\ state' = "timeout"
  /\ UNCHANGED <<now, began, deadline, limit, ready, hup>>

\* poll returns events; an error or a hang-up is looked at before the data.
PollReports ==
  /\ state = "poll"
  /\ ready \/ hup
  /\ state' = IF hup THEN "error" ELSE "io"
  /\ UNCHANGED <<now, began, deadline, limit, ready, hup>>

\* unix.Read: data, or an error of its own, or EAGAIN and EINTR.
Io ==
  /\ state = "io"
  /\ state' \in {"ok", "error", "wait"}
  /\ UNCHANGED <<now, began, deadline, limit, ready, hup>>

\* Time passes in poll, up to the moment at which it returns; the steps
\* around it take no time.
Tick ==
  /\ now < MaxTime
  /\ state = "poll" /\ limit # now /\ ~ready /\ ~hup
  /\ now' = now + 1
  /\ UNCHANGED <<began, deadline, limit, state, ready, hup>>

\* The peer writes, reads or goes away.
Event ==
  /\ ready' \in BOOLEAN /\ hup' \in BOOLEAN
  /\ ready => ready'
  /\ hup => hup'
  /\ UNCHANGED <<now, began, deadline, limit, state>>

Done == state \in Results /\ UNCHANGED vars

Next ==
  \/ EnterPoll \/ Interrupted \/ PollTimesOut \/ PollReports \/ Io
  \/ Tick \/ Event \/ Done

Spec == Init /\ [][Next]_vars

-------------------------------------------------------------------------------
(* Properties *)

(***************************************************************************)
(* A timeout is reported less than a millisecond before the deadline, and  *)
(* never without one (sctpkernel_linux.go:558-560, 579-591): the time left *)
(* is truncated to milliseconds, however often signals interrupt poll.     *)
(***************************************************************************)
NotEarly ==
  state = "timeout" => deadline # NoDeadline /\ now > deadline - UnitsPerMs

(***************************************************************************)
(* A call with a deadline does not wait past it by a millisecond or more,  *)
(* nor at all if the deadline had passed when it began.                    *)
(***************************************************************************)
NotLate ==
  deadline # NoDeadline /\ state \in Running =>
    IF deadline <= began THEN now = began ELSE now < deadline + UnitsPerMs
===============================================================================
