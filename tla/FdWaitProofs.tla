----------------------------- MODULE FdWaitProofs -----------------------------
(***************************************************************************)
(* Theorems about one Read or Write of an fdConn, for every resolution of  *)
(* the clock, every deadline and every schedule of signals and events.     *)
(***************************************************************************)
EXTENDS FdWait, TLAPS

-------------------------------------------------------------------------------
(* The timeout that poll is given *)

\* What truncation to milliseconds leaves of a span of time.
LEMMA WholeMs ==
  ASSUME NEW left \in Int
  PROVE  /\ left \div UnitsPerMs \in Int
         /\ UnitsPerMs * (left \div UnitsPerMs) \in Int
         /\ UnitsPerMs * (left \div UnitsPerMs) <= left
         /\ left < UnitsPerMs * (left \div UnitsPerMs) + UnitsPerMs
<1>1. UnitsPerMs \in Int /\ UnitsPerMs > 0
  BY FdWaitAssumption
<1> QED BY <1>1, Z3T(30)

(***************************************************************************)
(* deadlineTimeout, in ticks: nothing when the deadline has passed; else   *)
(* it is positive, and within a millisecond of the time that is left.      *)
(***************************************************************************)
LEMMA TimeoutBounds ==
  ASSUME NEW left \in Int
  PROVE  /\ UnitsPerMs * TimeoutMs(left) \in Nat
         /\ left <= 0 => UnitsPerMs * TimeoutMs(left) = 0
         /\ left > 0 => /\ UnitsPerMs * TimeoutMs(left) < left + UnitsPerMs
                        /\ UnitsPerMs * TimeoutMs(left) > left - UnitsPerMs
<1> DEFINE whole == UnitsPerMs * (left \div UnitsPerMs)
<1>1. UnitsPerMs \in Nat \ {0}
  BY FdWaitAssumption
<1>2. /\ left \div UnitsPerMs \in Int
      /\ whole \in Int /\ whole <= left /\ left < whole + UnitsPerMs
  BY WholeMs
<1>3. CASE left <= 0
  <2>1. TimeoutMs(left) = 0
    BY <1>3 DEF TimeoutMs
  <2> QED BY <1>1, <1>3, <2>1
<1>4. CASE left > 0 /\ left \div UnitsPerMs = 0
  <2>1. TimeoutMs(left) = 1 /\ UnitsPerMs * 1 = UnitsPerMs
    BY <1>1, <1>4 DEF TimeoutMs
  <2>2. whole = 0
    BY <1>1, <1>4
  <2> HIDE DEF whole
  <2> QED BY <1>1, <1>2, <1>4, <2>1, <2>2
<1>5. CASE left > 0 /\ left \div UnitsPerMs # 0
  <2>1. UnitsPerMs * TimeoutMs(left) = whole
    BY <1>5 DEF TimeoutMs
  <2> HIDE DEF whole
  <2> QED BY <1>1, <1>2, <1>5, <2>1
<1> QED BY <1>2, <1>3, <1>4, <1>5

-------------------------------------------------------------------------------
(* The inductive invariant *)

(***************************************************************************)
(* Where poll will time out: never without a deadline; within a            *)
(* millisecond of the deadline; and at once if the deadline had passed     *)
(* when the call began.  No tick is past it.                               *)
(***************************************************************************)
LimitRight ==
  state = "poll" =>
    IF deadline = NoDeadline THEN limit = -1
    ELSE /\ now <= limit
         /\ deadline > began => limit < deadline + UnitsPerMs
         /\ limit > deadline - UnitsPerMs
         /\ deadline <= began => limit = now

IInv == TypeOK /\ began <= now /\ LimitRight /\ NotEarly /\ NotLate

\* A call begins with what it needs.
LEMMA InvInit == Init => IInv
BY FdWaitAssumption
   DEF Init, IInv, TypeOK, LimitRight, NotEarly, NotLate, Times, Running,
       Results

\* Every step keeps it.
LEMMA InvStep == IInv /\ [Next]_vars => IInv'
<1> SUFFICES ASSUME IInv, [Next]_vars
             PROVE  IInv'
  OBVIOUS
<1> USE FdWaitAssumption DEF IInv, TypeOK, Times, Running, Results
<1>1. CASE EnterPoll
  <2>1. TypeOK' /\ (began <= now)' /\ NotEarly' /\ NotLate'
        /\ LimitRight'
    <3>1. CASE deadline = NoDeadline
      BY <1>1, <3>1 DEF EnterPoll, LimitRight, NotEarly, NotLate
    <3>2. CASE deadline # NoDeadline
      <4> DEFINE wait == UnitsPerMs * TimeoutMs(deadline - now)
      <4>1. deadline \in Nat /\ deadline - now \in Int
        BY <3>2
      <4>2. /\ wait \in Nat
            /\ deadline - now <= 0 => wait = 0
            /\ deadline - now > 0 => /\ wait < deadline - now + UnitsPerMs
                                     /\ wait > deadline - now - UnitsPerMs
        BY <4>1, TimeoutBounds
      <4>3. limit' = now + wait
        BY <1>1, <3>2 DEF EnterPoll
      <4> HIDE DEF wait
      <4>4. LimitRight'
        BY <1>1, <3>2, <4>1, <4>2, <4>3 DEF EnterPoll, LimitRight, NotLate
      <4> QED
        BY <1>1, <3>2, <4>1, <4>2, <4>3, <4>4
        DEF EnterPoll, NotEarly, NotLate
    <3> QED BY <3>1, <3>2
  <2> QED BY <2>1
<1>2. CASE Interrupted
  BY <1>2 DEF Interrupted, LimitRight, NotEarly, NotLate
<1>3. CASE PollTimesOut
  BY <1>3 DEF PollTimesOut, NothingReported, LimitRight, NotEarly, NotLate
<1>4. CASE PollReports
  BY <1>4 DEF PollReports, LimitRight, NotEarly, NotLate
<1>5. CASE Io
  BY <1>5 DEF Io, LimitRight, NotEarly, NotLate
<1>6. CASE Tick
  BY <1>6 DEF Tick, LimitRight, NotEarly, NotLate
<1>7. CASE Event
  BY <1>7 DEF Event, LimitRight, NotEarly, NotLate
<1>8. CASE UNCHANGED vars
  BY <1>8 DEF vars, LimitRight, NotEarly, NotLate
<1> QED
  BY <1>1, <1>2, <1>3, <1>4, <1>5, <1>6, <1>7, <1>8 DEF Next, Done

LEMMA Inductive == Spec => []IInv
BY InvInit, InvStep, PTL DEF Spec

-------------------------------------------------------------------------------
(* Theorems *)

\* The clock, the deadline and the poll of a call keep their types.
THEOREM TypesKept == Spec => []TypeOK
<1>1. IInv => TypeOK
  BY DEF IInv
<1> QED BY <1>1, Inductive, PTL

(***************************************************************************)
(* A timeout is reported less than a millisecond before the deadline and   *)
(* never without one, however often signals make wait compute its timeout  *)
(* again (sctpkernel_linux.go:558-560, 579-591).                           *)
(***************************************************************************)
THEOREM NeverEarly == Spec => []NotEarly
<1>1. IInv => NotEarly
  BY DEF IInv
<1> QED BY <1>1, Inductive, PTL

(***************************************************************************)
(* A call does not outlast its deadline by a millisecond, and does not     *)
(* wait at all if the deadline had passed when it began                    *)
(* (sctpkernel_linux.go:579-591).                                          *)
(***************************************************************************)
THEOREM NeverLate == Spec => []NotLate
<1>1. IInv => NotLate
  BY DEF IInv
<1> QED BY <1>1, Inductive, PTL
===============================================================================
