----------------------------- MODULE FdTableProofs -----------------------------
(***************************************************************************)
(* Theorems about the descriptors of a process, for every number of        *)
(* connections and of descriptor numbers: who may close what, and what is  *)
(* given back, when numbers are used again.                                *)
(***************************************************************************)
EXTENDS FdTable, TLAPS, WellFoundedInduction

-------------------------------------------------------------------------------
(* The kernel's choice *)

\* A set of natural numbers that is not empty has a least member.
LEMMA LeastNumber ==
  ASSUME NEW S \in SUBSET Nat, S # {}
  PROVE  \E f \in S : \A g \in S : f <= g
<1> DEFINE less == OpToRel(<, Nat)
<1>1. less = {p \in Nat \X Nat : p[1] < p[2]}
  BY DEF OpToRel
<1>2. \E f \in S : \A g \in S : <<g, f>> \notin less
  <2>1. IsWellFoundedOn(less, Nat)
    BY NatLessThanWellFounded
  <2> HIDE DEF less
  <2> QED BY <2>1, WFMin
<1> HIDE DEF less
<1>3. PICK f \in S : \A g \in S : <<g, f>> \notin less
  BY <1>2
<1>4. ASSUME NEW g \in S
      PROVE  f <= g
  <2>1. f \in Nat /\ g \in Nat
    OBVIOUS
  <2>2. g < f => <<g, f>> \in less
    BY <1>1, <2>1
  <2>3. ~(g < f)
    BY <1>3, <2>2
  <2> QED BY <2>1, <2>3
<1> QED BY <1>4

\* The number that a new socket gets denotes nothing.
LEMMA LowestIsFree ==
  ASSUME Free # {}
  PROVE  Lowest \in Free
<1>1. Free \in SUBSET Nat
  BY FdTableAssumption DEF Free
<1>2. \E f \in Free : \A g \in Free : f <= g
  BY <1>1, LeastNumber
<1> QED BY <1>2, Zenon DEF Lowest

-------------------------------------------------------------------------------
(* The inductive invariant *)

\* What a number denotes is the open connection that holds the number.
NumbersHeld ==
  \A f \in Fds : file[f] # NoConn => fd[file[f]] = f /\ ~closed[file[f]]

\* A connection has a number from its socket on, and not before.
Numbered ==
  \A k \in Conns : /\ pc[k] = "dial" => fd[k] = 0 /\ ~closed[k]
                   /\ fd[k] = 0 => pc[k] \in {"dial", "end"}

\* A connection that has ended is closed, or never had a socket.
EndedClosed == \A k \in Conns : pc[k] = "end" => closed[k] \/ fd[k] = 0

Inv == TypeOK /\ OwnsItsNumber /\ NumbersHeld /\ Numbered /\ EndedClosed

\* No number is given out before the first Dial.
LEMMA InvInit == Init => Inv
BY DEF Init, Inv, TypeOK, OwnsItsNumber, NumbersHeld, Numbered, EndedClosed,
       PCs, Shaking

(***************************************************************************)
(* Close gives back the connection's own number the first time, and does   *)
(* nothing the second time.                                                *)
(***************************************************************************)
LEMMA CloseFrees ==
  ASSUME Inv, NEW k \in Conns, fd[k] # 0, Close(k), UNCHANGED fd
  PROVE  /\ file' \in [Fds -> Conns \cup {NoConn}]
         /\ closed' = [closed EXCEPT ![k] = TRUE]
         /\ OwnsItsNumber'
         /\ NumbersHeld'
<1> USE DEF Inv, TypeOK
<1>1. fd[k] \in Fds
  OBVIOUS
<1>2. CASE closed[k]
  BY <1>2 DEF Close, MayClose, OwnsItsNumber, Denoted, NumbersHeld
<1>3. CASE ~closed[k]
  <2>1. /\ closed' = [closed EXCEPT ![k] = TRUE]
        /\ file' = [file EXCEPT ![fd[k]] = NoConn]
    BY <1>3 DEF Close, MayClose
  <2>2. file[fd[k]] = k
    BY <1>1, <1>3, FdTableAssumption DEF OwnsItsNumber, Denoted
  <2>3. OwnsItsNumber'
    <3> SUFFICES ASSUME NEW j \in Conns, fd[j] # 0, ~closed'[j]
                 PROVE  file'[fd[j]] = j
      BY DEF OwnsItsNumber, Denoted
    <3>1. j # k /\ file[fd[j]] = j /\ fd[j] \in Fds
      BY <2>1 DEF OwnsItsNumber, Denoted
    <3>2. fd[j] # fd[k]
      BY <2>2, <3>1
    <3> QED BY <2>1, <3>1, <3>2
  <2>4. NumbersHeld'
    <3> SUFFICES ASSUME NEW f \in Fds, file'[f] # NoConn
                 PROVE  fd[file'[f]] = f /\ ~closed'[file'[f]]
      BY DEF NumbersHeld
    <3>1. f # fd[k] /\ file'[f] = file[f]
      BY <1>1, <2>1
    <3>2. file[f] \in Conns /\ fd[file[f]] = f /\ ~closed[file[f]]
      BY <3>1 DEF NumbersHeld
    <3>3. file[f] # k
      BY <3>1, <3>2
    <3> QED BY <2>1, <3>1, <3>2, <3>3
  <2> QED BY <2>1, <2>3, <2>4
<1> QED BY <1>2, <1>3

\* Every step keeps the invariant.
LEMMA InvStep == Inv /\ [Next]_vars => Inv'
<1> SUFFICES ASSUME Inv, [Next]_vars
             PROVE  Inv'
  OBVIOUS
<1> USE FdTableAssumption DEF Inv, TypeOK, PCs, Shaking
<1>1. ASSUME NEW k \in Conns, Dial(k)
      PROVE  Inv'
  <2>9. CASE UNCHANGED fd
    <3>1. /\ pc[k] = "dial" /\ pc' = [pc EXCEPT ![k] = "end"]
          /\ UNCHANGED <<file, fd, closed, polled, hello, data, expired>>
      <4>1. ASSUME Free # {}, fd' = [fd EXCEPT ![k] = Lowest]
            PROVE  pc[k] # "dial"
        <5>1. Lowest # 0
          BY <4>1, LowestIsFree DEF Free
        <5> QED BY <2>9, <4>1, <5>1 DEF Numbered
      <4> QED BY <1>1, <4>1 DEF Dial
    <3>2. fd[k] = 0
      BY <3>1 DEF Numbered
    <3> QED
      BY <3>1, <3>2
      DEF OwnsItsNumber, Denoted, NumbersHeld, Numbered, EndedClosed
  <2>10. CASE ~UNCHANGED fd
    <3> DEFINE new == Lowest
    <3>1. new \in Fds /\ file[new] = NoConn
      BY <1>1, <2>10, LowestIsFree DEF Dial, Free
    <3>2. /\ file' = [file EXCEPT ![new] = k]
          /\ fd' = [fd EXCEPT ![k] = new]
          /\ pc' = [pc EXCEPT ![k] = "connect"]
          /\ pc[k] = "dial"
          /\ UNCHANGED <<closed, polled, hello, data, expired>>
      BY <1>1, <2>10 DEF Dial
    <3> HIDE DEF new
    <3>3. TypeOK'
      BY <3>1, <3>2
    <3>4. fd[k] = 0 /\ ~closed[k]
      BY <3>2 DEF Numbered
    <3>5. OwnsItsNumber'
      BY <3>1, <3>2 DEF OwnsItsNumber, Denoted
    <3>6. NumbersHeld'
      <4> SUFFICES ASSUME NEW f \in Fds, file'[f] # NoConn
                   PROVE  fd'[file'[f]] = f /\ ~closed[file'[f]]
        BY <3>2 DEF NumbersHeld
      <4>1. CASE f = new
        BY <3>1, <3>2, <3>4, <4>1
      <4>2. CASE f # new
        <5>1. /\ file'[f] = file[f] /\ file[f] \in Conns
              /\ fd[file[f]] = f /\ ~closed[file[f]]
          BY <3>2, <4>2 DEF NumbersHeld
        <5>2. file[f] # k
          BY <3>4, <5>1
        <5> QED BY <3>2, <5>1, <5>2
      <4> QED BY <4>1, <4>2
    <3>7. Numbered'
      BY <3>1, <3>2 DEF Numbered
    <3>8. EndedClosed'
      BY <3>2 DEF EndedClosed
    <3> QED BY <3>3, <3>5, <3>6, <3>7, <3>8
  <2> QED BY <2>9, <2>10
<1>2. ASSUME NEW k \in Conns,
             \/ Connect(k) \/ Write(k) \/ Wait(k) \/ Interrupted(k)
             \/ PollReports(k) \/ Read(k) \/ Answer(k)
      PROVE  Inv'
  <2>1. TypeOK'
    <3>1. CASE Wait(k)
      <4>1. fd[k] \in Fds
        BY <3>1 DEF Wait, Numbered
      <4>2. Denoted(k) \in Conns \cup {NoConn}
        BY <4>1 DEF Denoted
      <4> QED BY <3>1, <4>2 DEF Wait
    <3>2. CASE Interrupted(k)
      BY <3>2 DEF Interrupted
    <3>3. CASE PollReports(k)
      BY <3>3 DEF PollReports
    <3>4. CASE Read(k)
      BY <3>4 DEF Read
    <3>5. CASE Answer(k)
      BY <3>5 DEF Answer
    <3>6. CASE Connect(k)
      BY <3>6 DEF Connect
    <3>7. CASE Write(k)
      BY <3>7 DEF Write
    <3> QED BY <1>2, <3>1, <3>2, <3>3, <3>4, <3>5, <3>6, <3>7
  <2>2. UNCHANGED <<file, fd, closed>>
    BY <1>2 DEF Connect, Write, Wait, Interrupted, PollReports, Read, Answer
  <2>3. /\ pc[k] \in Shaking \cup {"connect"}
        /\ \E to \in Shaking \cup {"fail", "up"} :
             pc' = [pc EXCEPT ![k] = to]
    <3>1. CASE Wait(k)
      BY <3>1 DEF Wait
    <3>2. CASE Interrupted(k)
      BY <3>2 DEF Interrupted
    <3>3. CASE PollReports(k)
      BY <3>3 DEF PollReports
    <3>4. CASE Read(k)
      BY <3>4 DEF Read
    <3>5. CASE Answer(k)
      <4>1. pc' = [pc EXCEPT ![k] = pc[k]]
        BY <3>5 DEF Answer
      <4> QED BY <3>5, <4>1 DEF Answer
    <3>6. CASE Connect(k)
      BY <3>6 DEF Connect
    <3>7. CASE Write(k)
      BY <3>7 DEF Write
    <3> QED BY <1>2, <3>1, <3>2, <3>3, <3>4, <3>5, <3>6, <3>7
  <2> QED
    BY <2>1, <2>2, <2>3
    DEF OwnsItsNumber, Denoted, NumbersHeld, Numbered, EndedClosed
<1>3. ASSUME NEW k \in Conns, Expire(k)
      PROVE  Inv'
  <2>1. OwnsItsNumber' /\ NumbersHeld' /\ closed' = [closed EXCEPT ![k] = TRUE]
        /\ file' \in [Fds -> Conns \cup {NoConn}]
    BY <1>3, CloseFrees DEF Expire, Numbered
  <2> QED BY <1>3, <2>1 DEF Expire, Numbered, EndedClosed
<1>4. ASSUME NEW k \in Conns, ConnectFails(k) \/ DialFails(k) \/ SessionEnds(k)
      PROVE  Inv'
  <2>1. OwnsItsNumber' /\ NumbersHeld' /\ closed' = [closed EXCEPT ![k] = TRUE]
        /\ file' \in [Fds -> Conns \cup {NoConn}]
    BY <1>4, CloseFrees DEF ConnectFails, DialFails, SessionEnds, Numbered
  <2> QED
    BY <1>4, <2>1
    DEF ConnectFails, DialFails, SessionEnds, Numbered, EndedClosed
<1>5. CASE UNCHANGED vars
  BY <1>5
  DEF vars, OwnsItsNumber, Denoted, NumbersHeld, Numbered, EndedClosed
<1> QED
  BY <1>1, <1>2, <1>3, <1>4, <1>5 DEF Next, Step, AllEnded

LEMMA Inductive == Spec => []Inv
BY InvInit, InvStep, PTL DEF Spec

-------------------------------------------------------------------------------
(* Theorems *)

\* The descriptor table and the connections keep their types.
THEOREM TypesKept == Spec => []TypeOK
<1>1. Inv => TypeOK
  BY DEF Inv
<1> QED BY <1>1, Inductive, PTL

(***************************************************************************)
(* No Close, of an expired handshake, of a failed Dial or of a session,    *)
(* takes the number from under a connection that is open                   *)
(* (sctpkernel_linux.go:496-504).                                          *)
(***************************************************************************)
THEOREM OpenKeepsItsSocket == Spec => []OwnsItsNumber
<1>1. Inv => OwnsItsNumber
  BY DEF Inv
<1> QED BY <1>1, Inductive, PTL

(***************************************************************************)
(* A connection whose handshake and session are over has given its number  *)
(* back, whichever of the ctx, Dial and the session's owner closed it.     *)
(***************************************************************************)
THEOREM NumbersComeBack == Spec => []NoneLeaked
<1>1. Inv => NoneLeaked
  <2> SUFFICES ASSUME Inv, \A k \in Conns : pc[k] = "end",
                      NEW f \in Fds, file[f] # NoConn
               PROVE  FALSE
    BY DEF NoneLeaked, Free
  <2>1. file[f] \in Conns /\ fd[file[f]] = f /\ ~closed[file[f]]
    BY DEF Inv, TypeOK, NumbersHeld
  <2>2. f # 0
    BY FdTableAssumption
  <2> QED BY <2>1, <2>2 DEF Inv, EndedClosed
<1> QED BY <1>1, Inductive, PTL
===============================================================================
