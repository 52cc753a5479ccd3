-------------------------------- MODULE FdTable --------------------------------
(***************************************************************************)
(* The descriptors of the sctp-kernel sessions of one process, while their *)
(* TLS handshakes run.  tls.Conn.HandshakeContext watches its ctx from a   *)
(* second goroutine, which closes the fdConn under the first; the kernel   *)
(* gives the number of a closed descriptor to the next socket that is      *)
(* opened; and a poll that is blocked keeps waiting on the socket it was   *)
(* called for.                                                             *)
(***************************************************************************)
EXTENDS Naturals, FiniteSets

CONSTANTS
  Conns,   \* the fdConns of the process
  Fds,     \* descriptor numbers
  NoConn   \* no socket

ASSUME FdTableAssumption ==
  /\ Fds \subseteq Nat \ {0}
  /\ IsFiniteSet(Fds)
  /\ NoConn \notin Conns

VARIABLES
  file,     \* file[f]: whose socket the number f denotes, or NoConn
  fd,       \* fd[k]: the number that fdConn k holds, 0 before Dial
  closed,   \* fdConn.closed
  pc,       \* pc[k]: the goroutine that runs the handshake of k
  polled,   \* polled[k]: whose socket k's poll waits on
  hello,    \* hello[k]: who wrote the first bytes into k's socket, or NoConn
  data,     \* data[k]: the peer's answer has arrived at k's socket
  expired   \* expired[k]: the ctx of k's handshake is done

vars == <<file, fd, closed, pc, polled, hello, data, expired>>

\* In the handshake: to write the hello, then to wait for the answer.
Shaking == {"write", "wait", "poll", "read"}
PCs == Shaking \cup {"dial", "connect", "fail", "up", "end"}

TypeOK ==
  /\ file \in [Fds -> Conns \cup {NoConn}]
  /\ fd \in [Conns -> Fds \cup {0}]
  /\ closed \in [Conns -> BOOLEAN]
  /\ pc \in [Conns -> PCs]
  /\ polled \in [Conns -> Conns \cup {NoConn}]
  /\ hello \in [Conns -> Conns \cup {NoConn}]
  /\ data \in [Conns -> BOOLEAN]
  /\ expired \in [Conns -> BOOLEAN]

Init ==
  /\ file = [f \in Fds |-> NoConn]
  /\ fd = [k \in Conns |-> 0]
  /\ closed = [k \in Conns |-> FALSE]
  /\ pc = [k \in Conns |-> "dial"]
  /\ polled = [k \in Conns |-> NoConn]
  /\ hello = [k \in Conns |-> NoConn]
  /\ data = [k \in Conns |-> FALSE]
  /\ expired = [k \in Conns |-> FALSE]

-------------------------------------------------------------------------------
(* The kernel *)

Free == {f \in Fds : file[f] = NoConn}

\* A new socket gets the lowest free number.
Lowest == CHOOSE f \in Free : \A g \in Free : f <= g

MutNumber(k) == fd[k]

\* unix.Poll, unix.Read and unix.Write on the number that k holds.
Denoted(k) == file[fd[k]]

-------------------------------------------------------------------------------
(* The connection *)

\* Dial: an address that does not resolve, or no socket to be had; or a socket.
Dial(k) ==
  /\ pc[k] = "dial"
  /\ \/ /\ pc' = [pc EXCEPT ![k] = "end"]
        /\ UNCHANGED <<file, fd>>
     \/ /\ Free # {}
        /\ file' = [file EXCEPT ![Lowest] = k]
        /\ fd' = [fd EXCEPT ![k] = Lowest]
        /\ pc' = [pc EXCEPT ![k] = "connect"]
  /\ UNCHANGED <<closed, polled, hello, data, expired>>

\* The socket is connected: newFDConn; the handshake begins.
Connect(k) ==
  /\ pc[k] = "connect"
  /\ pc' = [pc EXCEPT ![k] = "write"]
  /\ UNCHANGED <<file, fd, closed, polled, hello, data, expired>>

MutAlwaysClose(k) == TRUE

MutKeepFailed(k) == ~closed[k] /\ pc[k] # "fail"

\* Close does nothing the second time.
MayClose(k) == ~closed[k]

\* fdConn.Close.
Close(k) ==
  IF MayClose(k)
    THEN /\ closed' = [closed EXCEPT ![k] = TRUE]
         /\ file' = [file EXCEPT ![fd[k]] = NoConn]
    ELSE UNCHANGED <<closed, file>>

\* An option, bind or connect failed: Dial closes the descriptor and returns.
ConnectFails(k) ==
  /\ pc[k] = "connect"
  /\ Close(k)
  /\ pc' = [pc EXCEPT ![k] = "end"]
  /\ UNCHANGED <<fd, polled, hello, data, expired>>

(***************************************************************************)
(* unix.Write of the hello: it fails when the number is free, and goes     *)
(* into whatever socket the number denotes by now.  (The poll before it    *)
(* finds room in a new socket at once and fails on a free number, too.)    *)
(***************************************************************************)
Write(k) ==
  /\ pc[k] = "write"
  /\ LET s == Denoted(k)
     IN  IF s = NoConn
           THEN pc' = [pc EXCEPT ![k] = "fail"] /\ UNCHANGED hello
           ELSE /\ pc' = [pc EXCEPT ![k] = "wait"]
                /\ hello' = [hello EXCEPT ![s] = IF @ = NoConn THEN k ELSE @]
  /\ UNCHANGED <<file, fd, closed, polled, data, expired>>

\* The handshake reads: wait enters poll with the number, whatever closed says.
Wait(k) ==
  /\ pc[k] = "wait"
  /\ IF Denoted(k) = NoConn
       THEN pc' = [pc EXCEPT ![k] = "fail"] /\ UNCHANGED polled
       ELSE /\ pc' = [pc EXCEPT ![k] = "poll"]
            /\ polled' = [polled EXCEPT ![k] = Denoted(k)]
  /\ UNCHANGED <<file, fd, closed, hello, data, expired>>

\* poll is interrupted by a signal: wait calls it again.
Interrupted(k) ==
  /\ pc[k] = "poll"
  /\ pc' = [pc EXCEPT ![k] = "wait"]
  /\ polled' = [polled EXCEPT ![k] = NoConn]
  /\ UNCHANGED <<file, fd, closed, hello, data, expired>>

\* poll reports data on the socket it was called for.
PollReports(k) ==
  /\ pc[k] = "poll"
  /\ data[polled[k]]
  /\ pc' = [pc EXCEPT ![k] = "read"]
  /\ polled' = [polled EXCEPT ![k] = NoConn]
  /\ UNCHANGED <<file, fd, closed, hello, data, expired>>

(***************************************************************************)
(* unix.Read on the number: it fails when the number is free, and takes    *)
(* the data of whatever socket the number denotes by now; without data it  *)
(* is tried again.  The peer's answer to its own hello completes a         *)
(* handshake that was not interrupted; any other data is refused.          *)
(***************************************************************************)
Read(k) ==
  /\ pc[k] = "read"
  /\ LET s == Denoted(k)
     IN  \/ /\ s = NoConn
            /\ pc' = [pc EXCEPT ![k] = "fail"]
            /\ UNCHANGED data
         \/ /\ s # NoConn /\ data[s]
            /\ data' = [data EXCEPT ![s] = FALSE]
            /\ \/ pc' = [pc EXCEPT ![k] = "fail"]
               \/ /\ s = k /\ hello[k] = k /\ ~expired[k]
                  /\ pc' = [pc EXCEPT ![k] = "up"]
         \/ /\ s # NoConn /\ ~data[s]
            /\ pc' = [pc EXCEPT ![k] = "wait"]
            /\ UNCHANGED data
  /\ UNCHANGED <<file, fd, closed, polled, hello, expired>>

\* The ctx of the handshake is done: its second goroutine closes the fdConn.
Expire(k) ==
  /\ pc[k] \in Shaking
  /\ ~expired[k]
  /\ expired' = [expired EXCEPT ![k] = TRUE]
  /\ Close(k)
  /\ UNCHANGED <<fd, pc, polled, hello, data>>

\* enableClientTLS failed: Dial closes the fdConn, too.
DialFails(k) ==
  /\ pc[k] = "fail"
  /\ Close(k)
  /\ pc' = [pc EXCEPT ![k] = "end"]
  /\ UNCHANGED <<fd, polled, hello, data, expired>>

\* The session was used and is closed.
SessionEnds(k) ==
  /\ pc[k] = "up"
  /\ Close(k)
  /\ pc' = [pc EXCEPT ![k] = "end"]
  /\ UNCHANGED <<fd, polled, hello, data, expired>>

\* The peer answers the hello that it got first, whoever wrote it.
Answer(k) ==
  /\ pc[k] \in Shaking
  /\ hello[k] # NoConn
  /\ ~data[k]
  /\ data' = [data EXCEPT ![k] = TRUE]
  /\ UNCHANGED <<file, fd, closed, pc, polled, hello, expired>>

Step(k) ==
  \/ Dial(k) \/ Connect(k) \/ ConnectFails(k) \/ Write(k)
  \/ Wait(k) \/ Interrupted(k) \/ PollReports(k) \/ Read(k)
  \/ DialFails(k) \/ SessionEnds(k)

AllEnded == (\A k \in Conns : pc[k] = "end") /\ UNCHANGED vars

Next ==
  \/ \E k \in Conns : Step(k) \/ Expire(k) \/ Answer(k)
  \/ AllEnded

Spec == Init /\ [][Next]_vars

\* The goroutines run and the timers fire; a peer may stay silent, and no
\* signal is promised.
FairSpec ==
  /\ Spec
  /\ \A k \in Conns :
       /\ WF_vars(\/ Dial(k) \/ Connect(k) \/ ConnectFails(k) \/ Write(k)
                  \/ Wait(k) \/ PollReports(k) \/ Read(k)
                  \/ DialFails(k) \/ SessionEnds(k))
       /\ WF_vars(Expire(k))

-------------------------------------------------------------------------------
(* Properties *)

(***************************************************************************)
(* An fdConn that is not closed holds a number that denotes its own socket *)
(* (sctpkernel_linux.go:496-504): no close, of the interrupter, of a       *)
(* failed Dial or of a session, ever hits the socket that another          *)
(* connection has got under the same number.  Of reads and writes under a  *)
(* number that was given away nothing of the kind can be said: Read and    *)
(* Write of a closed fdConn do take data from, and put bytes into, the     *)
(* socket of an open one.                                                  *)
(***************************************************************************)
OwnsItsNumber ==
  \A k \in Conns : fd[k] # 0 /\ ~closed[k] => Denoted(k) = k

\* Every number is given back when every connection has ended.
NoneLeaked ==
  (\A k \in Conns : pc[k] = "end") => Free = Fds

(***************************************************************************)
(* The timeout of the handshake ends it (config.example.yaml:              *)
(* "connect_timeout: 5s").                                                 *)
(***************************************************************************)
TimeoutEndsHandshake ==
  \A k \in Conns : expired[k] ~> pc[k] = "end"
===============================================================================
