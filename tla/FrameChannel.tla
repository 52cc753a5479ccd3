------------------------------ MODULE FrameChannel ------------------------------
(***************************************************************************)
(* What a stream backend promises for one direction of a session, without  *)
(* bytes.  Frames are numbered in the order of their Send, so sets of      *)
(* numbers have their order.  A frame whose Send returned nil is in        *)
(* transit; Recv hands on the oldest one.  Once a deadline has cut a call  *)
(* short inside a frame the channel is torn: from then on frames may be    *)
(* lost, and a joint may be handed on, the beginning of a frame whose Send *)
(* failed with bytes of later frames.  Nothing is handed on twice or       *)
(* overtaken.  This is what LoadRun assumes of its stream backends.        *)
(***************************************************************************)
EXTENDS Naturals

VARIABLES
  sent,      \* the frames whose Send returned nil
  transit,   \* those of them that are in transit
  received,  \* those that Recv returned
  joint,     \* the frames with which the joints began that Decode accepts
  torn       \* a call was cut short inside a frame

Init ==
  /\ sent = {}
  /\ transit = {}
  /\ received = {}
  /\ joint = {}
  /\ torn = FALSE

Send ==
  /\ \E i \in sent' :
       /\ i \in Nat
       /\ \A j \in sent \cup joint : j < i
       /\ sent' = sent \cup {i}
       /\ transit' = transit \cup {i} \/ (torn /\ transit' = transit)
  /\ UNCHANGED <<received, joint, torn>>

Receive ==
  /\ \E i \in transit :
       /\ \A j \in transit : i <= j
       /\ \A j \in received \cup joint : j < i
       /\ received' = received \cup {i}
       /\ transit' = transit \ {i}
  /\ UNCHANGED <<sent, joint, torn>>

\* The oldest frames in transit are lost.
Lose ==
  /\ transit' \subseteq transit
  /\ \A i \in transit \ transit', j \in transit' : i < j

\* A call is cut short, or frames are read past after one was.
Tear ==
  /\ torn' = TRUE
  /\ Lose
  /\ UNCHANGED <<sent, received, joint>>

\* Recv hands on a joint, with or without frames from transit in it.
Join ==
  /\ torn
  /\ \E i \in joint' \ sent :
       /\ i \in Nat
       /\ \A j \in received \cup joint : j < i
       /\ \A j \in transit' : i < j
       /\ joint' = joint \cup {i}
  /\ Lose
  /\ UNCHANGED <<sent, received, torn>>

Next == Send \/ Receive \/ Tear \/ Join

Spec == Init /\ [][Next]_<<sent, transit, received, joint, torn>>
===============================================================================
