----------------------------- MODULE StreamFraming -----------------------------
(***************************************************************************)
(* How the quic and the sctp-kernel backend cut frames out of a byte       *)
(* stream: channel.Send and channel.Recv over one direction of one         *)
(* session, one call of each at a time (load.go and amf.go use a channel   *)
(* from one goroutine).                                                    *)
(*                                                                         *)
(* A frame is a header, from which Recv learns the length of the rest, and *)
(* a body of that length.  The header is the 4-byte length in front of     *)
(* what wire.Encode made for quic, and the first 26 bytes of that for      *)
(* sctp-kernel.  A byte is the frame it belongs to and its position there; *)
(* magic and version are told from all other bytes by that position, so a  *)
(* payload that has the magic within it is left out.                       *)
(***************************************************************************)
EXTENDS Naturals, Sequences, FiniteSets

CONSTANTS
  Header,     \* bytes of a header
  Body,       \* Body[i]: bytes of the body of the i-th frame that is sent
  MaxBody,    \* the largest body
  Window,     \* bytes that may be in transit: socket buffers, flow control
  Offsets,    \* bytes of a frame in front of what Decode gets, per backend:
              \* none for sctp-kernel, the header for quic
  Mark,       \* bytes that Decode compares: magic and version
  Timeouts    \* whether the ctx of the calls has a deadline; both to try both

Frames == 1 .. Len(Body)

ASSUME FramingAssumption ==
  /\ Header \in Nat \ {0}
  /\ Window \in Nat \ {0}
  /\ MaxBody \in Nat
  /\ Body \in Seq(0 .. MaxBody)
  /\ Offsets \subseteq {0, Header}
  /\ Mark \in Nat \ {0}
  /\ Timeouts \subseteq BOOLEAN

VARIABLES
  offset,     \* which backend it is
  timed,      \* the calls have a deadline
  started,    \* how many frames Send was called for
  unsent,     \* the bytes that the running Send has not written
  stream,     \* the bytes written and not read
  buf,        \* the bytes that the running Recv has read
  need,       \* how many bytes the running Recv still needs; 0 if none runs
  inBody,     \* the running Recv has a complete header
  returned,   \* the byte strings that Recv returned
  complete,   \* the frames whose Send returned nil
  torn        \* some call timed out with a frame partly written or partly read

sender == <<started, unsent, complete>>
receiver == <<buf, need, inBody, returned>>
vars == <<offset, timed, sender, stream, receiver, torn>>

Bytes(i) == [k \in 1 .. Header + Body[i] |-> <<i, k>>]

Byte == Frames \X Nat

TypeOK ==
  /\ offset \in Offsets
  /\ timed \in BOOLEAN
  /\ started \in Nat
  /\ unsent \in Seq(Byte)
  /\ stream \in Seq(Byte)
  /\ buf \in Seq(Byte)
  /\ need \in Nat
  /\ inBody \in BOOLEAN
  /\ returned \in Seq(Seq(Byte))
  /\ complete \subseteq Frames
  /\ torn \in BOOLEAN

Init ==
  /\ offset \in Offsets
  /\ timed \in Timeouts
  /\ started = 0
  /\ unsent = << >>
  /\ stream = << >>
  /\ buf = << >>
  /\ need = 0
  /\ inBody = FALSE
  /\ returned = << >>
  /\ complete = {}
  /\ torn = FALSE

-------------------------------------------------------------------------------
(* Send *)

\* The caller calls Send with the next frame.
Send ==
  /\ unsent = << >>
  /\ started + 1 \in Frames
  /\ started' = started + 1
  /\ unsent' = Bytes(started + 1)
  /\ UNCHANGED <<offset, timed, complete, stream, receiver, torn>>

MutShortWrite(n) == << >>

\* The loop writes what a Write left over.
AfterWrite(n) == SubSeq(unsent, n + 1, Len(unsent))

\* One Write: it takes as many bytes as there is room for, at least one.
Write ==
  /\ unsent # << >>
  /\ \E n \in 1 .. Len(unsent) :
       /\ Len(stream) + n <= Window
       /\ stream' = stream \o SubSeq(unsent, 1, n)
       /\ unsent' = AfterWrite(n)
  /\ complete' = IF unsent' = << >> THEN complete \cup {started} ELSE complete
  /\ UNCHANGED <<offset, timed, started, receiver, torn>>

\* The write deadline passes; what was written stays written.
SendTimeout ==
  /\ timed
  /\ unsent # << >>
  /\ unsent' = << >>
  /\ torn' = (torn \/ Len(unsent) < Header + Body[started])
  /\ UNCHANGED <<offset, timed, started, complete, stream, receiver>>

-------------------------------------------------------------------------------
(* Recv *)

\* The caller calls Recv.
Recv ==
  /\ need = 0
  /\ buf' = << >>
  /\ need' = Header
  /\ inBody' = FALSE
  /\ UNCHANGED <<offset, timed, sender, stream, returned, torn>>

MutOneRead(n) == 0

MutOffByOne(n) == need - n - 1

\* ReadFull reads until it has what was asked for.
StillNeeded(n) == need - n

MutPeek(n) == stream

\* Reading takes the bytes off the stream.
Rest(n) == SubSeq(stream, n + 1, Len(stream))

(***************************************************************************)
(* One Read of ReadFull that does not complete the header or the body: it  *)
(* returns some of the bytes that have arrived.                            *)
(***************************************************************************)
ReadSome ==
  \E n \in 1 .. need :
    /\ n <= Len(stream)
    /\ StillNeeded(n) # 0
    /\ buf' = buf \o SubSeq(stream, 1, n)
    /\ stream' = Rest(n)
    /\ need' = StillNeeded(n)
    /\ UNCHANGED <<offset, timed, sender, inBody, returned, torn>>

\* The lengths that a header says: that of its frame if it is one, and
\* anything if it consists of bytes from elsewhere.
Lengths(header) ==
  LET i == header[1][1]
  IN  IF header = SubSeq(Bytes(i), 1, Header) THEN {Body[i]} ELSE 0 .. MaxBody

(***************************************************************************)
(* The Read that completes the header.  Recv returns if there is no body,  *)
(* gives up if the length is refused, which only quic does, and reads the  *)
(* body otherwise.                                                         *)
(***************************************************************************)
ReadHeader ==
  /\ ~inBody
  /\ \E n \in 1 .. need :
       /\ n <= Len(stream)
       /\ StillNeeded(n) = 0
       /\ LET header == buf \o SubSeq(stream, 1, n)
          IN  \/ \E len \in Lengths(header) :
                   /\ buf' = header
                   /\ need' = len
                   /\ inBody' = (len > 0)
                   /\ returned' = IF len = 0 THEN Append(returned, header)
                                  ELSE returned
              \/ /\ offset # 0
                 /\ header # SubSeq(Bytes(header[1][1]), 1, Header)
                 /\ need' = 0
                 /\ UNCHANGED <<buf, inBody, returned>>
       /\ stream' = Rest(n)
  /\ UNCHANGED <<offset, timed, sender, torn>>

\* The Read that completes the body: Recv returns it.
ReadBody ==
  /\ inBody
  /\ \E n \in 1 .. need :
       /\ n <= Len(stream)
       /\ StillNeeded(n) = 0
       /\ returned' = Append(returned, buf \o SubSeq(stream, 1, n))
       /\ stream' = Rest(n)
  /\ buf' = << >>
  /\ need' = 0
  /\ inBody' = FALSE
  /\ UNCHANGED <<offset, timed, sender, torn>>

\* The read deadline passes; what ReadFull has read is lost.
RecvTimeout ==
  /\ timed
  /\ need > 0
  /\ torn' = (torn \/ buf # << >>)
  /\ buf' = << >>
  /\ need' = 0
  /\ inBody' = FALSE
  /\ UNCHANGED <<offset, timed, sender, stream, returned>>

SendStep == Write \/ SendTimeout
RecvStep == ReadSome \/ ReadHeader \/ ReadBody \/ RecvTimeout

Next == Send \/ SendStep \/ Recv \/ RecvStep

Spec == Init /\ [][Next]_vars

\* The goroutines run, and the receiver keeps calling Recv.
FairSpec == /\ Spec
            /\ WF_vars(SendStep)
            /\ WF_vars(Recv)
            /\ WF_vars(ReadSome \/ ReadHeader \/ ReadBody)

-------------------------------------------------------------------------------
(* Properties *)

\* A byte string is one whole frame.
Whole(s) == s # << >> /\ s[1][1] \in Frames /\ s = Bytes(s[1][1])

(***************************************************************************)
(* wire.Decode accepts a byte string: the bytes where it looks for magic   *)
(* and version are such bytes of some frames.  What stands behind them may *)
(* come from anywhere; a payload length read there is taken to fit.        *)
(***************************************************************************)
Decodes(s) ==
  /\ Len(s) >= offset + Mark
  /\ \A k \in 1 .. Mark : s[offset + k][2] = offset + k

\* A byte string that is decoded although it is not one frame.
Joint(s) == Decodes(s) /\ ~Whole(s)

\* The Send of frame i has returned an error.
Failed(i) ==
  i \in 1 .. started /\ i \notin complete /\ ~(i = started /\ unsent # << >>)

(***************************************************************************)
(* As long as no deadline cut a call short, Recv returns only frames that  *)
(* were sent, whole and in order (sctpkernel_linux.go:221-261,             *)
(* quic.go:133-160).                                                       *)
(***************************************************************************)
DeliversInOrder ==
  ~torn => \A k \in 1 .. Len(returned) : Whole(returned[k])
             /\ (k > 1 => returned[k - 1][1][1] < returned[k][1][1])

(***************************************************************************)
(* Wherever the deadlines cut, and however far off the frame boundary Recv *)
(* has come (quic.go:143-160, sctpkernel_linux.go:243-261), what Decode    *)
(* accepts begins where a frame begins, and no two accepted strings begin  *)
(* with the same frame or in another order than the frames were sent in.   *)
(***************************************************************************)
AcceptsGenuine ==
  \A k \in 1 .. Len(returned) : Decodes(returned[k]) =>
    /\ returned[k][1][2] = 1
    /\ \A j \in 1 .. k - 1 :
         Decodes(returned[j]) => returned[j][1][1] < returned[k][1][1]

(***************************************************************************)
(* Decode may accept what is not a frame, as it checks no more than magic, *)
(* version and length (frame.go:45-73): the beginning of a frame whose     *)
(* write the deadline cut, and bytes of the next ones.  But only that: a   *)
(* frame whose Send returned nil is accepted whole or not at all, and one  *)
(* whose Send failed, a send error to its worker (load.go:75-77), never    *)
(* whole.                                                                  *)
(***************************************************************************)
AcceptsIntact ==
  \A k \in 1 .. Len(returned) : Decodes(returned[k]) =>
    LET i == returned[k][1][1]
    IN  \/ Whole(returned[k]) /\ i \in complete
        \/ Joint(returned[k]) /\ Failed(i) /\ torn

-------------------------------------------------------------------------------
(* The promise of the channel *)

\* The first byte of frame i has not been read, or it is the first byte of
\* what the running Recv has read.
InTransit(i) ==
  \/ \E k \in 1 .. Len(stream) : stream[k] = <<i, 1>>
  \/ need > 0 /\ buf # << >> /\ buf[1] = <<i, 1>>

ReceivedFrames ==
  {returned[k][1][1] : k \in {j \in 1 .. Len(returned) : Whole(returned[j])}}

JointFrames ==
  {returned[k][1][1] : k \in {j \in 1 .. Len(returned) : Joint(returned[j])}}

Channel == INSTANCE FrameChannel
  WITH sent <- complete,
       transit <- {i \in complete : InTransit(i)},
       received <- ReceivedFrames,
       joint <- JointFrames

(***************************************************************************)
(* Partial writes, partial reads and deadlines inside frames amount to     *)
(* FrameChannel (quic.go:126-161, sctpkernel_linux.go:213-263): an         *)
(* undisturbed channel is a queue, and a torn one loses frames and may     *)
(* hand on joints of the frames that failed, each in its place.            *)
(***************************************************************************)
ImplementsChannel == Channel!Spec

(***************************************************************************)
(* Without deadlines, a Send that has begun ends, and its frame is         *)
(* received: the window never closes for good.                             *)
(***************************************************************************)
Delivered ==
  \A i \in Frames :
    started = i /\ ~timed
      ~> \E k \in 1 .. Len(returned) : returned[k] = Bytes(i)
===============================================================================
