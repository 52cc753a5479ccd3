--------------------------------- MODULE Wire ---------------------------------
(***************************************************************************)
(* The frame format of pkg/wire, shared by the gNB load generator and the  *)
(* AMF.  A frame is its message type and its SeqID.  SendTSNS, ChannelID   *)
(* and Payload are written and echoed together with SeqID in every frame   *)
(* literal of the program (load.go:73, load.go:150, amf.go:76), so SeqID   *)
(* stands for the four of them.                                            *)
(***************************************************************************)
EXTENDS Naturals

\* The three message types of the protocol.
MsgTypes == {"MsgReq", "MsgResp", "MsgFlood"}

Frame(type, id) == [msgType |-> type, seqID |-> id]

\* Bytes that Decode refuses (too short, wrong magic or version, truncated),
\* or whose message type nobody handles.
Garbage == [msgType |-> "garbage", seqID |-> 0]

\* Bytes that Recv does not hand to Decode, because they show a length above
\* maxQUICFrameSize where it expects one.
TooLong == [msgType |-> "too long", seqID |-> 0]

\* What a Recv finds on the channel.
Raw == [msgType : MsgTypes \cup {"garbage", "too long"}, seqID : Nat]

(***************************************************************************)
(* Decode returns err = nil: the bytes are long enough for a header and    *)
(* for the payload length in it, and begin with the magic and the version. *)
(* Whose bytes they are Decode cannot tell, so a message joined from two   *)
(* frames may decode.                                                      *)
(***************************************************************************)
Decodes(raw) == raw.msgType \in MsgTypes

MutTruncateLength(fits, type, id) == Frame(type, id)

(***************************************************************************)
(* Encode: a payload longer than 0xFFFF is refused and the buffer returned *)
(* is nil; both callers in load.go discard the error and send the nil      *)
(* buffer.  "fits" says that the payload is within the limit.  A nil       *)
(* buffer reaches the peer as no bytes at all (sctp-kernel writes nothing) *)
(* or as an empty message (quic writes its length prefix), never as a      *)
(* frame.                                                                  *)
(***************************************************************************)
Encode(fits, type, id) == IF fits THEN Frame(type, id) ELSE Garbage
===============================================================================
