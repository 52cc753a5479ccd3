-------------------------- MODULE StreamFramingProofs --------------------------
(***************************************************************************)
(* Theorems about StreamFraming, for frames and windows of any size and    *)
(* deadlines that pass anywhere: what Recv returns and Decode accepts is   *)
(* a frame, whole, or a joint that begins with a frame whose Send failed,  *)
(* each in its place in the order of the Sends; and without a torn frame   *)
(* nothing but whole frames is returned.                                   *)
(*                                                                         *)
(* The bytes of a direction form a pipe: what the running Recv has read,   *)
(* what is in transit, and what the running Send has left to write.  Send  *)
(* adds a frame at its end; a deadline cuts a piece off one of its ends,   *)
(* and a Recv that returns takes its bytes from the front.  Every other    *)
(* step leaves the pipe as it is.                                          *)
(***************************************************************************)
EXTENDS StreamFraming, SequenceTheorems, TLAPS

Size(i) == Header + Body[i]

Live == IF need > 0 THEN buf ELSE << >>

\* The bytes that have been written and are not lost.
Front == Live \o stream

Pipe == Front \o unsent

Before(a, b) == a[1] < b[1] \/ (a[1] = b[1] /\ a[2] < b[2])

\* Every byte is one of the first n frames.
Known(s, n) ==
  \A p \in 1 .. Len(s) : s[p][1] \in 1 .. n /\ s[p][2] \in 1 .. Size(s[p][1])

Rising(s) == \A p, q \in 1 .. Len(s) : p < q => Before(s[p], s[q])

\* Every byte has the rest of its frame around it.
Unbroken(s) ==
  \A p \in 1 .. Len(s) : \A k \in 1 .. Size(s[p][1]) :
    /\ (p - s[p][2]) + k \in 1 .. Len(s)
    /\ s[(p - s[p][2]) + k] = <<s[p][1], k>>

\* t is what s has behind its first d bytes, or the beginning of that.
Piece(t, s, d) ==
  /\ Len(t) + d <= Len(s)
  /\ \A p \in 1 .. Len(t) : t[p] = s[p + d]

-------------------------------------------------------------------------------
(* Byte strings *)

LEMMA SizeType == \A i \in Frames : Size(i) \in Nat \ {0} /\ Body[i] \in 0 .. MaxBody
BY FramingAssumption DEF Size, Frames

LEMMA BytesType ==
  ASSUME NEW i \in Frames
  PROVE  /\ Bytes(i) \in Seq(Byte)
         /\ Len(Bytes(i)) = Size(i)
         /\ \A k \in 1 .. Size(i) : Bytes(i)[k] = <<i, k>>
         /\ Bytes(i) # << >>
<1>1. Size(i) \in Nat \ {0}
  BY SizeType
<1>2. Bytes(i) = [k \in 1 .. Size(i) |-> <<i, k>>]
  BY DEF Bytes, Size
<1>3. \A k \in 1 .. Size(i) : <<i, k>> \in Byte
  BY <1>1 DEF Byte
<1>4. Bytes(i) \in Seq(Byte) /\ Len(Bytes(i)) = Size(i)
  BY <1>1, <1>2, <1>3
<1> QED
  BY <1>1, <1>2, <1>4

\* Moving the first n bytes of one string to the end of another changes
\* nothing of their concatenation.
LEMMA Moved ==
  ASSUME NEW a \in Seq(Byte), NEW b \in Seq(Byte), NEW n \in 1 .. Len(b)
  PROVE  /\ SubSeq(b, 1, n) \in Seq(Byte)
         /\ Len(SubSeq(b, 1, n)) = n
         /\ SubSeq(b, n + 1, Len(b)) \in Seq(Byte)
         /\ Len(SubSeq(b, n + 1, Len(b))) = Len(b) - n
         /\ (a \o SubSeq(b, 1, n)) \o SubSeq(b, n + 1, Len(b)) = a \o b
<1> DEFINE x == SubSeq(b, 1, n)
           y == SubSeq(b, n + 1, Len(b))
<1>1. x \in Seq(Byte) /\ Len(x) = n /\ y \in Seq(Byte) /\ Len(y) = Len(b) - n
  OBVIOUS
<1>2. x \o y = b
  <2>1. 1 \in 1 .. Len(b) + 1 /\ n \in 1 - 1 .. Len(b) /\ Len(b) \in n .. Len(b)
    OBVIOUS
  <2>2. SubSeq(b, 1, n) \o SubSeq(b, n + 1, Len(b)) = SubSeq(b, 1, Len(b))
    BY <2>1, ConcatAdjacentSubSeq
  <2>3. SubSeq(b, 1, Len(b)) = b
    BY SubSeqFull
  <2> QED
    BY <2>2, <2>3
<1> HIDE DEF x, y
<1>3. (a \o x) \o y = a \o (x \o y)
  <2>1. a \in Seq(Byte) /\ x \in Seq(Byte) /\ y \in Seq(Byte)
    BY <1>1
  <2> QED
    BY <2>1
<1>4. (a \o x) \o y = a \o b
  BY <1>2, <1>3
<1> QED
  BY <1>1, <1>4 DEF x, y

\* Cutting strings off either end.
LEMMA Pieces ==
  ASSUME NEW a \in Seq(Byte), NEW b \in Seq(Byte)
  PROVE  /\ a \o b \in Seq(Byte)
         /\ Len(a \o b) = Len(a) + Len(b)
         /\ Piece(a, a \o b, 0)
         /\ Piece(b, a \o b, Len(a))
BY ConcatProperties DEF Piece

LEMMA Associates ==
  ASSUME NEW a \in Seq(Byte), NEW b \in Seq(Byte), NEW c \in Seq(Byte)
  PROVE  (a \o b) \o c = a \o (b \o c)
OBVIOUS

LEMMA PieceAt ==
  ASSUME NEW s \in Seq(Byte), NEW t \in Seq(Byte), NEW d \in Nat, Piece(t, s, d)
  PROVE  \A p \in 1 .. Len(t) : p + d \in 1 .. Len(s) /\ t[p] = s[p + d]
BY DEF Piece

LEMMA KnownAt ==
  ASSUME NEW s \in Seq(Byte), NEW n \in 0 .. Len(Body), Known(s, n),
         NEW p \in 1 .. Len(s)
  PROVE  s[p][1] \in Frames /\ s[p][2] \in 1 .. Size(s[p][1])
<1>1. Len(Body) \in Nat
  BY FramingAssumption
<1>2. 1 .. n \subseteq Frames
  BY <1>1 DEF Frames
<1> QED
  BY <1>2 DEF Known

\* Integers are moved from one side of a sum to the other.
LEMMA Sums ==
  ASSUME NEW a \in Int, NEW b \in Int, NEW c \in Int, NEW d \in Int
  PROVE  /\ ((a + d) - b) + c = ((a - b) + c) + d
         /\ (a - b) + (c + d) = (a - (b - d)) + c
OBVIOUS

LEMMA PieceKeeps ==
  ASSUME NEW s \in Seq(Byte), NEW t \in Seq(Byte), NEW d \in Nat, NEW n \in Nat,
         Piece(t, s, d), Known(s, n), Rising(s)
  PROVE  Known(t, n) /\ Rising(t)
<1>1. \A p \in 1 .. Len(t) : p + d \in 1 .. Len(s) /\ t[p] = s[p + d]
  BY DEF Piece
<1>2. Known(t, n)
  BY <1>1 DEF Known
<1>3. ASSUME NEW p \in 1 .. Len(t), NEW q \in 1 .. Len(t), p < q
      PROVE  Before(t[p], t[q])
  <2>1. Before(s[p + d], s[q + d])
    BY <1>1, <1>3 DEF Rising
  <2> QED
    BY <1>1, <2>1
<1> QED
  BY <1>2, <1>3 DEF Rising

\* An unbroken string begins with a whole frame.
LEMMA FirstFrame ==
  ASSUME NEW s \in Seq(Byte), NEW n \in 0 .. Len(Body), Known(s, n), Unbroken(s),
         s # << >>
  PROVE  /\ s[1][1] \in Frames
         /\ Size(s[1][1]) <= Len(s)
         /\ \A k \in 1 .. Size(s[1][1]) : s[k] = <<s[1][1], k>>
<1>1. 1 \in 1 .. Len(s) /\ Len(s) \in Nat
  OBVIOUS
<1>2. s[1][1] \in Frames /\ s[1][2] \in 1 .. Size(s[1][1])
  BY <1>1, FramingAssumption DEF Known, Frames
<1>3. Size(s[1][1]) \in Nat \ {0}
  BY <1>2, SizeType
<1>4. \A k \in 1 .. Size(s[1][1]) :
        /\ (1 - s[1][2]) + k \in 1 .. Len(s)
        /\ s[(1 - s[1][2]) + k] = <<s[1][1], k>>
  BY <1>1 DEF Unbroken
<1>5. s[1][2] = 1
  <2>1. (1 - s[1][2]) + 1 \in 1 .. Len(s)
    BY <1>3, <1>4
  <2> QED
    BY <1>1, <1>2, <1>3, <2>1
<1>6. \A k \in 1 .. Size(s[1][1]) : k \in 1 .. Len(s) /\ s[k] = <<s[1][1], k>>
  BY <1>3, <1>4, <1>5
<1> QED
  BY <1>1, <1>2, <1>3, <1>6

\* What follows a whole frame is unbroken if all of it was.
LEMMA CutFirst ==
  ASSUME NEW s \in Seq(Byte), NEW t \in Seq(Byte), NEW n \in 0 .. Len(Body),
         Known(s, n), Unbroken(s), s # << >>,
         Piece(t, s, Size(s[1][1])), Len(t) + Size(s[1][1]) = Len(s)
  PROVE  Unbroken(t)
<1> DEFINE D == Size(s[1][1])
<1>1. /\ s[1][1] \in Frames
      /\ \A k \in 1 .. D : s[k] = <<s[1][1], k>>
  BY FirstFrame
<1>2. D \in Nat \ {0} /\ Len(t) \in Nat /\ Len(s) \in Nat /\ Len(t) + D = Len(s)
  BY <1>1, SizeType
<1>3. \A p \in 1 .. Len(t) : t[p] = s[p + D]
  BY DEF Piece
<1> HIDE DEF D
<1> SUFFICES ASSUME NEW p \in 1 .. Len(t), NEW k \in 1 .. Size(t[p][1])
             PROVE  /\ (p - t[p][2]) + k \in 1 .. Len(t)
                    /\ t[(p - t[p][2]) + k] = <<t[p][1], k>>
  BY DEF Unbroken
<1>4. p + D \in 1 .. Len(s) /\ s[p + D] = t[p]
  BY <1>2, <1>3
<1>5. t[p][1] \in Frames /\ t[p][2] \in 1 .. Size(t[p][1])
  BY <1>4, KnownAt
<1>6. Size(t[p][1]) \in Nat
  BY <1>5, SizeType
<1> DEFINE q == ((p + D) - t[p][2]) + k
<1>7. q \in 1 .. Len(s) /\ s[q] = <<t[p][1], k>>
  BY <1>4 DEF Unbroken
<1>8. q > D
  <2> SUFFICES ASSUME q <= D PROVE FALSE
    BY <1>2, <1>7
  <2>1. s[q] = <<s[1][1], q>>
    BY <1>1, <1>2, <1>7 DEF D
  <2>2. t[p][1] = s[1][1] /\ q = k
    BY <1>7, <2>1
  <2>3. Size(t[p][1]) = D
    BY <2>2 DEF D
  <2>4. t[p][2] \in 1 .. D /\ k \in Int
    BY <1>5, <1>6, <2>3
  <2>5. ((p + D) - t[p][2]) + k = k
    BY <2>2
  <2> DEFINE b == t[p][2]
  <2>6. b \in Int /\ b <= D /\ p \in Int /\ p >= 1 /\ D \in Int /\ k \in Int
    BY <1>2, <2>4
  <2>7. ((p + D) - b) + k = k
    BY <2>5
  <2> HIDE DEF b, q
  <2> QED
    BY <2>6, <2>7
<1>9. q = ((p - t[p][2]) + k) + D
  <2>1. p \in Int /\ D \in Int /\ t[p][2] \in Int /\ k \in Int
    BY <1>2, <1>5, <1>6
  <2> QED
    BY <2>1, Sums
<1>10. (p - t[p][2]) + k \in 1 .. Len(t)
  <2> DEFINE r == (p - t[p][2]) + k
  <2>1. r \in Int /\ q = r + D
    BY <1>5, <1>6, <1>9
  <2> HIDE DEF q, r
  <2>2. r \in 1 .. Len(t)
    BY <1>2, <1>7, <1>8, <2>1
  <2> QED
    BY <2>2 DEF r
<1>11. t[(p - t[p][2]) + k] = s[q]
  BY <1>3, <1>9, <1>10
<1> QED
  BY <1>7, <1>10, <1>11

\* What precedes a whole frame is unbroken if all of it was.
LEMMA CutLast ==
  ASSUME NEW s \in Seq(Byte), NEW t \in Seq(Byte), NEW n \in 0 .. Len(Body),
         NEW i \in Frames, Known(s, n), Unbroken(s),
         s = t \o Bytes(i)
  PROVE  Unbroken(t)
<1> DEFINE D == Size(i)
<1>1. /\ D \in Nat \ {0} /\ Len(t) \in Nat /\ Len(s) = Len(t) + D
      /\ \A p \in 1 .. Len(t) : s[p] = t[p]
      /\ \A k \in 1 .. D : s[Len(t) + k] = <<i, k>>
  <2>1. D \in Nat \ {0}
    BY SizeType
  <2>2. Piece(t, s, 0) /\ Piece(Bytes(i), s, Len(t)) /\ Len(s) = Len(t) + D
    BY BytesType, Pieces
  <2>3. \A k \in 1 .. D : Bytes(i)[k] = s[k + Len(t)]
    BY <2>2, BytesType DEF Piece
  <2> QED
    BY <2>1, <2>2, <2>3, BytesType DEF Piece
<1> HIDE DEF D
<1> SUFFICES ASSUME NEW p \in 1 .. Len(t), NEW k \in 1 .. Size(t[p][1])
             PROVE  /\ (p - t[p][2]) + k \in 1 .. Len(t)
                    /\ t[(p - t[p][2]) + k] = <<t[p][1], k>>
  BY DEF Unbroken
<1>4. p \in 1 .. Len(s) /\ s[p] = t[p]
  BY <1>1
<1>5. t[p][1] \in Frames /\ t[p][2] \in 1 .. Size(t[p][1])
  BY <1>4, KnownAt
<1>6. Size(t[p][1]) \in Nat
  BY <1>5, SizeType
<1> DEFINE q == (p - t[p][2]) + k
<1>7. q \in 1 .. Len(s) /\ s[q] = <<t[p][1], k>>
  BY <1>4 DEF Unbroken
<1>8. q <= Len(t)
  <2> DEFINE b == t[p][2]
             l == Len(t)
  <2>1. /\ q \in Int /\ q <= l + D /\ l \in Int /\ D \in Int
        /\ p \in Int /\ p <= l /\ b \in Int /\ b >= 1 /\ k \in Int
    BY <1>1, <1>5, <1>6, <1>7
  <2>2. q = (p - b) + k
    OBVIOUS
  <2> HIDE DEF q, b, l
  <2> SUFFICES ASSUME q > l PROVE FALSE
    BY <2>1 DEF l
  <2>3. q - l \in 1 .. D /\ l + (q - l) = q
    BY <2>1
  <2>4. s[q] = <<i, q - l>>
    BY <1>1, <2>3 DEF l
  <2>5. k = q - l
    BY <1>7, <2>4 DEF q
  <2> QED
    BY <2>1, <2>2, <2>5
<1> QED
  BY <1>1, <1>7, <1>8

\* A new frame behind those that are known.
LEMMA AppendFrame ==
  ASSUME NEW s \in Seq(Byte), NEW n \in Nat, n + 1 \in Frames,
         Known(s, n), Rising(s)
  PROVE  /\ Known(s \o Bytes(n + 1), n + 1)
         /\ Rising(s \o Bytes(n + 1))
         /\ Unbroken(s) => Unbroken(s \o Bytes(n + 1))
<1> DEFINE t == s \o Bytes(n + 1)
           D == Size(n + 1)
<1>1. /\ D \in Nat \ {0} /\ Len(s) \in Nat /\ Len(t) = Len(s) + D
      /\ \A p \in 1 .. Len(s) : t[p] = s[p]
      /\ \A k \in 1 .. D : t[Len(s) + k] = <<n + 1, k>>
  <2>1. D \in Nat \ {0}
    BY SizeType
  <2>2. /\ Bytes(n + 1) \in Seq(Byte) /\ Len(Bytes(n + 1)) = D
        /\ \A k \in 1 .. D : Bytes(n + 1)[k] = <<n + 1, k>>
    BY BytesType
  <2>3. Piece(s, t, 0) /\ Piece(Bytes(n + 1), t, Len(s)) /\ Len(t) = Len(s) + D
    BY <2>2, Pieces
  <2>4. \A k \in 1 .. D : Bytes(n + 1)[k] = t[k + Len(s)]
    BY <2>2, <2>3 DEF Piece
  <2>5. \A p \in 1 .. Len(s) : s[p] = t[p + 0]
    BY <2>3 DEF Piece
  <2> QED
    BY <2>1, <2>2, <2>3, <2>4, <2>5
<1> HIDE DEF t
<1>2. \A p \in 1 .. Len(t) :
        p \in 1 .. Len(s) \/ (p > Len(s) /\ p - Len(s) \in 1 .. D /\ t[p] = <<n + 1, p - Len(s)>>)
  <2> SUFFICES ASSUME NEW p \in 1 .. Len(t), p > Len(s)
               PROVE  p - Len(s) \in 1 .. D /\ t[p] = <<n + 1, p - Len(s)>>
    BY <1>1
  <2>1. p - Len(s) \in 1 .. D /\ Len(s) + (p - Len(s)) = p
    BY <1>1
  <2> QED
    BY <1>1, <2>1
<1>3. Known(t, n + 1)
  <2> SUFFICES ASSUME NEW p \in 1 .. Len(t)
               PROVE  t[p][1] \in 1 .. n + 1 /\ t[p][2] \in 1 .. Size(t[p][1])
    BY DEF Known
  <2>1. CASE p \in 1 .. Len(s)
    BY <1>1, <2>1 DEF Known
  <2>2. CASE p - Len(s) \in 1 .. D /\ t[p] = <<n + 1, p - Len(s)>>
    BY <2>2
  <2> QED
    BY <1>2, <2>1, <2>2
<1>4. Rising(t)
  <2> SUFFICES ASSUME NEW p \in 1 .. Len(t), NEW q \in 1 .. Len(t), p < q
               PROVE  Before(t[p], t[q])
    BY DEF Rising
  <2>1. CASE q \in 1 .. Len(s)
    <3>1. p \in 1 .. Len(s)
      BY <2>1
    <3> QED
      BY <1>1, <2>1, <3>1 DEF Rising
  <2>2. CASE q > Len(s) /\ q - Len(s) \in 1 .. D /\ t[q] = <<n + 1, q - Len(s)>>
    <3>1. CASE p \in 1 .. Len(s)
      <4>1. t[p][1] \in 1 .. n
        BY <1>1, <3>1 DEF Known
      <4>2. t[p][1] < t[q][1]
        BY <2>2, <4>1
      <4> QED
        BY <4>2 DEF Before
    <3>2. CASE p > Len(s) /\ p - Len(s) \in 1 .. D /\ t[p] = <<n + 1, p - Len(s)>>
      <4>1. p - Len(s) < q - Len(s)
        BY <1>1
      <4> QED
        BY <2>2, <3>2, <4>1 DEF Before
    <3> QED
      BY <1>2, <3>1, <3>2
  <2> QED
    BY <1>2, <2>1, <2>2
<1>5. ASSUME Unbroken(s) PROVE Unbroken(t)
  <2> SUFFICES ASSUME NEW p \in 1 .. Len(t), NEW k \in 1 .. Size(t[p][1])
               PROVE  /\ (p - t[p][2]) + k \in 1 .. Len(t)
                      /\ t[(p - t[p][2]) + k] = <<t[p][1], k>>
    BY DEF Unbroken
  <2>1. CASE p \in 1 .. Len(s)
    <3>1. t[p] = s[p]
      BY <1>1, <2>1
    <3>2. /\ (p - s[p][2]) + k \in 1 .. Len(s)
          /\ s[(p - s[p][2]) + k] = <<s[p][1], k>>
      BY <1>5, <2>1, <3>1 DEF Unbroken
    <3> DEFINE r == (p - s[p][2]) + k
    <3>3. r \in 1 .. Len(s) /\ s[r] = <<t[p][1], k>>
      BY <3>1, <3>2
    <3> HIDE DEF r
    <3>4. r \in 1 .. Len(t) /\ t[r] = <<t[p][1], k>>
      BY <1>1, <3>3
    <3> QED
      BY <3>1, <3>4 DEF r
  <2>2. CASE p - Len(s) \in 1 .. D /\ t[p] = <<n + 1, p - Len(s)>>
    <3>1. t[p][1] = n + 1 /\ t[p][2] = p - Len(s)
      BY <2>2
    <3>2. k \in 1 .. D
      BY <3>1
    <3>3. (p - t[p][2]) + k = Len(s) + k
      BY <1>1, <3>1
    <3> QED
      BY <1>1, <3>1, <3>2, <3>3
  <2> QED
    BY <1>2, <2>1, <2>2
<1> QED
  BY <1>3, <1>4, <1>5 DEF t

-------------------------------------------------------------------------------
(* The inductive invariant *)

\* What Send has left to write is the end of its frame.
Sending ==
  /\ started \in 0 .. Len(Body)
  /\ complete \subseteq 1 .. started
  /\ unsent # << >> =>
       /\ started \in Frames
       /\ Len(unsent) <= Size(started)
       /\ \A p \in 1 .. Len(unsent) :
            unsent[p] = <<started, (Size(started) - Len(unsent)) + p>>

\* What Recv needs.
Receiving ==
  /\ inBody => need > 0
  /\ need > 0 /\ ~inBody => Len(buf) + need = Header

\* The pipe has bytes of frames that were sent, in the order of their frames.
InOrder == Known(Pipe, started) /\ Rising(Pipe)

\* The last byte of a frame was written by the Write that completed it.
Ends ==
  \A p \in 1 .. Len(Front) :
    Front[p][2] = Size(Front[p][1]) => Front[p][1] \in complete

\* A whole frame that was returned is complete.
Finished ==
  \A k \in 1 .. Len(returned) :
    Whole(returned[k]) => returned[k][1][1] \in complete

\* Without a torn frame the pipe has whole frames, Recv knows the length of
\* the one it is reading, and it returned nothing else.
Intact ==
  ~torn =>
    /\ Unbroken(Pipe)
    /\ \A k \in 1 .. Len(returned) : Whole(returned[k])
    /\ inBody => buf # << >> /\ Len(buf) + need = Size(buf[1][1])

FramingInv ==
  /\ Sending
  /\ Receiving
  /\ InOrder
  /\ Ends
  /\ Finished
  /\ Intact

LEMMA PipeType ==
  ASSUME TypeOK
  PROVE  /\ Live \in Seq(Byte)
         /\ Front \in Seq(Byte)
         /\ Pipe \in Seq(Byte)
         /\ Len(Front) = Len(Live) + Len(stream)
         /\ Piece(Front, Pipe, 0)
<1>1. /\ buf \in Seq(Byte) /\ stream \in Seq(Byte) /\ unsent \in Seq(Byte)
      /\ need \in Nat
  BY DEF TypeOK
<1>2. Live \in Seq(Byte)
  BY <1>1 DEF Live
<1>3. Front \in Seq(Byte) /\ Len(Front) = Len(Live) + Len(stream)
  BY <1>1, <1>2, Pieces DEF Front
<1>4. Pipe \in Seq(Byte) /\ Piece(Front, Pipe, 0)
  BY <1>1, <1>3, Pieces DEF Pipe
<1> QED
  BY <1>2, <1>3, <1>4

\* The same after a step.
LEMMA PipeTypeNext ==
  ASSUME TypeOK'
  PROVE  Front' \in Seq(Byte) /\ Pipe' \in Seq(Byte)
<1>1. /\ buf' \in Seq(Byte) /\ stream' \in Seq(Byte) /\ unsent' \in Seq(Byte)
      /\ need' \in Nat
  BY DEF TypeOK
<1>2. Live' \in Seq(Byte)
  BY <1>1 DEF Live
<1>3. Front' \in Seq(Byte)
  BY <1>1, <1>2, Pieces DEF Front
<1>4. Pipe' \in Seq(Byte)
  BY <1>1, <1>3, Pieces DEF Pipe
<1> QED
  BY <1>3, <1>4

\* A step that at most cuts the pipe and returns nothing.
LEMMA CutKeeps ==
  ASSUME TypeOK, TypeOK', FramingInv, NEW d \in Nat,
         Piece(Front', Front, d), Piece(Pipe', Pipe, d),
         UNCHANGED <<started, complete, returned>>
  PROVE  InOrder' /\ Ends' /\ Finished'
<1>1. /\ Pipe \in Seq(Byte) /\ Pipe' \in Seq(Byte)
      /\ Front \in Seq(Byte) /\ Front' \in Seq(Byte)
  BY PipeType, PipeTypeNext
<1>2. started' = started /\ complete' = complete /\ returned' = returned
  OBVIOUS
<1>3. started \in Nat
  BY DEF TypeOK
<1>4. InOrder'
  <2>1. Known(Pipe, started) /\ Rising(Pipe)
    BY DEF FramingInv, InOrder
  <2>2. Known(Pipe', started) /\ Rising(Pipe')
    BY <1>1, <1>3, <2>1, PieceKeeps
  <2> QED
    BY <1>2, <2>2 DEF InOrder, Known, Rising
<1>5. Ends'
  <2> SUFFICES ASSUME NEW p \in 1 .. Len(Front'), Front'[p][2] = Size(Front'[p][1])
               PROVE  Front'[p][1] \in complete
    BY <1>2 DEF Ends, Size
  <2>1. p + d \in 1 .. Len(Front) /\ Front'[p] = Front[p + d]
    BY <1>1 DEF Piece
  <2> QED
    BY <2>1 DEF FramingInv, Ends
<1>6. Finished'
  BY <1>2 DEF FramingInv, Finished, Whole, Bytes
<1> QED
  BY <1>4, <1>5, <1>6

LEMMA SendKeeps ==
  ASSUME TypeOK, FramingInv, Send
  PROVE  TypeOK' /\ FramingInv'
<1> DEFINE i == started + 1
<1>1. /\ unsent = << >> /\ i \in Frames /\ started' = i /\ unsent' = Bytes(i)
      /\ offset' = offset /\ timed' = timed /\ complete' = complete /\ stream' = stream /\ buf' = buf
      /\ need' = need /\ inBody' = inBody /\ returned' = returned /\ torn' = torn
  BY DEF Send, receiver
<1>2. /\ Bytes(i) \in Seq(Byte) /\ Len(Bytes(i)) = Size(i) /\ Bytes(i) # << >>
      /\ \A k \in 1 .. Size(i) : Bytes(i)[k] = <<i, k>>
      /\ Size(i) \in Nat \ {0}
  BY <1>1, BytesType, SizeType
<1>3. TypeOK'
  BY <1>1, <1>2 DEF TypeOK
<1>4. started \in Nat /\ Front \in Seq(Byte)
  BY PipeType DEF TypeOK
<1>5. Live' = Live /\ Front' = Front
  BY <1>1 DEF Live, Front
<1>6. Pipe = Front
  BY <1>1, <1>4 DEF Pipe
<1>7. Pipe' = Front \o Bytes(i)
  BY <1>1, <1>5 DEF Pipe
<1>8. /\ Known(Front, started) /\ Rising(Front)
      /\ ~torn => Unbroken(Front)
  BY <1>6 DEF FramingInv, InOrder, Intact
<1>9. /\ Known(Front \o Bytes(i), i) /\ Rising(Front \o Bytes(i))
      /\ Unbroken(Front) => Unbroken(Front \o Bytes(i))
  BY <1>1, <1>4, <1>8, AppendFrame
<1>10. Sending'
  <2>1. complete \subseteq 1 .. started
    BY DEF FramingInv, Sending
  <2>2. i \in 0 .. Len(Body) /\ complete \subseteq 1 .. i
    BY <1>1, <1>4, <2>1, FramingAssumption DEF Frames
  <2>3. \A p \in 1 .. Len(Bytes(i)) : Bytes(i)[p] = <<i, (Size(i) - Len(Bytes(i))) + p>>
    BY <1>2
  <2> QED
    BY <1>1, <1>2, <2>2, <2>3 DEF Sending, Size
<1>11. Receiving'
  BY <1>1 DEF FramingInv, Receiving
<1>12. InOrder'
  BY <1>1, <1>7, <1>9 DEF InOrder, Known, Rising, Size
<1>13. Ends'
  BY <1>1, <1>5 DEF FramingInv, Ends, Size
<1>14. Finished'
  BY <1>1 DEF FramingInv, Finished, Whole, Bytes
<1>16. Intact'
  <2> SUFFICES ASSUME ~torn
               PROVE  /\ Unbroken(Pipe')
                      /\ \A k \in 1 .. Len(returned) : Whole(returned[k])
                      /\ inBody => buf # << >> /\ Len(buf) + need = Size(buf[1][1])
    BY <1>1 DEF Intact, Unbroken, Whole, Bytes, Size
  <2>1. Unbroken(Pipe')
    BY <1>7, <1>8, <1>9
  <2> QED
    BY <2>1 DEF FramingInv, Intact
<1> QED
  BY <1>3, <1>10, <1>11, <1>12, <1>13, <1>14, <1>16 DEF FramingInv

\* Written bytes move within the pipe.
LEMMA WriteMoves ==
  ASSUME TypeOK, Write
  PROVE  \E n \in 1 .. Len(unsent), x \in Seq(Byte), y \in Seq(Byte) :
           /\ Len(x) = n /\ \A p \in 1 .. n : x[p] = unsent[p]
           /\ Len(y) = Len(unsent) - n /\ \A p \in 1 .. Len(y) : y[p] = unsent[p + n]
           /\ stream' = stream \o x /\ unsent' = y
           /\ Front' = Front \o x
           /\ Pipe' = Pipe
<1>1. /\ buf \in Seq(Byte) /\ stream \in Seq(Byte) /\ unsent \in Seq(Byte)
      /\ Live \in Seq(Byte) /\ Front \in Seq(Byte)
  BY PipeType DEF TypeOK
<1>2. PICK n \in 1 .. Len(unsent) :
        /\ stream' = stream \o SubSeq(unsent, 1, n)
        /\ unsent' = SubSeq(unsent, n + 1, Len(unsent))
  BY DEF Write, AfterWrite
<1> DEFINE x == SubSeq(unsent, 1, n)
           y == SubSeq(unsent, n + 1, Len(unsent))
<1>3. /\ x \in Seq(Byte) /\ Len(x) = n /\ y \in Seq(Byte) /\ Len(y) = Len(unsent) - n
      /\ (Front \o x) \o y = Front \o unsent
  BY <1>1, Moved
<1>4. /\ \A p \in 1 .. n : x[p] = unsent[p]
      /\ \A p \in 1 .. Len(y) : y[p] = unsent[p + n]
  <2>1. unsent \in Seq(Byte) /\ n \in 1 .. Len(unsent) /\ Len(unsent) \in Nat
    BY <1>1
  <2>2. \A p \in 1 .. n : x[p] = unsent[p]
    BY <2>1
  <2>3. Len(y) = Len(unsent) - n
    BY <2>1
  <2>4. \A p \in 1 .. Len(unsent) - n : y[p] = unsent[p + n]
    BY <2>1
  <2> QED
    BY <2>2, <2>3, <2>4
<1>5. stream' = stream \o x /\ unsent' = y
  BY <1>2
<1> HIDE DEF x, y
<1>6. Live' = Live
  BY DEF Write, receiver, Live
<1>7. Front' = Front \o x
  <2>1. Front' = Live \o (stream \o x)
    BY <1>5, <1>6 DEF Front
  <2>2. Live \in Seq(Byte) /\ stream \in Seq(Byte) /\ x \in Seq(Byte)
    BY <1>1, <1>3
  <2>3. (Live \o stream) \o x = Live \o (stream \o x)
    BY <2>2, Associates, Zenon
  <2> QED
    BY <2>1, <2>3 DEF Front
<1>8. Pipe' = Pipe
  BY <1>3, <1>5, <1>7 DEF Pipe
<1> QED
  BY <1>3, <1>4, <1>5, <1>7, <1>8

\* With the last byte of a frame the frame is complete.
LEMMA WriteKeeps ==
  ASSUME TypeOK, FramingInv, Write
  PROVE  TypeOK' /\ FramingInv'
<1>1. /\ buf \in Seq(Byte) /\ stream \in Seq(Byte) /\ unsent \in Seq(Byte)
      /\ need \in Nat /\ Live \in Seq(Byte) /\ Front \in Seq(Byte)
      /\ Pipe \in Seq(Byte) /\ started \in Nat
  BY PipeType DEF TypeOK
<1>2. /\ unsent # << >> /\ started' = started /\ offset' = offset /\ timed' = timed /\ buf' = buf
      /\ need' = need /\ inBody' = inBody /\ returned' = returned /\ torn' = torn
      /\ complete' = IF unsent' = << >> THEN complete \cup {started} ELSE complete
  BY DEF Write, receiver
<1>3. PICK n \in 1 .. Len(unsent), x \in Seq(Byte), y \in Seq(Byte) :
        /\ Len(x) = n /\ \A p \in 1 .. n : x[p] = unsent[p]
        /\ Len(y) = Len(unsent) - n /\ \A p \in 1 .. Len(y) : y[p] = unsent[p + n]
        /\ stream' = stream \o x /\ unsent' = y
        /\ Front' = Front \o x
        /\ Pipe' = Pipe
  BY WriteMoves
<1>4. x \in Seq(Byte) /\ Len(x) = n /\ y \in Seq(Byte) /\ Len(y) = Len(unsent) - n
  BY <1>3
<1>5. /\ \A p \in 1 .. n : x[p] = unsent[p]
      /\ \A p \in 1 .. Len(y) : y[p] = unsent[p + n]
  BY <1>3
<1>6. stream' = stream \o x /\ unsent' = y
  BY <1>3
<1>7. /\ started \in Frames /\ Len(unsent) <= Size(started) /\ complete \subseteq 1 .. started
      /\ \A p \in 1 .. Len(unsent) : unsent[p] = <<started, (Size(started) - Len(unsent)) + p>>
      /\ Size(started) \in Nat
  BY <1>2, SizeType DEF FramingInv, Sending
<1>8. complete \subseteq complete' /\ complete' \subseteq 1 .. started
  <2>1. started \in 1 .. started
    BY <1>7 DEF Frames
  <2> QED
    BY <1>2, <1>7, <2>1
<1>9. TypeOK'
  <2>1. stream \o x \in Seq(Byte)
    BY <1>1, <1>4, Pieces
  <2>2. 1 .. started \subseteq Frames
    BY <1>1, <1>7, FramingAssumption DEF Frames
  <2> QED
    BY <1>1, <1>2, <1>4, <1>6, <1>8, <2>1, <2>2 DEF TypeOK
<1>11. Front' = Front \o x
  BY <1>3
<1>12. Pipe' = Pipe
  BY <1>3
<1>13. Sending'
  <2>1. \A p \in 1 .. Len(y) : y[p] = <<started, (Size(started) - Len(y)) + p>>
    <3> SUFFICES ASSUME NEW p \in 1 .. Len(y)
                 PROVE  y[p] = <<started, (Size(started) - Len(y)) + p>>
      OBVIOUS
    <3>1. p + n \in 1 .. Len(unsent)
      BY <1>1, <1>4
    <3>2. y[p] = <<started, (Size(started) - Len(unsent)) + (p + n)>>
      BY <1>5, <1>7, <3>1
    <3>3. (Size(started) - Len(unsent)) + (p + n) = (Size(started) - Len(y)) + p
      <4>1. /\ Size(started) \in Int /\ Len(unsent) \in Int /\ p \in Int /\ n \in Int
            /\ Len(y) = Len(unsent) - n
        BY <1>1, <1>4, <1>7
      <4> QED
        BY <4>1, Sums
    <3> QED
      BY <3>2, <3>3
  <2>2. Len(y) <= Size(started)
    BY <1>1, <1>4, <1>7
  <2>3. started \in 0 .. Len(Body)
    BY DEF FramingInv, Sending
  <2> QED
    BY <1>2, <1>6, <1>7, <1>8, <2>1, <2>2, <2>3 DEF Sending, Size
<1>14. Receiving'
  BY <1>2 DEF FramingInv, Receiving
<1>15. InOrder'
  BY <1>2, <1>12 DEF FramingInv, InOrder, Known, Rising, Size
<1>16. Ends'
  <2> SUFFICES ASSUME NEW p \in 1 .. Len(Front'), Front'[p][2] = Size(Front'[p][1])
               PROVE  Front'[p][1] \in complete'
    BY DEF Ends, Size
  <2>1. /\ Piece(Front, Front', 0) /\ Piece(x, Front', Len(Front))
        /\ Len(Front') = Len(Front) + n
    BY <1>1, <1>4, <1>11, Pieces
  <2>2. CASE p \in 1 .. Len(Front)
    <3>1. Front[p] = Front'[p + 0] /\ p + 0 = p
      BY <2>1, <2>2 DEF Piece
    <3> QED
      BY <1>8, <2>2, <3>1 DEF FramingInv, Ends
  <2>3. CASE p - Len(Front) \in 1 .. n
    <3> DEFINE q == p - Len(Front)
    <3>1. x[q] = Front'[q + Len(Front)]
      BY <1>4, <2>1, <2>3 DEF Piece
    <3>2. q + Len(Front) = p /\ q \in 1 .. Len(unsent)
      BY <1>1, <2>3
    <3>3. Front'[p] = <<started, (Size(started) - Len(unsent)) + q>>
      BY <1>5, <1>7, <2>3, <3>1, <3>2
    <3>4. q = Len(unsent)
      <4>1. Front'[p][1] = started /\ Front'[p][2] = (Size(started) - Len(unsent)) + q
        BY <3>3
      <4>2. (Size(started) - Len(unsent)) + q = Size(started)
        BY <4>1
      <4>3. Size(started) \in Int /\ Len(unsent) \in Int /\ q \in Int
        BY <1>1, <1>7, <3>2
      <4> HIDE DEF q
      <4> QED
        BY <4>2, <4>3
    <3>5. y = << >>
      BY <1>4, <2>3, <3>4
    <3>6. started \in complete'
      BY <1>2, <1>6, <3>5
    <3> QED
      BY <3>3, <3>6
  <2> QED
    BY <1>1, <2>1, <2>2, <2>3
<1>17. Finished'
  BY <1>2, <1>8 DEF FramingInv, Finished, Whole, Bytes
<1>19. Intact'
  <2> SUFFICES ASSUME ~torn
               PROVE  /\ Unbroken(Pipe)
                      /\ \A k \in 1 .. Len(returned) : Whole(returned[k])
                      /\ inBody => buf # << >> /\ Len(buf) + need = Size(buf[1][1])
    BY <1>2, <1>12 DEF Intact, Unbroken, Whole, Bytes, Size
  <2> QED
    BY DEF FramingInv, Intact
<1> QED
  BY <1>9, <1>13, <1>14, <1>15, <1>16, <1>17, <1>19 DEF FramingInv

\* A Send that is cut short leaves the written bytes; without a torn frame
\* there are none of its own.
LEMMA SendTimeoutKeeps ==
  ASSUME TypeOK, FramingInv, SendTimeout
  PROVE  TypeOK' /\ FramingInv'
<1>1. /\ buf \in Seq(Byte) /\ stream \in Seq(Byte) /\ unsent \in Seq(Byte)
      /\ Front \in Seq(Byte) /\ Pipe \in Seq(Byte) /\ started \in Nat
      /\ Piece(Front, Pipe, 0)
  BY PipeType DEF TypeOK
<1>2. /\ unsent # << >> /\ unsent' = << >> /\ started' = started /\ offset' = offset /\ timed' = timed
      /\ stream' = stream /\ complete' = complete /\ buf' = buf /\ need' = need
      /\ inBody' = inBody /\ returned' = returned
      /\ torn' = (torn \/ Len(unsent) < Size(started))
  BY DEF SendTimeout, receiver, Size
<1>3. TypeOK'
  BY <1>2 DEF TypeOK
<1>4. Front' = Front /\ Pipe' = Front
  <2>1. Front' = Front
    BY <1>2 DEF Front, Live
  <2>2. Front \o << >> = Front
    BY <1>1
  <2> QED
    BY <1>2, <2>1, <2>2 DEF Pipe
<1>5. Piece(Front', Front, 0) /\ Piece(Pipe', Pipe, 0)
  BY <1>1, <1>4 DEF Piece
<1>6. InOrder' /\ Ends' /\ Finished'
  BY <1>2, <1>3, <1>5, CutKeeps
<1>7. Sending' /\ Receiving'
  BY <1>2 DEF FramingInv, Sending, Receiving
<1>8. Intact'
  <2> SUFFICES ASSUME ~torn'
               PROVE  /\ Unbroken(Front)
                      /\ \A k \in 1 .. Len(returned) : Whole(returned[k])
                      /\ inBody => buf # << >> /\ Len(buf) + need = Size(buf[1][1])
    BY <1>2, <1>4 DEF Intact, Unbroken, Whole, Bytes, Size
  <2>0. ~torn /\ ~(Len(unsent) < Size(started))
    BY <1>2
  <2>1. /\ started \in Frames /\ Len(unsent) <= Size(started)
        /\ \A p \in 1 .. Len(unsent) :
             unsent[p] = <<started, (Size(started) - Len(unsent)) + p>>
    BY <1>2 DEF FramingInv, Sending
  <2>2. /\ Bytes(started) \in Seq(Byte) /\ Len(Bytes(started)) = Size(started)
        /\ \A k \in 1 .. Size(started) : Bytes(started)[k] = <<started, k>>
        /\ Size(started) \in Nat
    BY <2>1, BytesType, SizeType
  <2>3. Len(unsent) = Size(started)
    BY <1>1, <2>0, <2>1, <2>2
  <2>4. \A p \in 1 .. Len(unsent) : unsent[p] = Bytes(started)[p]
    <3> SUFFICES ASSUME NEW p \in 1 .. Len(unsent)
                 PROVE  unsent[p] = Bytes(started)[p]
      OBVIOUS
    <3>1. (Size(started) - Len(unsent)) + p = p
      BY <2>2, <2>3
    <3> QED
      BY <2>1, <2>2, <2>3, <3>1
  <2>5. unsent = Bytes(started)
    BY <1>1, <2>2, <2>3, <2>4, SeqEqual
  <2>6. Pipe = Front \o Bytes(started)
    BY <2>5 DEF Pipe
  <2>7. Unbroken(Pipe) /\ Known(Pipe, started) /\ started \in 0 .. Len(Body)
    BY <2>0 DEF FramingInv, Intact, InOrder, Sending
  <2>8. Unbroken(Front)
    BY <1>1, <2>1, <2>6, <2>7, CutLast
  <2> QED
    BY <2>0, <2>8 DEF FramingInv, Intact
<1> QED
  BY <1>3, <1>6, <1>7, <1>8 DEF FramingInv

\* What the running Recv has after a Read of n bytes is the front of the pipe.
Got(n) == buf \o SubSeq(stream, 1, n)

LEMMA Taken ==
  ASSUME TypeOK, need > 0, NEW n \in 1 .. Len(stream)
  PROVE  /\ Got(n) \in Seq(Byte) /\ Len(Got(n)) = Len(buf) + n /\ Got(n) # << >>
         /\ Rest(n) \in Seq(Byte) /\ Rest(n) \o unsent \in Seq(Byte)
         /\ Front = Got(n) \o Rest(n)
         /\ Pipe = Got(n) \o (Rest(n) \o unsent)
<1>1. /\ buf \in Seq(Byte) /\ stream \in Seq(Byte) /\ unsent \in Seq(Byte)
  BY DEF TypeOK
<1> DEFINE x == SubSeq(stream, 1, n)
<1>2. /\ x \in Seq(Byte) /\ Len(x) = n /\ Rest(n) \in Seq(Byte)
      /\ (buf \o x) \o Rest(n) = buf \o stream
  BY <1>1, Moved DEF Rest
<1> HIDE DEF x
<1>3. Got(n) = buf \o x
  BY DEF x, Got
<1>4. Got(n) \in Seq(Byte) /\ Len(Got(n)) = Len(buf) + n
  BY <1>1, <1>2, <1>3, Pieces
<1>5. Got(n) # << >>
  <2>1. Len(Got(n)) > 0
    BY <1>1, <1>4
  <2> QED
    BY <1>4, <2>1
<1>6. Front = Got(n) \o Rest(n)
  BY <1>2, <1>3 DEF Front, Live
<1>7. Rest(n) \o unsent \in Seq(Byte)
  BY <1>1, <1>2, Pieces
<1>8. Pipe = Got(n) \o (Rest(n) \o unsent)
  <2>0. Got(n) \in Seq(Byte) /\ Rest(n) \in Seq(Byte) /\ unsent \in Seq(Byte)
    BY <1>1, <1>2, <1>4
  <2>1. (Got(n) \o Rest(n)) \o unsent = Got(n) \o (Rest(n) \o unsent)
    BY <2>0, Associates, Zenon
  <2> QED
    BY <1>6, <2>1 DEF Pipe
<1> QED
  BY <1>2, <1>4, <1>5, <1>6, <1>7, <1>8

\* Without a torn frame, the front of the pipe begins with a frame.
LEMMA FrontOfFrame ==
  ASSUME TypeOK, FramingInv, ~torn,
         NEW h \in Seq(Byte), NEW t \in Seq(Byte), h # << >>, Pipe = h \o t
  PROVE  /\ Pipe # << >> /\ Pipe[1] = h[1]
         /\ h[1][1] \in Frames
         /\ \A k \in 1 .. Len(h) : k <= Size(h[1][1]) => h[k] = <<h[1][1], k>>
<1>1. /\ Pipe \in Seq(Byte) /\ Len(Pipe) = Len(h) + Len(t) /\ Piece(h, Pipe, 0)
      /\ Len(h) \in Nat \ {0} /\ Len(t) \in Nat
  BY Pieces, PipeType
<1>2. \A k \in 1 .. Len(h) : h[k] = Pipe[k]
  <2> SUFFICES ASSUME NEW k \in 1 .. Len(h) PROVE h[k] = Pipe[k]
    OBVIOUS
  <2>1. h[k] = Pipe[k + 0] /\ k + 0 = k
    BY <1>1 DEF Piece
  <2> QED
    BY <2>1
<1>3. Pipe # << >> /\ Pipe[1] = h[1]
  BY <1>1, <1>2
<1>4. Unbroken(Pipe) /\ Known(Pipe, started) /\ started \in 0 .. Len(Body)
  BY DEF FramingInv, Intact, InOrder, Sending
<1>5. /\ h[1][1] \in Frames
      /\ \A k \in 1 .. Size(h[1][1]) : Pipe[k] = <<h[1][1], k>>
  BY <1>1, <1>3, <1>4, FirstFrame
<1>6. Size(h[1][1]) \in Nat
  BY <1>5, SizeType
<1>7. ASSUME NEW k \in 1 .. Len(h), k <= Size(h[1][1])
      PROVE  h[k] = <<h[1][1], k>>
  <2>1. k \in 1 .. Size(h[1][1])
    BY <1>6, <1>7
  <2> QED
    BY <1>2, <1>5, <2>1
<1> QED
  BY <1>3, <1>5, <1>7

LEMMA GenuineHeader ==
  ASSUME NEW h \in Seq(Byte), Len(h) = Header, h[1][1] \in Frames,
         \A k \in 1 .. Len(h) : k <= Size(h[1][1]) => h[k] = <<h[1][1], k>>
  PROVE  h = SubSeq(Bytes(h[1][1]), 1, Header)
<1> DEFINE i == h[1][1]
           b == Bytes(i)
<1>1. /\ b \in Seq(Byte) /\ Len(b) = Size(i) /\ Size(i) \in Nat
      /\ \A k \in 1 .. Size(i) : b[k] = <<i, k>>
  BY BytesType, SizeType
<1>2. Header \in Nat /\ Header <= Size(i) /\ Size(i) = Header + Body[i] /\ Body[i] \in Nat
  BY SizeType, FramingAssumption DEF Size
<1> HIDE DEF b
<1>3. /\ SubSeq(b, 1, Header) \in Seq(Byte) /\ Len(SubSeq(b, 1, Header)) = Header
      /\ \A k \in 1 .. Header : SubSeq(b, 1, Header)[k] = b[k]
  BY <1>1, <1>2
<1>4. \A k \in 1 .. Len(h) : h[k] = SubSeq(b, 1, Header)[k]
  <2> SUFFICES ASSUME NEW k \in 1 .. Len(h) PROVE h[k] = SubSeq(b, 1, Header)[k]
    OBVIOUS
  <2>1. k \in 1 .. Header /\ k \in 1 .. Size(i) /\ k <= Size(i)
    BY <1>1, <1>2
  <2> QED
    BY <1>1, <1>3, <2>1
<1>5. h = SubSeq(b, 1, Header)
  BY <1>3, <1>4, SeqEqual
<1> QED
  BY <1>5 DEF b

LEMMA GenuineFrame ==
  ASSUME NEW h \in Seq(Byte), h # << >>, h[1][1] \in Frames, Len(h) = Size(h[1][1]),
         \A k \in 1 .. Len(h) : k <= Size(h[1][1]) => h[k] = <<h[1][1], k>>
  PROVE  Whole(h)
<1> DEFINE i == h[1][1]
<1>1. /\ Bytes(i) \in Seq(Byte) /\ Len(Bytes(i)) = Size(i) /\ Size(i) \in Nat
      /\ \A k \in 1 .. Size(i) : Bytes(i)[k] = <<i, k>>
  BY BytesType, SizeType
<1>2. ASSUME NEW k \in 1 .. Len(h)
      PROVE  h[k] = Bytes(i)[k]
  <2>1. k \in 1 .. Size(i) /\ k <= Size(i)
    BY <1>1
  <2>2. h[k] = <<i, k>>
    BY <2>1
  <2> QED
    BY <1>1, <2>1, <2>2
<1>3. h = Bytes(i)
  BY <1>1, <1>2, SeqEqual
<1> QED
  BY <1>3 DEF Whole

\* Recv returns h, the front of the pipe.
Returns(h) ==
  \E y \in Seq(Byte) :
    /\ Front = h \o y /\ Pipe = h \o (y \o unsent)
    /\ Front' = y /\ Pipe' = y \o unsent
    /\ returned' = Append(returned, h)
    /\ UNCHANGED <<started, complete, torn>>
    /\ ~inBody'

LEMMA ReturnKeeps ==
  ASSUME TypeOK, TypeOK', FramingInv, NEW h \in Seq(Byte), h # << >>, Returns(h),
         ~torn => Len(h) = Size(h[1][1])
  PROVE  InOrder' /\ Ends' /\ Finished' /\ Intact'
<1>0. PICK y \in Seq(Byte) :
        /\ Front = h \o y /\ Pipe = h \o (y \o unsent)
        /\ Front' = y /\ Pipe' = y \o unsent
        /\ returned' = Append(returned, h)
        /\ started' = started /\ complete' = complete /\ torn' = torn
        /\ ~inBody'
  BY DEF Returns
<1> DEFINE t == y \o unsent
<1>a. Pipe = h \o t /\ Pipe' = t
  BY <1>0
<1>b. t \in Seq(Byte)
  BY <1>a, PipeTypeNext
<1> HIDE DEF t
<1>c. Front = h \o y /\ Front' = y
  BY <1>0
<1>1. /\ started' = started /\ complete' = complete /\ torn' = torn /\ ~inBody'
      /\ started \in Nat /\ returned \in Seq(Seq(Byte)) /\ Pipe \in Seq(Byte)
      /\ Front \in Seq(Byte)
  BY <1>0, PipeType DEF TypeOK
<1>2. /\ Len(h) \in Nat \ {0} /\ Len(t) \in Nat /\ Len(Pipe) = Len(h) + Len(t)
      /\ Piece(h, Pipe, 0) /\ Piece(t, Pipe, Len(h))
  BY <1>a, <1>b, Pieces
<1>3. Piece(h, Front, 0) /\ Piece(y, Front, Len(h))
  BY <1>c, Pieces
<1>4. /\ \A k \in 1 .. Len(h) : k \in 1 .. Len(Pipe) /\ h[k] = Pipe[k]
      /\ \A k \in 1 .. Len(h) : k \in 1 .. Len(Front) /\ h[k] = Front[k]
      /\ \A p \in 1 .. Len(t) : p + Len(h) \in 1 .. Len(Pipe) /\ t[p] = Pipe[p + Len(h)]
      /\ \A p \in 1 .. Len(y) : p + Len(h) \in 1 .. Len(Front) /\ y[p] = Front[p + Len(h)]
  <2>1. \A k \in 1 .. Len(h) : k + 0 = k
    OBVIOUS
  <2>2. Len(Front) \in Nat /\ Len(y) \in Nat
    BY <1>1
  <2> QED
    BY <1>2, <1>3, <2>1, <2>2 DEF Piece
<1>5. Known(Pipe, started) /\ Rising(Pipe)
  BY DEF FramingInv, InOrder
<1>6. InOrder'
  <2>1. Known(t, started) /\ Rising(t)
    BY <1>b, <1>1, <1>2, <1>5, PieceKeeps
  <2> QED
    BY <1>a, <1>1, <2>1 DEF InOrder, Known, Rising, Size
<1>7. Ends'
  <2> SUFFICES ASSUME NEW p \in 1 .. Len(y), y[p][2] = Size(y[p][1])
               PROVE  y[p][1] \in complete
    BY <1>c, <1>1 DEF Ends, Size
  <2>1. p + Len(h) \in 1 .. Len(Front) /\ y[p] = Front[p + Len(h)]
    BY <1>4
  <2> QED
    BY <2>1 DEF FramingInv, Ends
<1>8. ASSUME Whole(h)
      PROVE  h[1][1] \in complete
  <2> DEFINE i == h[1][1]
             D == Size(i)
  <2>1. /\ i \in Frames /\ h = Bytes(i) /\ D \in Nat \ {0} /\ Len(h) = D
        /\ h[D] = <<i, D>> /\ D \in 1 .. D
    <3>1. i \in Frames /\ h = Bytes(i)
      BY <1>8 DEF Whole
    <3>2. D \in Nat \ {0}
      BY <3>1, SizeType
    <3>3. Len(Bytes(i)) = D /\ \A k \in 1 .. D : Bytes(i)[k] = <<i, k>>
      BY <3>1, BytesType
    <3>4. D \in 1 .. D
      BY <3>2
    <3> QED
      BY <3>1, <3>2, <3>3, <3>4
  <2> HIDE DEF i, D
  <2>2. D \in 1 .. Len(Front) /\ Front[D] = <<i, D>> /\ D \in 1 .. Len(Pipe) /\ Pipe[D] = <<i, D>>
    BY <1>4, <2>1
  <2>3. i \in complete
    <3>1. Front[D][1] = i /\ Front[D][2] = Size(Front[D][1])
      BY <2>2 DEF D
    <3> QED
      BY <2>2, <3>1 DEF FramingInv, Ends
  <2> QED
    BY <2>3 DEF i
<1>9. /\ Len(returned') = Len(returned) + 1 /\ Len(returned) \in Nat
      /\ returned'[Len(returned) + 1] = h
      /\ \A k \in 1 .. Len(returned) : returned'[k] = returned[k]
  BY <1>0, <1>1
<1>10. \A k \in 1 .. Len(returned') :
         \/ k \in 1 .. Len(returned) /\ returned'[k] = returned[k]
         \/ k = Len(returned) + 1 /\ returned'[k] = h
  BY <1>9
<1>11. Finished'
  <2> SUFFICES ASSUME NEW k \in 1 .. Len(returned'), Whole(returned'[k])
               PROVE  returned'[k][1][1] \in complete
    BY <1>1 DEF Finished, Whole, Bytes
  <2>1. CASE k \in 1 .. Len(returned) /\ returned'[k] = returned[k]
    BY <2>1 DEF FramingInv, Finished
  <2>2. CASE k = Len(returned) + 1 /\ returned'[k] = h
    BY <1>8, <2>2
  <2> QED
    BY <1>10, <2>1, <2>2
<1>13. Intact'
  <2> SUFFICES ASSUME ~torn
               PROVE  Unbroken(t) /\ \A k \in 1 .. Len(returned') : Whole(returned'[k])
    BY <1>a, <1>1 DEF Intact, Unbroken, Whole, Bytes, Size
  <2>1. /\ Pipe # << >> /\ Pipe[1] = h[1] /\ h[1][1] \in Frames
        /\ \A k \in 1 .. Len(h) : k <= Size(h[1][1]) => h[k] = <<h[1][1], k>>
    BY <1>a, <1>b, FrontOfFrame
  <2>2. Len(h) = Size(h[1][1])
    OBVIOUS
  <2>3. Whole(h)
    BY <2>1, <2>2, GenuineFrame
  <2>4. Unbroken(Pipe) /\ started \in 0 .. Len(Body)
        /\ \A k \in 1 .. Len(returned) : Whole(returned[k])
    BY DEF FramingInv, Intact, Sending
  <2>5. Size(Pipe[1][1]) = Len(h)
    BY <2>1, <2>2
  <2>6. Piece(t, Pipe, Size(Pipe[1][1])) /\ Len(t) + Size(Pipe[1][1]) = Len(Pipe)
    BY <1>2, <2>5
  <2>7. Unbroken(t)
    BY <1>b, <1>1, <1>5, <2>1, <2>4, <2>6, CutFirst
  <2> QED
    BY <1>10, <2>3, <2>4, <2>7
<1> QED
  BY <1>6, <1>7, <1>11, <1>13

\* A new Recv has read nothing, and neither has one that has returned.
LEMMA RecvKeeps ==
  ASSUME TypeOK, FramingInv, Recv
  PROVE  TypeOK' /\ FramingInv'
<1>1. /\ need = 0 /\ buf' = << >> /\ need' = Header /\ inBody' = FALSE
      /\ offset' = offset /\ timed' = timed /\ started' = started /\ unsent' = unsent /\ complete' = complete
      /\ stream' = stream /\ returned' = returned /\ torn' = torn
  BY DEF Recv, sender
<1>2. TypeOK'
  <2>1. << >> \in Seq(Byte)
    OBVIOUS
  <2>2. buf' \in Seq(Byte) /\ need' \in Nat /\ inBody' \in BOOLEAN
    BY <1>1, <2>1, FramingAssumption
  <2> QED
    BY <1>1, <2>2 DEF TypeOK
<1>3. Front' = Front /\ Pipe' = Pipe
  <2>1. Live = << >> /\ Live' = << >>
    BY <1>1 DEF Live
  <2> QED
    BY <1>1, <2>1 DEF Front, Pipe
<1>4. Piece(Front', Front, 0) /\ Piece(Pipe', Pipe, 0)
  BY <1>3, PipeType DEF Piece
<1>5. InOrder' /\ Ends' /\ Finished'
  BY <1>1, <1>2, <1>4, CutKeeps
<1>6. Sending'
  BY <1>1 DEF FramingInv, Sending, Size
<1>7. Receiving'
  BY <1>1, FramingAssumption DEF Receiving
<1>8. Intact'
  BY <1>1, <1>3 DEF FramingInv, Intact, Unbroken, Whole, Bytes, Size
<1> QED
  BY <1>2, <1>5, <1>6, <1>7, <1>8 DEF FramingInv

\* Read bytes move within the pipe.
LEMMA ReadSomeKeeps ==
  ASSUME TypeOK, FramingInv, ReadSome
  PROVE  TypeOK' /\ FramingInv'
<1>0. /\ need \in Nat /\ buf \in Seq(Byte) /\ stream \in Seq(Byte)
      /\ inBody \in BOOLEAN
  BY DEF TypeOK
<1>1. PICK n \in 1 .. need :
        /\ n <= Len(stream) /\ need - n # 0
        /\ buf' = Got(n) /\ stream' = Rest(n) /\ need' = need - n
  BY DEF ReadSome, StillNeeded, Got
<1>2. /\ offset' = offset /\ timed' = timed /\ started' = started /\ unsent' = unsent /\ complete' = complete
      /\ inBody' = inBody /\ returned' = returned /\ torn' = torn
  BY DEF ReadSome, sender
<1>3. need > 0 /\ need' > 0 /\ need' \in Nat /\ n \in 1 .. Len(stream)
  BY <1>0, <1>1
<1>4. /\ Got(n) \in Seq(Byte) /\ Len(Got(n)) = Len(buf) + n /\ Got(n) # << >>
      /\ Rest(n) \in Seq(Byte) /\ Rest(n) \o unsent \in Seq(Byte)
      /\ Front = Got(n) \o Rest(n)
      /\ Pipe = Got(n) \o (Rest(n) \o unsent)
  BY <1>3, Taken
<1>5. TypeOK'
  BY <1>1, <1>2, <1>3, <1>4 DEF TypeOK
<1>6. Front' = Front
  <2>1. Live' = Got(n)
    BY <1>1, <1>3 DEF Live
  <2> QED
    BY <1>1, <1>4, <2>1 DEF Front
<1>7. Pipe' = Pipe
  BY <1>2, <1>6 DEF Pipe
<1>8. Piece(Front', Front, 0) /\ Piece(Pipe', Pipe, 0)
  BY <1>6, <1>7, PipeType DEF Piece
<1>9. InOrder' /\ Ends' /\ Finished'
  BY <1>2, <1>5, <1>8, CutKeeps
<1>10. Sending'
  BY <1>2 DEF FramingInv, Sending, Size
<1>11. Len(buf') + need' = Len(buf) + need
  <2>1. Len(buf') = Len(buf) + n
    BY <1>1, <1>4
  <2> QED
    BY <1>0, <1>1, <2>1
<1>12. Receiving'
  BY <1>2, <1>3, <1>11 DEF FramingInv, Receiving
<1>13. ASSUME buf # << >> PROVE buf'[1] = buf[1] /\ buf' # << >>
  <2>1. Got(n)[1] = buf[1]
    BY <1>0, <1>3, <1>13 DEF Got
  <2> QED
    BY <1>1, <1>4, <2>1
<1>14. Intact'
  <2> SUFFICES ASSUME ~torn
               PROVE  /\ Unbroken(Pipe)
                      /\ \A k \in 1 .. Len(returned) : Whole(returned[k])
                      /\ inBody => buf' # << >> /\ Len(buf') + need' = Size(buf'[1][1])
    BY <1>2, <1>7 DEF Intact, Unbroken, Whole, Bytes, Size
  <2>1. /\ Unbroken(Pipe)
        /\ \A k \in 1 .. Len(returned) : Whole(returned[k])
        /\ inBody => buf # << >> /\ Len(buf) + need = Size(buf[1][1])
    BY DEF FramingInv, Intact
  <2> QED
    BY <1>11, <1>13, <2>1
<1> QED
  BY <1>5, <1>9, <1>10, <1>12, <1>14 DEF FramingInv

\* A deadline in Recv cuts what it has read off the front of the pipe.
LEMMA RecvTimeoutKeeps ==
  ASSUME TypeOK, FramingInv, RecvTimeout
  PROVE  TypeOK' /\ FramingInv'
<1>1. /\ need > 0 /\ torn' = (torn \/ buf # << >>) /\ buf' = << >> /\ need' = 0
      /\ inBody' = FALSE
      /\ offset' = offset /\ timed' = timed /\ started' = started /\ unsent' = unsent /\ complete' = complete
      /\ stream' = stream /\ returned' = returned
  BY DEF RecvTimeout, sender
<1>2. /\ buf \in Seq(Byte) /\ stream \in Seq(Byte) /\ unsent \in Seq(Byte)
      /\ torn \in BOOLEAN /\ stream \o unsent \in Seq(Byte)
  BY Pieces DEF TypeOK
<1>3. TypeOK'
  <2>1. << >> \in Seq(Byte)
    OBVIOUS
  <2>2. buf' \in Seq(Byte) /\ need' \in Nat /\ inBody' \in BOOLEAN /\ torn' \in BOOLEAN
    BY <1>1, <2>1
  <2> QED
    BY <1>1, <2>2 DEF TypeOK
<1>4. /\ Front = buf \o stream /\ Pipe = (buf \o stream) \o unsent
      /\ Front' = stream /\ Pipe' = stream \o unsent
  <2>1. Live = buf /\ Live' = << >>
    BY <1>1 DEF Live
  <2>2. << >> \o stream = stream
    BY <1>2
  <2> QED
    BY <1>1, <2>1, <2>2 DEF Front, Pipe
<1>5. Pipe = buf \o (stream \o unsent)
  <2>1. buf \in Seq(Byte) /\ stream \in Seq(Byte) /\ unsent \in Seq(Byte)
    BY <1>2
  <2>2. (buf \o stream) \o unsent = buf \o (stream \o unsent)
    BY <2>1, Associates, Zenon
  <2> QED
    BY <1>4, <2>2
<1>6. Piece(Front', Front, Len(buf)) /\ Piece(Pipe', Pipe, Len(buf))
  <2>1. /\ buf \in Seq(Byte) /\ stream \in Seq(Byte)
        /\ stream \o unsent \in Seq(Byte)
    BY <1>2, Pieces
  <2>2. Piece(stream, buf \o stream, Len(buf))
    BY <2>1, Pieces, Zenon
  <2>3. Piece(stream \o unsent, buf \o (stream \o unsent), Len(buf))
    BY <2>1, Pieces, Zenon
  <2> QED
    BY <1>4, <1>5, <2>2, <2>3, Zenon
<1>7. InOrder' /\ Ends' /\ Finished'
  BY <1>1, <1>2, <1>3, <1>6, CutKeeps
<1>8. Sending' /\ Receiving'
  BY <1>1 DEF FramingInv, Sending, Receiving, Size
<1>9. Intact'
  <2> SUFFICES ASSUME ~torn'
               PROVE  /\ Unbroken(Pipe')
                      /\ \A k \in 1 .. Len(returned) : Whole(returned[k])
    BY <1>1 DEF Intact, Unbroken, Whole, Bytes, Size
  <2>1. ~torn /\ buf = << >>
    BY <1>1
  <2>2. Pipe' = Pipe
    <3>1. << >> \o (stream \o unsent) = stream \o unsent
      BY <1>2
    <3> QED
      BY <1>4, <1>5, <2>1, <3>1
  <2> QED
    BY <2>1, <2>2 DEF FramingInv, Intact
<1> QED
  BY <1>3, <1>7, <1>8, <1>9 DEF FramingInv

\* The header is complete: Recv reads on, returns a frame without a body, or
\* refuses the length, which only a header that is none can say.
LEMMA ReadHeaderKeeps ==
  ASSUME TypeOK, FramingInv, ReadHeader
  PROVE  TypeOK' /\ FramingInv'
<1>0. /\ need \in Nat /\ buf \in Seq(Byte) /\ stream \in Seq(Byte)
      /\ unsent \in Seq(Byte) /\ returned \in Seq(Seq(Byte))
  BY DEF TypeOK
<1>1. PICK n \in 1 .. need :
        /\ n <= Len(stream) /\ need - n = 0 /\ stream' = Rest(n)
        /\ \/ \E len \in Lengths(Got(n)) :
                /\ buf' = Got(n)
                /\ need' = len
                /\ inBody' = (len > 0)
                /\ returned' = IF len = 0 THEN Append(returned, Got(n)) ELSE returned
           \/ /\ Got(n) # SubSeq(Bytes(Got(n)[1][1]), 1, Header)
              /\ need' = 0
              /\ UNCHANGED <<buf, inBody, returned>>
  BY DEF ReadHeader, StillNeeded, Got
<1>2. /\ ~inBody
      /\ offset' = offset /\ timed' = timed /\ started' = started /\ unsent' = unsent /\ complete' = complete
      /\ torn' = torn
  BY DEF ReadHeader, sender
<1>3. need > 0 /\ n = need /\ n \in 1 .. Len(stream)
  BY <1>0, <1>1
<1>4. /\ Got(n) \in Seq(Byte) /\ Len(Got(n)) = Len(buf) + n /\ Got(n) # << >>
      /\ Rest(n) \in Seq(Byte) /\ Rest(n) \o unsent \in Seq(Byte)
      /\ Front = Got(n) \o Rest(n)
      /\ Pipe = Got(n) \o (Rest(n) \o unsent)
  BY <1>3, Taken
<1> DEFINE h == Got(n)
<1>5. h \in Seq(Byte) /\ h # << >> /\ Len(h) = Header /\ h[1][1] \in Frames
  <2>1. Len(h) = Header
    BY <1>2, <1>3, <1>4 DEF FramingInv, Receiving
  <2>2. h[1] \in Byte
    BY <1>4
  <2> QED
    BY <1>4, <2>1, <2>2 DEF Byte
<1>6. ASSUME ~torn
      PROVE  /\ h = SubSeq(Bytes(h[1][1]), 1, Header)
             /\ Lengths(h) = {Body[h[1][1]]}
  <2>1. \A k \in 1 .. Len(h) : k <= Size(h[1][1]) => h[k] = <<h[1][1], k>>
    BY <1>4, <1>6, FrontOfFrame
  <2>2. h = SubSeq(Bytes(h[1][1]), 1, Header)
    BY <1>5, <2>1, GenuineHeader
  <2> QED
    BY <2>2 DEF Lengths
<1>7. Lengths(h) \subseteq 0 .. MaxBody
  <2>1. Body[h[1][1]] \in 0 .. MaxBody
    BY <1>5, SizeType
  <2>2. Lengths(h) = {Body[h[1][1]]} \/ Lengths(h) = 0 .. MaxBody
    BY DEF Lengths
  <2> QED
    BY <2>1, <2>2
<1>8. Sending'
  BY <1>2 DEF FramingInv, Sending, Size
<1>9. CASE \E len \in Lengths(h) :
             /\ buf' = h
             /\ need' = len
             /\ inBody' = (len > 0)
             /\ returned' = IF len = 0 THEN Append(returned, h) ELSE returned
  <2>1. PICK len \in Lengths(h) :
             /\ buf' = h
             /\ need' = len
             /\ inBody' = (len > 0)
             /\ returned' = IF len = 0 THEN Append(returned, h) ELSE returned
    BY <1>9
  <2>2. len \in Nat
    BY <1>7, <2>1, FramingAssumption
  <2>3. TypeOK'
    <3>1. returned' \in Seq(Seq(Byte))
      BY <1>0, <1>5, <2>1
    <3> QED
      BY <1>1, <1>2, <1>4, <2>1, <2>2, <3>1 DEF TypeOK
  <2>4. Receiving'
    BY <2>1, <2>2 DEF Receiving
  <2>5. CASE len > 0
    <3>1. returned' = returned /\ inBody' = TRUE
      <4>1. len # 0
        BY <2>2, <2>5
      <4>2. returned' = returned
        BY <2>1, <4>1, Zenon
      <4>3. inBody' = TRUE
        BY <2>1, <2>5, Zenon
      <4> QED
        BY <4>2, <4>3
    <3>2. Front' = Front
      <4>1. Live' = h
        BY <2>1, <2>5 DEF Live
      <4> QED
        BY <1>1, <1>4, <4>1 DEF Front
    <3>3. Pipe' = Pipe
      BY <1>2, <3>2 DEF Pipe
    <3>4. Piece(Front', Front, 0) /\ Piece(Pipe', Pipe, 0)
      BY <3>2, <3>3, PipeType DEF Piece
    <3>5. InOrder' /\ Ends' /\ Finished'
      BY <1>2, <2>3, <3>1, <3>4, CutKeeps
    <3>6. Intact'
      <4> SUFFICES ASSUME ~torn
                   PROVE  /\ Unbroken(Pipe)
                          /\ \A k \in 1 .. Len(returned) : Whole(returned[k])
                          /\ buf' # << >> /\ Len(buf') + need' = Size(buf'[1][1])
        BY <1>2, <3>1, <3>3 DEF Intact, Unbroken, Whole, Bytes, Size
      <4>1. len = Body[h[1][1]]
        BY <1>6, <2>1
      <4>2. Len(h) + len = Size(h[1][1])
        BY <1>5, <4>1 DEF Size
      <4>3. /\ Unbroken(Pipe)
            /\ \A k \in 1 .. Len(returned) : Whole(returned[k])
        BY DEF FramingInv, Intact
      <4> QED
        BY <1>5, <2>1, <4>2, <4>3
    <3> QED
      BY <1>8, <2>3, <2>4, <3>5, <3>6 DEF FramingInv
  <2>6. CASE len = 0
    <3>1. returned' = Append(returned, h) /\ ~inBody'
      <4>1. ~(len > 0)
        BY <2>6
      <4>2. returned' = Append(returned, h)
        BY <2>1, <2>6, Zenon
      <4>3. ~inBody'
        BY <2>1, <4>1, Zenon
      <4> QED
        BY <4>2, <4>3
    <3>2. Front' = Rest(n) /\ Pipe' = Rest(n) \o unsent
      <4>1. Live' = << >>
        BY <2>1, <2>6 DEF Live
      <4>2. << >> \o Rest(n) = Rest(n)
        BY <1>4
      <4> QED
        BY <1>1, <1>2, <4>1, <4>2 DEF Front, Pipe
    <3>3. Returns(h)
      BY <1>2, <1>4, <3>1, <3>2 DEF Returns
    <3>4. ~torn => Len(h) = Size(h[1][1])
      <4> SUFFICES ASSUME ~torn PROVE Len(h) = Size(h[1][1])
        OBVIOUS
      <4>1. Body[h[1][1]] = 0
        BY <1>6, <2>1, <2>6
      <4> QED
        BY <1>5, <4>1, FramingAssumption DEF Size
    <3>5. InOrder' /\ Ends' /\ Finished' /\ Intact'
      BY <1>5, <2>3, <3>3, <3>4, ReturnKeeps
    <3> QED
      BY <1>8, <2>3, <2>4, <3>5 DEF FramingInv
  <2> QED
    BY <2>2, <2>5, <2>6
<1>10. CASE /\ h # SubSeq(Bytes(h[1][1]), 1, Header)
            /\ need' = 0
            /\ UNCHANGED <<buf, inBody, returned>>
  <2>1. /\ need' = 0 /\ buf' = buf /\ inBody' = inBody /\ returned' = returned
    BY <1>10
  <2>2. TypeOK'
    BY <1>1, <1>2, <1>4, <2>1 DEF TypeOK
  <2>3. Receiving'
    BY <1>2, <2>1 DEF Receiving
  <2>4. Front' = Rest(n) /\ Pipe' = Rest(n) \o unsent
    <3>1. Live' = << >>
      BY <2>1 DEF Live
    <3>2. << >> \o Rest(n) = Rest(n)
      BY <1>4
    <3> QED
      BY <1>1, <1>2, <3>1, <3>2 DEF Front, Pipe
  <2>5. Piece(Front', Front, Len(h)) /\ Piece(Pipe', Pipe, Len(h)) /\ Len(h) \in Nat
    <3> DEFINE t == Rest(n) \o unsent
    <3>1. Got(n) \in Seq(Byte) /\ Rest(n) \in Seq(Byte) /\ t \in Seq(Byte)
      BY <1>4
    <3>2. Front = Got(n) \o Rest(n) /\ Front' = Rest(n)
      BY <1>4, <2>4
    <3>3. Pipe = Got(n) \o t /\ Pipe' = t
      BY <1>4, <2>4
    <3> HIDE DEF t
    <3>4. Piece(Front', Front, Len(h))
      BY <3>1, <3>2, Pieces
    <3>5. Piece(Pipe', Pipe, Len(h))
      BY <3>1, <3>3, Pieces
    <3> QED
      BY <3>1, <3>4, <3>5
  <2>6. InOrder' /\ Ends' /\ Finished'
    BY <1>2, <2>1, <2>2, <2>5, CutKeeps
  <2>7. torn
    BY <1>6, <1>10
  <2>8. Intact'
    BY <1>2, <2>7 DEF Intact
  <2> QED
    BY <1>8, <2>2, <2>3, <2>6, <2>8 DEF FramingInv
<1> QED
  BY <1>1, <1>9, <1>10

\* The body is complete: Recv returns the frame.
LEMMA ReadBodyKeeps ==
  ASSUME TypeOK, FramingInv, ReadBody
  PROVE  TypeOK' /\ FramingInv'
<1>0. /\ need \in Nat /\ buf \in Seq(Byte) /\ stream \in Seq(Byte)
      /\ unsent \in Seq(Byte) /\ returned \in Seq(Seq(Byte))
  BY DEF TypeOK
<1>1. PICK n \in 1 .. need :
        /\ n <= Len(stream) /\ need - n = 0 /\ stream' = Rest(n)
        /\ returned' = Append(returned, Got(n))
  BY DEF ReadBody, StillNeeded, Got
<1>2. /\ inBody /\ buf' = << >> /\ need' = 0 /\ inBody' = FALSE
      /\ offset' = offset /\ timed' = timed /\ started' = started /\ unsent' = unsent /\ complete' = complete
      /\ torn' = torn
  BY DEF ReadBody, sender
<1>3. need > 0 /\ n = need /\ n \in 1 .. Len(stream)
  BY <1>0, <1>1
<1>4. /\ Got(n) \in Seq(Byte) /\ Len(Got(n)) = Len(buf) + n /\ Got(n) # << >>
      /\ Rest(n) \in Seq(Byte) /\ Rest(n) \o unsent \in Seq(Byte)
      /\ Front = Got(n) \o Rest(n)
      /\ Pipe = Got(n) \o (Rest(n) \o unsent)
  BY <1>3, Taken
<1> DEFINE h == Got(n)
<1>5. TypeOK'
  <2>1. returned' \in Seq(Seq(Byte))
    BY <1>0, <1>1, <1>4
  <2>2. << >> \in Seq(Byte)
    OBVIOUS
  <2>3. buf' \in Seq(Byte) /\ need' \in Nat /\ inBody' \in BOOLEAN /\ stream' \in Seq(Byte)
    BY <1>1, <1>2, <1>4, <2>2
  <2> QED
    BY <1>2, <2>1, <2>3 DEF TypeOK
<1>6. Front' = Rest(n) /\ Pipe' = Rest(n) \o unsent
  <2>1. Live' = << >>
    BY <1>2 DEF Live
  <2>2. << >> \o Rest(n) = Rest(n)
    BY <1>4
  <2> QED
    BY <1>1, <1>2, <2>1, <2>2 DEF Front, Pipe
<1>7. Returns(h)
  BY <1>1, <1>2, <1>4, <1>6 DEF Returns
<1>8. ~torn => Len(h) = Size(h[1][1])
  <2> SUFFICES ASSUME ~torn PROVE Len(h) = Size(h[1][1])
    OBVIOUS
  <2>1. buf # << >> /\ Len(buf) + need = Size(buf[1][1])
    BY <1>2 DEF FramingInv, Intact
  <2>2. h[1] = buf[1]
    BY <1>0, <1>3, <2>1 DEF Got
  <2> QED
    BY <1>3, <1>4, <2>1, <2>2
<1>9. InOrder' /\ Ends' /\ Finished' /\ Intact'
  BY <1>4, <1>5, <1>7, <1>8, ReturnKeeps
<1>10. Sending' /\ Receiving'
  BY <1>2 DEF FramingInv, Sending, Receiving, Size
<1> QED
  BY <1>5, <1>9, <1>10 DEF FramingInv

-------------------------------------------------------------------------------
(* The theorems *)

LEMMA InitFraming == Init => TypeOK /\ FramingInv
<1> SUFFICES ASSUME Init PROVE TypeOK /\ FramingInv
  OBVIOUS
<1>1. /\ offset \in Offsets /\ timed \in Timeouts /\ started = 0 /\ unsent = << >> /\ stream = << >>
      /\ buf = << >> /\ need = 0 /\ inBody = FALSE /\ returned = << >>
      /\ complete = {} /\ torn = FALSE
  BY DEF Init
<1>2. << >> \in Seq(Byte) /\ << >> \in Seq(Seq(Byte)) /\ timed \in BOOLEAN
  BY <1>1, FramingAssumption
<1>3. TypeOK
  BY <1>1, <1>2 DEF TypeOK
<1>4. Front = << >> /\ Pipe = << >>
  BY <1>1, <1>2 DEF Front, Pipe, Live
<1>5. Len(Pipe) = 0 /\ Len(Front) = 0 /\ Len(returned) = 0
  BY <1>1, <1>4
<1>6. Sending /\ Receiving
  BY <1>1, FramingAssumption DEF Sending, Receiving
<1>7. InOrder /\ Ends /\ Finished /\ Intact
  BY <1>1, <1>5 DEF InOrder, Ends, Finished, Intact, Known, Rising, Unbroken
<1> QED
  BY <1>3, <1>6, <1>7 DEF FramingInv

LEMMA NextFraming == TypeOK /\ FramingInv /\ [Next]_vars => TypeOK' /\ FramingInv'
<1> SUFFICES ASSUME TypeOK, FramingInv, [Next]_vars
             PROVE  TypeOK' /\ FramingInv'
  OBVIOUS
<1>1. CASE Send
  BY <1>1, SendKeeps
<1>2. CASE Write
  BY <1>2, WriteKeeps
<1>3. CASE SendTimeout
  BY <1>3, SendTimeoutKeeps
<1>4. CASE Recv
  BY <1>4, RecvKeeps
<1>5. CASE ReadSome
  BY <1>5, ReadSomeKeeps
<1>6. CASE ReadHeader
  BY <1>6, ReadHeaderKeeps
<1>7. CASE ReadBody
  BY <1>7, ReadBodyKeeps
<1>8. CASE RecvTimeout
  BY <1>8, RecvTimeoutKeeps
<1>9. CASE UNCHANGED vars
  <2>1. /\ offset' = offset /\ timed' = timed /\ started' = started /\ unsent' = unsent
        /\ complete' = complete /\ stream' = stream /\ buf' = buf /\ need' = need
        /\ inBody' = inBody /\ returned' = returned /\ torn' = torn
    BY <1>9 DEF vars, sender, receiver
  <2>2. TypeOK'
    BY <2>1 DEF TypeOK
  <2>3. Front' = Front /\ Pipe' = Pipe
    BY <2>1 DEF Front, Pipe, Live
  <2>4. Sending' /\ Receiving'
    BY <2>1 DEF FramingInv, Sending, Receiving, Size
  <2>5. Piece(Front', Front, 0) /\ Piece(Pipe', Pipe, 0)
    BY <2>3, PipeType DEF Piece
  <2>6. InOrder' /\ Ends' /\ Finished'
    BY <2>1, <2>2, <2>5, CutKeeps
  <2>7. Intact'
    BY <2>1, <2>3 DEF FramingInv, Intact, Unbroken, Whole, Bytes, Size
  <2> QED
    BY <2>2, <2>4, <2>6, <2>7 DEF FramingInv
<1> QED
  BY <1>1, <1>2, <1>3, <1>4, <1>5, <1>6, <1>7, <1>8, <1>9
     DEF Next, SendStep, RecvStep

LEMMA FramingInvariant == Spec => [](TypeOK /\ FramingInv)
  BY InitFraming, NextFraming, PTL DEF Spec

(***************************************************************************)
(* The variables keep their types, for frames and windows of any size      *)
(* (channel.Send and channel.Recv, quic.go:126-161,                        *)
(* sctpkernel_linux.go:213-263).                                           *)
(***************************************************************************)
THEOREM TypesKept == Spec => []TypeOK
  BY FramingInvariant, PTL

-------------------------------------------------------------------------------
(* The frames in transit *)

\* The frames that are complete or can still become so.
Current == IF unsent # << >> THEN complete \cup {started} ELSE complete

\* A frame of these whose first byte is in the pipe is there as a whole.
Solid ==
  \A i \in Current : \A p \in 1 .. Len(Pipe) : Pipe[p] = <<i, 1>> =>
    \A k \in 1 .. Size(i) :
      (p - 1) + k \in 1 .. Len(Pipe) /\ Pipe[(p - 1) + k] = <<i, k>>

\* A frame is not complete before its last byte is written.
Unfinished == unsent # << >> => started \notin complete

\* Recv knows the length of such a frame if it reads it from its start.
Reading ==
  inBody => /\ buf # << >>
            /\ \A i \in Current : buf[1] = <<i, 1>> => Len(buf) + need = Size(i)

TransitInv == Solid /\ Unfinished /\ Reading

Transit == {i \in complete : InTransit(i)}

AtStart(s, i) == \E p \in 1 .. Len(s) : s[p] = <<i, 1>>

\* A Read after which Recv reads on.
ReadsOn(n) ==
  /\ buf' = Got(n)
  /\ stream' = Rest(n)
  /\ need' \in Nat \ {0}
  /\ \/ inBody' = inBody /\ need' = need - n
     \/ ~inBody /\ n = need /\ need' \in Lengths(Got(n))
  /\ UNCHANGED <<offset, started, unsent, complete, returned, torn>>

\* A Read after which Recv returns.
ReadsOut(n) ==
  /\ stream' = Rest(n)
  /\ need' = 0
  /\ ~inBody'
  /\ UNCHANGED <<offset, started, unsent, complete, torn>>

\* Recv has all that it asked for.
Finishes(n) == n = need /\ (inBody \/ 0 \in Lengths(Got(n)))

LEMMA CurrentType ==
  ASSUME TypeOK, FramingInv
  PROVE  Current \subseteq Frames
BY DEF TypeOK, FramingInv, Sending, Current

LEMMA SolidKeeps ==
  ASSUME TypeOK, TypeOK', FramingInv, Solid, NEW d \in Nat,
         Piece(Pipe', Pipe, d), Len(Pipe') + d = Len(Pipe), Current' \subseteq Current
  PROVE  Solid'
<1>1. Len(Pipe) \in Nat /\ Len(Pipe') \in Nat
  BY PipeType, PipeTypeNext
<1>2. \A p \in 1 .. Len(Pipe') : p + d \in 1 .. Len(Pipe) /\ Pipe'[p] = Pipe[p + d]
  BY <1>1 DEF Piece
<1> SUFFICES ASSUME NEW i \in Current', NEW p \in 1 .. Len(Pipe'), Pipe'[p] = <<i, 1>>,
                    NEW k \in 1 .. Size(i)
             PROVE  (p - 1) + k \in 1 .. Len(Pipe') /\ Pipe'[(p - 1) + k] = <<i, k>>
  BY DEF Solid, Size
<1>3. i \in Current /\ p + d \in 1 .. Len(Pipe) /\ Pipe[p + d] = <<i, 1>>
  BY <1>2
<1>4. ((p + d) - 1) + k \in 1 .. Len(Pipe) /\ Pipe[((p + d) - 1) + k] = <<i, k>>
  BY <1>3 DEF Solid
<1>5. k \in Nat \ {0}
  <2>1. i \in Frames
    BY <1>3, CurrentType
  <2> QED
    BY <2>1, SizeType
<1>6. (p - 1) + k \in 1 .. Len(Pipe') /\ ((p + d) - 1) + k = ((p - 1) + k) + d
  BY <1>1, <1>4, <1>5
<1>7. Pipe'[(p - 1) + k] = Pipe[((p - 1) + k) + d]
  BY <1>2, <1>6
<1> QED
  BY <1>4, <1>6, <1>7

LEMMA PipeAfterRead ==
  ASSUME TypeOK, need > 0, NEW n \in 1 .. Len(stream), stream' = Rest(n), unsent' = unsent
  PROVE  /\ need' > 0 /\ buf' = Got(n) => Front' = Front /\ Pipe' = Pipe
         /\ need' = 0 => Front' = Rest(n) /\ Pipe' = Rest(n) \o unsent
<1>1. /\ Rest(n) \in Seq(Byte)
      /\ Front = Got(n) \o Rest(n)
  BY Taken
<1>2. ASSUME need' > 0, buf' = Got(n)
      PROVE  Front' = Front /\ Pipe' = Pipe
  <2>1. Live' = Got(n)
    BY <1>2 DEF Live
  <2>2. Front' = Front
    BY <1>1, <2>1 DEF Front
  <2> QED
    BY <2>2 DEF Pipe
<1>3. ASSUME need' = 0
      PROVE  Front' = Rest(n) /\ Pipe' = Rest(n) \o unsent
  <2>1. Live' = << >>
    BY <1>3 DEF Live
  <2>2. << >> \o Rest(n) = Rest(n)
    BY <1>1
  <2>3. Front' = Rest(n)
    BY <2>1, <2>2 DEF Front
  <2> QED
    BY <2>3 DEF Pipe
<1> QED
  BY <1>2, <1>3

\* Without a torn frame, a complete header is that of a frame.
LEMMA HeaderKnown ==
  ASSUME TypeOK, FramingInv, ~torn, need > 0, ~inBody, need \in 1 .. Len(stream)
  PROVE  Got(need) = SubSeq(Bytes(Got(need)[1][1]), 1, Header)
<1> DEFINE h == Got(need)
           t == Rest(need) \o unsent
<1>1. /\ h \in Seq(Byte) /\ Len(h) = Len(buf) + need /\ h # << >>
      /\ t \in Seq(Byte) /\ Pipe = h \o t
  BY Taken
<1>2. Len(h) = Header
  BY <1>1 DEF FramingInv, Receiving
<1> HIDE DEF h, t
<1>3. /\ h[1][1] \in Frames
      /\ \A k \in 1 .. Len(h) : k <= Size(h[1][1]) => h[k] = <<h[1][1], k>>
  BY <1>1, FrontOfFrame
<1>4. h = SubSeq(Bytes(h[1][1]), 1, Header)
  BY <1>1, <1>2, <1>3, GenuineHeader
<1> QED
  BY <1>4 DEF h

\* A Read leaves Recv reading on, or makes it return: with what it has, or,
\* after a torn frame, with an error.
LEMMA ReadCases ==
  ASSUME TypeOK, FramingInv, ReadSome \/ ReadHeader \/ ReadBody
  PROVE  /\ need > 0
         /\ \E n \in 1 .. need :
              /\ n \in 1 .. Len(stream)
              /\ \/ ReadsOn(n)
                 \/ ReadsOut(n) /\ Finishes(n) /\ returned' = Append(returned, Got(n))
                 \/ ReadsOut(n) /\ returned' = returned /\ torn
<1>0. need \in Nat /\ Len(stream) \in Nat
  BY DEF TypeOK
<1>1. CASE ReadSome
  <2>1. PICK n \in 1 .. need :
          /\ n <= Len(stream) /\ need - n # 0
          /\ buf' = Got(n) /\ stream' = Rest(n) /\ need' = need - n
          /\ UNCHANGED <<offset, timed, sender, inBody, returned, torn>>
    BY <1>1 DEF ReadSome, StillNeeded, Got
  <2>2. n \in 1 .. Len(stream) /\ need > 0 /\ need' \in Nat \ {0}
    BY <1>0, <2>1
  <2>3. ReadsOn(n)
    BY <2>1, <2>2 DEF ReadsOn, sender
  <2> QED
    BY <2>2, <2>3
<1>2. CASE ReadHeader
  <2>1. PICK n \in 1 .. need :
          /\ n <= Len(stream) /\ need - n = 0 /\ stream' = Rest(n)
          /\ \/ \E len \in Lengths(Got(n)) :
                  /\ buf' = Got(n)
                  /\ need' = len
                  /\ inBody' = (len > 0)
                  /\ returned' = IF len = 0 THEN Append(returned, Got(n)) ELSE returned
             \/ /\ Got(n) # SubSeq(Bytes(Got(n)[1][1]), 1, Header)
                /\ need' = 0
                /\ UNCHANGED <<buf, inBody, returned>>
    BY <1>2 DEF ReadHeader, StillNeeded, Got
  <2>2. /\ ~inBody /\ started' = started /\ unsent' = unsent /\ complete' = complete
        /\ offset' = offset /\ torn' = torn /\ inBody \in BOOLEAN
    BY <1>2 DEF ReadHeader, sender, TypeOK
  <2>3. n \in 1 .. Len(stream) /\ need > 0 /\ n = need
    BY <1>0, <2>1
  <2>4. CASE \E len \in Lengths(Got(n)) :
                  /\ buf' = Got(n)
                  /\ need' = len
                  /\ inBody' = (len > 0)
                  /\ returned' = IF len = 0 THEN Append(returned, Got(n)) ELSE returned
    <3>1. PICK len \in Lengths(Got(n)) :
                  /\ buf' = Got(n)
                  /\ need' = len
                  /\ inBody' = (len > 0)
                  /\ returned' = IF len = 0 THEN Append(returned, Got(n)) ELSE returned
      BY <2>4
    <3>2. len \in Nat
      <4>1. Got(n) \in Seq(Byte) /\ Got(n) # << >>
        BY <2>3, Taken
      <4>2. Got(n)[1] \in Byte
        BY <4>1
      <4>3. Body[Got(n)[1][1]] \in 0 .. MaxBody
        BY <4>2, SizeType DEF Byte
      <4>4. Lengths(Got(n)) = {Body[Got(n)[1][1]]} \/ Lengths(Got(n)) = 0 .. MaxBody
        BY DEF Lengths
      <4> QED
        BY <4>3, <4>4, FramingAssumption
    <3>3. CASE len = 0
      <4>1. ~(len > 0)
        BY <3>3
      <4>2. returned' = Append(returned, Got(n)) /\ need' = 0
        BY <3>1, <3>3, Zenon
      <4>3. ~inBody'
        BY <3>1, <4>1, Zenon
      <4>4. ReadsOut(n)
        BY <2>1, <2>2, <4>2, <4>3 DEF ReadsOut
      <4>5. Finishes(n)
        BY <2>3, <3>1, <3>3 DEF Finishes
      <4> QED
        BY <2>3, <4>2, <4>4, <4>5
    <3>4. CASE len # 0
      <4>1. returned' = returned /\ need' = len /\ buf' = Got(n)
        BY <3>1, <3>4, Zenon
      <4>2. ReadsOn(n)
        BY <2>1, <2>2, <2>3, <3>1, <3>2, <3>4, <4>1 DEF ReadsOn
      <4> QED
        BY <2>3, <4>2
    <3> QED
      BY <3>3, <3>4
  <2>5. CASE /\ Got(n) # SubSeq(Bytes(Got(n)[1][1]), 1, Header)
             /\ need' = 0
             /\ UNCHANGED <<buf, inBody, returned>>
    <3>1. torn
      BY <2>2, <2>3, <2>5, HeaderKnown
    <3>2. ReadsOut(n) /\ returned' = returned
      BY <2>1, <2>2, <2>5 DEF ReadsOut
    <3> QED
      BY <2>3, <3>1, <3>2
  <2> QED
    BY <2>1, <2>4, <2>5
<1>3. CASE ReadBody
  <2>1. PICK n \in 1 .. need :
          /\ n <= Len(stream) /\ need - n = 0 /\ stream' = Rest(n)
          /\ returned' = Append(returned, Got(n))
    BY <1>3 DEF ReadBody, StillNeeded, Got
  <2>2. n \in 1 .. Len(stream) /\ need > 0
    BY <1>0, <2>1
  <2>3. ReadsOut(n)
    BY <1>3, <2>1 DEF ReadsOut, ReadBody, sender
  <2>4. Finishes(n)
    BY <1>0, <1>3, <2>1 DEF Finishes, ReadBody
  <2> QED
    BY <2>1, <2>2, <2>3, <2>4
<1> QED
  BY <1>1, <1>2, <1>3

\* What Recv has of a frame that it reads from its start is that frame's.
LEMMA HeadOnly ==
  ASSUME TypeOK, FramingInv, TransitInv, need > 0,
         NEW n \in 1 .. need, n \in 1 .. Len(stream),
         NEW i \in Current, Got(n)[1] = <<i, 1>>
  PROVE  \A k \in 1 .. Len(Got(n)) : k \in 1 .. Size(i) /\ Got(n)[k] = <<i, k>>
<1> DEFINE h == Got(n)
           t == Rest(n) \o unsent
<1>1. /\ h \in Seq(Byte) /\ Len(h) = Len(buf) + n /\ h # << >>
      /\ t \in Seq(Byte) /\ Pipe = h \o t
  BY Taken
<1>a. Len(h) = Len(buf) + n
  BY <1>1
<1>2. need \in Nat /\ buf \in Seq(Byte) /\ stream \in Seq(Byte) /\ inBody \in BOOLEAN
  BY DEF TypeOK
<1>3. i \in Frames /\ Size(i) = Header + Body[i] /\ Size(i) \in Nat /\ Body[i] \in Nat
  BY CurrentType, SizeType, FramingAssumption DEF Size
<1>4. Len(h) <= Size(i)
  <2>1. CASE ~inBody
    <3>1. Len(buf) + need = Header
      BY <2>1 DEF FramingInv, Receiving
    <3>2. /\ Header \in Int /\ Body[i] \in Nat /\ Len(buf) \in Int /\ need \in Int
          /\ n \in Int /\ n <= need
      BY <1>2, <1>3, FramingAssumption
    <3>3. Len(buf) + n <= Header + Body[i]
      BY <3>1, <3>2
    <3> QED
      BY <1>a, <1>3, <3>3
  <2>2. CASE inBody
    <3>1. buf # << >>
      BY <2>2 DEF TransitInv, Reading
    <3>2. h[1] = buf[1]
      BY <1>2, <3>1 DEF Got
    <3>3. Len(buf) + need = Size(i)
      BY <2>2, <3>2 DEF TransitInv, Reading
    <3> QED
      BY <1>a, <1>2, <1>3, <3>3
  <2> QED
    BY <1>2, <2>1, <2>2
<1>b. h[1] = <<i, 1>>
  OBVIOUS
<1> HIDE DEF h, t
<1>5. /\ Pipe \in Seq(Byte) /\ Len(Pipe) \in Nat /\ Len(h) \in Nat \ {0}
      /\ Piece(h, Pipe, 0) /\ Len(Pipe) = Len(h) + Len(t) /\ Len(t) \in Nat
  <2>1. h \in Seq(Byte) /\ t \in Seq(Byte) /\ h # << >>
    BY <1>1
  <2>2. Piece(h, h \o t, 0) /\ Len(h \o t) = Len(h) + Len(t)
    BY <2>1, Pieces
  <2>3. Len(h) \in Nat \ {0} /\ Len(t) \in Nat
    BY <2>1
  <2>4. Pipe \in Seq(Byte)
    BY PipeType
  <2> QED
    BY <1>1, <2>2, <2>3, <2>4
<1>6. \A k \in 1 .. Len(h) : k \in 1 .. Len(Pipe) /\ h[k] = Pipe[k]
  <2>1. \A k \in 1 .. Len(h) : k + 0 = k
    OBVIOUS
  <2> QED
    BY <1>5, <2>1 DEF Piece
<1>7. 1 \in 1 .. Len(Pipe) /\ Pipe[1] = <<i, 1>>
  BY <1>b, <1>5, <1>6
<1> SUFFICES ASSUME NEW k \in 1 .. Len(h)
             PROVE  k \in 1 .. Size(i) /\ h[k] = <<i, k>>
  BY DEF h
<1>8. k \in 1 .. Size(i) /\ (1 - 1) + k = k
  BY <1>3, <1>4, <1>5
<1>9. Pipe[(1 - 1) + k] = <<i, k>>
  BY <1>7, <1>8 DEF TransitInv, Solid
<1> QED
  BY <1>6, <1>8, <1>9

\* Send adds a frame that is whole; its number is new.
LEMMA SendTransit ==
  ASSUME TypeOK, FramingInv, TransitInv, TypeOK', Send
  PROVE  TransitInv'
<1> DEFINE i == started + 1
<1>1. /\ unsent = << >> /\ i \in Frames /\ started' = i /\ unsent' = Bytes(i)
      /\ complete' = complete /\ stream' = stream /\ buf' = buf
      /\ need' = need /\ inBody' = inBody
  BY DEF Send, receiver
<1>2. /\ Bytes(i) \in Seq(Byte) /\ Len(Bytes(i)) = Size(i) /\ Bytes(i) # << >>
      /\ \A k \in 1 .. Size(i) : Bytes(i)[k] = <<i, k>>
      /\ Size(i) \in Nat \ {0}
  BY <1>1, BytesType, SizeType
<1>3. /\ started \in Nat /\ Front \in Seq(Byte) /\ need \in Nat /\ buf \in Seq(Byte)
      /\ complete \subseteq 1 .. started
  BY PipeType DEF TypeOK, FramingInv, Sending
<1>4. Pipe = Front /\ Front' = Front
  <2>1. Front \o << >> = Front
    BY <1>3
  <2> QED
    BY <1>1, <2>1 DEF Pipe, Front, Live
<1>5. Pipe' = Front \o Bytes(i)
  BY <1>1, <1>4 DEF Pipe
<1>6. /\ Len(Pipe') = Len(Front) + Size(i) /\ Len(Front) \in Nat
      /\ \A p \in 1 .. Len(Front) : Pipe'[p] = Front[p]
      /\ \A k \in 1 .. Size(i) : Pipe'[Len(Front) + k] = <<i, k>>
  <2>1. /\ Piece(Front, Front \o Bytes(i), 0)
        /\ Piece(Bytes(i), Front \o Bytes(i), Len(Front))
        /\ Len(Front \o Bytes(i)) = Len(Front) + Size(i)
    BY <1>2, <1>3, Pieces
  <2>2. Piece(Front, Pipe', 0) /\ Piece(Bytes(i), Pipe', Len(Front))
    BY <1>5, <2>1
  <2>3. Len(Front) \in Nat
    BY <1>3
  <2>4. \A p \in 1 .. Len(Front) : Front[p] = Pipe'[p + 0] /\ p + 0 = p
    BY <2>2 DEF Piece
  <2>5. \A k \in 1 .. Size(i) :
          Bytes(i)[k] = Pipe'[k + Len(Front)] /\ k + Len(Front) = Len(Front) + k
    BY <1>2, <2>2, <2>3 DEF Piece
  <2> QED
    BY <1>2, <1>5, <2>1, <2>3, <2>4, <2>5
<1>7. Known(Front, started)
  BY <1>4 DEF FramingInv, InOrder
<1>8. Current = complete /\ Current' = complete \cup {i}
  BY <1>1, <1>2 DEF Current
<1>9. Solid'
  <2> SUFFICES ASSUME NEW j \in Current', NEW p \in 1 .. Len(Pipe'), Pipe'[p] = <<j, 1>>,
                      NEW k \in 1 .. Size(j)
               PROVE  (p - 1) + k \in 1 .. Len(Pipe') /\ Pipe'[(p - 1) + k] = <<j, k>>
    BY DEF Solid, Size
  <2>1. CASE p \in 1 .. Len(Front)
    <3>1. Front[p] = <<j, 1>>
      BY <1>6, <2>1
    <3>2. j \in 1 .. started
      BY <1>7, <2>1, <3>1 DEF Known
    <3>3. j \in Current
      BY <1>3, <1>8, <3>2
    <3>4. (p - 1) + k \in 1 .. Len(Front) /\ Front[(p - 1) + k] = <<j, k>>
      BY <1>4, <2>1, <3>1, <3>3 DEF TransitInv, Solid
    <3> QED
      BY <1>2, <1>6, <3>4
  <2>2. CASE p - Len(Front) \in 1 .. Size(i)
    <3>1. Len(Front) + (p - Len(Front)) = p
      BY <1>6
    <3>2. Pipe'[p] = <<i, p - Len(Front)>>
      BY <1>6, <2>2, <3>1
    <3>3. j = i /\ p - Len(Front) = 1
      BY <3>2
    <3>4. k \in 1 .. Size(i) /\ (p - 1) + k = Len(Front) + k
      BY <1>2, <1>6, <3>3
    <3> QED
      BY <1>2, <1>6, <3>3, <3>4
  <2> QED
    BY <1>2, <1>6, <2>1, <2>2
<1>10. Unfinished'
  BY <1>1, <1>3 DEF Unfinished
<1>11. Reading'
  <2> SUFFICES ASSUME inBody, NEW j \in Current', buf # << >>, buf[1] = <<j, 1>>
               PROVE  Len(buf) + need = Size(j)
    BY <1>1 DEF TransitInv, Reading, Size
  <2>1. need > 0
    BY DEF FramingInv, Receiving
  <2>2. 1 \in 1 .. Len(Front) /\ Front[1] = buf[1]
    <3>1. Live = buf /\ stream \in Seq(Byte)
      BY <2>1 DEF Live, TypeOK
    <3>2. 1 \in 1 .. Len(buf)
      BY <1>3
    <3> QED
      BY <1>3, <3>1, <3>2 DEF Front
  <2>3. j \in 1 .. started
    BY <1>7, <2>2 DEF Known
  <2>4. j \in Current
    BY <1>3, <1>8, <2>3
  <2> QED
    BY <2>4 DEF TransitInv, Reading
<1> QED
  BY <1>9, <1>10, <1>11 DEF TransitInv

LEMMA WriteTransit ==
  ASSUME TypeOK, FramingInv, TransitInv, TypeOK', Write
  PROVE  TransitInv'
<1>1. /\ unsent # << >> /\ started' = started /\ buf' = buf /\ need' = need /\ inBody' = inBody
      /\ complete' = IF unsent' = << >> THEN complete \cup {started} ELSE complete
  BY DEF Write, receiver
<1>2. Pipe' = Pipe
  BY WriteMoves
<1>3. Current' = Current
  BY <1>1 DEF Current
<1>4. Piece(Pipe', Pipe, 0) /\ Len(Pipe') + 0 = Len(Pipe)
  BY <1>2, PipeType DEF Piece
<1>5. Solid'
  BY <1>3, <1>4, SolidKeeps DEF TransitInv
<1>6. Unfinished'
  BY <1>1 DEF TransitInv, Unfinished
<1>7. Reading'
  BY <1>1, <1>3 DEF TransitInv, Reading, Size
<1> QED
  BY <1>5, <1>6, <1>7 DEF TransitInv

\* A Send that is cut short takes no byte of a complete frame with it.
LEMMA SendTimeoutTransit ==
  ASSUME TypeOK, FramingInv, TransitInv, SendTimeout
  PROVE  TransitInv'
<1>1. /\ unsent # << >> /\ unsent' = << >> /\ started' = started
      /\ stream' = stream /\ complete' = complete /\ buf' = buf /\ need' = need
      /\ inBody' = inBody
  BY DEF SendTimeout, receiver
<1>2. /\ Front \in Seq(Byte) /\ unsent \in Seq(Byte)
      /\ started \notin complete /\ started \in Frames
  BY <1>1, PipeType DEF TypeOK, TransitInv, Unfinished, FramingInv, Sending
<1>3. Pipe' = Front
  <2>1. Front' = Front
    BY <1>1 DEF Front, Live
  <2>2. Front \o << >> = Front
    BY <1>2
  <2> QED
    BY <1>1, <2>1, <2>2 DEF Pipe
<1>4. /\ Len(Front) \in Nat /\ Len(Pipe) = Len(Front) + Len(unsent) /\ Len(unsent) \in Nat
      /\ \A p \in 1 .. Len(Front) : Pipe[p] = Front[p]
      /\ \A p \in 1 .. Len(unsent) : Pipe[Len(Front) + p] = unsent[p]
  BY <1>2 DEF Pipe
<1>5. Current' = complete /\ complete \subseteq Current
  BY <1>1 DEF Current
<1>6. Solid'
  <2> SUFFICES ASSUME NEW j \in complete, NEW p \in 1 .. Len(Front), Front[p] = <<j, 1>>,
                      NEW k \in 1 .. Size(j)
               PROVE  (p - 1) + k \in 1 .. Len(Front) /\ Front[(p - 1) + k] = <<j, k>>
    BY <1>3, <1>5 DEF Solid, Size
  <2> DEFINE q == (p - 1) + k
  <2>1. q \in 1 .. Len(Pipe) /\ Pipe[q] = <<j, k>>
    <3>1. j \in Current /\ p \in 1 .. Len(Pipe) /\ Pipe[p] = <<j, 1>>
      BY <1>4, <1>5
    <3> QED
      BY <3>1 DEF TransitInv, Solid
  <2> HIDE DEF q
  <2>2. q \in 1 .. Len(Front)
    <3> SUFFICES ASSUME q > Len(Front) PROVE FALSE
      BY <1>4, <2>1
    <3>1. q - Len(Front) \in 1 .. Len(unsent) /\ Len(Front) + (q - Len(Front)) = q
      BY <1>4, <2>1
    <3>2. Pipe[q] = unsent[q - Len(Front)]
      BY <1>4, <3>1
    <3>3. unsent[q - Len(Front)][1] = started
      BY <1>1, <3>1 DEF FramingInv, Sending
    <3>4. j = started
      BY <2>1, <3>2, <3>3
    <3> QED
      BY <1>2, <3>4
  <2>3. Front[q] = <<j, k>>
    BY <1>4, <2>1, <2>2
  <2> QED
    BY <2>2, <2>3 DEF q
<1>7. Unfinished'
  BY <1>1 DEF Unfinished
<1>8. Reading'
  BY <1>1, <1>5 DEF TransitInv, Reading, Size
<1> QED
  BY <1>6, <1>7, <1>8 DEF TransitInv

LEMMA ReadTransit ==
  ASSUME TypeOK, FramingInv, TransitInv, TypeOK', ReadSome \/ ReadHeader \/ ReadBody
  PROVE  TransitInv'
<1>1. need > 0
  BY ReadCases
<1>2. PICK n \in 1 .. need :
        /\ n \in 1 .. Len(stream)
        /\ \/ ReadsOn(n)
           \/ ReadsOut(n)
  BY ReadCases
<1>3. /\ Got(n) \in Seq(Byte) /\ Len(Got(n)) = Len(buf) + n /\ Got(n) # << >>
      /\ Rest(n) \in Seq(Byte) /\ Rest(n) \o unsent \in Seq(Byte)
      /\ Pipe = Got(n) \o (Rest(n) \o unsent)
  BY <1>1, <1>2, Taken
<1>4. /\ started' = started /\ unsent' = unsent /\ complete' = complete /\ stream' = Rest(n)
  BY <1>2 DEF ReadsOn, ReadsOut
<1>5. Current' = Current /\ Unfinished'
  BY <1>4 DEF Current, TransitInv, Unfinished
<1>6. CASE ReadsOn(n)
  <2>1. /\ need' > 0 /\ buf' = Got(n)
        /\ \/ inBody' = inBody /\ need' = need - n
           \/ ~inBody /\ n = need /\ need' \in Lengths(Got(n))
    BY <1>6 DEF ReadsOn
  <2>2. Pipe' = Pipe
    BY <1>1, <1>2, <1>4, <2>1, PipeAfterRead
  <2>3. Piece(Pipe', Pipe, 0) /\ Len(Pipe') + 0 = Len(Pipe)
    BY <2>2, PipeType DEF Piece
  <2>4. Solid'
    BY <1>5, <2>3, SolidKeeps DEF TransitInv
  <2>5. Reading'
    <3> SUFFICES ASSUME inBody', NEW i \in Current, Got(n)[1] = <<i, 1>>
                 PROVE  Len(Got(n)) + need' = Size(i)
      BY <1>3, <1>5, <2>1 DEF Reading, Size
    <3>1. /\ need \in Nat /\ buf \in Seq(Byte) /\ stream \in Seq(Byte)
          /\ inBody \in BOOLEAN
      BY DEF TypeOK
    <3>2. Len(Got(n)) = Len(buf) + n
      BY <1>3
    <3>3. CASE inBody /\ need' = need - n
      <4>1. buf # << >>
        BY <3>3 DEF TransitInv, Reading
      <4>2. Got(n)[1] = buf[1]
        BY <1>2, <3>1, <4>1 DEF Got
      <4>3. Len(buf) + need = Size(i)
        BY <3>3, <4>2 DEF TransitInv, Reading
      <4> QED
        BY <3>1, <3>2, <3>3, <4>3
    <3>4. CASE ~inBody /\ n = need /\ need' \in Lengths(Got(n))
      <4>1. Len(Got(n)) = Header
        BY <1>1, <3>1, <3>2, <3>4 DEF FramingInv, Receiving
      <4>2. \A k \in 1 .. Len(Got(n)) : k \in 1 .. Size(i) /\ Got(n)[k] = <<i, k>>
        BY <1>1, <1>2, HeadOnly
      <4>3. i \in Frames /\ Got(n)[1][1] = i
        BY CurrentType
      <4>4. Got(n) = SubSeq(Bytes(i), 1, Header)
        BY <1>3, <4>1, <4>2, <4>3, GenuineHeader
      <4>5. need' = Body[i]
        BY <3>4, <4>3, <4>4 DEF Lengths
      <4> QED
        BY <4>1, <4>5 DEF Size
    <3> QED
      BY <2>1, <3>3, <3>4
  <2> QED
    BY <1>5, <2>4, <2>5 DEF TransitInv
<1>7. CASE ReadsOut(n)
  <2>1. need' = 0 /\ ~inBody'
    BY <1>7 DEF ReadsOut
  <2> DEFINE t == Rest(n) \o unsent
  <2>2. Got(n) \in Seq(Byte) /\ t \in Seq(Byte) /\ Pipe = Got(n) \o t
    BY <1>3
  <2>3. Pipe' = t
    BY <1>1, <1>2, <1>4, <2>1, PipeAfterRead
  <2> HIDE DEF t
  <2>4. /\ Piece(t, Got(n) \o t, Len(Got(n)))
        /\ Len(Got(n) \o t) = Len(Got(n)) + Len(t)
    BY <2>2, Pieces
  <2>5. Len(Got(n)) \in Nat /\ Len(t) \in Nat
    BY <2>2
  <2>6. Piece(Pipe', Pipe, Len(Got(n))) /\ Len(Pipe') + Len(Got(n)) = Len(Pipe)
    BY <2>2, <2>3, <2>4, <2>5
  <2>7. Solid'
    BY <1>5, <2>5, <2>6, SolidKeeps DEF TransitInv
  <2>8. Reading'
    BY <2>1 DEF Reading
  <2> QED
    BY <1>5, <2>7, <2>8 DEF TransitInv
<1> QED
  BY <1>2, <1>6, <1>7

LEMMA RecvTransit ==
  ASSUME TypeOK, FramingInv, TransitInv, TypeOK', Recv
  PROVE  TransitInv'
<1>1. /\ need = 0 /\ buf' = << >> /\ inBody' = FALSE /\ started' = started
      /\ unsent' = unsent /\ complete' = complete /\ stream' = stream
  BY DEF Recv, sender
<1>2. Pipe' = Pipe
  <2>1. Live = << >> /\ Live' = << >>
    BY <1>1 DEF Live
  <2> QED
    BY <1>1, <2>1 DEF Front, Pipe
<1>3. Piece(Pipe', Pipe, 0) /\ Len(Pipe') + 0 = Len(Pipe)
  BY <1>2, PipeType DEF Piece
<1>4. Current' = Current
  BY <1>1 DEF Current
<1>5. Solid'
  BY <1>3, <1>4, SolidKeeps DEF TransitInv
<1> QED
  BY <1>1, <1>5 DEF TransitInv, Unfinished, Reading

LEMMA RecvTimeoutTransit ==
  ASSUME TypeOK, FramingInv, TransitInv, TypeOK', RecvTimeout
  PROVE  TransitInv'
<1>1. /\ need > 0 /\ need' = 0 /\ inBody' = FALSE /\ buf' = << >> /\ started' = started
      /\ unsent' = unsent /\ complete' = complete /\ stream' = stream
  BY DEF RecvTimeout, sender
<1>2. /\ buf \in Seq(Byte) /\ stream \in Seq(Byte) /\ unsent \in Seq(Byte)
  BY DEF TypeOK
<1> DEFINE t == stream \o unsent
<1>3. t \in Seq(Byte)
  BY <1>2, Pieces
<1>4. Pipe = buf \o t
  <2>1. Pipe = (buf \o stream) \o unsent
    BY <1>1 DEF Pipe, Front, Live
  <2>2. (buf \o stream) \o unsent = buf \o (stream \o unsent)
    BY <1>2
  <2> QED
    BY <2>1, <2>2
<1>5. Pipe' = t
  <2>1. Live' = << >>
    BY <1>1 DEF Live
  <2>2. << >> \o stream = stream
    BY <1>2
  <2> QED
    BY <1>1, <2>1, <2>2 DEF Pipe, Front
<1> HIDE DEF t
<1>6. Piece(t, buf \o t, Len(buf)) /\ Len(buf \o t) = Len(buf) + Len(t)
  BY <1>2, <1>3, Pieces
<1>7. Len(buf) \in Nat /\ Len(t) \in Nat
  BY <1>2, <1>3
<1>8. Piece(Pipe', Pipe, Len(buf)) /\ Len(Pipe') + Len(buf) = Len(Pipe)
  BY <1>4, <1>5, <1>6, <1>7
<1>9. Current' = Current
  BY <1>1 DEF Current
<1>10. Solid'
  BY <1>7, <1>8, <1>9, SolidKeeps DEF TransitInv
<1> QED
  BY <1>1, <1>10 DEF TransitInv, Unfinished, Reading

LEMMA TransitInvariant == Spec => []TransitInv
<1>1. Init => TransitInv
  <2> SUFFICES ASSUME Init PROVE TransitInv
    OBVIOUS
  <2>1. Current = {}
    BY DEF Init, Current
  <2> QED
    BY <2>1 DEF Init, TransitInv, Solid, Unfinished, Reading
<1>2. ASSUME TypeOK, FramingInv, TransitInv, TypeOK', [Next]_vars
      PROVE  TransitInv'
  <2>1. CASE Send
    BY <1>2, <2>1, SendTransit
  <2>2. CASE Write
    BY <1>2, <2>2, WriteTransit
  <2>3. CASE SendTimeout
    BY <1>2, <2>3, SendTimeoutTransit
  <2>4. CASE Recv
    BY <1>2, <2>4, RecvTransit
  <2>5. CASE ReadSome \/ ReadHeader \/ ReadBody
    BY <1>2, <2>5, ReadTransit
  <2>6. CASE RecvTimeout
    BY <1>2, <2>6, RecvTimeoutTransit
  <2>7. CASE UNCHANGED vars
    <3>1. /\ started' = started /\ unsent' = unsent /\ complete' = complete
          /\ stream' = stream /\ buf' = buf /\ need' = need /\ inBody' = inBody
      BY <2>7 DEF vars, sender, receiver
    <3>2. Pipe' = Pipe /\ Current' = Current
      BY <3>1 DEF Pipe, Front, Live, Current
    <3> QED
      BY <1>2, <3>1, <3>2 DEF TransitInv, Solid, Unfinished, Reading, Size
  <2> QED
    BY <1>2, <2>1, <2>2, <2>3, <2>4, <2>5, <2>6, <2>7 DEF Next, SendStep, RecvStep
<1> QED
  BY <1>1, <1>2, FramingInvariant, PTL DEF Spec

-------------------------------------------------------------------------------
(* Where accepted strings begin *)

\* Every byte has the earlier ones of its frame in front of it, as far back
\* as the string goes.
Filled(s) ==
  \A p \in 1 .. Len(s) : \A m \in 1 .. s[p][2] :
    (p - s[p][2]) + m >= 1 => s[(p - s[p][2]) + m] = <<s[p][1], m>>

\* The k-th string that Recv returned begins with the beginning of a frame.
Begins(k) == returned[k][1][2] = 1

\* What the pipe has is behind all frames that began a string.
Behind ==
  \A k \in 1 .. Len(returned) : Begins(k) =>
    \A p \in 1 .. Len(Pipe) : Before(returned[k][1], Pipe[p])

HeadsRise ==
  \A k \in 1 .. Len(returned) : \A j \in 1 .. k - 1 :
    Begins(j) /\ Begins(k) => returned[j][1][1] < returned[k][1][1]

\* A string that begins with a frame that is complete or can still become so
\* is that frame.
HeadsWhole ==
  \A k \in 1 .. Len(returned) : Begins(k) =>
    /\ returned[k][1][1] \in 1 .. started
    /\ returned[k][1][1] \in Current => Whole(returned[k])

HeadInv ==
  /\ Filled(Pipe)
  /\ \A k \in 1 .. Len(returned) : returned[k] # << >> /\ Filled(returned[k])
  /\ Behind
  /\ HeadsRise
  /\ HeadsWhole

LEMMA FilledPiece ==
  ASSUME NEW s \in Seq(Byte), NEW t \in Seq(Byte), NEW d \in Nat,
         Piece(t, s, d), Filled(s)
  PROVE  Filled(t)
<1>1. \A p \in 1 .. Len(t) : p + d \in 1 .. Len(s) /\ t[p] = s[p + d]
  BY PieceAt
<1> SUFFICES ASSUME NEW p \in 1 .. Len(t), NEW m \in 1 .. t[p][2],
                    (p - t[p][2]) + m >= 1
             PROVE  t[(p - t[p][2]) + m] = <<t[p][1], m>>
  BY DEF Filled
<1> DEFINE b == t[p][2]
           q == (p - b) + m
<1>2. b \in Nat /\ Len(t) \in Nat
  <2>1. t[p] \in Byte
    OBVIOUS
  <2> QED
    BY <2>1 DEF Byte
<1>3. b = s[p + d][2] /\ t[p][1] = s[p + d][1] /\ p + d \in 1 .. Len(s)
  BY <1>1
<1>4. m \in 1 .. b /\ q >= 1
  OBVIOUS
<1> HIDE DEF b
<1>5. q \in 1 .. Len(t) /\ ((p + d) - b) + m = q + d /\ q + d >= 1
  BY <1>2, <1>4
<1> HIDE DEF q
<1>6. s[q + d] = <<t[p][1], m>>
  BY <1>3, <1>4, <1>5 DEF Filled
<1>7. t[q] = s[q + d]
  BY <1>1, <1>5
<1> QED
  BY <1>6, <1>7 DEF q, b

LEMMA FilledAppend ==
  ASSUME NEW s \in Seq(Byte), NEW i \in Frames, Filled(s)
  PROVE  Filled(s \o Bytes(i))
<1> DEFINE D == Size(i)
           t == s \o Bytes(i)
           l == Len(s)
<1>1. /\ D \in Nat /\ l \in Nat /\ t \in Seq(Byte) /\ Len(t) = l + D
      /\ \A p \in 1 .. l : t[p] = s[p]
      /\ \A k \in 1 .. D : t[l + k] = <<i, k>>
  <2>1. D \in Nat /\ l \in Nat
    BY SizeType
  <2>2. t \in Seq(Byte) /\ Piece(s, t, 0) /\ Piece(Bytes(i), t, l) /\ Len(t) = l + D
    BY BytesType, Pieces
  <2>3. \A p \in 1 .. l : s[p] = t[p + 0] /\ p + 0 = p
    BY <2>2 DEF Piece
  <2>4. \A k \in 1 .. D : Bytes(i)[k] = t[k + l] /\ k + l = l + k
    BY <2>1, <2>2, BytesType DEF Piece
  <2> QED
    BY <2>1, <2>2, <2>3, <2>4, BytesType
<1> HIDE DEF t, D, l
<1> SUFFICES ASSUME NEW p \in 1 .. Len(t), NEW m \in 1 .. t[p][2],
                    (p - t[p][2]) + m >= 1
             PROVE  t[(p - t[p][2]) + m] = <<t[p][1], m>>
  BY DEF Filled, t
<1>2. t[p][2] \in Nat
  <2>1. t[p] \in Byte
    BY <1>1
  <2> QED
    BY <2>1 DEF Byte
<1>3. CASE p \in 1 .. l
  <2> DEFINE b == s[p][2]
             q == (p - b) + m
  <2>1. t[p] = s[p]
    BY <1>1, <1>3
  <2>2. b \in Nat /\ m \in 1 .. b /\ q >= 1
    BY <1>2, <2>1
  <2>3. p \in 1 .. Len(s)
    BY <1>3 DEF l
  <2>4. s[q] = <<s[p][1], m>>
    BY <2>2, <2>3 DEF Filled
  <2> HIDE DEF b
  <2>5. q \in 1 .. l
    BY <1>1, <1>3, <2>2
  <2>6. t[q] = s[q]
    BY <1>1, <2>5
  <2> QED
    BY <2>1, <2>4, <2>6 DEF b
<1>4. CASE p - l \in 1 .. D
  <2> DEFINE k == p - l
  <2>1. k \in 1 .. D /\ l + k = p
    BY <1>1, <1>4
  <2>2. t[p] = <<i, k>>
    BY <1>1, <2>1
  <2>3. m \in 1 .. k /\ t[p][2] = k /\ t[p][1] = i
    BY <2>2
  <2> HIDE DEF k
  <2>4. (p - k) + m = l + m /\ m \in 1 .. D
    BY <1>1, <2>1, <2>3
  <2>5. t[l + m] = <<i, m>>
    BY <1>1, <2>4
  <2> QED
    BY <2>3, <2>4, <2>5
<1>5. p \in 1 .. l \/ p - l \in 1 .. D
  BY <1>1
<1> QED
  BY <1>3, <1>4, <1>5, Zenon

\* What Decode accepts begins with the beginning of a frame: if the first
\* byte of the magic is in its place, all before it are.
LEMMA DecodesFirst ==
  ASSUME TypeOK, NEW s \in Seq(Byte), Filled(s), Decodes(s)
  PROVE  s[1][2] = 1
<1> DEFINE p == offset + 1
<1>2. offset \in Nat /\ Mark \in Nat \ {0}
  BY FramingAssumption DEF TypeOK
<1>3. Len(s) >= offset + Mark /\ \A m \in 1 .. Mark : s[offset + m][2] = offset + m
  BY DEF Decodes
<1>4. p \in 1 .. Len(s) /\ 1 \in 1 .. Mark /\ 1 \in 1 .. p /\ (p - p) + 1 = 1
  BY <1>2, <1>3
<1>5. s[p][2] = p
  BY <1>3, <1>4
<1> HIDE DEF p
<1>6. s[(p - p) + 1] = <<s[p][1], 1>>
  <2>1. (p - p) + 1 >= 1
    BY <1>4
  <2> QED
    BY <1>4, <1>5, <2>1 DEF Filled
<1>7. s[1] = <<s[p][1], 1>>
  BY <1>4, <1>6
<1> QED
  BY <1>7

LEMMA DecodesHead ==
  ASSUME TypeOK, HeadInv, NEW k \in 1 .. Len(returned), Decodes(returned[k])
  PROVE  Begins(k)
<1>1. returned[k] \in Seq(Byte) /\ Filled(returned[k])
  BY DEF TypeOK, HeadInv
<1> QED
  BY <1>1, DecodesFirst DEF Begins

LEMMA WholeBegins ==
  ASSUME NEW k \in 1 .. Len(returned), Whole(returned[k])
  PROVE  Begins(k)
<1> DEFINE i == returned[k][1][1]
<1>1. returned[k] = Bytes(i) /\ i \in Frames
  BY DEF Whole
<1>2. 1 \in 1 .. Size(i)
  BY <1>1, SizeType
<1>3. returned[k][1] = <<i, 1>>
  BY <1>1, <1>2, BytesType
<1> QED
  BY <1>3 DEF Begins

\* A step that at most cuts the pipe and returns nothing.
LEMMA HeadsStay ==
  ASSUME TypeOK, TypeOK', HeadInv, NEW d \in Nat, Piece(Pipe', Pipe, d),
         UNCHANGED <<started, returned>>, Current' \subseteq Current
  PROVE  HeadInv'
<1>1. Pipe \in Seq(Byte) /\ Pipe' \in Seq(Byte)
  BY PipeType, PipeTypeNext
<1>2. returned' = returned /\ started' = started
  OBVIOUS
<1>3. Filled(Pipe')
  BY <1>1, FilledPiece DEF HeadInv
<1>4. Behind'
  <2> SUFFICES ASSUME NEW k \in 1 .. Len(returned), Begins(k), NEW p \in 1 .. Len(Pipe')
               PROVE  Before(returned[k][1], Pipe'[p])
    BY <1>2 DEF Behind, Begins, Before
  <2>1. p + d \in 1 .. Len(Pipe) /\ Pipe'[p] = Pipe[p + d]
    BY <1>1, PieceAt
  <2> QED
    BY <2>1 DEF HeadInv, Behind
<1>5. HeadsRise' /\ HeadsWhole'
  BY <1>2 DEF HeadInv, HeadsRise, HeadsWhole, Begins, Whole, Bytes
<1> QED
  BY <1>2, <1>3, <1>4, <1>5 DEF HeadInv, Filled

\* A new frame is behind all others.
LEMMA SendHeads ==
  ASSUME TypeOK, TypeOK', FramingInv, HeadInv, Send
  PROVE  HeadInv'
<1> DEFINE i == started + 1
<1>1. /\ unsent = << >> /\ i \in Frames /\ started' = i /\ unsent' = Bytes(i)
      /\ complete' = complete /\ stream' = stream /\ buf' = buf
      /\ need' = need /\ returned' = returned
  BY DEF Send, receiver
<1>2. Pipe \in Seq(Byte) /\ Front \in Seq(Byte) /\ started \in Nat
  BY PipeType DEF TypeOK
<1>3. Pipe' = Pipe \o Bytes(i)
  <2>1. Front' = Front
    BY <1>1 DEF Front, Live
  <2>2. Front \o << >> = Front
    BY <1>2
  <2> QED
    BY <1>1, <2>1, <2>2 DEF Pipe
<1>4. Filled(Pipe')
  <2>1. Filled(Pipe)
    BY DEF HeadInv
  <2>2. Filled(Pipe \o Bytes(i))
    BY <1>1, <1>2, <2>1, FilledAppend
  <2> QED
    BY <1>3, <2>2
<1>5. \A k \in 1 .. Len(returned) : Begins(k) => returned[k][1][1] \in 1 .. started
  BY DEF HeadInv, HeadsWhole
<1>6. Behind'
  <2> SUFFICES ASSUME NEW k \in 1 .. Len(returned), Begins(k), NEW p \in 1 .. Len(Pipe')
               PROVE  Before(returned[k][1], Pipe'[p])
    BY <1>1 DEF Behind, Begins, Before
  <2>1. /\ Piece(Pipe, Pipe', 0) /\ Piece(Bytes(i), Pipe', Len(Pipe))
        /\ Len(Pipe') = Len(Pipe) + Size(i) /\ Size(i) \in Nat /\ Len(Pipe) \in Nat
        /\ Len(Bytes(i)) = Size(i)
    <3>1. Bytes(i) \in Seq(Byte) /\ Len(Bytes(i)) = Size(i) /\ Size(i) \in Nat
      BY <1>1, BytesType, SizeType
    <3> DEFINE b == Bytes(i)
    <3>2. Pipe \in Seq(Byte) /\ b \in Seq(Byte) /\ Pipe' = Pipe \o b
      BY <1>2, <1>3, <3>1
    <3> HIDE DEF b
    <3>3. Piece(Pipe, Pipe', 0) /\ Piece(b, Pipe', Len(Pipe)) /\ Len(Pipe') = Len(Pipe) + Len(b)
      BY <3>2, Pieces
    <3>4. Len(Pipe) \in Nat
      BY <1>2
    <3> QED
      BY <3>1, <3>3, <3>4 DEF b
  <2>2. CASE p \in 1 .. Len(Pipe)
    <3>1. Pipe[p] = Pipe'[p + 0] /\ p + 0 = p
      BY <2>1, <2>2 DEF Piece
    <3> QED
      BY <2>2, <3>1 DEF HeadInv, Behind
  <2>3. CASE p - Len(Pipe) \in 1 .. Size(i)
    <3>1. /\ Bytes(i)[p - Len(Pipe)] = Pipe'[(p - Len(Pipe)) + Len(Pipe)]
          /\ (p - Len(Pipe)) + Len(Pipe) = p
      BY <2>1, <2>3 DEF Piece
    <3>2. Pipe'[p][1] = i
      BY <1>1, <2>3, <3>1, BytesType
    <3>3. returned[k][1][1] < i
      BY <1>2, <1>5
    <3> QED
      BY <3>2, <3>3 DEF Before
  <2> QED
    BY <2>1, <2>2, <2>3
<1>7. HeadsWhole'
  <2> SUFFICES ASSUME NEW k \in 1 .. Len(returned), Begins(k)
               PROVE  /\ returned[k][1][1] \in 1 .. i
                      /\ returned[k][1][1] \in Current' => Whole(returned[k])
    BY <1>1 DEF HeadsWhole, Begins, Whole, Bytes
  <2>1. returned[k][1][1] \in 1 .. i /\ returned[k][1][1] # i
    BY <1>2, <1>5
  <2>2. Current = complete /\ Current' \subseteq complete \cup {i}
    BY <1>1 DEF Current
  <2>3. returned[k][1][1] \in Current => Whole(returned[k])
    BY DEF HeadInv, HeadsWhole
  <2> QED
    BY <2>1, <2>2, <2>3
<1>8. HeadsRise' /\ \A k \in 1 .. Len(returned') : returned'[k] # << >> /\ Filled(returned'[k])
  BY <1>1 DEF HeadInv, HeadsRise, Begins
<1> QED
  BY <1>4, <1>6, <1>7, <1>8 DEF HeadInv, Filled

\* A Recv that has read a frame from its start returns that frame.
LEMMA HeadIsWhole ==
  ASSUME TypeOK, FramingInv, TransitInv, need > 0,
         NEW n \in 1 .. need, n \in 1 .. Len(stream), Finishes(n),
         NEW i \in Current, Got(n)[1] = <<i, 1>>
  PROVE  Whole(Got(n))
<1> DEFINE h == Got(n)
<1>1. h \in Seq(Byte) /\ Len(h) = Len(buf) + n /\ h # << >>
  BY Taken
<1>2. need \in Nat /\ buf \in Seq(Byte) /\ stream \in Seq(Byte) /\ inBody \in BOOLEAN
  BY DEF TypeOK
<1>3. n = need /\ (inBody \/ 0 \in Lengths(h))
  BY DEF Finishes
<1>4. i \in Frames /\ Size(i) = Header + Body[i] /\ Size(i) \in Nat /\ Body[i] \in Nat
  BY CurrentType, SizeType, FramingAssumption DEF Size
<1>5. \A k \in 1 .. Len(h) : k \in 1 .. Size(i) /\ h[k] = <<i, k>>
  BY HeadOnly
<1>6. h[1][1] = i
  OBVIOUS
<1>7. Len(h) = Size(i)
  <2>1. CASE inBody
    <3>1. buf # << >>
      BY <2>1 DEF TransitInv, Reading
    <3>2. h[1] = buf[1]
      BY <1>2, <3>1 DEF Got
    <3>3. Len(buf) + need = Size(i)
      BY <2>1, <3>2 DEF TransitInv, Reading
    <3> QED
      BY <1>1, <1>3, <3>3
  <2>2. CASE ~inBody
    <3>1. Len(h) = Header
      BY <1>1, <1>3, <2>2 DEF FramingInv, Receiving
    <3> HIDE DEF h
    <3>2. h = SubSeq(Bytes(i), 1, Header)
      BY <1>1, <1>4, <1>5, <1>6, <3>1, GenuineHeader
    <3>3. Lengths(h) = {Body[i]}
      BY <1>6, <3>2 DEF Lengths
    <3>4. Body[i] = 0
      BY <1>3, <2>2, <3>3
    <3> QED
      BY <1>4, <3>1, <3>4, FramingAssumption
  <2> QED
    BY <2>1, <2>2
<1> HIDE DEF h
<1>8. Whole(h)
  BY <1>1, <1>4, <1>5, <1>6, <1>7, GenuineFrame
<1> QED
  BY <1>8 DEF h

\* Recv returns the front of the pipe.
LEMMA ReturnHeads ==
  ASSUME TypeOK, TypeOK', FramingInv, TransitInv, HeadInv, need > 0,
         NEW n \in 1 .. need, n \in 1 .. Len(stream), ReadsOut(n), Finishes(n),
         returned' = Append(returned, Got(n))
  PROVE  HeadInv'
<1> DEFINE h == Got(n)
           t == Rest(n) \o unsent
<1>1. h \in Seq(Byte) /\ h # << >> /\ t \in Seq(Byte) /\ Pipe = h \o t
  BY Taken
<1>2. Pipe' = t
  BY PipeAfterRead DEF ReadsOut
<1>3. /\ started' = started /\ Current' = Current
      /\ returned \in Seq(Seq(Byte)) /\ started \in Nat
  BY DEF ReadsOut, Current, TypeOK
<1>w. ASSUME NEW i \in Current, h[1] = <<i, 1>> PROVE Whole(h)
  BY <1>w, HeadIsWhole
<1>r. returned' = Append(returned, h)
  OBVIOUS
<1> HIDE DEF h, t
<1>4. /\ Piece(h, Pipe, 0) /\ Piece(t, Pipe, Len(h)) /\ Len(Pipe) = Len(h) + Len(t)
      /\ Pipe \in Seq(Byte) /\ Len(h) \in Nat \ {0} /\ Len(t) \in Nat
  BY <1>1, Pieces, PipeType
<1>5. h[1] = Pipe[1] /\ 1 \in 1 .. Len(Pipe) /\ h[1] = <<h[1][1], h[1][2]>>
  <2>1. 1 \in 1 .. Len(h) /\ 1 + 0 = 1
    BY <1>4
  <2>2. h[1] \in Byte
    BY <1>1, <2>1
  <2> QED
    BY <1>4, <2>1, <2>2 DEF Piece, Byte
<1>6. \A p \in 1 .. Len(t) : p + Len(h) \in 1 .. Len(Pipe) /\ t[p] = Pipe[p + Len(h)] /\ 1 < p + Len(h)
  BY <1>4 DEF Piece
<1>7. /\ Filled(Pipe)
      /\ \A k \in 1 .. Len(returned) : returned[k] # << >> /\ Filled(returned[k])
      /\ Behind /\ HeadsRise /\ HeadsWhole
      /\ Known(Pipe, started) /\ Rising(Pipe)
  BY DEF HeadInv, FramingInv, InOrder
<1>8. Filled(h) /\ Filled(t)
  BY <1>1, <1>4, <1>7, FilledPiece
<1>9. /\ Len(returned') = Len(returned) + 1 /\ Len(returned) \in Nat
      /\ returned'[Len(returned) + 1] = h
      /\ \A k \in 1 .. Len(returned) : returned'[k] = returned[k]
  BY <1>1, <1>3, <1>r
<1>10. \A k \in 1 .. Len(returned') :
         \/ k \in 1 .. Len(returned) /\ returned'[k] = returned[k]
         \/ k = Len(returned) + 1 /\ returned'[k] = h
  BY <1>9
<1>11. \A k \in 1 .. Len(returned') : returned'[k] # << >> /\ Filled(returned'[k])
  BY <1>1, <1>7, <1>8, <1>10
<1>12. Behind'
  <2> SUFFICES ASSUME NEW k \in 1 .. Len(returned'), returned'[k][1][2] = 1,
                      NEW p \in 1 .. Len(t)
               PROVE  Before(returned'[k][1], t[p])
    BY <1>2 DEF Behind, Begins, Before
  <2>1. CASE k \in 1 .. Len(returned) /\ returned'[k] = returned[k]
    <3>1. Before(returned[k][1], Pipe[p + Len(h)])
      BY <1>6, <1>7, <2>1 DEF Behind, Begins
    <3> QED
      BY <1>6, <2>1, <3>1
  <2>2. CASE k = Len(returned) + 1 /\ returned'[k] = h
    <3>1. Before(Pipe[1], Pipe[p + Len(h)])
      BY <1>5, <1>6, <1>7 DEF Rising
    <3> QED
      BY <1>5, <1>6, <2>2, <3>1
  <2> QED
    BY <1>10, <2>1, <2>2
<1>13. HeadsRise'
  <2> SUFFICES ASSUME NEW k \in 1 .. Len(returned'), NEW j \in 1 .. k - 1,
                      returned'[j][1][2] = 1, returned'[k][1][2] = 1
               PROVE  returned'[j][1][1] < returned'[k][1][1]
    BY DEF HeadsRise, Begins
  <2>1. j \in 1 .. Len(returned) /\ returned'[j] = returned[j]
    BY <1>9
  <2>2. CASE k \in 1 .. Len(returned) /\ returned'[k] = returned[k]
    BY <1>7, <2>1, <2>2 DEF HeadsRise, Begins
  <2>3. CASE k = Len(returned) + 1 /\ returned'[k] = h
    <3>1. Before(returned[j][1], Pipe[1])
      BY <1>5, <1>7, <2>1 DEF Behind, Begins
    <3>2. returned[j][1][2] = 1 /\ Pipe[1][2] = 1 /\ returned'[k][1] = Pipe[1]
      BY <1>5, <2>1, <2>3
    <3> QED
      BY <2>1, <3>1, <3>2 DEF Before
  <2> QED
    BY <1>10, <2>2, <2>3
<1>14. HeadsWhole'
  <2> SUFFICES ASSUME NEW k \in 1 .. Len(returned'), returned'[k][1][2] = 1
               PROVE  /\ returned'[k][1][1] \in 1 .. started
                      /\ returned'[k][1][1] \in Current => Whole(returned'[k])
    BY <1>3 DEF HeadsWhole, Begins, Whole, Bytes
  <2>1. CASE k \in 1 .. Len(returned) /\ returned'[k] = returned[k]
    BY <1>7, <2>1 DEF HeadsWhole, Begins
  <2>2. CASE k = Len(returned) + 1 /\ returned'[k] = h
    <3>1. h[1][1] \in 1 .. started
      BY <1>5, <1>7 DEF Known
    <3>2. h[1] = <<h[1][1], 1>>
      BY <1>5, <2>2
    <3> QED
      BY <1>w, <2>2, <3>1, <3>2
  <2> QED
    BY <1>10, <2>1, <2>2
<1> QED
  BY <1>2, <1>8, <1>11, <1>12, <1>13, <1>14 DEF HeadInv, Filled

\* A Read that returns nothing, and the deadlines, at most cut the pipe.
LEMMA ReadHeads ==
  ASSUME TypeOK, TypeOK', FramingInv, TransitInv, HeadInv,
         ReadSome \/ ReadHeader \/ ReadBody
  PROVE  HeadInv'
<1>1. need > 0
  BY ReadCases
<1>2. PICK n \in 1 .. need :
        /\ n \in 1 .. Len(stream)
        /\ \/ ReadsOn(n)
           \/ ReadsOut(n) /\ Finishes(n) /\ returned' = Append(returned, Got(n))
           \/ ReadsOut(n) /\ returned' = returned /\ torn
  BY ReadCases
<1>3. CASE ReadsOn(n)
  <2>1. /\ started' = started /\ unsent' = unsent /\ complete' = complete
        /\ returned' = returned /\ stream' = Rest(n) /\ need' > 0 /\ buf' = Got(n)
    BY <1>3 DEF ReadsOn
  <2>2. Pipe' = Pipe /\ Current' = Current
    BY <1>1, <1>2, <2>1, PipeAfterRead DEF Current
  <2>3. Piece(Pipe', Pipe, 0)
    BY <2>2, PipeType DEF Piece
  <2> QED
    BY <2>1, <2>2, <2>3, HeadsStay
<1>4. CASE ReadsOut(n) /\ Finishes(n) /\ returned' = Append(returned, Got(n))
  BY <1>1, <1>2, <1>4, ReturnHeads
<1>5. CASE ReadsOut(n) /\ returned' = returned
  <2>1. /\ started' = started /\ unsent' = unsent /\ complete' = complete
        /\ stream' = Rest(n) /\ need' = 0
    BY <1>5 DEF ReadsOut
  <2> DEFINE t == Rest(n) \o unsent
  <2>2. Pipe' = t /\ Current' = Current
    BY <1>1, <1>2, <2>1, PipeAfterRead DEF Current
  <2>3. Got(n) \in Seq(Byte) /\ t \in Seq(Byte) /\ Pipe = Got(n) \o t
    BY <1>1, <1>2, Taken
  <2> HIDE DEF t
  <2>4. Piece(Pipe', Pipe, Len(Got(n))) /\ Len(Got(n)) \in Nat
    BY <2>2, <2>3, Pieces
  <2> QED
    BY <1>5, <2>1, <2>2, <2>4, HeadsStay
<1> QED
  BY <1>2, <1>3, <1>4, <1>5

LEMMA TimeoutHeads ==
  ASSUME TypeOK, TypeOK', HeadInv, SendTimeout \/ RecvTimeout
  PROVE  HeadInv'
<1>1. /\ buf \in Seq(Byte) /\ stream \in Seq(Byte) /\ unsent \in Seq(Byte)
      /\ stream \o unsent \in Seq(Byte) /\ Front \in Seq(Byte)
  BY PipeType, Pieces DEF TypeOK
<1>2. CASE SendTimeout
  <2>1. /\ unsent' = << >> /\ started' = started /\ stream' = stream
        /\ complete' = complete /\ buf' = buf /\ need' = need /\ returned' = returned
    BY <1>2 DEF SendTimeout, receiver
  <2>2. Pipe' = Front
    <3>1. Front' = Front
      BY <2>1 DEF Front, Live
    <3>2. Front \o << >> = Front
      BY <1>1
    <3> QED
      BY <2>1, <3>1, <3>2 DEF Pipe
  <2>3. Piece(Pipe', Pipe, 0)
    BY <2>2, PipeType
  <2>4. Current' \subseteq Current
    BY <2>1 DEF Current
  <2> QED
    BY <2>1, <2>3, <2>4, HeadsStay
<1>3. CASE RecvTimeout
  <2>1. /\ need > 0 /\ need' = 0 /\ started' = started /\ unsent' = unsent
        /\ complete' = complete /\ stream' = stream /\ returned' = returned
    BY <1>3 DEF RecvTimeout, sender
  <2> DEFINE t == stream \o unsent
  <2>2. Pipe = buf \o t
    <3>1. Pipe = (buf \o stream) \o unsent
      BY <2>1 DEF Pipe, Front, Live
    <3>2. (buf \o stream) \o unsent = buf \o (stream \o unsent)
      BY <1>1
    <3> QED
      BY <3>1, <3>2
  <2>3. Pipe' = t
    <3>1. Live' = << >>
      BY <2>1 DEF Live
    <3>2. << >> \o stream = stream
      BY <1>1
    <3> QED
      BY <2>1, <3>1, <3>2 DEF Pipe, Front
  <2>4. t \in Seq(Byte)
    BY <1>1
  <2> HIDE DEF t
  <2>5. Piece(t, buf \o t, Len(buf))
    BY <1>1, <2>4, Pieces
  <2>6. Piece(Pipe', Pipe, Len(buf)) /\ Len(buf) \in Nat
    BY <1>1, <2>2, <2>3, <2>5
  <2>7. Current' = Current
    BY <2>1 DEF Current
  <2> QED
    BY <2>1, <2>6, <2>7, HeadsStay
<1> QED
  BY <1>2, <1>3

LEMMA HeadInvariant == Spec => []HeadInv
<1>1. Init => HeadInv
  <2> SUFFICES ASSUME Init PROVE HeadInv
    OBVIOUS
  <2>1. stream = << >> /\ unsent = << >> /\ need = 0 /\ returned = << >>
    BY DEF Init
  <2>2. Pipe = << >>
    BY <2>1 DEF Pipe, Front, Live
  <2>3. Len(Pipe) = 0 /\ Len(returned) = 0
    BY <2>1, <2>2
  <2> QED
    BY <2>3 DEF HeadInv, Filled, Behind, HeadsRise, HeadsWhole
<1>2. ASSUME TypeOK, FramingInv, TransitInv, HeadInv, TypeOK', [Next]_vars
      PROVE  HeadInv'
  <2>1. CASE Send
    BY <1>2, <2>1, SendHeads
  <2>2. CASE Write
    <3>1. /\ unsent # << >> /\ started' = started /\ returned' = returned
          /\ complete' = IF unsent' = << >> THEN complete \cup {started} ELSE complete
      BY <2>2 DEF Write, receiver
    <3>2. Pipe' = Pipe
      BY <1>2, <2>2, WriteMoves
    <3>3. Current' = Current
      BY <3>1 DEF Current
    <3>4. Piece(Pipe', Pipe, 0)
      BY <1>2, <3>2, PipeType DEF Piece
    <3> QED
      BY <1>2, <3>1, <3>3, <3>4, HeadsStay
  <2>3. CASE SendTimeout \/ RecvTimeout
    BY <1>2, <2>3, TimeoutHeads
  <2>4. CASE Recv \/ UNCHANGED vars
    <3>1. /\ started' = started /\ unsent' = unsent /\ complete' = complete
          /\ stream' = stream /\ returned' = returned
          /\ \/ need = 0 /\ buf' = << >>
             \/ need' = need /\ buf' = buf
      BY <2>4 DEF Recv, vars, sender, receiver
    <3>2. Live' = Live
      BY <3>1 DEF Live
    <3>3. Pipe' = Pipe /\ Current' = Current
      BY <3>1, <3>2 DEF Pipe, Front, Current
    <3>4. Piece(Pipe', Pipe, 0)
      BY <1>2, <3>3, PipeType DEF Piece
    <3> QED
      BY <1>2, <3>1, <3>3, <3>4, HeadsStay
  <2>5. CASE ReadSome \/ ReadHeader \/ ReadBody
    BY <1>2, <2>5, ReadHeads
  <2> QED
    BY <1>2, <2>1, <2>2, <2>3, <2>4, <2>5 DEF Next, SendStep, RecvStep
<1> QED
  BY <1>1, <1>2, FramingInvariant, TransitInvariant, PTL DEF Spec

(***************************************************************************)
(* Wherever the deadlines cut, what Decode accepts begins with the         *)
(* beginning of a frame, and the frames that accepted strings begin with   *)
(* are in the order of their Send, none of them twice (frame.go:45-73,     *)
(* quic.go:133-160, sctpkernel_linux.go:221-261).                          *)
(***************************************************************************)
THEOREM OnlyGenuineFrames == Spec => []AcceptsGenuine
<1>1. TypeOK /\ HeadInv => AcceptsGenuine
  <2> SUFFICES ASSUME TypeOK, HeadInv, NEW k \in 1 .. Len(returned), Decodes(returned[k])
               PROVE  /\ returned[k][1][2] = 1
                      /\ \A j \in 1 .. k - 1 :
                           Decodes(returned[j]) => returned[j][1][1] < returned[k][1][1]
    BY DEF AcceptsGenuine
  <2>1. Begins(k)
    BY DecodesHead
  <2>2. ASSUME NEW j \in 1 .. k - 1, Decodes(returned[j])
        PROVE  returned[j][1][1] < returned[k][1][1]
    <3>1. j \in 1 .. Len(returned)
      BY DEF TypeOK
    <3>2. Begins(j)
      BY <2>2, <3>1, DecodesHead
    <3> QED
      BY <2>1, <3>2 DEF HeadInv, HeadsRise
  <2> QED
    BY <2>1, <2>2 DEF Begins
<1> QED
  BY <1>1, FramingInvariant, HeadInvariant, PTL

LEMMA IntactNow ==
  ASSUME TypeOK, FramingInv, HeadInv, NEW k \in 1 .. Len(returned), Decodes(returned[k])
  PROVE  \/ Whole(returned[k]) /\ returned[k][1][1] \in complete
         \/ Joint(returned[k]) /\ Failed(returned[k][1][1]) /\ torn
<1> DEFINE i == returned[k][1][1]
<1>1. i \in 1 .. started /\ (i \in Current => Whole(returned[k]))
  BY DecodesHead DEF HeadInv, HeadsWhole
<1>2. CASE Whole(returned[k])
  BY <1>2 DEF FramingInv, Finished
<1>3. CASE ~Whole(returned[k])
  <2>1. i \notin Current
    BY <1>1, <1>3
  <2>2. Failed(i)
    BY <1>1, <2>1 DEF Failed, Current
  <2>3. torn
    BY <1>3 DEF FramingInv, Intact
  <2> QED
    BY <1>3, <2>2, <2>3 DEF Joint
<1> QED
  BY <1>2, <1>3

(***************************************************************************)
(* Decode accepts a frame whose Send returned nil only whole, and else     *)
(* only joints, which begin with a frame whose Send failed, after a        *)
(* deadline cut a frame: what a worker counts as a send error is never     *)
(* received as it was sent (load.go:75-77, frame.go:45-73,                 *)
(* sctpkernel_linux.go:213-233).                                           *)
(***************************************************************************)
THEOREM OnlyFailedFramesJoin == Spec => []AcceptsIntact
<1>1. TypeOK /\ FramingInv /\ HeadInv => AcceptsIntact
  BY IntactNow DEF AcceptsIntact
<1> QED
  BY <1>1, FramingInvariant, HeadInvariant, PTL

(***************************************************************************)
(* As long as no deadline cut a frame, all that Recv returns are whole     *)
(* frames in their order, however Write and Read split them                *)
(* (quic.go:133-160, sctpkernel_linux.go:221-261).                         *)
(***************************************************************************)
THEOREM WholeAndInOrder == Spec => []DeliversInOrder
<1>1. TypeOK /\ FramingInv /\ HeadInv => DeliversInOrder
  <2> SUFFICES ASSUME TypeOK, FramingInv, HeadInv, ~torn, NEW k \in 1 .. Len(returned)
               PROVE  /\ Whole(returned[k])
                      /\ k > 1 => returned[k - 1][1][1] < returned[k][1][1]
    BY DEF DeliversInOrder
  <2>1. \A j \in 1 .. Len(returned) : Whole(returned[j]) /\ Begins(j)
    BY WholeBegins DEF FramingInv, Intact
  <2>2. ASSUME k > 1 PROVE returned[k - 1][1][1] < returned[k][1][1]
    <3>1. k - 1 \in 1 .. Len(returned) /\ k - 1 \in 1 .. k - 1
      BY <2>2 DEF TypeOK
    <3> QED
      BY <2>1, <3>1 DEF HeadInv, HeadsRise
  <2> QED
    BY <2>1, <2>2
<1> QED
  BY <1>1, FramingInvariant, HeadInvariant, PTL

-------------------------------------------------------------------------------
(* The refinement of FrameChannel *)

\* What a Read of n bytes does to the first bytes of frames.
LEMMA FirstBytes ==
  ASSUME TypeOK, FramingInv, need > 0, NEW n \in 1 .. need, n \in 1 .. Len(stream)
  PROVE  /\ \A i : InTransit(i) => AtStart(Got(n), i) \/ AtStart(Rest(n), i)
         /\ \A i : AtStart(Rest(n), i) => InTransit(i)
         /\ \A i : Got(n)[1] = <<i, 1>> => InTransit(i)
         /\ \A i, j : AtStart(Got(n), i) /\ AtStart(Rest(n), j) => i < j
<1>1. buf \in Seq(Byte) /\ stream \in Seq(Byte) /\ need \in Nat
  BY DEF TypeOK
<1>2. /\ Got(n) \in Seq(Byte) /\ Len(Got(n)) = Len(buf) + n /\ Len(buf) \in Nat
      /\ \A p \in 1 .. Len(buf) : Got(n)[p] = buf[p]
      /\ \A p \in 1 .. n : Got(n)[Len(buf) + p] = stream[p]
  BY <1>1 DEF Got
<1>3. /\ Rest(n) \in Seq(Byte) /\ Len(Rest(n)) = Len(stream) - n /\ Len(stream) \in Nat
      /\ \A p \in 1 .. Len(Rest(n)) : Rest(n)[p] = stream[p + n]
  BY <1>1 DEF Rest
<1>4. ASSUME NEW i, InTransit(i)
      PROVE  AtStart(Got(n), i) \/ AtStart(Rest(n), i)
  <2>1. CASE buf # << >> /\ buf[1] = <<i, 1>>
    <3>1. 1 \in 1 .. Len(buf) /\ 1 \in 1 .. Len(Got(n))
      BY <1>1, <1>2, <2>1
    <3> QED
      BY <1>2, <2>1, <3>1 DEF AtStart
  <2>2. CASE \E k \in 1 .. Len(stream) : stream[k] = <<i, 1>>
    <3>1. PICK k \in 1 .. Len(stream) : stream[k] = <<i, 1>>
      BY <2>2
    <3>2. CASE k <= n
      <4>1. k \in 1 .. n /\ Len(buf) + k \in 1 .. Len(Got(n))
        BY <1>2, <1>3, <3>2
      <4> QED
        BY <1>2, <3>1, <4>1 DEF AtStart
    <3>3. CASE k > n
      <4>1. k - n \in 1 .. Len(Rest(n)) /\ (k - n) + n = k
        BY <1>3, <3>3
      <4> QED
        BY <1>3, <3>1, <4>1 DEF AtStart
    <3> QED
      BY <1>3, <3>2, <3>3
  <2> QED
    BY <1>4, <2>1, <2>2 DEF InTransit
<1>5. ASSUME NEW i, AtStart(Rest(n), i)
      PROVE  InTransit(i)
  <2>1. PICK p \in 1 .. Len(Rest(n)) : Rest(n)[p] = <<i, 1>>
    BY <1>5 DEF AtStart
  <2>2. p + n \in 1 .. Len(stream)
    BY <1>3
  <2> QED
    BY <1>3, <2>1, <2>2 DEF InTransit
<1>6. ASSUME NEW i, Got(n)[1] = <<i, 1>>
      PROVE  InTransit(i)
  <2>1. CASE buf = << >>
    <3>1. Len(buf) + 1 = 1 /\ 1 \in 1 .. n /\ 1 \in 1 .. Len(stream)
      BY <1>1, <1>3, <2>1
    <3>2. stream[1] = <<i, 1>>
      BY <1>2, <1>6, <3>1
    <3> QED
      BY <3>1, <3>2 DEF InTransit
  <2>2. CASE buf # << >>
    <3>1. 1 \in 1 .. Len(buf)
      BY <1>1, <2>2
    <3>2. buf[1] = <<i, 1>>
      BY <1>2, <1>6, <3>1
    <3> QED
      BY <2>2, <3>2 DEF InTransit
  <2> QED
    BY <2>1, <2>2
<1>7. ASSUME NEW i, NEW j, AtStart(Got(n), i), AtStart(Rest(n), j)
      PROVE  i < j
  <2>1. PICK p \in 1 .. Len(Got(n)) : Got(n)[p] = <<i, 1>>
    BY <1>7 DEF AtStart
  <2>2. PICK q \in 1 .. Len(Rest(n)) : Rest(n)[q] = <<j, 1>>
    BY <1>7 DEF AtStart
  <2> DEFINE t == Rest(n) \o unsent
  <2>3. t \in Seq(Byte) /\ Pipe = Got(n) \o t /\ t[q] = Rest(n)[q] /\ q \in 1 .. Len(t)
    <3>1. t \in Seq(Byte) /\ Pipe = Got(n) \o t
      BY Taken
    <3>2. unsent \in Seq(Byte)
      BY DEF TypeOK
    <3>3. t[q] = Rest(n)[q] /\ q \in 1 .. Len(t)
      BY <1>3, <3>2
    <3> QED
      BY <3>1, <3>3
  <2> HIDE DEF t
  <2>4. /\ Piece(Got(n), Got(n) \o t, 0) /\ Piece(t, Got(n) \o t, Len(Got(n)))
        /\ Len(Got(n) \o t) = Len(Got(n)) + Len(t)
    BY <1>2, <2>3, Pieces
  <2>5. Len(Got(n)) \in Nat /\ Len(t) \in Nat
    BY <1>2, <2>3
  <2> DEFINE r == q + Len(Got(n))
  <2>6. /\ p \in 1 .. Len(Pipe) /\ r \in 1 .. Len(Pipe) /\ p < r
    BY <2>3, <2>4, <2>5
  <2>7. Pipe[p] = <<i, 1>>
    <3>1. Got(n)[p] = Pipe[p + 0] /\ p + 0 = p
      BY <2>3, <2>4 DEF Piece
    <3> QED
      BY <2>1, <3>1
  <2>8. Pipe[r] = <<j, 1>>
    <3>1. t[q] = Pipe[r]
      BY <2>3, <2>4 DEF Piece
    <3> QED
      BY <2>2, <2>3, <3>1
  <2> HIDE DEF r
  <2>9. Before(Pipe[p], Pipe[r])
    BY <2>6 DEF FramingInv, InOrder, Rising
  <2>10. Before(<<i, 1>>, <<j, 1>>)
    BY <2>7, <2>8, <2>9
  <2> QED
    BY <2>10 DEF Before
<1> QED
  BY <1>4, <1>5, <1>6, <1>7

\* Without a torn frame the pipe begins with the first byte of a frame that
\* is complete or can become so.
LEMMA FirstCurrent ==
  ASSUME TypeOK, FramingInv, ~torn, Pipe # << >>
  PROVE  /\ Pipe[1][1] \in Current
         /\ Pipe[1] = <<Pipe[1][1], 1>>
<1> DEFINE i == Pipe[1][1]
           D == Size(i)
<1>1. Unbroken(Pipe) /\ Known(Pipe, started) /\ started \in 0 .. Len(Body)
  BY DEF FramingInv, Intact, InOrder, Sending
<1>2. /\ Pipe \in Seq(Byte) /\ Front \in Seq(Byte) /\ unsent \in Seq(Byte)
  BY PipeType DEF TypeOK
<1>3. /\ i \in Frames /\ D <= Len(Pipe)
      /\ \A k \in 1 .. D : Pipe[k] = <<i, k>>
  BY <1>1, <1>2, FirstFrame
<1>4. D \in Nat \ {0}
  BY <1>3, SizeType
<1>5. Pipe[1] = <<i, 1>> /\ Pipe[D] = <<i, D>>
  BY <1>3, <1>4
<1>6. /\ Len(Pipe) = Len(Front) + Len(unsent) /\ Len(Front) \in Nat /\ Len(unsent) \in Nat
      /\ \A p \in 1 .. Len(Front) : Pipe[p] = Front[p]
      /\ \A p \in 1 .. Len(unsent) : Pipe[Len(Front) + p] = unsent[p]
  BY <1>2 DEF Pipe
<1> HIDE DEF i, D
<1>7. CASE D <= Len(Front)
  <2>1. D \in 1 .. Len(Front)
    BY <1>4, <1>6, <1>7
  <2>2. Front[D] = <<i, D>>
    BY <1>5, <1>6, <2>1
  <2>3. i \in complete
    BY <2>1, <2>2 DEF FramingInv, Ends, D
  <2> QED
    BY <1>5, <2>3 DEF Current, i
<1>8. CASE D > Len(Front)
  <2>1. D - Len(Front) \in 1 .. Len(unsent) /\ Len(Front) + (D - Len(Front)) = D
    BY <1>3, <1>4, <1>6, <1>8
  <2>2. unsent # << >>
    BY <2>1
  <2>3. unsent[D - Len(Front)][1] = started
    BY <2>1, <2>2 DEF FramingInv, Sending
  <2>4. i = started
    BY <1>5, <1>6, <2>1, <2>3
  <2> QED
    BY <1>5, <2>2, <2>4 DEF Current, i
<1> QED
  BY <1>4, <1>6, <1>7, <1>8

\* What FrameChannel sees.
Seen == <<complete, Transit, ReceivedFrames, JointFrames, torn>>

ChannelStep == Channel!Next \/ UNCHANGED Seen

\* A step that returns nothing.
LEMMA SameFrames ==
  ASSUME UNCHANGED <<offset, returned>>
  PROVE  ReceivedFrames' = ReceivedFrames /\ JointFrames' = JointFrames
BY DEF ReceivedFrames, JointFrames, Joint, Decodes, Whole, Bytes

\* A step that returns nothing and changes nothing that is in transit.
LEMMA QuietStep ==
  ASSUME UNCHANGED <<offset, complete, returned, torn>>,
         \A i \in complete : InTransit(i)' <=> InTransit(i)
  PROVE  ChannelStep
<1>1. complete' = complete /\ torn' = torn
  OBVIOUS
<1>2. Transit' = Transit
  BY <1>1 DEF Transit
<1>3. ReceivedFrames' = ReceivedFrames /\ JointFrames' = JointFrames
  BY SameFrames
<1> QED
  BY <1>1, <1>2, <1>3 DEF ChannelStep, Seen

\* A step after which the oldest frames in transit may be lost.
LEMMA TearStep ==
  ASSUME UNCHANGED <<offset, complete, returned>>, torn' = TRUE,
         \A i \in complete : InTransit(i)' => InTransit(i),
         \A i, j \in complete :
           InTransit(i) /\ ~InTransit(i)' /\ InTransit(j)' => i < j
  PROVE  ChannelStep
<1>1. complete' = complete
  OBVIOUS
<1>2. Transit' \subseteq Transit
  BY <1>1 DEF Transit
<1>3. \A i \in Transit \ Transit', j \in Transit' : i < j
  BY <1>1 DEF Transit
<1>4. ReceivedFrames' = ReceivedFrames /\ JointFrames' = JointFrames
  BY SameFrames
<1>5. Channel!Tear
  BY <1>1, <1>2, <1>3, <1>4 DEF Channel!Tear, Channel!Lose, Transit
<1> QED
  BY <1>5 DEF ChannelStep, Channel!Next

LEMMA PipeParts ==
  ASSUME TypeOK
  PROVE  (buf \o stream) \o unsent = buf \o (stream \o unsent)
<1>1. buf \in Seq(Byte) /\ stream \in Seq(Byte) /\ unsent \in Seq(Byte)
  BY DEF TypeOK
<1> QED
  BY <1>1, Associates

LEMMA JointFailed ==
  ASSUME TypeOK, FramingInv, HeadInv, NEW i \in JointFrames
  PROVE  Failed(i)
<1>1. PICK k \in 1 .. Len(returned) : Joint(returned[k]) /\ i = returned[k][1][1]
  BY DEF JointFrames
<1> QED
  BY <1>1, IntactNow DEF Joint

\* A frame that the pipe begins with is behind those of earlier strings.
LEMMA FramesBehind ==
  ASSUME TypeOK, HeadInv, NEW k \in 1 .. Len(returned),
         Whole(returned[k]) \/ Joint(returned[k]),
         NEW i, 1 \in 1 .. Len(Pipe), Pipe[1] = <<i, 1>>
  PROVE  returned[k][1][1] < i
<1>1. Begins(k)
  <2>1. CASE Whole(returned[k])
    BY <2>1, WholeBegins
  <2>2. CASE Joint(returned[k])
    BY <2>2, DecodesHead DEF Joint
  <2> QED
    BY <2>1, <2>2
<1>2. Before(returned[k][1], Pipe[1])
  BY <1>1 DEF HeadInv, Behind
<1> QED
  BY <1>1, <1>2 DEF Before, Begins

\* The Write of the last byte is the Send of the frame.
LEMMA WriteSends ==
  ASSUME TypeOK, FramingInv, TransitInv, HeadInv, TypeOK', FramingInv', Write
  PROVE  ChannelStep
<1>1. /\ unsent # << >> /\ started' = started /\ buf' = buf /\ need' = need
      /\ offset' = offset /\ returned' = returned /\ torn' = torn /\ inBody' = inBody
      /\ complete' = IF unsent' = << >> THEN complete \cup {started} ELSE complete
  BY DEF Write, receiver
<1>2. PICK n \in 1 .. Len(unsent), x \in Seq(Byte), y \in Seq(Byte) :
        /\ Len(x) = n /\ \A p \in 1 .. n : x[p] = unsent[p]
        /\ stream' = stream \o x /\ unsent' = y
        /\ Front' = Front \o x
  BY WriteMoves
<1>3. /\ stream \in Seq(Byte) /\ unsent \in Seq(Byte) /\ buf \in Seq(Byte)
      /\ need \in Nat /\ torn \in BOOLEAN /\ inBody \in BOOLEAN
  BY DEF TypeOK
<1>4. /\ started \notin complete /\ complete \subseteq 1 .. started /\ started \in Frames
      /\ \A p \in 1 .. Len(unsent) : unsent[p][1] = started
  BY <1>1 DEF TransitInv, Unfinished, FramingInv, Sending
<1>5. /\ Len(stream') = Len(stream) + n /\ Len(stream) \in Nat
      /\ \A p \in 1 .. Len(stream) : stream'[p] = stream[p]
      /\ \A p \in 1 .. n : stream'[Len(stream) + p] = x[p]
  <2>1. stream \in Seq(Byte) /\ x \in Seq(Byte) /\ Len(x) = n
    BY <1>2, <1>3
  <2>2. /\ Len(stream \o x) = Len(stream) + n /\ Len(stream) \in Nat
        /\ \A p \in 1 .. Len(stream) : (stream \o x)[p] = stream[p]
        /\ \A p \in 1 .. n : (stream \o x)[Len(stream) + p] = x[p]
    BY <2>1
  <2>3. stream' = stream \o x
    BY <1>2
  <2> QED
    BY <2>2, <2>3
<1>6. ASSUME NEW i, i # started
      PROVE  InTransit(i)' <=> InTransit(i)
  <2>1. ASSUME NEW k \in 1 .. Len(stream), stream[k] = <<i, 1>>
        PROVE  k \in 1 .. Len(stream') /\ stream'[k] = <<i, 1>>
    BY <1>5, <2>1
  <2>2. ASSUME NEW k \in 1 .. Len(stream'), stream'[k] = <<i, 1>>
        PROVE  k \in 1 .. Len(stream) /\ stream[k] = <<i, 1>>
    <3>1. CASE k <= Len(stream)
      BY <1>5, <2>2, <3>1
    <3>2. CASE k > Len(stream)
      <4>1. k - Len(stream) \in 1 .. n /\ Len(stream) + (k - Len(stream)) = k
        BY <1>5, <3>2
      <4>2. k - Len(stream) \in 1 .. Len(unsent)
        BY <1>3, <4>1
      <4>3. stream'[k] = unsent[k - Len(stream)]
        BY <1>2, <1>5, <4>1
      <4> QED
        BY <1>4, <1>6, <2>2, <4>2, <4>3
    <3> QED
      BY <1>5, <3>1, <3>2
  <2> QED
    BY <1>1, <2>1, <2>2 DEF InTransit
<1>7. CASE unsent' # << >>
  <2>1. complete' = complete
    BY <1>1, <1>7
  <2>2. \A i \in complete : InTransit(i)' <=> InTransit(i)
    BY <1>4, <1>6
  <2> QED
    BY <1>1, <2>1, <2>2, QuietStep
<1>8. CASE unsent' = << >>
  <2>1. complete' = complete \cup {started}
    BY <1>1, <1>8
  <2>2. \/ Transit' = Transit
        \/ Transit' = Transit \cup {started}
    BY <1>4, <1>6, <2>1 DEF Transit
  <2>3. ASSUME ~torn
        PROVE  InTransit(started)'
    <3> DEFINE D == Size(started)
    <3>1. Unbroken(Pipe') /\ Known(Pipe', started)
      BY <1>1, <2>3 DEF FramingInv, Intact, InOrder, Unbroken, Known, Size
    <3>2. Front' \in Seq(Byte) /\ Pipe' = Front'
      <4>1. Front' \in Seq(Byte)
        BY PipeTypeNext
      <4>2. Front' \o << >> = Front'
        BY <4>1
      <4> QED
        BY <1>8, <4>1, <4>2 DEF Pipe
    <3>3. D \in Nat \ {0}
      BY <1>4, SizeType
    <3> DEFINE e == Len(Front) + n
    <3>4. /\ Len(Pipe') = e /\ e \in 1 .. e /\ Pipe'[e] = x[n] /\ Len(Front) \in Nat
      <4>1. Front \in Seq(Byte) /\ x \in Seq(Byte) /\ Len(x) = n
        BY <1>2, PipeType
      <4>2. n \in 1 .. n /\ n \in Nat
        BY <1>3
      <4>3. /\ Len(Front \o x) = Len(Front) + n /\ Len(Front) \in Nat
            /\ (Front \o x)[Len(Front) + n] = x[n]
        BY <4>1, <4>2
      <4>4. Pipe' = Front \o x
        BY <1>2, <3>2
      <4> QED
        BY <4>2, <4>3, <4>4
    <3>5. Pipe'[e][1] = started
      <4>1. n \in 1 .. n /\ n \in 1 .. Len(unsent)
        BY <1>3
      <4> QED
        BY <1>2, <1>4, <3>4, <4>1
    <3> DEFINE q == (e - Pipe'[e][2]) + 1
    <3>6. q \in 1 .. e /\ Pipe'[q] = <<started, 1>>
      <4>1. 1 \in 1 .. Size(Pipe'[e][1])
        BY <3>3, <3>5
      <4> QED
        BY <3>1, <3>4, <3>5, <4>1 DEF Unbroken
    <3> HIDE DEF e, q
    <3>7. Front' = Live' \o stream' /\ Live' \in Seq(Byte) /\ stream' \in Seq(Byte)
      BY <1>1, <1>3 DEF Front, Live, TypeOK
    <3>8. /\ Len(Front') = Len(Live') + Len(stream')
          /\ \A p \in 1 .. Len(Live') : Front'[p] = Live'[p]
          /\ \A p \in 1 .. Len(stream') : Front'[Len(Live') + p] = stream'[p]
          /\ Len(Live') \in Nat /\ Len(stream') \in Nat
      BY <3>7
    <3>9. CASE q > Len(Live')
      <4>1. q - Len(Live') \in 1 .. Len(stream') /\ Len(Live') + (q - Len(Live')) = q
        BY <3>2, <3>4, <3>6, <3>8, <3>9
      <4>2. stream'[q - Len(Live')] = <<started, 1>>
        BY <3>2, <3>6, <3>8, <4>1
      <4> QED
        BY <1>1, <4>1, <4>2 DEF InTransit
    <3>10. CASE q <= Len(Live')
      <4>1. q \in 1 .. Len(Live') /\ Live'[q] = <<started, 1>>
        BY <3>2, <3>4, <3>6, <3>8, <3>10
      <4>2. need > 0 /\ Live' = buf
        <5>1. need' > 0
          <6> SUFFICES ASSUME ~(need' > 0) PROVE FALSE
            OBVIOUS
          <6>1. Live' = << >>
            BY DEF Live
          <6> QED
            BY <4>1, <6>1
        <5> QED
          BY <1>1, <5>1 DEF Live
      <4>3. buf # << >> /\ q \in 1 .. Len(buf) /\ buf[q] = <<started, 1>>
        BY <4>1, <4>2
      <4> DEFINE t == stream \o unsent
      <4>4. t \in Seq(Byte) /\ Pipe = buf \o t
        <5>1. t \in Seq(Byte)
          BY <1>3, Pieces
        <5>2. Pipe = (buf \o stream) \o unsent
          BY <4>2 DEF Pipe, Front, Live
        <5> QED
          BY <5>1, <5>2, PipeParts
      <4> HIDE DEF t
      <4>5. /\ buf[1][1] \in Frames
            /\ \A k \in 1 .. Len(buf) : k <= Size(buf[1][1]) => buf[k] = <<buf[1][1], k>>
        BY <1>3, <2>3, <4>3, <4>4, FrontOfFrame
      <4>6. /\ Size(buf[1][1]) = Header + Body[buf[1][1]] /\ Body[buf[1][1]] \in Nat
            /\ Header \in Nat
        <5>1. buf[1][1] \in Frames
          BY <4>5
        <5>2. Body[buf[1][1]] \in Nat
          <6>1. Body[buf[1][1]] \in 0 .. MaxBody
            BY <5>1, SizeType, Zenon
          <6> QED
            BY <6>1
        <5>3. Header \in Nat
          BY FramingAssumption
        <5> QED
          BY <5>2, <5>3 DEF Size
      <4>7. Len(buf) <= Size(buf[1][1])
        <5> DEFINE z == Size(buf[1][1])
        <5>3. Len(buf) \in Nat /\ need \in Nat
          BY <1>3
        <5>4. z = Header + Body[buf[1][1]] /\ z \in Nat
          BY <4>6
        <5>1. CASE inBody
          <6>1. Len(buf) + need = z
            BY <2>3, <5>1 DEF FramingInv, Intact
          <6> HIDE DEF z
          <6>2. Len(buf) <= z
            BY <5>3, <5>4, <6>1
          <6> QED
            BY <6>2 DEF z
        <5>2. CASE ~inBody
          <6>1. Len(buf) + need = Header
            BY <4>2, <5>2 DEF FramingInv, Receiving
          <6>2. Header \in Nat /\ Body[buf[1][1]] \in Nat
            BY <4>6
          <6> HIDE DEF z
          <6>3. Len(buf) <= z
            BY <5>3, <5>4, <6>1, <6>2
          <6> QED
            BY <6>3 DEF z
        <5> QED
          BY <5>1, <5>2
      <4>8. buf[q] = <<buf[1][1], q>>
        BY <1>3, <4>3, <4>5, <4>6, <4>7
      <4>9. q = 1
        BY <4>3, <4>8
      <4>10. buf[1] = <<started, 1>>
        BY <4>3, <4>9
      <4> QED
        BY <1>1, <4>2, <4>3, <4>10 DEF InTransit
    <3> QED
      BY <3>4, <3>6, <3>8, <3>9, <3>10
  <2>4. Transit' = Transit \cup {started} \/ (torn /\ Transit' = Transit)
    <3>1. ~torn => started \in Transit'
      BY <1>1, <2>1, <2>3 DEF Transit, InTransit
    <3> HIDE DEF Transit
    <3>2. CASE torn
      BY <2>2, <3>2, Zenon
    <3>3. CASE ~torn
      <4>1. started \in Transit'
        BY <3>1, <3>3, Zenon
      <4>2. CASE Transit' = Transit
        <5>1. Transit' = Transit \cup {started}
          BY <4>1, <4>2
        <5> QED
          BY <5>1, Zenon
      <4> QED
        BY <2>2, <4>2, Zenon
    <3> QED
      BY <3>2, <3>3, Zenon
  <2>5. started \in Nat /\ \A j \in complete \cup JointFrames : j < started
    <3>1. started \in Nat /\ \A j \in complete : j < started
      BY <1>4 DEF Frames
    <3>2. \A j \in JointFrames : j \in 1 .. started /\ j # started
      BY <1>1, JointFailed DEF Failed
    <3> QED
      BY <3>1, <3>2
  <2>6. ReceivedFrames' = ReceivedFrames /\ JointFrames' = JointFrames
    BY <1>1, SameFrames
  <2>7. Channel!Send
    BY <1>1, <2>1, <2>4, <2>5, <2>6 DEF Channel!Send, Transit
  <2> QED
    BY <2>7 DEF ChannelStep, Channel!Next
<1> QED
  BY <1>7, <1>8

\* A Recv that reads on loses only the frames that begin inside what it has,
\* and before a frame is torn there are none.
LEMMA ReadOnMaps ==
  ASSUME TypeOK, FramingInv, TransitInv, need > 0,
         NEW n \in 1 .. need, n \in 1 .. Len(stream), ReadsOn(n)
  PROVE  ChannelStep
<1>1. /\ buf' = Got(n) /\ stream' = Rest(n) /\ need' > 0 /\ complete' = complete
      /\ offset' = offset /\ returned' = returned /\ torn' = torn
      /\ torn \in BOOLEAN
  BY DEF ReadsOn, TypeOK
<1>2. Got(n) \in Seq(Byte) /\ Got(n) # << >> /\ 1 \in 1 .. Len(Got(n))
  <2>1. Got(n) \in Seq(Byte) /\ Got(n) # << >>
    BY Taken
  <2> QED
    BY <2>1
<1>3. \A i : InTransit(i)' <=> AtStart(Rest(n), i) \/ Got(n)[1] = <<i, 1>>
  BY <1>1, <1>2 DEF InTransit, AtStart
<1>4. /\ \A i : InTransit(i) => AtStart(Got(n), i) \/ AtStart(Rest(n), i)
      /\ \A i : InTransit(i)' => InTransit(i)
      /\ \A i, j : AtStart(Got(n), i) /\ AtStart(Rest(n), j) => i < j
  BY <1>3, FirstBytes
<1>5. complete \subseteq Current
  BY DEF Current
<1>6. ASSUME NEW j \in Current, Got(n)[1] = <<j, 1>>, NEW i, AtStart(Got(n), i)
      PROVE  i = j
  <2>1. PICK p \in 1 .. Len(Got(n)) : Got(n)[p] = <<i, 1>>
    BY <1>6 DEF AtStart
  <2>2. Got(n)[p] = <<j, p>>
    BY <1>6, HeadOnly
  <2> QED
    BY <2>1, <2>2
<1>7. CASE torn
  <2>1. ASSUME NEW i \in complete, NEW j \in complete,
               InTransit(i), ~InTransit(i)', InTransit(j)'
        PROVE  i < j
    <3>1. AtStart(Got(n), i) /\ Got(n)[1] # <<i, 1>>
      BY <1>3, <1>4, <2>1
    <3>2. Got(n)[1] # <<j, 1>>
      BY <1>5, <1>6, <3>1
    <3>3. AtStart(Rest(n), j)
      BY <1>3, <2>1, <3>2
    <3> QED
      BY <1>4, <3>1, <3>3
  <2>2. \A i \in complete : InTransit(i)' => InTransit(i)
    BY <1>4
  <2> QED
    BY <1>1, <1>7, <2>1, <2>2, TearStep
<1>8. CASE ~torn
  <2> DEFINE f == Got(n)[1][1]
  <2>1. f \in Current /\ Got(n)[1] = <<f, 1>>
    <3> DEFINE t == Rest(n) \o unsent
    <3>1. t \in Seq(Byte) /\ Pipe = Got(n) \o t
      BY Taken
    <3> HIDE DEF t
    <3>2. Pipe # << >> /\ Pipe[1] = Got(n)[1]
      BY <1>2, <1>8, <3>1, FrontOfFrame
    <3> QED
      BY <1>8, <3>2, FirstCurrent
  <2>2. ASSUME NEW i \in complete, InTransit(i) PROVE InTransit(i)'
    <3>1. CASE AtStart(Rest(n), i)
      BY <1>3, <3>1
    <3>2. CASE AtStart(Got(n), i)
      <4>1. i = f
        BY <1>6, <2>1, <3>2
      <4> QED
        BY <1>3, <2>1, <4>1
    <3> QED
      BY <1>4, <2>2, <3>1, <3>2
  <2>3. \A i \in complete : InTransit(i)' <=> InTransit(i)
    BY <1>4, <2>2
  <2> QED
    BY <1>1, <2>3, QuietStep
<1> QED
  BY <1>7, <1>8

\* After a Recv that returns, what it has read is no longer in transit.
LEMMA ReadOutLeaves ==
  ASSUME TypeOK, FramingInv, need > 0,
         NEW n \in 1 .. need, n \in 1 .. Len(stream), ReadsOut(n)
  PROVE  /\ \A i : InTransit(i)' <=> AtStart(Rest(n), i)
         /\ \A i : InTransit(i)' => InTransit(i)
         /\ \A i, j : InTransit(i) /\ ~InTransit(i)' /\ InTransit(j)' => i < j
<1>1. stream' = Rest(n) /\ need' = 0
  BY DEF ReadsOut
<1>2. \A i : InTransit(i)' <=> AtStart(Rest(n), i)
  BY <1>1 DEF InTransit, AtStart
<1>3. \A i : InTransit(i)' => InTransit(i)
  BY <1>2, FirstBytes
<1>4. ASSUME NEW i, NEW j, InTransit(i), ~InTransit(i)', InTransit(j)'
      PROVE  i < j
  <2>1. AtStart(Got(n), i) /\ AtStart(Rest(n), j)
    BY <1>2, <1>4, FirstBytes
  <2> QED
    BY <2>1, FirstBytes
<1> QED
  BY <1>2, <1>3, <1>4

\* A Recv that returns a frame hands on the oldest one; other bytes it
\* returns only after a frame was torn.
LEMMA ReturnMaps ==
  ASSUME TypeOK, FramingInv, FramingInv', TransitInv, HeadInv, need > 0,
         NEW n \in 1 .. need, n \in 1 .. Len(stream), ReadsOut(n), Finishes(n),
         returned' = Append(returned, Got(n))
  PROVE  ChannelStep
<1> DEFINE h == Got(n)
<1>1. /\ offset' = offset /\ complete' = complete /\ torn' = torn /\ torn \in BOOLEAN
      /\ returned \in Seq(Seq(Byte)) /\ complete \subseteq Frames
  BY DEF ReadsOut, TypeOK
<1>2. h \in Seq(Byte) /\ h # << >> /\ 1 \in 1 .. Len(h)
  <2>1. h \in Seq(Byte) /\ h # << >>
    BY Taken
  <2> QED
    BY <2>1
<1>3. /\ Len(returned') = Len(returned) + 1 /\ Len(returned) \in Nat
      /\ returned'[Len(returned) + 1] = h
      /\ \A k \in 1 .. Len(returned) : returned'[k] = returned[k]
  BY <1>1, <1>2
<1>w. ASSUME NEW i \in Current, h[1] = <<i, 1>> PROVE Whole(h)
  BY <1>w, HeadIsWhole
<1>p. 1 \in 1 .. Len(Pipe) /\ Pipe[1] = h[1] /\ Filled(h)
  <2> DEFINE t == Rest(n) \o unsent
  <2>1. t \in Seq(Byte) /\ Pipe = h \o t
    BY Taken
  <2> HIDE DEF h, t
  <2>2. Piece(h, Pipe, 0) /\ Len(Pipe) = Len(h) + Len(t) /\ Pipe \in Seq(Byte)
    BY <1>2, <2>1, Pieces, PipeType
  <2>3. Len(h) \in Nat \ {0} /\ Len(t) \in Nat /\ 1 + 0 = 1
    BY <1>2, <2>1
  <2>4. Filled(h)
    BY <1>2, <2>2, FilledPiece DEF HeadInv
  <2> QED
    BY <1>2, <2>2, <2>3, <2>4 DEF Piece
<1>s. /\ \A i : AtStart(h, i) \/ AtStart(Rest(n), i) \/ ~InTransit(i)
      /\ \A i : h[1] = <<i, 1>> => InTransit(i)
      /\ \A i, j : AtStart(h, i) /\ AtStart(Rest(n), j) => i < j
  BY FirstBytes
<1>m. Transit' \subseteq Transit /\ \A i \in Transit \ Transit', j \in Transit' : i < j
  BY <1>1, ReadOutLeaves DEF Transit
<1> HIDE DEF h
<1>4. \A k \in 1 .. Len(returned') :
        \/ k \in 1 .. Len(returned) /\ returned'[k] = returned[k]
        \/ k = Len(returned) + 1 /\ returned'[k] = h
  BY <1>3
<1>5. Len(returned) + 1 \in 1 .. Len(returned') /\ 1 .. Len(returned) \subseteq 1 .. Len(returned')
  BY <1>3
<1>r. /\ Whole(h) => ReceivedFrames' = ReceivedFrames \cup {h[1][1]}
      /\ ~Whole(h) => ReceivedFrames' = ReceivedFrames
  <2>1. ASSUME NEW i \in ReceivedFrames'
        PROVE  i \in ReceivedFrames \/ (Whole(h) /\ i = h[1][1])
    <3>1. PICK k \in 1 .. Len(returned') : Whole(returned'[k]) /\ i = returned'[k][1][1]
      BY <2>1 DEF ReceivedFrames, Whole, Bytes
    <3> QED
      BY <1>4, <3>1 DEF ReceivedFrames
  <2>2. ASSUME NEW k \in 1 .. Len(returned'), Whole(returned'[k])
        PROVE  returned'[k][1][1] \in ReceivedFrames'
    BY <2>2 DEF ReceivedFrames, Whole, Bytes
  <2>3. \A i \in ReceivedFrames : i \in ReceivedFrames'
    BY <1>3, <1>5, <2>2 DEF ReceivedFrames
  <2>4. Whole(h) => h[1][1] \in ReceivedFrames'
    BY <1>3, <1>5, <2>2
  <2> QED
    BY <2>1, <2>3, <2>4
<1>j. /\ Joint(h) => JointFrames' = JointFrames \cup {h[1][1]}
      /\ ~Joint(h) => JointFrames' = JointFrames
  <2>1. ASSUME NEW i \in JointFrames'
        PROVE  i \in JointFrames \/ (Joint(h) /\ i = h[1][1])
    <3>1. PICK k \in 1 .. Len(returned') : Joint(returned'[k]) /\ i = returned'[k][1][1]
      BY <1>1, <2>1 DEF JointFrames, Joint, Decodes, Whole, Bytes
    <3> QED
      BY <1>4, <3>1 DEF JointFrames
  <2>2. ASSUME NEW k \in 1 .. Len(returned'), Joint(returned'[k])
        PROVE  returned'[k][1][1] \in JointFrames'
    <3>1. Joint(returned[k])'
      BY <1>1, <2>2 DEF Joint, Decodes, Whole, Bytes
    <3> QED
      BY <2>2, <3>1 DEF JointFrames
  <2>3. ASSUME NEW i \in JointFrames PROVE i \in JointFrames'
    <3>1. PICK k \in 1 .. Len(returned) : Joint(returned[k]) /\ i = returned[k][1][1]
      BY <2>3 DEF JointFrames
    <3>2. k \in 1 .. Len(returned') /\ returned'[k] = returned[k]
      BY <1>3, <1>5
    <3> QED
      BY <2>2, <3>1, <3>2
  <2>4. Joint(h) => h[1][1] \in JointFrames'
    BY <1>3, <1>5, <2>2
  <2> QED
    BY <2>1, <2>3, <2>4
<1>b. ASSUME NEW i, h[1] = <<i, 1>>
      PROVE  \A j \in ReceivedFrames \cup JointFrames : j < i
  <2> SUFFICES ASSUME NEW k \in 1 .. Len(returned),
                      Whole(returned[k]) \/ Joint(returned[k])
               PROVE  returned[k][1][1] < i
    BY DEF ReceivedFrames, JointFrames
  <2> QED
    BY <1>p, <1>b, FramesBehind
<1>6. CASE Whole(h)
  <2> DEFINE f == h[1][1]
  <2>1. ReceivedFrames' = ReceivedFrames \cup {f} /\ JointFrames' = JointFrames
    BY <1>6, <1>r, <1>j DEF Joint
  <2>2. f \in complete
    <3>1. Whole(returned'[Len(returned) + 1])
      BY <1>3, <1>6
    <3>2. returned'[Len(returned) + 1][1][1] \in complete'
      BY <1>5, <3>1 DEF FramingInv, Finished, Whole, Bytes
    <3> QED
      BY <1>1, <1>3, <3>2
  <2>3. /\ f \in Frames /\ h = Bytes(f)
    BY <1>6 DEF Whole
  <2>4. /\ \A k \in 1 .. Size(f) : Bytes(f)[k] = <<f, k>>
        /\ Len(Bytes(f)) = Size(f)
    BY <2>3, BytesType
  <2>5. h[1] = <<f, 1>>
    <3>1. 1 \in 1 .. Size(f)
      BY <2>3, SizeType
    <3> QED
      BY <2>3, <2>4, <3>1
  <2>6. \A i : AtStart(h, i) => i = f
    <3> SUFFICES ASSUME NEW i, NEW p \in 1 .. Len(h), h[p] = <<i, 1>> PROVE i = f
      BY DEF AtStart
    <3>1. p \in 1 .. Size(f) /\ h[p] = Bytes(f)[p]
      BY <2>3, <2>4
    <3>2. h[p] = <<f, p>>
      BY <2>4, <3>1
    <3> QED
      BY <3>2
  <2>7. AtStart(h, f)
    BY <1>2, <2>5 DEF AtStart
  <2> HIDE DEF f
  <2>8. f \in Transit
    BY <2>2, <2>5, FirstBytes DEF Transit, h
  <2>9. \A i : InTransit(i) => i = f \/ (AtStart(Rest(n), i) /\ f < i)
    <3>1. \A i : InTransit(i) => AtStart(h, i) \/ AtStart(Rest(n), i)
      BY FirstBytes DEF h
    <3>2. \A i, j : AtStart(h, i) /\ AtStart(Rest(n), j) => i < j
      BY FirstBytes DEF h
    <3> QED
      BY <2>6, <2>7, <3>1, <3>2
  <2>10. \A j \in Transit : f <= j
    <3> SUFFICES ASSUME NEW j \in Transit PROVE f <= j
      OBVIOUS
    <3>1. f \in Nat /\ j \in Nat
      BY <1>1, <2>2 DEF Transit, Frames
    <3>2. j = f \/ f < j
      BY <2>9 DEF Transit
    <3> QED
      BY <3>1, <3>2
  <2>11. Transit' = Transit \ {f}
    <3>1. \A i : InTransit(i)' <=> AtStart(Rest(n), i)
      BY ReadOutLeaves
    <3>2. ~AtStart(Rest(n), f)
      <4>1. AtStart(Rest(n), f) => f < f
        BY <2>7, FirstBytes DEF h
      <4>2. f \in Nat
        BY <1>1, <2>2 DEF Frames
      <4> QED
        BY <4>1, <4>2
    <3>3. \A i \in complete : InTransit(i)' <=> InTransit(i) /\ i # f
      BY <2>9, <3>1, <3>2, FirstBytes
    <3> QED
      BY <1>1, <3>3 DEF Transit
  <2>12. Channel!Receive
    BY <1>1, <1>b, <2>1, <2>5, <2>8, <2>10, <2>11 DEF Channel!Receive, Transit
  <2> QED
    BY <2>12 DEF ChannelStep, Channel!Next
<1>7. CASE ~Whole(h)
  <2>1. torn
    <3> SUFFICES ASSUME ~torn PROVE FALSE
      BY <1>1
    <3>1. Whole(returned'[Len(returned) + 1])
      BY <1>1, <1>5 DEF FramingInv, Intact, Whole, Bytes
    <3> QED
      BY <1>3, <1>7, <3>1
  <2>2. ReceivedFrames' = ReceivedFrames
    BY <1>7, <1>r
  <2>3. CASE ~Joint(h)
    <3>1. JointFrames' = JointFrames
      BY <1>j, <2>3
    <3>2. Channel!Tear
      BY <1>1, <1>m, <2>1, <2>2, <3>1 DEF Channel!Tear, Channel!Lose, Transit
    <3> QED
      BY <3>2 DEF ChannelStep, Channel!Next
  <2>4. CASE Joint(h)
    <3> DEFINE f == h[1][1]
    <3>1. h[1] = <<f, 1>>
      <4>1. h[1][2] = 1
        BY <1>2, <1>p, <2>4, DecodesFirst DEF Joint
      <4>2. h[1] \in Byte
        BY <1>2
      <4> QED
        BY <4>1, <4>2 DEF Byte
    <3>2. f \notin complete /\ f \in Nat
      <4>1. f \notin Current
        BY <1>7, <1>w, <3>1
      <4>2. h[1] \in Byte
        BY <1>2
      <4> QED
        BY <4>1, <4>2 DEF Current, Byte, Frames
    <3>3. JointFrames' = JointFrames \cup {f}
      BY <1>j, <2>4
    <3>4. \A j \in ReceivedFrames \cup JointFrames : j < f
      BY <1>b, <3>1
    <3>5. \A j \in Transit' : f < j
      <4> SUFFICES ASSUME NEW j \in Transit' PROVE f < j
        OBVIOUS
      <4>1. AtStart(Rest(n), j)
        BY ReadOutLeaves DEF Transit
      <4>2. AtStart(h, f)
        BY <1>2, <3>1 DEF AtStart
      <4> QED
        BY <1>s, <4>1, <4>2
    <3> HIDE DEF f
    <3>6. Channel!Join
      BY <1>1, <1>m, <2>1, <2>2, <3>2, <3>3, <3>4, <3>5
         DEF Channel!Join, Channel!Lose, Transit
    <3> QED
      BY <3>6 DEF ChannelStep, Channel!Next
  <2> QED
    BY <2>3, <2>4
<1> QED
  BY <1>6, <1>7

LEMMA ReadMaps ==
  ASSUME TypeOK, FramingInv, FramingInv', TransitInv, HeadInv,
         ReadSome \/ ReadHeader \/ ReadBody
  PROVE  ChannelStep
<1>1. need > 0
  BY ReadCases
<1>2. PICK n \in 1 .. need :
        /\ n \in 1 .. Len(stream)
        /\ \/ ReadsOn(n)
           \/ ReadsOut(n) /\ Finishes(n) /\ returned' = Append(returned, Got(n))
           \/ ReadsOut(n) /\ returned' = returned /\ torn
  BY ReadCases
<1>3. CASE ReadsOn(n)
  BY <1>1, <1>2, <1>3, ReadOnMaps
<1>4. CASE ReadsOut(n) /\ Finishes(n) /\ returned' = Append(returned, Got(n))
  BY <1>1, <1>2, <1>4, ReturnMaps
<1>5. CASE ReadsOut(n) /\ returned' = returned /\ torn
  <2>1. offset' = offset /\ complete' = complete /\ torn' = TRUE
    BY <1>5 DEF ReadsOut, TypeOK
  <2>2. /\ \A i : InTransit(i)' => InTransit(i)
        /\ \A i, j : InTransit(i) /\ ~InTransit(i)' /\ InTransit(j)' => i < j
    BY <1>1, <1>2, <1>5, ReadOutLeaves
  <2> QED
    BY <1>5, <2>1, <2>2, TearStep
<1> QED
  BY <1>2, <1>3, <1>4, <1>5

\* The deadlines: a frame is lost only if a call had a part of one.
LEMMA TimeoutMaps ==
  ASSUME TypeOK, FramingInv, SendTimeout \/ RecvTimeout
  PROVE  ChannelStep
<1>1. CASE SendTimeout
  <2>1. /\ stream' = stream /\ complete' = complete /\ buf' = buf /\ need' = need
        /\ offset' = offset /\ returned' = returned
        /\ torn' = (torn \/ Len(unsent) < Header + Body[started])
    BY <1>1 DEF SendTimeout, receiver
  <2>2. \A i : InTransit(i)' <=> InTransit(i)
    BY <2>1 DEF InTransit
  <2>3. torn' = torn \/ torn' = TRUE
    BY <2>1 DEF TypeOK
  <2> QED
    BY <2>1, <2>2, <2>3, QuietStep, TearStep
<1>2. CASE RecvTimeout
  <2>1. /\ need > 0 /\ torn' = (torn \/ buf # << >>) /\ need' = 0
        /\ offset' = offset /\ complete' = complete /\ stream' = stream
        /\ returned' = returned /\ torn \in BOOLEAN /\ buf \in Seq(Byte) /\ stream \in Seq(Byte)
    BY <1>2 DEF RecvTimeout, sender, TypeOK
  <2>2. \A i : InTransit(i)' <=> AtStart(stream, i)
    BY <2>1 DEF InTransit, AtStart
  <2>3. \A i : InTransit(i) <=> AtStart(stream, i) \/ (buf # << >> /\ buf[1] = <<i, 1>>)
    BY <2>1 DEF InTransit, AtStart
  <2>4. CASE buf = << >>
    <3>1. \A i : InTransit(i)' <=> InTransit(i)
      BY <2>2, <2>3, <2>4
    <3>2. torn' = torn
      BY <2>1, <2>4
    <3> QED
      BY <2>1, <3>1, <3>2, QuietStep
  <2>5. CASE buf # << >>
    <3>1. torn' = TRUE
      BY <2>1, <2>5
    <3>2. ASSUME NEW i, NEW j, buf[1] = <<i, 1>>, AtStart(stream, j)
          PROVE  i < j
      <4>1. PICK q \in 1 .. Len(stream) : stream[q] = <<j, 1>>
        BY <3>2 DEF AtStart
      <4>2. /\ Front \in Seq(Byte) /\ Front = buf \o stream
            /\ Pipe \in Seq(Byte) /\ Piece(Front, Pipe, 0)
        BY <2>1, PipeType DEF Front, Live
      <4> DEFINE r == Len(buf) + q
      <4>3. /\ 1 \in 1 .. Len(Front) /\ Front[1] = <<i, 1>> /\ Len(Front) \in Nat
            /\ r \in 1 .. Len(Front) /\ Front[r] = <<j, 1>> /\ 1 < r
        <5>1. 1 \in 1 .. Len(buf)
          BY <2>1, <2>5
        <5>2. /\ Len(buf \o stream) = Len(buf) + Len(stream) /\ (buf \o stream)[1] = buf[1]
              /\ (buf \o stream)[r] = stream[q]
          BY <2>1, <5>1
        <5> QED
          BY <2>1, <3>2, <4>1, <4>2, <5>1, <5>2
      <4> HIDE DEF r
      <4>4. /\ 1 \in 1 .. Len(Pipe) /\ r \in 1 .. Len(Pipe)
            /\ Pipe[1] = Front[1] /\ Pipe[r] = Front[r]
        <5>1. Len(Front) + 0 <= Len(Pipe) /\ Len(Pipe) \in Nat
          BY <4>2 DEF Piece
        <5>2. \A p \in 1 .. Len(Front) : Front[p] = Pipe[p + 0]
          BY <4>2 DEF Piece
        <5>3. r \in Nat /\ r + 0 = r /\ 1 + 0 = 1
          BY <4>3
        <5>4. Pipe[1] = Front[1] /\ Pipe[r] = Front[r]
          BY <4>3, <5>2, <5>3
        <5>5. r <= Len(Front) /\ 1 <= r
          BY <4>3
        <5> QED
          BY <4>3, <5>1, <5>3, <5>4, <5>5
      <4>5. Before(Pipe[1], Pipe[r])
        BY <4>3, <4>4 DEF FramingInv, InOrder, Rising
      <4>6. Before(<<i, 1>>, <<j, 1>>)
        BY <4>3, <4>4, <4>5
      <4> QED
        BY <4>6 DEF Before
    <3>3. /\ \A i \in complete : InTransit(i)' => InTransit(i)
          /\ \A i, j \in complete :
               InTransit(i) /\ ~InTransit(i)' /\ InTransit(j)' => i < j
      BY <2>2, <2>3, <3>2
    <3> QED
      BY <2>1, <3>1, <3>3, TearStep
  <2> QED
    BY <2>4, <2>5
<1> QED
  BY <1>1, <1>2

(***************************************************************************)
(* Partial writes and reads of any size and deadlines at any point amount  *)
(* to FrameChannel (quic.go:126-161, sctpkernel_linux.go:213-263): an      *)
(* undisturbed channel is a queue of frames, and a torn one loses frames   *)
(* and hands on joints of failed ones, but doubles and reorders none.      *)
(***************************************************************************)
THEOREM FramingImplementsChannel == Spec => ImplementsChannel
<1>1. Init => Channel!Init
  <2> SUFFICES ASSUME Init PROVE Channel!Init
    OBVIOUS
  <2>1. ReceivedFrames = {} /\ JointFrames = {}
    BY DEF Init, ReceivedFrames, JointFrames
  <2> QED
    BY <2>1 DEF Init, Channel!Init
<1>2. ASSUME TypeOK, FramingInv, TransitInv, HeadInv, TypeOK', FramingInv', [Next]_vars
      PROVE  ChannelStep
  <2>1. CASE Send
    <3>1. /\ complete' = complete /\ stream' = stream /\ buf' = buf /\ need' = need
          /\ offset' = offset /\ returned' = returned /\ torn' = torn
      BY <2>1 DEF Send, receiver
    <3>2. \A i : InTransit(i)' <=> InTransit(i)
      BY <3>1 DEF InTransit
    <3> QED
      BY <3>1, <3>2, QuietStep
  <2>2. CASE Write
    BY <1>2, <2>2, WriteSends
  <2>3. CASE SendTimeout \/ RecvTimeout
    BY <1>2, <2>3, TimeoutMaps
  <2>4. CASE Recv
    <3>1. /\ complete' = complete /\ stream' = stream /\ buf' = << >> /\ need = 0
          /\ offset' = offset /\ returned' = returned /\ torn' = torn
      BY <2>4 DEF Recv, sender
    <3>2. \A i : InTransit(i)' <=> InTransit(i)
      BY <3>1 DEF InTransit
    <3> QED
      BY <3>1, <3>2, QuietStep
  <2>5. CASE ReadSome \/ ReadHeader \/ ReadBody
    BY <1>2, <2>5, ReadMaps
  <2>6. CASE UNCHANGED vars
    <3>1. /\ complete' = complete /\ stream' = stream /\ buf' = buf /\ need' = need
          /\ offset' = offset /\ returned' = returned /\ torn' = torn
      BY <2>6 DEF vars, sender, receiver
    <3>2. \A i : InTransit(i)' <=> InTransit(i)
      BY <3>1 DEF InTransit
    <3> QED
      BY <3>1, <3>2, QuietStep
  <2> QED
    BY <1>2, <2>1, <2>2, <2>3, <2>4, <2>5, <2>6 DEF Next, SendStep, RecvStep
<1>3. TypeOK /\ FramingInv /\ TransitInv /\ HeadInv /\ TypeOK' /\ FramingInv' /\ [Next]_vars
        => [Channel!Next]_<<complete, Transit, ReceivedFrames, JointFrames, torn>>
  BY <1>2 DEF ChannelStep, Seen
<1>4. Spec => Channel!Init /\ [][Channel!Next]_<<complete, Transit, ReceivedFrames, JointFrames, torn>>
  BY <1>1, <1>3, FramingInvariant, TransitInvariant, HeadInvariant, PTL DEF Spec
<1> QED
  BY <1>4, PTL DEF ImplementsChannel, Channel!Spec, Transit
===============================================================================
