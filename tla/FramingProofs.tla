--------------------------- MODULE FramingProofs ----------------------------
(***************************************************************************)
(* AlignedInOrder of Framing, for every buffer, every length of packets    *)
(* and every segmentation of the byte stream.                              *)
(***************************************************************************)
EXTENDS Framing, SequenceTheorems, TLAPS

Byte == (Nat \ {0}) \X (Nat \ {0})

TypeOK ==
  /\ size \in Seq(Nat \ {0})
  /\ pipe \in Seq(Byte)
  /\ handled \in Seq(Nat)
  /\ aligned \in BOOLEAN

\* The bytes in the socket belong to packets that were sent, and lie in their order.
InOrder ==
  /\ \A i \in 1..Len(pipe) : pipe[i][1] <= Len(size)
  /\ \A i, j \in 1..Len(pipe) :
       i < j => \/ pipe[i][1] < pipe[j][1]
                \/ pipe[i][1] = pipe[j][1] /\ pipe[i][2] < pipe[j][2]

\* Behind a byte lie all the bytes of its packet that follow it, without a gap.
Contiguous ==
  \A i \in 1..Len(pipe) : \A d \in 0 .. size[pipe[i][1]] - pipe[i][2] :
    i + d <= Len(pipe) /\ pipe[i + d] = <<pipe[i][1], pipe[i][2] + d>>

\* As long as no packet was cut, the socket starts with the first byte of a packet, and
\* what was handled was sent before what is in the socket.
Boundary ==
  aligned =>
    /\ Len(pipe) > 0 => pipe[1][2] = 1
    /\ \A i \in 1..Len(handled), j \in 1..Len(pipe) : handled[i] < pipe[j][1]

IInv == TypeOK /\ InOrder /\ Contiguous /\ Boundary /\ AlignedInOrder

\* What a read of k bytes leaves in the socket.
LEMMA RestOfPipe ==
  ASSUME pipe \in Seq(Byte), NEW k \in Prefixes
  PROVE  /\ Rest(k) \in Seq(Byte)
         /\ Len(Rest(k)) = Len(pipe) - k
         /\ \A i \in 1 .. Len(pipe) - k : Rest(k)[i] = pipe[k + i]
<1>1. k \in Nat \ {0} /\ k <= Len(pipe) /\ Len(pipe) \in Nat
  BY FramingAssumption DEF Prefixes
<1>2. \A i \in k + 1 .. Len(pipe) : pipe[i] \in Byte
  BY <1>1, ElementOfSeq
<1>3. /\ SubSeq(pipe, k + 1, Len(pipe)) \in Seq(Byte)
      /\ Len(SubSeq(pipe, k + 1, Len(pipe)))
           = IF k + 1 <= Len(pipe) THEN Len(pipe) - (k + 1) + 1 ELSE 0
      /\ \A i \in 1 .. Len(pipe) - (k + 1) + 1 :
           SubSeq(pipe, k + 1, Len(pipe))[i] = pipe[(k + 1) + i - 1]
  <2>1. k + 1 \in Int /\ Len(pipe) \in Int
    BY <1>1
  <2> HIDE DEF Byte
  <2> QED
    BY <2>1, <1>2, SubSeqProperties
<1>4. \A i \in 1 .. Len(pipe) - k : (k + 1) + i - 1 = k + i
  BY <1>1
<1> QED
  BY <1>1, <1>3, <1>4 DEF Rest

\* The components of the bytes in the socket.
LEMMA BytesOfPipe ==
  ASSUME TypeOK
  PROVE  /\ Len(pipe) \in Nat /\ Len(size) \in Nat /\ Len(handled) \in Nat
         /\ \A i \in 1..Len(pipe) : pipe[i][1] \in Nat \ {0} /\ pipe[i][2] \in Nat \ {0}
<1>1. \A i \in 1..Len(pipe) : pipe[i] \in Byte
  BY ElementOfSeq DEF TypeOK
<1> QED
  BY <1>1 DEF TypeOK, Byte

\* A read keeps the bytes that are left in order and without gaps.
LEMMA ReadKeepsPipe ==
  ASSUME TypeOK, InOrder, Contiguous, NEW k \in Prefixes, TakeBytes(k), UNCHANGED size
  PROVE  InOrder' /\ Contiguous'
<1>0. k \in Nat \ {0} /\ k <= Len(pipe) /\ Len(pipe) \in Nat
  BY BytesOfPipe DEF Prefixes
<1>1. /\ Len(pipe') = Len(pipe) - k
      /\ \A i \in 1..Len(pipe') : pipe'[i] = pipe[k + i] /\ k + i \in 1..Len(pipe)
  BY <1>0, RestOfPipe DEF TakeBytes, TypeOK
<1>2. InOrder'
  <2>1. \A i \in 1..Len(pipe') : pipe'[i][1] <= Len(size')
    BY <1>1 DEF InOrder
  <2>2. ASSUME NEW i \in 1..Len(pipe'), NEW j \in 1..Len(pipe'), i < j
        PROVE  \/ pipe'[i][1] < pipe'[j][1]
               \/ pipe'[i][1] = pipe'[j][1] /\ pipe'[i][2] < pipe'[j][2]
    <3>1. k + i < k + j
      BY <2>2, <1>0, <1>1
    <3> QED
      BY <3>1, <1>1 DEF InOrder
  <2> QED
    BY <2>1, <2>2 DEF InOrder
<1>3. Contiguous'
  <2> SUFFICES ASSUME NEW i \in 1..Len(pipe'),
                      NEW d \in 0 .. size[pipe'[i][1]] - pipe'[i][2]
               PROVE  i + d <= Len(pipe') /\ pipe'[i + d] = <<pipe'[i][1], pipe'[i][2] + d>>
    BY DEF Contiguous
  <2>1. pipe'[i] = pipe[k + i] /\ k + i \in 1..Len(pipe)
    BY <1>1
  <2>2. (k + i) + d <= Len(pipe) /\ pipe[(k + i) + d] = <<pipe[k + i][1], pipe[k + i][2] + d>>
    BY <2>1 DEF Contiguous
  <2>3. i \in Nat \ {0} /\ d \in Nat
    BY <1>0, <1>1
  <2>4. i + d \in 1..Len(pipe')
    BY <2>2, <2>3, <1>0, <1>1
  <2>5. pipe'[i + d] = pipe[k + (i + d)] /\ k + (i + d) = (k + i) + d
    BY <2>3, <2>4, <1>0, <1>1
  <2> QED
    BY <2>1, <2>2, <2>4, <2>5
<1> QED
  BY <1>2, <1>3

\* When neither an earlier read nor this one cuts a packet, the whole packet at the front
\* of the socket is decoded, and all that is left was sent after it.
LEMMA WholePacketRead ==
  ASSUME TypeOK, InOrder, Contiguous, Boundary, aligned,
         NEW k \in Prefixes, AtBoundary(Rest(k))
  PROVE  /\ Decode(k) = pipe[1][1]
         /\ \A i \in 1..Len(Rest(k)) : pipe[1][1] < Rest(k)[i][1]
<1>0. k \in Nat \ {0} /\ k <= Len(pipe) /\ Len(pipe) \in Nat
  BY BytesOfPipe DEF Prefixes
<1>1. /\ Rest(k) \in Seq(Byte) /\ Len(Rest(k)) = Len(pipe) - k
      /\ \A i \in 1 .. Len(pipe) - k : Rest(k)[i] = pipe[k + i]
  BY RestOfPipe DEF TypeOK
<1>2. Len(pipe) > k => pipe[k + 1][2] = 1
  <2> SUFFICES ASSUME Len(pipe) > k PROVE pipe[k + 1][2] = 1
    OBVIOUS
  <2>1. Rest(k) # <<>> /\ Head(Rest(k)) = Rest(k)[1] /\ 1 \in 1 .. Len(pipe) - k
    BY <1>0, <1>1
  <2> QED
    BY <2>1, <1>1 DEF AtBoundary, Starts
<1>3. /\ pipe[1][2] = 1 /\ pipe[1][1] \in Nat \ {0} /\ pipe[1][1] <= Len(size)
      /\ size[pipe[1][1]] \in Nat \ {0}
  <2>1. 1 \in 1..Len(pipe) /\ Len(pipe) > 0
    BY <1>0
  <2>2. pipe[1][2] = 1 /\ pipe[1][1] <= Len(size) /\ pipe[1][1] \in Nat \ {0}
    BY <2>1, BytesOfPipe DEF Boundary, InOrder
  <2>3. pipe[1][1] \in 1..Len(size)
    BY <2>2, BytesOfPipe
  <2> QED
    BY <2>2, <2>3, ElementOfSeq DEF TypeOK
<1>4. size[pipe[1][1]] <= k
  <2> SUFFICES ASSUME k < size[pipe[1][1]] PROVE FALSE
    BY <1>0, <1>3
  <2>1. k \in 0 .. size[pipe[1][1]] - pipe[1][2] /\ 1 \in 1..Len(pipe)
    BY <1>0, <1>3
  <2>2. 1 + k <= Len(pipe) /\ pipe[1 + k] = <<pipe[1][1], pipe[1][2] + k>>
    BY <2>1 DEF Contiguous
  <2>3. 1 + k = k + 1 /\ Len(pipe) > k
    BY <2>2, <1>0
  <2>4. pipe[k + 1][2] = pipe[1][2] + k
    BY <2>2, <2>3
  <2> QED
    BY <2>3, <2>4, <1>0, <1>2, <1>3
<1>5. ASSUME NEW i \in 1..Len(Rest(k)) PROVE pipe[1][1] < Rest(k)[i][1]
  <2>1. /\ Len(pipe) > k /\ 1 \in 1..Len(pipe) /\ k + 1 \in 1..Len(pipe)
        /\ k + i \in 1..Len(pipe) /\ 1 < k + 1 /\ (i = 1 \/ k + 1 < k + i)
        /\ Rest(k)[i] = pipe[k + i]
    BY <1>0, <1>1
  <2>2. pipe[1][1] < pipe[k + 1][1]
    <3>1. \/ pipe[1][1] < pipe[k + 1][1]
          \/ pipe[1][1] = pipe[k + 1][1] /\ pipe[1][2] < pipe[k + 1][2]
      BY <2>1 DEF InOrder
    <3> QED
      BY <3>1, <2>1, <1>2, <1>3
  <2>3. pipe[k + 1][1] <= pipe[k + i][1]
    <3>0. pipe[k + 1][1] \in Nat /\ pipe[k + i][1] \in Nat
      BY <2>1, BytesOfPipe
    <3>1. CASE i = 1
      BY <3>0, <3>1
    <3>2. CASE k + 1 < k + i
      BY <3>0, <3>2, <2>1 DEF InOrder
    <3> QED
      BY <3>1, <3>2, <2>1
  <2>4. pipe[1][1] \in Nat /\ pipe[k + 1][1] \in Nat /\ pipe[k + i][1] \in Nat
    BY <2>1, BytesOfPipe
  <2> QED
    BY <2>1, <2>2, <2>3, <2>4
<1> QED
  BY <1>3, <1>4, <1>5 DEF Decode, Starts

\* The bytes of a new packet, and the socket with them.
LEMMA PipeAfterSend ==
  ASSUME TypeOK, NEW n \in Sizes, send(n)
  PROVE  /\ n \in Nat \ {0} /\ TypeOK'
         /\ Len(size') = Len(size) + 1 /\ size'[Len(size) + 1] = n
         /\ \A p \in 1..Len(size) : size'[p] = size[p]
         /\ Len(pipe') = Len(pipe) + n
         /\ \A i \in 1..Len(pipe) : pipe'[i] = pipe[i]
         /\ \A i \in 1..n : pipe'[Len(pipe) + i] = <<Len(size) + 1, i>>
<1> DEFINE p == Len(size) + 1
           new == [i \in 1..n |-> <<p, i>>]
<1>0. n \in Nat \ {0}
  BY FramingAssumption
<1>a. size \in Seq(Nat \ {0}) /\ pipe \in Seq(Byte) /\ Len(size) \in Nat /\ Len(pipe) \in Nat
  BY BytesOfPipe DEF TypeOK
<1>1. /\ size' \in Seq(Nat \ {0}) /\ Len(size') = p /\ size'[p] = n
      /\ \A q \in 1..Len(size) : size'[q] = size[q]
  BY <1>0, <1>a DEF send
<1>2. new \in Seq(Byte) /\ Len(new) = n
  <2>1. \A i \in 1..n : <<p, i>> \in Byte
    BY <1>0, <1>a DEF Byte
  <2>2. new \in [1..n -> Byte]
    BY <2>1
  <2> HIDE DEF new, Byte
  <2> QED
    BY <1>0, <2>2, SeqDef, LenProperties
<1>3. /\ pipe' \in Seq(Byte) /\ Len(pipe') = Len(pipe) + n
      /\ \A i \in 1 .. Len(pipe) + n :
           pipe'[i] = IF i <= Len(pipe) THEN pipe[i] ELSE new[i - Len(pipe)]
  <2>1. pipe' = pipe \o new
    BY DEF send
  <2> HIDE DEF new, Byte
  <2> QED
    BY <1>a, <1>2, <2>1, ConcatProperties
<1>4. \A i \in 1..Len(pipe) : pipe'[i] = pipe[i]
  <2> SUFFICES ASSUME NEW i \in 1..Len(pipe) PROVE pipe'[i] = pipe[i]
    OBVIOUS
  <2>1. i \in 1 .. Len(pipe) + n /\ i <= Len(pipe)
    BY <1>0, <1>a
  <2> HIDE DEF new
  <2> QED
    BY <2>1, <1>3
<1>5. \A i \in 1..n : pipe'[Len(pipe) + i] = <<p, i>>
  <2> SUFFICES ASSUME NEW i \in 1..n PROVE pipe'[Len(pipe) + i] = <<p, i>>
    OBVIOUS
  <2>1. /\ Len(pipe) + i \in 1 .. Len(pipe) + n /\ ~(Len(pipe) + i <= Len(pipe))
        /\ (Len(pipe) + i) - Len(pipe) = i
    BY <1>0, <1>a
  <2>2. pipe'[Len(pipe) + i] = new[i]
    BY <2>1, <1>3
  <2> QED
    BY <2>2
<1>6. handled' \in Seq(Nat) /\ aligned' \in BOOLEAN
  BY DEF send, TypeOK
<1> QED
  BY <1>0, <1>1, <1>3, <1>4, <1>5, <1>6 DEF TypeOK

\* Sending a packet keeps the invariant.
LEMMA SendStep == ASSUME IInv, NEW n \in Sizes, send(n) PROVE IInv'
<1> USE DEF IInv
<1> DEFINE L == Len(pipe)
           P == Len(size)
<1>0. /\ n \in Nat \ {0} /\ TypeOK'
      /\ Len(size') = P + 1 /\ size'[P + 1] = n
      /\ \A p \in 1..P : size'[p] = size[p]
      /\ Len(pipe') = L + n
      /\ \A i \in 1..L : pipe'[i] = pipe[i]
      /\ \A i \in 1..n : pipe'[L + i] = <<P + 1, i>>
  BY PipeAfterSend
<1>1. /\ L \in Nat /\ P \in Nat
      /\ \A i \in 1..L : pipe[i][1] \in 1..P /\ pipe[i][2] \in Nat \ {0}
  BY BytesOfPipe DEF InOrder
<1>2. \A i \in 1 .. L + n : i \in 1..L \/ \E x \in 1..n : i = L + x
  <2> SUFFICES ASSUME NEW i \in 1 .. L + n, i \notin 1..L PROVE \E x \in 1..n : i = L + x
    OBVIOUS
  <2>1. i - L \in 1..n /\ i = L + (i - L)
    BY <1>0, <1>1
  <2> QED
    BY <2>1
<1> HIDE DEF L, P
<1>3. InOrder'
  <2>1. ASSUME NEW i \in 1 .. L + n PROVE pipe'[i][1] <= P + 1
    <3>1. CASE i \in 1..L
      BY <3>1, <1>0, <1>1
    <3>2. CASE \E x \in 1..n : i = L + x
      <4>1. PICK x \in 1..n : i = L + x
        BY <3>2
      <4>2. pipe'[i] = <<P + 1, x>>
        BY <4>1, <1>0
      <4> QED
        BY <4>2, <1>1
    <3> QED
      BY <3>1, <3>2, <1>2
  <2>2. ASSUME NEW i \in 1 .. L + n, NEW j \in 1 .. L + n, i < j
        PROVE  \/ pipe'[i][1] < pipe'[j][1]
               \/ pipe'[i][1] = pipe'[j][1] /\ pipe'[i][2] < pipe'[j][2]
    <3>1. CASE i \in 1..L /\ j \in 1..L
      <4>1. pipe'[i] = pipe[i] /\ pipe'[j] = pipe[j]
        BY <3>1, <1>0
      <4>2. \/ pipe[i][1] < pipe[j][1]
            \/ pipe[i][1] = pipe[j][1] /\ pipe[i][2] < pipe[j][2]
        BY <3>1, <2>2 DEF InOrder, L
      <4> QED
        BY <4>1, <4>2
    <3>2. CASE i \in 1..L /\ \E y \in 1..n : j = L + y
      <4>1. pipe'[i] = pipe[i] /\ pipe[i][1] \in 1..P
        BY <3>2, <1>0, <1>1
      <4>2. PICK y \in 1..n : j = L + y
        BY <3>2
      <4>3. pipe'[j] = <<P + 1, y>>
        BY <4>2, <1>0
      <4>4. pipe'[j][1] = P + 1
        BY <4>3
      <4> QED
        BY <4>1, <4>4, <1>1
    <3>3. CASE \E x, y \in 1..n : i = L + x /\ j = L + y
      <4>1. PICK x \in 1..n, y \in 1..n : i = L + x /\ j = L + y
        BY <3>3
      <4>2. x < y
        BY <4>1, <2>2, <1>0, <1>1
      <4>3. pipe'[i] = <<P + 1, x>> /\ pipe'[j] = <<P + 1, y>>
        BY <4>1, <1>0
      <4> QED
        BY <4>2, <4>3
    <3>4. ~(j \in 1..L /\ \E x \in 1..n : i = L + x)
      BY <2>2, <1>0, <1>1
    <3> QED
      BY <3>1, <3>2, <3>3, <3>4, <1>2
  <2> QED
    BY <2>1, <2>2, <1>0 DEF InOrder
<1>4. Contiguous'
  <2> SUFFICES ASSUME NEW i \in 1 .. L + n, NEW d \in 0 .. size'[pipe'[i][1]] - pipe'[i][2]
               PROVE  i + d <= L + n /\ pipe'[i + d] = <<pipe'[i][1], pipe'[i][2] + d>>
    BY <1>0 DEF Contiguous
  <2>1. CASE i \in 1..L
    <3>1. pipe'[i] = pipe[i] /\ size'[pipe[i][1]] = size[pipe[i][1]]
      BY <2>1, <1>0, <1>1
    <3>2. i + d <= L /\ pipe[i + d] = <<pipe[i][1], pipe[i][2] + d>>
      BY <3>1, <2>1 DEF Contiguous, L
    <3>3. i + d \in 1..L
      BY <3>2, <2>1, <1>1
    <3> QED
      BY <3>1, <3>2, <3>3, <1>0, <1>1
  <2>2. CASE \E x \in 1..n : i = L + x
    <3>1. PICK x \in 1..n : i = L + x
      BY <2>2
    <3>2. pipe'[i] = <<P + 1, x>>
      BY <3>1, <1>0
    <3>3. size'[pipe'[i][1]] = n /\ pipe'[i][2] = x
      BY <3>2, <1>0
    <3>4. d \in 0 .. n - x
      BY <3>3
    <3>5. x + d \in 1..n /\ i + d = L + (x + d) /\ i + d <= L + n
      BY <3>1, <3>4, <1>0, <1>1
    <3>6. pipe'[L + (x + d)] = <<P + 1, x + d>>
      BY <3>5, <1>0
    <3> QED
      BY <3>2, <3>3, <3>5, <3>6
  <2> QED
    BY <2>1, <2>2, <1>2
<1>5. Boundary'
  <2> SUFFICES ASSUME aligned' PROVE Boundary'
    BY DEF Boundary
  <2>1. aligned /\ handled' = handled
    BY DEF send
  <2>2. pipe'[1][2] = 1
    <3>1. CASE L = 0
      <4>1. 1 \in 1..n /\ L + 1 = 1
        BY <3>1, <1>0
      <4>2. pipe'[L + 1] = <<P + 1, 1>>
        BY <4>1, <1>0
      <4> QED
        BY <4>1, <4>2
    <3>2. CASE L > 0
      BY <3>2, <2>1, <1>0, <1>1 DEF Boundary, L
    <3> QED
      BY <3>1, <3>2, <1>1
  <2>3. ASSUME NEW i \in 1..Len(handled), NEW j \in 1 .. L + n PROVE handled[i] < pipe'[j][1]
    <3>1. CASE j \in 1..L
      BY <3>1, <2>1, <1>0 DEF Boundary, L
    <3>2. CASE \E y \in 1..n : j = L + y
      <4>1. pipe'[j][1] = P + 1
        BY <3>2, <1>0
      <4>2. handled[i] \in 1..P
        BY <2>1 DEF AlignedInOrder, P, TypeOK
      <4> QED
        BY <4>1, <4>2, <1>1
    <3> QED
      BY <3>1, <3>2, <1>2
  <2> QED
    BY <2>1, <2>2, <2>3, <1>0 DEF Boundary
<1>6. AlignedInOrder'
  <2>1. handled' = handled /\ aligned' = aligned
    BY DEF send
  <2>2. \A x \in 1..P : x \in 1..Len(size')
    BY <1>0, <1>1
  <2> QED
    BY <2>1, <2>2 DEF AlignedInOrder, P
<1> QED
  BY <1>0, <1>3, <1>4, <1>5, <1>6

\* A read keeps the invariant, whether its bytes decode or not.
LEMMA ReadStep ==
  ASSUME IInv, NEW k \in Prefixes, handle_packet(k) \/ decode_failed(k) PROVE IInv'
<1> USE DEF IInv
<1>0. TakeBytes(k) /\ size' = size
  BY DEF handle_packet, decode_failed
<1>1. handled' = handled \/ handled' = Append(handled, Decode(k))
  BY DEF handle_packet, decode_failed
<1>2. /\ k \in Nat \ {0} /\ k <= Len(pipe) /\ Len(pipe) \in Nat
      /\ Len(size) \in Nat /\ Len(handled) \in Nat /\ handled \in Seq(Nat)
      /\ DOMAIN handled = 1..Len(handled)
  BY BytesOfPipe DEF Prefixes, TypeOK
<1>3. /\ pipe' = Rest(k) /\ pipe' \in Seq(Byte) /\ Len(pipe') = Len(pipe) - k
      /\ \A i \in 1 .. Len(pipe) - k : pipe'[i] = pipe[k + i]
  BY <1>0, RestOfPipe DEF TakeBytes, TypeOK
<1>4. Decode(k) \in Nat
  <2>1. 1 \in 1..Len(pipe)
    BY <1>2
  <2>2. pipe[1][1] \in Nat
    BY <2>1, BytesOfPipe
  <2> QED
    BY <2>2 DEF Decode, Garbled
<1>5. TypeOK'
  <2>1. handled' \in Seq(Nat)
    BY <1>1, <1>2, <1>4
  <2>2. aligned' \in BOOLEAN
    BY <1>0 DEF TakeBytes
  <2> QED
    BY <1>0, <1>3, <2>1, <2>2 DEF TypeOK
<1>6. InOrder' /\ Contiguous'
  BY <1>0, ReadKeepsPipe
<1>7. aligned' => Boundary' /\ AlignedInOrder'
  <2> SUFFICES ASSUME aligned' PROVE Boundary' /\ AlignedInOrder'
    OBVIOUS
  <2>1. aligned /\ AtBoundary(Rest(k))
    BY <1>0 DEF TakeBytes
  <2>2. /\ Decode(k) = pipe[1][1]
        /\ \A i \in 1..Len(pipe') : Decode(k) < pipe'[i][1]
    BY <2>1, <1>3, WholePacketRead
  <2>3. \A i \in 1..Len(pipe') : k + i \in 1..Len(pipe) /\ pipe'[i] = pipe[k + i]
    BY <1>2, <1>3
  <2>4. Len(pipe') > 0 => pipe'[1][2] = 1
    <3> SUFFICES ASSUME Len(pipe') > 0 PROVE pipe'[1][2] = 1
      OBVIOUS
    <3>1. Rest(k) # <<>> /\ Head(Rest(k)) = pipe'[1]
      BY <1>2, <1>3
    <3> QED
      BY <3>1, <2>1 DEF AtBoundary, Starts
  <2>5. 1 \in 1..Len(pipe) /\ pipe[1][1] \in 1..Len(size)
    BY <1>2, BytesOfPipe DEF InOrder
  <2>6. \A i \in 1..Len(handled) : /\ handled[i] \in 1..Len(size) /\ handled[i] < pipe[1][1]
                                   /\ \A j \in 1..Len(pipe') : handled[i] < pipe'[j][1]
    <3> SUFFICES ASSUME NEW i \in 1..Len(handled)
                 PROVE  /\ handled[i] \in 1..Len(size) /\ handled[i] < pipe[1][1]
                        /\ \A j \in 1..Len(pipe') : handled[i] < pipe'[j][1]
      OBVIOUS
    <3>1. handled[i] \in 1..Len(size)
      BY <2>1, <1>2 DEF AlignedInOrder
    <3>2. \A j \in 1..Len(pipe) : handled[i] < pipe[j][1]
      BY <2>1 DEF Boundary
    <3> QED
      BY <3>1, <3>2, <2>3, <2>5
  <2>7. \A i, j \in 1..Len(handled) : i < j => handled[i] < handled[j]
    BY <2>1, <1>2 DEF AlignedInOrder
  <2>8. CASE handled' = handled
    <3>1. Boundary'
      BY <2>4, <2>6, <2>8 DEF Boundary
    <3>2. \A i \in 1..Len(handled) : handled[i] \in 1..Len(size')
      BY <2>6, <1>0
    <3> QED
      BY <3>1, <3>2, <2>7, <2>8, <1>2 DEF AlignedInOrder
  <2>9. CASE handled' = Append(handled, Decode(k))
    <3>1. /\ Len(handled') = Len(handled) + 1 /\ handled'[Len(handled) + 1] = Decode(k)
          /\ \A i \in 1..Len(handled) : handled'[i] = handled[i]
          /\ DOMAIN handled' = 1 .. Len(handled) + 1
      BY <2>9, <1>2, <1>4
    <3>2. \A i \in 1 .. Len(handled) + 1 : i \in 1..Len(handled) \/ i = Len(handled) + 1
      BY <1>2
    <3>3. Boundary'
      BY <3>1, <3>2, <2>2, <2>4, <2>6 DEF Boundary
    <3>4. \A i \in 1 .. Len(handled) + 1 : handled'[i] \in 1..Len(size')
      BY <3>1, <3>2, <2>2, <2>5, <2>6, <1>0
    <3>5. ASSUME NEW i \in 1 .. Len(handled) + 1, NEW j \in 1 .. Len(handled) + 1, i < j
          PROVE  handled'[i] < handled'[j]
      <4>1. i \in 1..Len(handled)
        BY <3>5, <1>2
      <4>2. CASE j \in 1..Len(handled)
        BY <4>1, <4>2, <3>1, <3>5, <2>7
      <4>3. CASE j = Len(handled) + 1
        BY <4>1, <4>3, <3>1, <2>2, <2>6
      <4> QED
        BY <4>2, <4>3, <3>2
    <3> QED
      BY <3>1, <3>3, <3>4, <3>5 DEF AlignedInOrder
  <2> QED
    BY <2>8, <2>9, <1>1
<1>8. ~aligned' => Boundary' /\ AlignedInOrder'
  BY DEF Boundary, AlignedInOrder
<1> QED
  BY <1>5, <1>6, <1>7, <1>8

\* Whatever the peer sends and however TCP cuts it, handlers are given packets in the order
\* in which they were sent, each at most once, until a read ends inside a packet.
THEOREM FramingInOrder == FramingSpec => []AlignedInOrder
<1>1. FramingInit => IInv
  BY DEF FramingInit, IInv, TypeOK, InOrder, Contiguous, Boundary, AlignedInOrder, Byte
<1>2. IInv /\ [FramingNext]_vars => IInv'
  <2> SUFFICES ASSUME IInv, [FramingNext]_vars PROVE IInv'
    OBVIOUS
  <2>1. CASE Read
    BY <2>1, ReadStep DEF Read
  <2>2. CASE \E n \in Sizes : send(n)
    BY <2>2, SendStep
  <2>3. CASE UNCHANGED vars
    BY <2>3 DEF vars, IInv, TypeOK, InOrder, Contiguous, Boundary, AlignedInOrder
  <2> QED
    BY <2>1, <2>2, <2>3 DEF FramingNext
<1>3. IInv => AlignedInOrder
  BY DEF IInv
<1> QED
  BY <1>1, <1>2, <1>3, PTL DEF FramingSpec
=============================================================================
