--------------------------- MODULE FramingProofs ----------------------------
(***************************************************************************)
(* Proof that framing turns the byte stream into a channel of messages,    *)
(* for any number of threads, payloads of any size, and any sizes of the   *)
(* header, the checksum and the socket buffers.                            *)
(***************************************************************************)
EXTENDS Framing, SequenceTheorems, TLAPS

-----------------------------------------------------------------------------
(* The bytes of a frame.                                                   *)

FrameLen(p) == HeaderBytes + Size[p] + SumBytes

FrameByte(p, j) ==
    IF j <= HeaderBytes THEN <<"length", Size[p], j>>
    ELSE IF j <= HeaderBytes + Size[p] THEN <<"payload", p, j - HeaderBytes>>
    ELSE <<"sum", p, j - (HeaderBytes + Size[p])>>

LEMMA Sizes ==
    /\ HeaderBytes \in Nat /\ HeaderBytes >= 1
    /\ SumBytes \in Nat /\ SumBytes >= 1
    /\ BufferBytes \in Nat
    /\ \A p \in Payloads : Size[p] \in Nat /\ Size[p] >= 1 /\ FrameLen(p) \in Nat
BY FramingAssumption DEF FrameLen

\* The three parts of a frame are sequences of bytes.
AnyByte == {"length", "payload", "sum"} \X (Nat \cup Payloads) \X Nat

LEMMA Parts ==
    ASSUME NEW p \in Payloads
    PROVE  /\ HeaderOf(Size[p]) \in Seq(AnyByte)
           /\ BodyOf(p) \in Seq(AnyByte)
           /\ SumOf(p) \in Seq(AnyByte)
           /\ Len(HeaderOf(Size[p])) = HeaderBytes
           /\ Len(BodyOf(p)) = Size[p] /\ Len(SumOf(p)) = SumBytes
<1>1. /\ HeaderOf(Size[p]) \in [1..HeaderBytes -> AnyByte]
      /\ BodyOf(p) \in [1..Size[p] -> AnyByte]
      /\ SumOf(p) \in [1..SumBytes -> AnyByte]
  BY Sizes DEF HeaderOf, BodyOf, SumOf, AnyByte
<1>2. ASSUME NEW n \in Nat, NEW f \in [1..n -> AnyByte]
      PROVE  f \in Seq(AnyByte) /\ Len(f) = n
  BY <1>2
<1> QED
  BY <1>1, <1>2, Sizes

LEMMA BodyShape ==
    ASSUME NEW p \in Payloads
    PROVE  LET s == BodyOf(p) \o SumOf(p) IN
           /\ Len(s) = Size[p] + SumBytes
           /\ \A j \in 1..(Size[p] + SumBytes) :
                s[j] = FrameByte(p, HeaderBytes + j)
<1> DEFINE B == BodyOf(p)
           C == SumOf(p)
<1>1. Len(B) = Size[p] /\ B \in Seq(AnyByte)
      /\ \A j \in 1..Size[p] : B[j] = <<"payload", p, j>>
  BY Parts DEF BodyOf
<1>2. Len(C) = SumBytes /\ C \in Seq(AnyByte)
      /\ \A j \in 1..SumBytes : C[j] = <<"sum", p, j>>
  BY Parts DEF SumOf
<1> HIDE DEF B, C
<1>3. /\ Len(B \o C) = Size[p] + SumBytes
      /\ \A j \in 1..(Size[p] + SumBytes) :
           (B \o C)[j] = IF j <= Size[p] THEN B[j] ELSE C[j - Size[p]]
  <2>1. Len(B \o C) = Len(B) + Len(C)
        /\ \A j \in 1..(Len(B) + Len(C)) :
             (B \o C)[j] = IF j <= Len(B) THEN B[j] ELSE C[j - Len(B)]
    BY <1>1, <1>2, ConcatProperties
  <2> QED
    BY <1>1, <1>2, <2>1
<1>4. ASSUME NEW j \in 1..(Size[p] + SumBytes)
      PROVE  (B \o C)[j] = FrameByte(p, HeaderBytes + j)
  <2>1. CASE j <= Size[p]
    <3>1. /\ ~(HeaderBytes + j <= HeaderBytes)
          /\ HeaderBytes + j <= HeaderBytes + Size[p]
          /\ (HeaderBytes + j) - HeaderBytes = j
      BY <2>1, Sizes
    <3> QED
      BY <1>1, <1>3, <2>1, <3>1, Sizes DEF FrameByte
  <2>2. CASE ~(j <= Size[p])
    <3>1. /\ ~(HeaderBytes + j <= HeaderBytes)
          /\ ~(HeaderBytes + j <= HeaderBytes + Size[p])
          /\ (HeaderBytes + j) - (HeaderBytes + Size[p]) = j - Size[p]
          /\ j - Size[p] \in 1..SumBytes
      BY <2>2, Sizes
    <3> QED
      BY <1>2, <1>3, <2>2, <3>1 DEF FrameByte
  <2> QED
    BY <2>1, <2>2
<1> QED
  BY <1>3, <1>4 DEF B, C

LEMMA FrameShape ==
    ASSUME NEW p \in Payloads
    PROVE  /\ Len(FrameOf(p)) = FrameLen(p)
           /\ DOMAIN FrameOf(p) = 1..FrameLen(p)
           /\ \A j \in 1..FrameLen(p) : FrameOf(p)[j] = FrameByte(p, j)
<1> DEFINE A == HeaderOf(Size[p])
           B == BodyOf(p) \o SumOf(p)
           n == Size[p] + SumBytes
<1>1. Len(A) = HeaderBytes /\ A \in Seq(AnyByte)
      /\ \A j \in 1..HeaderBytes : A[j] = <<"length", Size[p], j>>
  BY Parts DEF HeaderOf
<1>2. BodyOf(p) \in Seq(AnyByte) /\ SumOf(p) \in Seq(AnyByte)
  BY Parts
<1>3. /\ Len(B) = n
      /\ \A j \in 1..n : B[j] = FrameByte(p, HeaderBytes + j)
  BY BodyShape
<1>4. n \in Nat /\ FrameLen(p) = HeaderBytes + n
  BY Sizes DEF FrameLen
<1>5. FrameOf(p) = A \o B
  <2>1. FrameOf(p) = (A \o BodyOf(p)) \o SumOf(p)
    BY DEF FrameOf
  <2>2. A \in Seq(AnyByte)
    BY <1>1
  <2> HIDE DEF A
  <2> QED
    BY <1>2, <2>1, <2>2, ConcatAssociative
<1>6. B \in Seq(AnyByte)
  BY <1>2
<1> HIDE DEF A, B, n
<1>7. /\ Len(A \o B) = FrameLen(p) /\ DOMAIN (A \o B) = 1..FrameLen(p)
      /\ \A j \in 1..FrameLen(p) :
           (A \o B)[j] = IF j <= HeaderBytes THEN A[j] ELSE B[j - HeaderBytes]
  <2>1. /\ A \o B \in Seq(AnyByte) /\ Len(A \o B) = Len(A) + Len(B)
        /\ \A j \in 1..(Len(A) + Len(B)) :
             (A \o B)[j] = IF j <= Len(A) THEN A[j] ELSE B[j - Len(A)]
    BY <1>1, <1>6, ConcatProperties
  <2>2. Len(A) = HeaderBytes /\ Len(A) + Len(B) = FrameLen(p)
    BY <1>1, <1>3, <1>4
  <2>3. DOMAIN (A \o B) = 1..Len(A \o B)
    BY <2>1
  <2> QED
    BY <2>1, <2>2, <2>3
<1>8. ASSUME NEW j \in 1..FrameLen(p)
      PROVE  (A \o B)[j] = FrameByte(p, j)
  <2>1. CASE j <= HeaderBytes
    BY <1>1, <1>7, <2>1, Sizes DEF FrameByte
  <2>2. CASE ~(j <= HeaderBytes)
    <3>1. j - HeaderBytes \in 1..n /\ HeaderBytes + (j - HeaderBytes) = j
      BY <1>4, <2>2, Sizes
    <3> QED
      BY <1>3, <1>7, <2>2, <3>1
  <2> QED
    BY <2>1, <2>2
<1> QED
  BY <1>5, <1>7, <1>8

-----------------------------------------------------------------------------
(* The type invariant, with what a thread in send_frame keeps: it has a    *)
(* payload, and no thread sends without the lock.                          *)

WriterRecord == [pc : {"idle", "blocked", "sending"},
                 payload : Payloads \cup {None}, done : Nat]

Writing(w) == writer[w].pc = "sending"

WritersSound ==
    \A w \in Writers :
      /\ writer[w].pc # "idle" => writer[w].payload \in Payloads
      /\ writer[w].pc = "blocked" => writer[w].done = 0
      /\ Writing(w) => lock = w /\ writer[w].done <= FrameLen(writer[w].payload)

FramingTyped == FramingTypeOK /\ WritersSound

LEMMA FramingTypedInit == FramingInit => FramingTyped
<1> SUFFICES ASSUME FramingInit PROVE FramingTyped
  OBVIOUS
<1>1. Quiet \in WriterRecord /\ Quiet.pc = "idle"
  BY DEF Quiet, WriterRecord
<1>2. writer \in [Writers -> WriterRecord] /\ \A w \in Writers : writer[w].pc = "idle"
  BY <1>1 DEF FramingInit
<1>3. FramingTypeOK
  <2>1. calls \in 0..MaxCalls
    BY FramingAssumption DEF FramingInit
  <2>2. wire \in Seq(AllBytes) /\ Len(wire) <= BufferBytes /\ got \in Seq(AllBytes)
    BY Sizes DEF FramingInit
  <2>3. sent \in Seq(Payloads) /\ delivered \in Seq(Payloads)
    BY DEF FramingInit
  <2> QED
    BY <1>2, <2>1, <2>2, <2>3 DEF FramingInit, FramingTypeOK, WriterRecord
<1> QED
  BY <1>2, <1>3 DEF FramingTyped, WritersSound, Writing

\* A byte of a frame is one of the bytes.
LEMMA FrameBytes ==
    ASSUME NEW p \in Payloads, NEW j \in 1..FrameLen(p)
    PROVE  FrameOf(p)[j] \in AllBytes
BY FrameShape DEF AllBytes

LEMMA RefuseTyped == FramingTyped /\ Refuse => FramingTyped'
BY FramingAssumption
   DEF Refuse, FramingTyped, FramingTypeOK, WritersSound, Writing, history

LEMMA SendTyped ==
    ASSUME FramingTyped, NEW w \in Writers,
           \/ \E p \in Payloads : Call(w, p)
           \/ TakeLock(w) \/ SendByte(w) \/ Return(w) \/ SendError(w)
    PROVE  FramingTyped'
<1>1. writer \in [Writers -> WriterRecord] /\ writer[w] \in WriterRecord
  BY DEF FramingTyped, FramingTypeOK, WriterRecord
<1>2. ASSUME NEW r \in WriterRecord, writer' = [writer EXCEPT ![w] = r]
      PROVE  /\ writer' \in [Writers -> WriterRecord]
             /\ writer'[w] = r
             /\ \A u \in Writers : u # w => writer'[u] = writer[u]
  BY <1>1, <1>2
<1>3. CASE \E p \in Payloads : Call(w, p)
  <2>1. PICK p \in Payloads : Call(w, p)
    BY <1>3
  <2> DEFINE r == [pc |-> "blocked", payload |-> p, done |-> 0]
  <2>2. r \in WriterRecord /\ r.pc = "blocked" /\ r.payload = p /\ r.done = 0
    BY DEF WriterRecord
  <2>3. writer' = [writer EXCEPT ![w] = r]
    BY <2>1 DEF Call
  <2> HIDE DEF r
  <2>4. /\ writer' \in [Writers -> WriterRecord] /\ writer'[w] = r
        /\ \A u \in Writers : u # w => writer'[u] = writer[u]
    BY <1>2, <2>2, <2>3
  <2>5. calls + 1 \in 0..MaxCalls
    BY <2>1, FramingAssumption DEF Call, FramingTyped, FramingTypeOK
  <2>6. FramingTypeOK'
    BY <2>1, <2>4, <2>5
       DEF Call, FramingTyped, FramingTypeOK, WriterRecord, readerVars
  <2>7. WritersSound'
    BY <2>1, <2>2, <2>4 DEF Call, FramingTyped, WritersSound, Writing
  <2> QED
    BY <2>6, <2>7 DEF FramingTyped
<1>4. CASE TakeLock(w)
  <2> DEFINE r == [writer[w] EXCEPT !.pc = "sending"]
  <2>1. /\ r \in WriterRecord /\ r.pc = "sending"
        /\ r.payload = writer[w].payload /\ r.done = writer[w].done
    BY <1>1 DEF WriterRecord
  <2>2. writer' = [writer EXCEPT ![w] = r]
    BY <1>4 DEF TakeLock
  <2> HIDE DEF r
  <2>3. /\ writer' \in [Writers -> WriterRecord] /\ writer'[w] = r
        /\ \A u \in Writers : u # w => writer'[u] = writer[u]
    BY <1>2, <2>1, <2>2
  <2>4. FramingTypeOK'
    BY <1>4, <2>3
       DEF TakeLock, FramingTyped, FramingTypeOK, WriterRecord, readerVars, history
  <2>5. r.payload \in Payloads /\ r.done = 0 /\ 0 <= FrameLen(r.payload)
    BY <1>4, <2>1, Sizes DEF TakeLock, FramingTyped, WritersSound
  <2>6. \A u \in Writers : ~Writing(u)
    BY <1>4, FramingAssumption
       DEF TakeLock, LockFree, FramingTyped, WritersSound
  <2>7. WritersSound'
    BY <1>4, <2>1, <2>3, <2>5, <2>6
       DEF TakeLock, FramingTyped, WritersSound, Writing
  <2> QED
    BY <2>4, <2>7 DEF FramingTyped
<1>5. CASE SendByte(w)
  <2> DEFINE r == [writer[w] EXCEPT !.done = @ + 1]
             p == writer[w].payload
  <2>1. p \in Payloads /\ writer[w].done \in Nat
    BY <1>1, <1>5 DEF SendByte, FramingTyped, WritersSound, WriterRecord
  <2>2. writer[w].done + 1 \in Nat /\ writer[w].done + 1 \in 1..FrameLen(p)
    <3>1. writer[w].done < FrameLen(p)
      BY <1>5, <2>1, FrameShape DEF SendByte
    <3>2. FrameLen(p) \in Nat
      BY <2>1, Sizes
    <3> QED
      BY <2>1, <3>1, <3>2
  <2>3. /\ r \in WriterRecord /\ r.pc = "sending"
        /\ r.payload = writer[w].payload /\ r.done = writer[w].done + 1
    BY <1>1, <1>5, <2>2 DEF WriterRecord, SendByte
  <2>4. writer' = [writer EXCEPT ![w] = r]
    BY <1>5 DEF SendByte
  <2>5. FrameOf(p)[writer[w].done + 1] \in AllBytes
    BY <2>1, <2>2, FrameBytes
  <2>6. wire' \in Seq(AllBytes) /\ Len(wire') <= BufferBytes
    <3> DEFINE b == FrameOf(p)[writer[w].done + 1]
    <3>1. \/ wire' = wire
          \/ Len(wire) < BufferBytes /\ wire' = Append(wire, b)
      BY <1>5 DEF SendByte
    <3>2. wire \in Seq(AllBytes) /\ Len(wire) <= BufferBytes /\ b \in AllBytes
      BY <2>5 DEF FramingTyped, FramingTypeOK
    <3> HIDE DEF b
    <3> QED
      BY <3>1, <3>2, Sizes
  <2>7. sent' \in Seq(Payloads)
    BY <1>5, <2>1 DEF SendByte, FramingTyped, FramingTypeOK
  <2> HIDE DEF r, p
  <2>8. /\ writer' \in [Writers -> WriterRecord] /\ writer'[w] = r
        /\ \A u \in Writers : u # w => writer'[u] = writer[u]
    BY <1>2, <2>3, <2>4
  <2>9. FramingTypeOK'
    BY <1>5, <2>6, <2>7, <2>8
       DEF SendByte, FramingTyped, FramingTypeOK, WriterRecord, readerVars
  <2>10. r.done <= FrameLen(r.payload)
    BY <2>1, <2>2, <2>3, Sizes DEF p
  <2>11. lock' = lock /\ Writing(w)
    BY <1>5 DEF SendByte, Writing
  <2>12. WritersSound'
    BY <2>1, <2>3, <2>8, <2>10, <2>11 DEF FramingTyped, WritersSound, Writing, p
  <2> QED
    BY <2>9, <2>12 DEF FramingTyped
<1>6. CASE Return(w) \/ SendError(w)
  <2>1. Quiet \in WriterRecord /\ Quiet.pc = "idle"
    BY DEF Quiet, WriterRecord
  <2>2. /\ writer' \in [Writers -> WriterRecord] /\ writer'[w] = Quiet
        /\ \A u \in Writers : u # w => writer'[u] = writer[u]
    BY <1>2, <1>6, <2>1 DEF Return, SendError
  <2>3. cut' \in BOOLEAN
    BY <1>6 DEF Return, SendError, FramingTyped, FramingTypeOK, history
  <2>4. FramingTypeOK'
    BY <1>6, <2>2, <2>3
       DEF Return, SendError, FramingTyped, FramingTypeOK, WriterRecord,
           readerVars, history, LockAfterReturn
  <2>5. \A u \in Writers : u # w => ~Writing(u)
    BY <1>6 DEF Return, SendError, FramingTyped, WritersSound, Writing
  <2>6. WritersSound'
    BY <2>1, <2>2, <2>5 DEF FramingTyped, WritersSound, Writing
  <2> QED
    BY <2>4, <2>6 DEF FramingTyped
<1> QED
  BY <1>3, <1>4, <1>5, <1>6

LEMMA RecvTyped ==
    ASSUME FramingTyped, RecvStep \/ LinkBreaks
    PROVE  FramingTyped'
<1>1. CASE RecvByte
  <2>1. Head(wire) \in AllBytes /\ Tail(wire) \in Seq(AllBytes)
        /\ Len(Tail(wire)) = Len(wire) - 1 /\ Len(wire) \in Nat
    BY <1>1 DEF RecvByte, FramingTyped, FramingTypeOK
  <2>2. got' \in Seq(AllBytes) /\ wire' \in Seq(AllBytes) /\ Len(wire') <= BufferBytes
    BY <1>1, <2>1, Sizes DEF RecvByte, FramingTyped, FramingTypeOK
  <2> QED
    BY <1>1, <2>2
       DEF RecvByte, FramingTyped, FramingTypeOK, WritersSound, Writing, history
<1>2. CASE RecvHeader
  <2>1. PICK n \in LengthsRead(got) :
          IF TooLong(n) THEN Refuse
          ELSE /\ length' = n
               /\ UNCHANGED <<writer, lock, wire, link, got, delivered, history>>
    BY <1>2 DEF RecvHeader
  <2>2. n \in Nat
    BY FramingAssumption DEF LengthsRead, Lengths
  <2>3. CASE ~TooLong(n)
    BY <2>1, <2>2, <2>3, FramingAssumption
       DEF TooLong, FramingTyped, FramingTypeOK, WritersSound, Writing, history
  <2> QED
    BY <2>1, <2>3, RefuseTyped
<1>3. CASE RecvFrame
  <2>1. CASE \E p \in Payloads : Verified(p)
    <3> DEFINE q == CHOOSE p \in Payloads : Verified(p)
    <3>1. q \in Payloads
      BY <2>1
    <3>2. /\ delivered' = Append(delivered, q)
          /\ got' = <<>> /\ length' = None
          /\ UNCHANGED <<writer, lock, wire, link, history>>
      BY <1>3, <2>1 DEF RecvFrame
    <3> HIDE DEF q
    <3>3. delivered' \in Seq(Payloads)
      BY <3>1, <3>2 DEF FramingTyped, FramingTypeOK
    <3> QED
      BY <3>2, <3>3
         DEF FramingTyped, FramingTypeOK, WritersSound, Writing, history
  <2> QED
    BY <1>3, <2>1, RefuseTyped DEF RecvFrame
<1>4. CASE LinkBreaks
  BY <1>4, Sizes
     DEF LinkBreaks, FramingTyped, FramingTypeOK, WritersSound, Writing, history,
         readerVars
<1> QED
  BY <1>1, <1>2, <1>3, <1>4 DEF RecvStep

LEMMA FramingTypedStep == FramingTyped /\ [FramingNext]_framingVars => FramingTyped'
<1> SUFFICES ASSUME FramingTyped, [FramingNext]_framingVars PROVE FramingTyped'
  OBVIOUS
<1>1. CASE UNCHANGED framingVars
  BY <1>1 DEF framingVars, readerVars, history, FramingTyped, FramingTypeOK,
              WritersSound, Writing
<1> QED
  BY <1>1, SendTyped, RecvTyped DEF FramingNext, SendStep

\* Whatever the threads and the receiver do, the transport's variables keep
\* their types, the socket never buffers more than it can, and the length
\* recv_frame works with never exceeds its cap.
THEOREM FramingTypeCorrect == FramingSpec => []FramingTypeOK
<1>1. FramingSpec => []FramingTyped
  BY FramingTypedInit, FramingTypedStep, PTL DEF FramingSpec
<1> QED
  BY <1>1, PTL DEF FramingTyped

-----------------------------------------------------------------------------
(* How the bytes that are sent and not yet part of a delivered message     *)
(* belong to messages.  The bytes of message i end at off[i], and byte q   *)
(* is one of message own[q] + 1: each message after the first d ones has   *)
(* contributed a nonempty beginning of its frame, one after the other.     *)

Layout(s, n, d, str, u, off, own) ==
    /\ off \in [Nat -> Nat] /\ own \in [Nat -> Nat]
    /\ d <= n /\ off[d] = 0 /\ off[n] = u
    /\ \A i, j \in Nat : d <= i /\ i < j /\ j <= n => off[i] < off[j]
    /\ \A i \in Nat : d <= i /\ i < n => off[i + 1] <= off[i] + FrameLen(s[i + 1])
    /\ \A q \in Nat : 1 <= q /\ q <= u =>
         /\ d <= own[q] /\ own[q] < n
         /\ off[own[q]] < q /\ q <= off[own[q] + 1]
         /\ str[q] = FrameByte(s[own[q] + 1], q - off[own[q]])

\* Two sequences have the same first n elements.
Agree(s, t, n) == \A i \in Nat : 1 <= i /\ i <= n => s[i] = t[i]

\* The first n elements of s are those of t after the first k ones.
Shifted(s, t, k, n) == \A i \in Nat : 1 <= i /\ i <= n => s[i] = t[k + i]

\* The first byte of a new message.
LEMMA LayoutBegin ==
    ASSUME NEW s, NEW n \in Nat, NEW d \in Nat, NEW str, NEW u \in Nat,
           NEW off, NEW own, Layout(s, n, d, str, u, off, own),
           NEW s2, NEW str2, Agree(s2, s, n), Agree(str2, str, u),
           s2[n + 1] \in Payloads, str2[u + 1] = FrameByte(s2[n + 1], 1)
    PROVE  Layout(s2, n + 1, d, str2, u + 1,
                  [off EXCEPT ![n + 1] = u + 1], [own EXCEPT ![u + 1] = n])
<1> DEFINE off2 == [off EXCEPT ![n + 1] = u + 1]
           own2 == [own EXCEPT ![u + 1] = n]
<1>1. /\ off \in [Nat -> Nat] /\ own \in [Nat -> Nat]
      /\ d <= n /\ off[d] = 0 /\ off[n] = u
  BY DEF Layout
<1>2. \A i, j \in Nat : d <= i /\ i < j /\ j <= n => off[i] < off[j]
  BY DEF Layout
<1>3. \A i \in Nat : d <= i /\ i < n => off[i + 1] <= off[i] + FrameLen(s[i + 1])
  BY DEF Layout
<1>4. \A q \in Nat : 1 <= q /\ q <= u =>
         /\ d <= own[q] /\ own[q] < n
         /\ off[own[q]] < q /\ q <= off[own[q] + 1]
         /\ str[q] = FrameByte(s[own[q] + 1], q - off[own[q]])
  BY DEF Layout
<1>5. /\ off2 \in [Nat -> Nat] /\ off2[n + 1] = u + 1
      /\ \A i \in Nat : i <= n => off2[i] = off[i]
  BY <1>1
<1>6. /\ own2 \in [Nat -> Nat] /\ own2[u + 1] = n
      /\ \A q \in Nat : q <= u => own2[q] = own[q]
  BY <1>1
<1> HIDE DEF off2, own2
<1>7. ASSUME NEW i \in Nat, d <= i, i <= n
      PROVE  off[i] <= u
  <2>1. CASE i = n
    BY <1>1, <2>1
  <2>2. CASE i # n
    <3>1. i < n /\ off[i] \in Nat
      BY <1>1, <1>7, <2>2
    <3> QED
      BY <1>1, <1>2, <1>7, <3>1
  <2> QED
    BY <2>1, <2>2
<1>8. ASSUME NEW i \in Nat, NEW j \in Nat, d <= i, i < j, j <= n + 1
      PROVE  off2[i] < off2[j]
  <2>1. off2[i] = off[i] /\ off[i] \in Nat
    BY <1>1, <1>5, <1>8
  <2>2. CASE j = n + 1
    <3>1. off[i] <= u
      BY <1>7, <1>8
    <3> QED
      BY <1>5, <2>1, <2>2, <3>1
  <2>3. CASE j # n + 1
    <3>1. j <= n
      BY <1>8, <2>3
    <3> QED
      BY <1>2, <1>5, <1>8, <2>1, <3>1
  <2> QED
    BY <2>2, <2>3
<1>9. ASSUME NEW i \in Nat, d <= i, i < n + 1
      PROVE  off2[i + 1] <= off2[i] + FrameLen(s2[i + 1])
  <2>1. off2[i] = off[i] /\ off[i] \in Nat
    BY <1>1, <1>5, <1>9
  <2>2. CASE i = n
    <3>1. FrameLen(s2[n + 1]) \in Nat /\ FrameLen(s2[n + 1]) >= 1
      BY Sizes DEF FrameLen
    <3> QED
      BY <1>1, <1>5, <2>1, <2>2, <3>1
  <2>3. CASE i # n
    <3>1. i < n /\ i + 1 \in Nat /\ 1 <= i + 1 /\ i + 1 <= n
      BY <1>9, <2>3
    <3> QED
      BY <1>3, <1>5, <1>9, <2>1, <3>1 DEF Agree
  <2> QED
    BY <2>2, <2>3
<1>10. ASSUME NEW q \in Nat, 1 <= q, q <= u + 1
       PROVE  /\ d <= own2[q] /\ own2[q] < n + 1
              /\ off2[own2[q]] < q /\ q <= off2[own2[q] + 1]
              /\ str2[q] = FrameByte(s2[own2[q] + 1], q - off2[own2[q]])
  <2>1. CASE q = u + 1
    <3>1. own2[q] = n /\ off2[n] = u /\ (u + 1) - u = 1 /\ off2[n + 1] = u + 1
      BY <1>1, <1>5, <1>6, <2>1
    <3> QED
      BY <1>1, <2>1, <3>1
  <2>2. CASE q # u + 1
    <3>1. q <= u
      BY <1>10, <2>2
    <3>2. own2[q] = own[q] /\ own[q] \in Nat
      BY <1>1, <1>6, <3>1
    <3>3. own[q] < n /\ d <= own[q] /\ own[q] < n + 1
      BY <1>4, <1>10, <3>1, <3>2
    <3>4. own[q] + 1 \in Nat /\ 1 <= own[q] + 1 /\ own[q] + 1 <= n /\ own[q] <= n
      BY <3>2, <3>3
    <3>5. off2[own[q]] = off[own[q]] /\ off2[own[q] + 1] = off[own[q] + 1]
          /\ s2[own[q] + 1] = s[own[q] + 1] /\ str2[q] = str[q]
      BY <1>5, <1>10, <3>1, <3>2, <3>4 DEF Agree
    <3> QED
      BY <1>4, <1>10, <3>1, <3>2, <3>3, <3>5
  <2> QED
    BY <2>1, <2>2
<1> QED
  <2>1. d <= n + 1 /\ off2[d] = 0 /\ off2[n + 1] = u + 1
    BY <1>1, <1>5
  <2>2. Layout(s2, n + 1, d, str2, u + 1, off2, own2)
    BY <1>5, <1>6, <1>8, <1>9, <1>10, <2>1 DEF Layout
  <2> QED
    BY <2>2 DEF off2, own2


\* One more byte of the last message.
LEMMA LayoutMore ==
    ASSUME NEW s, NEW m \in Nat, NEW d \in Nat, NEW str, NEW u \in Nat,
           NEW off, NEW own, Layout(s, m + 1, d, str, u, off, own), d <= m,
           NEW k \in Nat, u = off[m] + k, k < FrameLen(s[m + 1]),
           s[m + 1] \in Payloads, NEW str2,
           \A q \in Nat : 1 <= q /\ q <= u => str2[q] = str[q],
           str2[u + 1] = FrameByte(s[m + 1], k + 1)
    PROVE  Layout(s, m + 1, d, str2, u + 1,
                  [off EXCEPT ![m + 1] = u + 1], [own EXCEPT ![u + 1] = m])
<1> DEFINE off2 == [off EXCEPT ![m + 1] = u + 1]
           own2 == [own EXCEPT ![u + 1] = m]
<1>1. /\ off \in [Nat -> Nat] /\ own \in [Nat -> Nat]
      /\ off[d] = 0 /\ off[m + 1] = u
  BY DEF Layout
<1>2. \A i, j \in Nat : d <= i /\ i < j /\ j <= m + 1 => off[i] < off[j]
  BY DEF Layout
<1>3. \A i \in Nat : d <= i /\ i < m + 1 =>
        off[i + 1] <= off[i] + FrameLen(s[i + 1])
  BY DEF Layout
<1>4. \A q \in Nat : 1 <= q /\ q <= u =>
         /\ d <= own[q] /\ own[q] < m + 1
         /\ off[own[q]] < q /\ q <= off[own[q] + 1]
         /\ str[q] = FrameByte(s[own[q] + 1], q - off[own[q]])
  BY DEF Layout
<1>5. /\ off2 \in [Nat -> Nat] /\ off2[m + 1] = u + 1
      /\ \A i \in Nat : i <= m => off2[i] = off[i]
  BY <1>1
<1>6. /\ own2 \in [Nat -> Nat] /\ own2[u + 1] = m
      /\ \A q \in Nat : q <= u => own2[q] = own[q]
  BY <1>1
<1> HIDE DEF off2, own2
<1>8. ASSUME NEW i \in Nat, NEW j \in Nat, d <= i, i < j, j <= m + 1
      PROVE  off2[i] < off2[j]
  <2>1. off2[i] = off[i] /\ off[i] \in Nat
    BY <1>1, <1>5, <1>8
  <2>2. CASE j = m + 1
    <3>1. off[i] < u
      BY <1>1, <1>2, <1>8, <2>2
    <3> QED
      BY <1>5, <2>1, <2>2, <3>1
  <2>3. CASE j # m + 1
    <3>1. j <= m
      BY <1>8, <2>3
    <3> QED
      BY <1>2, <1>5, <1>8, <2>1, <3>1
  <2> QED
    BY <2>2, <2>3
<1>9. ASSUME NEW i \in Nat, d <= i, i < m + 1
      PROVE  off2[i + 1] <= off2[i] + FrameLen(s[i + 1])
  <2>1. off2[i] = off[i] /\ off[i] \in Nat
    BY <1>1, <1>5, <1>9
  <2>2. CASE i = m
    <3>1. FrameLen(s[m + 1]) \in Nat
      BY Sizes
    <3> QED
      BY <1>1, <1>5, <2>1, <2>2, <3>1
  <2>3. CASE i # m
    <3>1. i + 1 \in Nat /\ i + 1 <= m
      BY <1>9, <2>3
    <3> QED
      BY <1>3, <1>5, <1>9, <2>1, <3>1
  <2> QED
    BY <2>2, <2>3
<1>10. ASSUME NEW q \in Nat, 1 <= q, q <= u + 1
       PROVE  /\ d <= own2[q] /\ own2[q] < m + 1
              /\ off2[own2[q]] < q /\ q <= off2[own2[q] + 1]
              /\ str2[q] = FrameByte(s[own2[q] + 1], q - off2[own2[q]])
  <2>1. CASE q = u + 1
    <3>1. own2[q] = m /\ off2[m] = off[m] /\ off[m] \in Nat /\ off2[m + 1] = u + 1
      BY <1>1, <1>5, <1>6, <2>1
    <3>2. q - off[m] = k + 1 /\ off[m] < q
      BY <2>1, <3>1
    <3> QED
      BY <2>1, <3>1, <3>2
  <2>2. CASE q # u + 1
    <3>1. q <= u
      BY <1>10, <2>2
    <3>2. own2[q] = own[q] /\ own[q] \in Nat
      BY <1>1, <1>6, <3>1
    <3>3. own[q] < m + 1 /\ d <= own[q] /\ own[q] <= m
      BY <1>4, <1>10, <3>1, <3>2
    <3>4. off2[own[q]] = off[own[q]] /\ str2[q] = str[q]
      BY <1>5, <1>10, <3>1, <3>2, <3>3
    <3>5. q <= off2[own[q] + 1]
      <4>1. CASE own[q] = m
        BY <1>5, <1>10, <4>1
      <4>2. CASE own[q] # m
        <5>1. own[q] + 1 \in Nat /\ own[q] + 1 <= m
          BY <3>2, <3>3, <4>2
        <5> QED
          BY <1>4, <1>5, <1>10, <3>1, <5>1
      <4> QED
        BY <4>1, <4>2
    <3> QED
      BY <1>4, <1>10, <3>1, <3>2, <3>3, <3>4, <3>5
  <2> QED
    BY <2>1, <2>2
<1> QED
  <2>1. d <= m + 1 /\ off2[d] = 0
    BY <1>1, <1>5
  <2>2. Layout(s, m + 1, d, str2, u + 1, off2, own2)
    BY <1>5, <1>6, <1>8, <1>9, <1>10, <2>1 DEF Layout
  <2> QED
    BY <2>2 DEF off2, own2

\* A message is taken off the stream when its bytes are the first ones.
EndsAfter(off, k, d, n) ==
    [i \in Nat |-> IF d < i /\ i <= n THEN off[i] - k ELSE 0]
OwnersAfter(own, k) == [q \in Nat |-> own[k + q]]

ArePayloads(s, d, n) == \A i \in Nat : d <= i /\ i < n => s[i + 1] \in Payloads

LEMMA LayoutPop ==
    ASSUME NEW s, NEW n \in Nat, NEW d \in Nat, ArePayloads(s, d, n), NEW str,
           NEW u \in Nat, NEW k \in Nat, NEW v \in Nat,
           NEW off, NEW own, Layout(s, n, d, str, v, off, own), v = k + u,
           d < n, off[d + 1] = k, NEW rest, Shifted(rest, str, k, u)
    PROVE  Layout(s, n, d + 1, rest, u, EndsAfter(off, k, d, n), OwnersAfter(own, k))
<1> DEFINE off2 == EndsAfter(off, k, d, n)
           own2 == OwnersAfter(own, k)
<1>1. /\ off \in [Nat -> Nat] /\ own \in [Nat -> Nat]
      /\ off[d] = 0 /\ off[n] = k + u
  BY DEF Layout
<1>2. \A i, j \in Nat : d <= i /\ i < j /\ j <= n => off[i] < off[j]
  BY DEF Layout
<1>3. \A i \in Nat : d <= i /\ i < n => off[i + 1] <= off[i] + FrameLen(s[i + 1])
  BY DEF Layout
<1>4. \A q \in Nat : 1 <= q /\ q <= k + u =>
         /\ d <= own[q] /\ own[q] < n
         /\ off[own[q]] < q /\ q <= off[own[q] + 1]
         /\ str[q] = FrameByte(s[own[q] + 1], q - off[own[q]])
  BY DEF Layout
<1>5. ASSUME NEW i \in Nat, d < i, i <= n
      PROVE  off[i] >= k /\ off[i] \in Nat /\ off[i] - k \in Nat
  <2>1. CASE i = d + 1
    BY <1>1, <2>1
  <2>2. CASE i # d + 1
    <3>1. d + 1 < i /\ d + 1 \in Nat /\ d <= d + 1
      BY <1>5, <2>2
    <3>2. off[d + 1] < off[i]
      BY <1>2, <1>5, <3>1
    <3> QED
      BY <1>1, <3>2
  <2> QED
    BY <2>1, <2>2
<1>6. off2 \in [Nat -> Nat]
  BY <1>5 DEF EndsAfter
<1>7. own2 \in [Nat -> Nat] /\ \A q \in Nat : own2[q] = own[k + q]
  BY <1>1 DEF OwnersAfter
<1>8. \A i \in Nat : d < i /\ i <= n => off2[i] = off[i] - k
  BY DEF EndsAfter
<1> HIDE DEF off2, own2
<1>9. ASSUME NEW i \in Nat, NEW j \in Nat, d + 1 <= i, i < j, j <= n
      PROVE  off2[i] < off2[j]
  <2>1. d < i /\ i <= n /\ d < j /\ d <= i
    BY <1>9
  <2>2. off[i] < off[j] /\ off[i] \in Nat /\ off[j] \in Nat
    BY <1>1, <1>2, <1>9, <2>1
  <2>3. off2[i] = off[i] - k /\ off2[j] = off[j] - k
    BY <1>8, <1>9, <2>1
  <2> QED
    BY <2>2, <2>3
<1>10. ASSUME NEW i \in Nat, d + 1 <= i, i < n
       PROVE  off2[i + 1] <= off2[i] + FrameLen(s[i + 1])
  <2>1. d < i /\ i <= n /\ d < i + 1 /\ i + 1 <= n /\ d <= i /\ i + 1 \in Nat
    BY <1>10
  <2>4. FrameLen(s[i + 1]) \in Nat
    <3>1. s[i + 1] \in Payloads
      BY <1>10, <2>1 DEF ArePayloads
    <3> QED
      BY <3>1, Sizes
  <2>2. off[i] \in Nat /\ off[i + 1] \in Nat
        /\ off[i + 1] <= off[i] + FrameLen(s[i + 1])
    BY <1>1, <1>3, <1>10, <2>1
  <2>3. off2[i] = off[i] - k /\ off2[i + 1] = off[i + 1] - k
    BY <1>8, <2>1
  <2> QED
    BY <2>2, <2>3, <2>4
<1>11. ASSUME NEW q \in Nat, 1 <= q, q <= u
       PROVE  /\ d + 1 <= own2[q] /\ own2[q] < n
              /\ off2[own2[q]] < q /\ q <= off2[own2[q] + 1]
              /\ rest[q] = FrameByte(s[own2[q] + 1], q - off2[own2[q]])
  <2>1. k + q \in Nat /\ 1 <= k + q /\ k + q <= k + u
    BY <1>11
  <2> DEFINE o == own[k + q]
  <2>2. own2[q] = o /\ o \in Nat
    BY <1>1, <1>7, <2>1
  <2>3. d <= o /\ o < n /\ off[o] < k + q /\ k + q <= off[o + 1]
        /\ str[k + q] = FrameByte(s[o + 1], (k + q) - off[o])
    BY <1>4, <2>1
  <2> HIDE DEF o
  <2>4. o # d
    BY <1>11, <2>3
  <2>5. d + 1 <= o /\ d < o /\ o <= n /\ d < o + 1 /\ o + 1 <= n /\ o + 1 \in Nat
    BY <2>2, <2>3, <2>4
  <2>6. off2[o] = off[o] - k /\ off2[o + 1] = off[o + 1] - k
        /\ off[o] \in Nat /\ off[o + 1] \in Nat
    BY <1>1, <1>8, <2>2, <2>5
  <2>7. q - off2[o] = (k + q) - off[o] /\ off2[o] < q /\ q <= off2[o + 1]
    BY <2>3, <2>6
  <2>8. rest[q] = str[k + q]
    BY <1>11 DEF Shifted
  <2> QED
    BY <2>2, <2>3, <2>5, <2>7, <2>8
<1> QED
  <2>1. d + 1 <= n /\ d + 1 \in Nat /\ d < d + 1 /\ d < n /\ n <= n
    OBVIOUS
  <2>2. off2[d + 1] = 0 /\ off2[n] = u
    BY <1>1, <1>8, <2>1
  <2>3. Layout(s, n, d + 1, rest, u, off2, own2)
    BY <1>6, <1>7, <1>9, <1>10, <1>11, <2>1, <2>2 DEF Layout
  <2> QED
    BY <2>3 DEF off2, own2


\* Only the bytes under way matter.
LEMMA LayoutSame ==
    ASSUME NEW s, NEW n, NEW d, NEW str, NEW u, NEW off, NEW own,
           Layout(s, n, d, str, u, off, own),
           NEW str2, \A q \in Nat : 1 <= q /\ q <= u => str2[q] = str[q]
    PROVE  Layout(s, n, d, str2, u, off, own)
BY DEF Layout

\* The bytes before the end of the first message are its own.
LEMMA FirstBytes ==
    ASSUME NEW s, NEW n \in Nat, NEW d \in Nat, NEW str, NEW u \in Nat,
           NEW off, NEW own, Layout(s, n, d, str, u, off, own), d < n,
           NEW q \in Nat, 1 <= q, q <= u, q <= off[d + 1]
    PROVE  str[q] = FrameByte(s[d + 1], q)
<1>1. /\ off \in [Nat -> Nat] /\ own \in [Nat -> Nat] /\ off[d] = 0
      /\ d <= own[q] /\ own[q] < n /\ off[own[q]] < q
      /\ str[q] = FrameByte(s[own[q] + 1], q - off[own[q]])
  BY DEF Layout
<1>5. \A i, j \in Nat : d <= i /\ i < j /\ j <= n => off[i] < off[j]
  BY DEF Layout
<1>2. own[q] \in Nat /\ off[own[q]] \in Nat /\ off[d + 1] \in Nat
  BY <1>1
<1>3. own[q] = d
  <2> SUFFICES ASSUME own[q] # d PROVE FALSE
    OBVIOUS
  <2>1. CASE own[q] = d + 1
    BY <1>1, <1>2, <2>1
  <2>2. CASE own[q] # d + 1
    <3>0. d <= own[q] /\ own[q] < n /\ own[q] \in Nat
      BY <1>1, <1>2
    <3>1. d + 1 < own[q] /\ d <= d + 1 /\ d + 1 \in Nat /\ own[q] <= n
      BY <2>2, <3>0
    <3>2. off[d + 1] < off[own[q]]
      BY <1>5, <1>2, <3>1
    <3> QED
      BY <1>1, <1>2, <3>2
  <2> QED
    BY <2>1, <2>2
<1>4. q - 0 = q
  OBVIOUS
<1> QED
  BY <1>1, <1>3, <1>4

\* A byte that begins the frame, counting from the beginning of the stream,
\* is a byte of the first message.
LEMMA OwnerFirst ==
    ASSUME NEW s, NEW n \in Nat, NEW d \in Nat, NEW str, NEW u \in Nat,
           NEW off, NEW own, Layout(s, n, d, str, u, off, own),
           NEW q \in Nat, 1 <= q, q <= u, off[own[q]] = 0
    PROVE  own[q] = d /\ d < n /\ q <= off[d + 1]
<1>1. /\ off \in [Nat -> Nat] /\ own \in [Nat -> Nat] /\ off[d] = 0
      /\ d <= own[q] /\ own[q] < n /\ q <= off[own[q] + 1]
  BY DEF Layout
<1>5. \A i, j \in Nat : d <= i /\ i < j /\ j <= n => off[i] < off[j]
  BY DEF Layout
<1>2. own[q] \in Nat /\ off[own[q]] \in Nat
  BY <1>1
<1>4. own[q] = d
  <2> SUFFICES ASSUME own[q] # d PROVE FALSE
    OBVIOUS
  <2>1. d < own[q] /\ own[q] <= n /\ d <= d
    BY <1>1, <1>2
  <2>2. off[d] < off[own[q]]
    BY <1>5, <1>2, <2>1
  <2> QED
    BY <1>1, <2>2
<1> QED
  BY <1>1, <1>4

-----------------------------------------------------------------------------
(* The inductive invariant: the stream is laid out; a thread in send_frame *)
(* with bytes sent is sending the last message; without abandoned frames,  *)
(* every message but the one being sent is there with its whole frame.     *)

Under == Len(got) + Len(wire)
Stream == [q \in Nat |-> IF q <= Len(got) THEN got[q] ELSE wire[q - Len(got)]]

Busy(w) == Writing(w) /\ writer[w].done > 0

LastIsBusy(w, off) ==
    \E m \in Nat :
      /\ Len(sent) = m + 1 /\ sent[m + 1] = writer[w].payload
      /\ Len(delivered) <= m => off[m + 1] = off[m] + writer[w].done
      /\ Len(delivered) > m => writer[w].done = FrameLen(writer[w].payload)

WholeFrames(off) ==
    \A i \in Nat : Len(delivered) <= i /\ i < Len(sent) =>
      \/ off[i + 1] = off[i] + FrameLen(sent[i + 1])
      \/ i + 1 = Len(sent) /\ \E w \in Writers : Busy(w)

Aligned(off, own) ==
    /\ Layout(sent, Len(sent), Len(delivered), Stream, Under, off, own)
    /\ \A w \in Writers : Busy(w) => LastIsBusy(w, off)
    /\ ~cut => WholeFrames(off)

\* What was read of a header that is one is what it says.
LengthSound ==
    length # None =>
      /\ Len(got) >= HeaderBytes
      /\ \A n \in Lengths :
           (\A i \in 1..HeaderBytes : got[i] = <<"length", n, i>>) => length = n

StreamSound ==
    link = "up" =>
      LengthSound /\ \E off, own \in [Nat -> Nat] : Aligned(off, own)

LEMMA StreamInit == FramingInit => StreamSound
<1> SUFFICES ASSUME FramingInit PROVE StreamSound
  OBVIOUS
<1> DEFINE z == [i \in Nat |-> 0]
<1>1. z \in [Nat -> Nat] /\ z[0] = 0
  OBVIOUS
<1> HIDE DEF z
<1>2. /\ Len(sent) = 0 /\ Len(delivered) = 0 /\ Under = 0
      /\ \A w \in Writers : ~Busy(w)
  BY DEF FramingInit, Under, Busy, Writing, Quiet
<1>3. Layout(sent, 0, 0, Stream, 0, z, z)
  BY <1>1 DEF Layout
<1>4. WholeFrames(z)
  BY <1>2 DEF WholeFrames
<1>5. Aligned(z, z)
  BY <1>2, <1>3, <1>4 DEF Aligned
<1> QED
  BY <1>1, <1>5 DEF StreamSound, LengthSound, FramingInit

\* Lengths are natural numbers.
LEMMA Lens ==
    FramingTyped => /\ Len(sent) \in Nat /\ Len(delivered) \in Nat
                    /\ Len(got) \in Nat /\ Len(wire) \in Nat /\ Under \in Nat
BY DEF FramingTyped, FramingTypeOK, Under

\* Steps of the threads that send nothing.
LEMMA CallAligned ==
    ASSUME FramingTyped, NEW off, NEW own, Aligned(off, own), NEW w \in Writers,
           \/ \E p \in Payloads : Call(w, p)
           \/ TakeLock(w) \/ Return(w) \/ SendError(w)
    PROVE  Aligned(off, own)'
<1>1. /\ sent' = sent /\ delivered' = delivered /\ got' = got /\ wire' = wire
      /\ \A u \in Writers : u # w => writer'[u] = writer[u]
  BY DEF Call, TakeLock, Return, SendError, readerVars, history,
         FramingTyped, FramingTypeOK
<1>2. ~Busy(w)'
  <2>1. writer \in [Writers -> WriterRecord] /\ writer[w] \in WriterRecord
    BY DEF FramingTyped, FramingTypeOK, WriterRecord
  <2>2. CASE TakeLock(w)
    <3>1. writer'[w].done = 0
      BY <2>1, <2>2 DEF TakeLock, FramingTyped, WritersSound, WriterRecord
    <3> QED
      BY <3>1 DEF Busy
  <2>3. CASE ~TakeLock(w)
    <3>1. writer'[w].pc # "sending"
      BY <2>1, <2>3 DEF Call, Return, SendError, Quiet
    <3> QED
      BY <3>1 DEF Busy, Writing
  <2> QED
    BY <2>2, <2>3
<1>3. /\ Under' = Under /\ Stream' = Stream
  BY <1>1 DEF Under, Stream
<1>4. \A u \in Writers : u # w =>
        /\ Busy(u)' = Busy(u)
        /\ LastIsBusy(u, off)' = LastIsBusy(u, off)
  BY <1>1 DEF Busy, Writing, LastIsBusy
<1>5. \A u \in Writers : Busy(u)' => LastIsBusy(u, off)'
  BY <1>2, <1>4 DEF Aligned
<1>6. ASSUME ~cut' PROVE WholeFrames(off)'
  <2>1. ~cut /\ (SendError(w) => ~(writer[w].done > 0))
    <3>1. CASE SendError(w)
      BY <1>6, <3>1 DEF SendError
    <3>2. CASE ~SendError(w)
      <4>1. cut' = cut
        BY <3>2 DEF Call, TakeLock, Return, history
      <4> QED
        BY <1>6, <3>2, <4>1
    <3> QED
      BY <3>1, <3>2
  <2>2. WholeFrames(off)
    BY <2>1 DEF Aligned
  <2> SUFFICES ASSUME NEW i \in Nat, Len(delivered) <= i, i < Len(sent)
               PROVE  \/ off[i + 1] = off[i] + FrameLen(sent[i + 1])
                      \/ i + 1 = Len(sent) /\ \E u \in Writers : Busy(u)'
    BY <1>1 DEF WholeFrames
  <2>3. CASE ~Busy(w)
    BY <1>4, <2>2, <2>3 DEF WholeFrames
  <2>4. CASE Busy(w)
    <3>1. Return(w)
      BY <2>1, <2>4, FramingAssumption
         DEF Busy, Writing, Call, TakeLock, SendError
    <3>2. writer[w].payload \in Payloads
      BY <3>1 DEF Return, FramingTyped, WritersSound
    <3>3. writer[w].done = FrameLen(writer[w].payload)
      BY <3>1, <3>2, FrameShape DEF Return
    <3>4. PICK m \in Nat :
            /\ Len(sent) = m + 1 /\ sent[m + 1] = writer[w].payload
            /\ Len(delivered) <= m => off[m + 1] = off[m] + writer[w].done
      BY <2>4 DEF Aligned, LastIsBusy
    <3>5. CASE i = m
      BY <3>3, <3>4, <3>5
    <3>6. CASE i # m
      BY <2>2, <3>4, <3>6 DEF WholeFrames
    <3> QED
      BY <3>5, <3>6
  <2> QED
    BY <2>3, <2>4
<1>7. Layout(sent, Len(sent), Len(delivered), Stream, Under, off, own)'
  BY <1>1, <1>3 DEF Aligned
<1> QED
  BY <1>5, <1>6, <1>7 DEF Aligned

\* A thread sends the next byte of its frame.
LEMMA SendAligned ==
    ASSUME FramingTyped, link = "up", NEW off, NEW own, Aligned(off, own),
           NEW w \in Writers, SendByte(w)
    PROVE  \E off2, own2 \in [Nat -> Nat] : Aligned(off2, own2)'
<1>1. /\ writer \in [Writers -> WriterRecord] /\ writer[w] \in WriterRecord
      /\ sent \in Seq(Payloads) /\ wire \in Seq(AllBytes) /\ got \in Seq(AllBytes)
  BY DEF FramingTyped, FramingTypeOK, WriterRecord
<1>2. writer[w].payload \in Payloads /\ writer[w].done \in Nat
  BY <1>1 DEF SendByte, FramingTyped, WritersSound, WriterRecord
<1>3. PICK p \in Payloads : p = writer[w].payload
  BY <1>2
<1>4. PICK k \in Nat : k = writer[w].done
  BY <1>2
<1>5. PICK n \in Nat : n = Len(sent)
  BY Lens
<1>6. PICK d \in Nat : d = Len(delivered)
  BY Lens
<1>7. PICK u \in Nat : u = Under
  BY Lens
<1>8. k < FrameLen(p) /\ k + 1 \in 1..FrameLen(p)
  <2>1. k < Len(FrameOf(p))
    BY <1>3, <1>4 DEF SendByte
  <2>2. Len(FrameOf(p)) = FrameLen(p) /\ FrameLen(p) \in Nat
    BY FrameShape, Sizes
  <2> QED
    BY <2>1, <2>2
<1>9. PICK b \in AllBytes : b = FrameByte(p, k + 1) /\ b = FrameOf(p)[k + 1]
  BY <1>8, FrameShape, FrameBytes
<1>10. wire' = Append(wire, b) /\ got' = got /\ delivered' = delivered /\ cut' = cut
  BY <1>3, <1>4, <1>9 DEF SendByte, readerVars
<1>11. writer'[w].done = k + 1 /\ writer'[w].payload = p /\ Writing(w)'
  BY <1>1, <1>3, <1>4 DEF SendByte, WriterRecord, Writing
<1>12. \A v \in Writers : v # w => ~Writing(v) /\ ~Busy(v)'
  <2>1. \A v \in Writers : v # w => writer'[v] = writer[v]
    BY <1>1 DEF SendByte
  <2>2. \A v \in Writers : v # w => ~Writing(v)
    BY DEF SendByte, FramingTyped, WritersSound, Writing
  <2> QED
    BY <2>1, <2>2 DEF Busy, Writing
<1>13. Busy(w)'
  BY <1>11 DEF Busy
<1>14. Len(got) \in Nat /\ Len(wire) \in Nat /\ u = Len(got) + Len(wire)
  BY <1>7, Lens DEF Under
<1>15. Under' = u + 1
  <2>1. Len(wire') = Len(wire) + 1
    BY <1>1, <1>10
  <2> QED
    BY <1>10, <1>14, <2>1 DEF Under
<1>16. /\ \A q \in Nat : 1 <= q /\ q <= u => Stream'[q] = Stream[q]
       /\ Stream'[u + 1] = FrameByte(p, k + 1)
  <2>1. /\ \A j \in 1..Len(wire) : Append(wire, b)[j] = wire[j]
        /\ Append(wire, b)[Len(wire) + 1] = b
    BY <1>1
  <2>2. \A q \in Nat : Stream'[q] = IF q <= Len(got) THEN got[q]
                                    ELSE Append(wire, b)[q - Len(got)]
    BY <1>10 DEF Stream
  <2>3. \A q \in Nat : Stream[q] = IF q <= Len(got) THEN got[q]
                                   ELSE wire[q - Len(got)]
    BY DEF Stream
  <2>4. ASSUME NEW q \in Nat, 1 <= q, q <= u
        PROVE  Stream'[q] = Stream[q]
    <3>1. CASE q <= Len(got)
      BY <2>2, <2>3, <3>1
    <3>2. CASE ~(q <= Len(got))
      <4>1. q - Len(got) \in 1..Len(wire)
        BY <1>14, <2>4, <3>2
      <4> QED
        BY <2>1, <2>2, <2>3, <3>2, <4>1
    <3> QED
      BY <3>1, <3>2
  <2>5. Stream'[u + 1] = b
    <3>1. u + 1 \in Nat /\ ~(u + 1 <= Len(got)) /\ (u + 1) - Len(got) = Len(wire) + 1
      BY <1>14
    <3> QED
      BY <2>1, <2>2, <3>1
  <2> QED
    BY <1>9, <2>4, <2>5
<1>17. Layout(sent, n, d, Stream, u, off, own)
  BY <1>5, <1>6, <1>7 DEF Aligned
<1>18. off \in [Nat -> Nat] /\ own \in [Nat -> Nat] /\ d <= n /\ off[n] = u
  BY <1>17 DEF Layout
<1>19. ~cut => WholeFrames(off)
  BY DEF Aligned
<1>20. CASE k = 0
  <2>1. sent' = Append(sent, p)
    BY <1>3, <1>4, <1>20 DEF SendByte
  <2>2. /\ Len(sent') = n + 1 /\ sent'[n + 1] = p
        /\ \A i \in 1..n : sent'[i] = sent[i]
    BY <1>1, <1>5, <2>1
  <2>3. \A i \in Nat : 1 <= i /\ i <= n => sent'[i] = sent[i]
    BY <2>2
  <2>4. Stream'[u + 1] = FrameByte(p, 1)
    BY <1>16, <1>20
  <2> DEFINE off2 == [off EXCEPT ![n + 1] = u + 1]
             own2 == [own EXCEPT ![u + 1] = n]
  <2>5. Layout(sent', n + 1, d, Stream', u + 1, off2, own2)
    <3>1. sent'[n + 1] \in Payloads /\ Stream'[u + 1] = FrameByte(sent'[n + 1], 1)
      BY <2>2, <2>4
    <3>2. Agree(sent', sent, n) /\ Agree(Stream', Stream, u)
      BY <1>16, <2>3 DEF Agree
    <3> QED
      BY <1>17, <3>1, <3>2, LayoutBegin
  <2>6. off2 \in [Nat -> Nat] /\ own2 \in [Nat -> Nat] /\ off2[n + 1] = u + 1
        /\ \A i \in Nat : i <= n => off2[i] = off[i]
    BY <1>18
  <2> HIDE DEF off2, own2
  <2>7. LastIsBusy(w, off2)'
    <3>1. off2[n + 1] = off2[n] + writer'[w].done /\ ~(d > n)
      BY <1>11, <1>18, <1>20, <2>6
    <3> QED
      BY <1>6, <1>10, <1>11, <2>2, <3>1 DEF LastIsBusy
  <2>8. ASSUME ~cut' PROVE WholeFrames(off2)'
    <3> SUFFICES ASSUME NEW i \in Nat, d <= i, i < n + 1
                 PROVE  \/ off2[i + 1] = off2[i] + FrameLen(sent'[i + 1])
                        \/ i + 1 = n + 1 /\ \E v \in Writers : Busy(v)'
      BY <1>6, <1>10, <2>2 DEF WholeFrames
    <3>1. CASE i = n
      BY <1>13, <3>1
    <3>2. CASE i # n
      <4>1. i < n /\ i + 1 \in Nat /\ 1 <= i + 1 /\ i + 1 <= n /\ i <= n
        BY <3>2
      <4>2. off2[i] = off[i] /\ off2[i + 1] = off[i + 1] /\ sent'[i + 1] = sent[i + 1]
        BY <2>3, <2>6, <4>1
      <4>3. \A v \in Writers : ~Busy(v)
        <5>1. ~(writer[w].done > 0)
          BY <1>4, <1>20
        <5> QED
          BY <1>12, <5>1 DEF Busy
      <4>4. off[i + 1] = off[i] + FrameLen(sent[i + 1])
        BY <1>5, <1>6, <1>10, <1>19, <2>8, <4>1, <4>3 DEF WholeFrames
      <4> QED
        BY <4>2, <4>4
    <3> QED
      BY <3>1, <3>2
  <2>9. Layout(sent, Len(sent), Len(delivered), Stream, Under, off2, own2)'
    BY <1>6, <1>10, <1>15, <2>2, <2>5
  <2>10. \A v \in Writers : Busy(v)' => LastIsBusy(v, off2)'
    BY <1>12, <2>7
  <2>11. Aligned(off2, own2)'
    BY <2>8, <2>9, <2>10 DEF Aligned
  <2> QED
    BY <2>6, <2>11
<1>21. CASE k # 0
  <2>1. sent' = sent
    BY <1>4, <1>21 DEF SendByte
  <2>2. Busy(w)
    BY <1>4, <1>21 DEF Busy, Writing, SendByte
  <2>3. PICK m \in Nat :
          /\ Len(sent) = m + 1 /\ sent[m + 1] = writer[w].payload
          /\ Len(delivered) <= m => off[m + 1] = off[m] + writer[w].done
          /\ Len(delivered) > m => writer[w].done = FrameLen(writer[w].payload)
    BY <2>2 DEF Aligned, LastIsBusy
  <2>4. n = m + 1 /\ sent[m + 1] = p
        /\ (d <= m => off[m + 1] = off[m] + k)
        /\ (d > m => k = FrameLen(p))
    BY <1>3, <1>4, <1>5, <1>6, <2>3
  <2>5. d <= m
    <3>1. FrameLen(p) \in Nat
      BY Sizes
    <3> QED
      BY <1>8, <2>4, <3>1
  <2>6. u = off[m] + k
    BY <1>18, <2>4, <2>5
  <2> DEFINE off2 == [off EXCEPT ![m + 1] = u + 1]
             own2 == [own EXCEPT ![u + 1] = m]
  <2>7. Layout(sent, m + 1, d, Stream', u + 1, off2, own2)
    <3>1. Layout(sent, m + 1, d, Stream, u, off, own)
      BY <1>17, <2>4
    <3>2. k < FrameLen(sent[m + 1]) /\ sent[m + 1] \in Payloads
          /\ Stream'[u + 1] = FrameByte(sent[m + 1], k + 1)
      BY <1>8, <1>16, <2>4
    <3> QED
      BY <1>16, <2>5, <2>6, <3>1, <3>2, LayoutMore
  <2>8. off2 \in [Nat -> Nat] /\ own2 \in [Nat -> Nat] /\ off2[m + 1] = u + 1
        /\ \A i \in Nat : i <= m => off2[i] = off[i]
    BY <1>18
  <2> HIDE DEF off2, own2
  <2>9. LastIsBusy(w, off2)'
    <3>1. off[m] \in Nat /\ off2[m] = off[m]
      BY <1>18, <2>8
    <3>2. off2[m + 1] = off2[m] + writer'[w].done /\ ~(d > m)
      BY <1>11, <2>5, <2>6, <2>8, <3>1
    <3> QED
      BY <1>6, <1>10, <1>11, <2>1, <2>3, <2>4, <3>2 DEF LastIsBusy
  <2>10. ASSUME ~cut' PROVE WholeFrames(off2)'
    <3> SUFFICES ASSUME NEW i \in Nat, d <= i, i < m + 1
                 PROVE  \/ off2[i + 1] = off2[i] + FrameLen(sent[i + 1])
                        \/ i + 1 = m + 1 /\ \E v \in Writers : Busy(v)'
      BY <1>6, <1>10, <2>1, <2>3 DEF WholeFrames
    <3>1. CASE i = m
      BY <1>13, <3>1
    <3>2. CASE i # m
      <4>1. i < m + 1 /\ i + 1 \in Nat /\ i + 1 <= m /\ i <= m /\ i + 1 # m + 1
        BY <3>2
      <4>2. off2[i] = off[i] /\ off2[i + 1] = off[i + 1]
        BY <2>8, <4>1
      <4>3. off[i + 1] = off[i] + FrameLen(sent[i + 1])
        BY <1>6, <1>10, <1>19, <2>3, <2>10, <4>1 DEF WholeFrames
      <4> QED
        BY <4>2, <4>3
    <3> QED
      BY <3>1, <3>2
  <2>11. Layout(sent, Len(sent), Len(delivered), Stream, Under, off2, own2)'
    BY <1>6, <1>10, <1>15, <2>1, <2>3, <2>7
  <2>12. \A v \in Writers : Busy(v)' => LastIsBusy(v, off2)'
    BY <1>12, <2>9
  <2>13. Aligned(off2, own2)'
    BY <2>10, <2>11, <2>12 DEF Aligned
  <2> QED
    BY <2>8, <2>13
<1> QED
  BY <1>20, <1>21


\* recv_exact moves a byte; the stream is the same.
LEMMA RecvAligned ==
    ASSUME FramingTyped, NEW off, NEW own, Aligned(off, own), LengthSound, RecvByte
    PROVE  Aligned(off, own)' /\ LengthSound'
<1>1. wire \in Seq(AllBytes) /\ got \in Seq(AllBytes) /\ wire # <<>>
  BY DEF FramingTyped, FramingTypeOK, RecvByte
<1>2. PICK g \in Nat : g = Len(got)
  BY Lens
<1>3. PICK v \in Nat : Len(wire) = v + 1
  <2>1. Len(wire) \in Nat /\ Len(wire) # 0
    BY <1>1
  <2>2. Len(wire) - 1 \in Nat /\ Len(wire) = (Len(wire) - 1) + 1
    BY <2>1
  <2> QED
    BY <2>2
<1>4. /\ got' = Append(got, Head(wire)) /\ wire' = Tail(wire)
      /\ UNCHANGED <<writer, length, delivered, sent, cut>>
  BY DEF RecvByte, history
<1>5. /\ Len(got') = g + 1 /\ got'[g + 1] = wire[1]
      /\ \A i \in 1..g : got'[i] = got[i]
  <2>1. Head(wire) = wire[1] /\ Head(wire) \in AllBytes
    BY <1>1
  <2> QED
    BY <1>1, <1>2, <1>4, <2>1
<1>6. Len(wire') = v /\ \A i \in 1..v : wire'[i] = wire[i + 1]
  BY <1>1, <1>3, <1>4
<1>7. Under' = Under /\ Under = g + v + 1
  BY <1>2, <1>3, <1>5, <1>6 DEF Under
<1>8. ASSUME NEW q \in Nat, 1 <= q, q <= g + v + 1
      PROVE  Stream'[q] = Stream[q]
  <2>1. Stream'[q] = IF q <= g + 1 THEN got'[q] ELSE wire'[q - (g + 1)]
    BY <1>5 DEF Stream
  <2>2. Stream[q] = IF q <= g THEN got[q] ELSE wire[q - g]
    BY <1>2 DEF Stream
  <2>3. CASE q <= g
    <3>1. q \in 1..g /\ q <= g + 1
      BY <1>8, <2>3
    <3> QED
      BY <1>5, <2>1, <2>2, <2>3, <3>1
  <2>4. CASE q = g + 1
    <3>1. q - g = 1 /\ ~(q <= g) /\ q <= g + 1
      BY <2>4
    <3> QED
      BY <1>5, <2>1, <2>2, <2>4, <3>1
  <2>5. CASE q > g + 1
    <3>1. q - (g + 1) \in 1..v /\ (q - (g + 1)) + 1 = q - g /\ ~(q <= g)
          /\ ~(q <= g + 1)
      BY <1>8, <2>5
    <3> QED
      BY <1>6, <2>1, <2>2, <3>1
  <2> QED
    BY <2>3, <2>4, <2>5
<1>9. Layout(sent, Len(sent), Len(delivered), Stream, Under, off, own)'
  <2>1. Layout(sent, Len(sent), Len(delivered), Stream, Under, off, own)
    BY DEF Aligned
  <2>2. \A q \in Nat : 1 <= q /\ q <= Under => Stream'[q] = Stream[q]
    BY <1>7, <1>8
  <2>3. Layout(sent, Len(sent), Len(delivered), Stream', Under, off, own)
    BY <2>1, <2>2, LayoutSame
  <2> QED
    BY <1>4, <1>7, <2>3
<1>10. Aligned(off, own)'
  BY <1>4, <1>9 DEF Aligned, Busy, Writing, LastIsBusy, WholeFrames
<1>11. LengthSound'
  <2> SUFFICES ASSUME length # None
               PROVE  /\ Len(got') >= HeaderBytes
                      /\ \A n \in Lengths :
                           (\A i \in 1..HeaderBytes : got'[i] = <<"length", n, i>>)
                             => length = n
    BY <1>4 DEF LengthSound
  <2>1. g >= HeaderBytes
    BY <1>2 DEF LengthSound
  <2>2. Len(got') >= HeaderBytes
    BY <1>5, <2>1, Sizes
  <2>3. \A i \in 1..HeaderBytes : got'[i] = got[i]
    <3>1. \A i \in 1..HeaderBytes : i \in 1..g
      BY <2>1, Sizes
    <3> QED
      BY <1>5, <3>1
  <2> QED
    BY <2>2, <2>3 DEF LengthSound
<1> QED
  BY <1>10, <1>11

\* A frame that passes the check is the whole frame of the next message.
LEMMA VerifiedIsNext ==
    ASSUME FramingTyped, NEW off, NEW own, Aligned(off, own),
           length # None, Len(got) = Wanted, NEW p \in Payloads, Verified(p)
    PROVE  /\ Len(delivered) < Len(sent) /\ sent[Len(delivered) + 1] = p
           /\ Len(got) = FrameLen(p) /\ off[Len(delivered) + 1] = Len(got)
<1>1. got \in Seq(AllBytes) /\ sent \in Seq(Payloads)
  BY DEF FramingTyped, FramingTypeOK
<1>2. PICK g \in Nat : g = Len(got)
  BY Lens
<1>3. PICK n \in Nat : n = Len(sent)
  BY Lens
<1>4. PICK d \in Nat : d = Len(delivered)
  BY Lens
<1>5. PICK u \in Nat : u = Under
  BY Lens
<1>6. g <= u
  <2>1. Len(wire) \in Nat
    BY Lens
  <2> QED
    BY <1>2, <1>5, <2>1 DEF Under
<1>7. PICK l \in Nat : l = length
  <2>1. length \in Nat
    BY FramingAssumption DEF FramingTyped, FramingTypeOK
  <2> QED
    BY <2>1
<1>8. g = HeaderBytes + l + SumBytes
  BY <1>2, <1>7 DEF Wanted
<1> DEFINE sub == SubSeq(got, HeaderBytes + 1, g)
<1>9. Len(sub) = l + SumBytes
      /\ \A j \in 1..(l + SumBytes) : sub[j] = got[HeaderBytes + j]
  <2>1. HeaderBytes + 1 \in 1..g /\ g \in 1..g /\ HeaderBytes + 1 <= g
    BY <1>8, Sizes
  <2>2. Len(sub) = (g - (HeaderBytes + 1)) + 1
        /\ \A j \in 1..((g - (HeaderBytes + 1)) + 1) :
             sub[j] = got[((HeaderBytes + 1) + j) - 1]
    BY <1>1, <1>2, <2>1
  <2>3. (g - (HeaderBytes + 1)) + 1 = l + SumBytes
    BY <1>8, Sizes
  <2>4. \A j \in 1..(l + SumBytes) : ((HeaderBytes + 1) + j) - 1 = HeaderBytes + j
    BY Sizes
  <2> QED
    BY <2>2, <2>3, <2>4
<1>10. sub = BodyOf(p) \o SumOf(p)
  BY <1>2 DEF Verified
<1> HIDE DEF sub
<1>11. l = Size[p]
  BY <1>9, <1>10, BodyShape, Sizes
<1>12. g = FrameLen(p) /\ g \in Nat /\ Size[p] \in Nat /\ Size[p] >= 1
  BY <1>8, <1>11, Sizes DEF FrameLen
<1>13. \A j \in 1..(Size[p] + SumBytes) : got[HeaderBytes + j] = FrameByte(p, HeaderBytes + j)
  BY <1>9, <1>10, <1>11, BodyShape
<1>14. Layout(sent, n, d, Stream, u, off, own)
  BY <1>3, <1>4, <1>5 DEF Aligned
<1>15. off \in [Nat -> Nat] /\ own \in [Nat -> Nat] /\ d <= n
  BY <1>14 DEF Layout
<1>19. \A q \in Nat : 1 <= q /\ q <= u =>
         /\ own[q] < n /\ off[own[q]] < q
         /\ Stream[q] = FrameByte(sent[own[q] + 1], q - off[own[q]])
  BY <1>14 DEF Layout
<1>16. \A i \in Nat : i < n => sent[i + 1] \in Payloads
  BY <1>1, <1>3
\* The byte after the header says which message it is.
<1>17. own[HeaderBytes + 1] = d /\ d < n /\ sent[d + 1] = p
  <2>0. PICK q \in Nat : q = HeaderBytes + 1
    BY Sizes
  <2> DEFINE o == own[q]
  <2>1. q \in Nat /\ 1 <= q /\ q <= g /\ q <= u
    BY <1>6, <1>12, <2>0, Sizes DEF FrameLen
  <2>2. Stream[q] = got[q]
    BY <1>2, <2>1 DEF Stream
  <2>3. got[q] = <<"payload", p, 1>>
    <3>1. 1 \in 1..(Size[p] + SumBytes)
      BY <1>12, Sizes
    <3>2. FrameByte(p, q) = <<"payload", p, 1>>
      <4>1. ~(q <= HeaderBytes) /\ q <= HeaderBytes + Size[p] /\ q - HeaderBytes = 1
        BY <1>12, <2>0, Sizes
      <4> QED
        BY <4>1 DEF FrameByte
    <3> QED
      BY <1>13, <2>0, <3>1, <3>2
  <2>4. o \in Nat /\ off[o] \in Nat
    BY <1>15, <2>1
  <2>11. o < n /\ off[o] < q
        /\ Stream[q] = FrameByte(sent[o + 1], q - off[o])
    BY <1>19, <2>1
  <2> HIDE DEF o
  <2>5. PICK r \in Payloads : r = sent[o + 1]
    BY <1>16, <2>4, <2>11
  <2>6. PICK k \in Nat : k = q - off[o]
    BY <2>1, <2>4, <2>11
  <2>7. FrameByte(r, k) = <<"payload", p, 1>>
    BY <2>2, <2>3, <2>5, <2>6, <2>11
  <2>8. r = p /\ k - HeaderBytes = 1
    BY <2>7 DEF FrameByte
  <2>9. off[own[q]] = 0
    BY <2>0, <2>4, <2>6, <2>8, Sizes DEF o
  <2>10. own[q] = d /\ d < n /\ q <= off[d + 1]
    BY <1>14, <2>1, <2>9, OwnerFirst
  <2> QED
    BY <2>0, <2>5, <2>8, <2>10 DEF o
\* The last byte says that all of it is there.
<1>18. off[d + 1] = g
  <2>1. g \in Nat /\ 1 <= g /\ g <= u /\ Size[p] + SumBytes \in 1..(Size[p] + SumBytes)
        /\ HeaderBytes + (Size[p] + SumBytes) = g
    <3>1. HeaderBytes \in Nat /\ SumBytes \in Nat /\ HeaderBytes >= 1 /\ SumBytes >= 1
      BY Sizes
    <3>2. g = HeaderBytes + Size[p] + SumBytes /\ Size[p] \in Nat /\ Size[p] >= 1
      BY <1>8, <1>11, <1>12
    <3> QED
      BY <1>6, <3>1, <3>2
  <2>2. Stream[g] = got[g]
    BY <1>2, <2>1 DEF Stream
  <2>3. got[g] = <<"sum", p, SumBytes>>
    <3>1. FrameByte(p, g) = <<"sum", p, SumBytes>>
      <4>1. ~(g <= HeaderBytes) /\ ~(g <= HeaderBytes + Size[p])
            /\ g - (HeaderBytes + Size[p]) = SumBytes
        BY <1>12, <2>1, Sizes
      <4> QED
        BY <4>1 DEF FrameByte
    <3> QED
      BY <1>13, <2>1, <3>1
  <2> DEFINE o == own[g]
  <2>4. o \in Nat /\ off[o] \in Nat
    BY <1>15, <2>1
  <2>11. o < n /\ off[o] < g
        /\ Stream[g] = FrameByte(sent[o + 1], g - off[o])
    BY <1>19, <2>1
  <2> HIDE DEF o
  <2>5. PICK r \in Payloads : r = sent[o + 1]
    BY <1>16, <2>4, <2>11
  <2>6. PICK k \in Nat : k = g - off[o]
    BY <2>1, <2>4, <2>11
  <2>7. FrameByte(r, k) = <<"sum", p, SumBytes>>
    BY <2>2, <2>3, <2>5, <2>6, <2>11
  <2>8. r = p /\ k - (HeaderBytes + Size[r]) = SumBytes
    BY <2>7 DEF FrameByte
  <2>9. off[own[g]] = 0
    <3>1. k = g
      <4>1. k - (HeaderBytes + Size[p]) = SumBytes
        BY <2>8
      <4>2. HeaderBytes \in Nat /\ SumBytes \in Nat /\ Size[p] \in Nat
        BY <1>12, Sizes
      <4> QED
        BY <2>1, <4>1, <4>2
    <3>2. off[o] = 0
      BY <2>4, <2>6, <3>1
    <3> QED
      BY <3>2 DEF o
  <2>10. g <= off[d + 1]
    BY <1>14, <2>1, <2>9, OwnerFirst
  <2>13. off[d + 1] <= off[d] + FrameLen(sent[d + 1]) /\ off[d] = 0
    <3>1. off[d] = 0
          /\ \A i \in Nat : d <= i /\ i < n =>
               off[i + 1] <= off[i] + FrameLen(sent[i + 1])
      BY <1>14 DEF Layout
    <3>2. d <= d /\ d < n
      BY <1>17
    <3> QED
      BY <3>1, <3>2
  <2>12. off[d + 1] \in Nat
    <3>1. d + 1 \in Nat
      OBVIOUS
    <3> QED
      BY <1>15, <3>1, Zenon
  <2> QED
    BY <1>12, <1>17, <2>10, <2>12, <2>13
<1> QED
  BY <1>2, <1>3, <1>4, <1>12, <1>17, <1>18


\* recv_frame returns a message: it is the next one that was sent.
LEMMA FrameAligned ==
    ASSUME FramingTyped, NEW off, NEW own, Aligned(off, own), RecvFrame,
           \E p \in Payloads : Verified(p)
    PROVE  /\ \E off2, own2 \in [Nat -> Nat] : Aligned(off2, own2)'
           /\ Len(delivered) < Len(sent)
           /\ delivered' = Append(delivered, sent[Len(delivered) + 1])
           /\ LengthSound' /\ UNCHANGED <<sent, link>>
<1>1. PICK p \in Payloads : p = CHOOSE r \in Payloads : Verified(r)
  OBVIOUS
<1>2. Verified(p)
  BY <1>1
<1>3. /\ length # None /\ Len(got) = Wanted
      /\ delivered' = Append(delivered, p) /\ got' = <<>> /\ length' = None
      /\ UNCHANGED <<writer, lock, wire, link, sent, cut>>
  BY <1>1 DEF RecvFrame, history
<1>4. sent \in Seq(Payloads) /\ delivered \in Seq(Payloads) /\ wire \in Seq(AllBytes)
  BY DEF FramingTyped, FramingTypeOK
<1>5. PICK k \in Nat : k = Len(got)
  BY Lens
<1>6. PICK n \in Nat : n = Len(sent)
  BY Lens
<1>7. PICK d \in Nat : d = Len(delivered)
  BY Lens
<1>8. PICK u \in Nat : u = Len(wire)
  BY Lens
<1>9. d < n /\ sent[d + 1] = p /\ off[d + 1] = k /\ k = FrameLen(p)
  BY <1>2, <1>3, <1>5, <1>6, <1>7, VerifiedIsNext
<1>10. Layout(sent, n, d, Stream, k + u, off, own)
  BY <1>5, <1>6, <1>7, <1>8 DEF Aligned, Under
<1>11. off \in [Nat -> Nat] /\ own \in [Nat -> Nat] /\ off[d] = 0
  BY <1>10 DEF Layout
<1>12. Len(delivered') = d + 1
  BY <1>3, <1>4, <1>7
<1>13. Under' = u
  BY <1>3, <1>8 DEF Under
<1>14. Shifted(Stream', Stream, k, u)
  <2> SUFFICES ASSUME NEW q \in Nat, 1 <= q, q <= u
               PROVE  Stream'[q] = Stream[k + q]
    BY DEF Shifted
  <2>1. k + q \in Nat /\ ~(k + q <= k) /\ (k + q) - k = q /\ ~(q <= 0) /\ q - 0 = q
    OBVIOUS
  <2>2. Stream[k + q] = wire[q]
    BY <1>5, <2>1 DEF Stream
  <2>3. Stream'[q] = wire[q]
    BY <1>3, <2>1 DEF Stream
  <2> QED
    BY <2>2, <2>3
<1> DEFINE off2 == EndsAfter(off, k, d, n)
           own2 == OwnersAfter(own, k)
<1>15. Layout(sent, n, d + 1, Stream', u, off2, own2)
  <2>1. PICK v \in Nat : v = k + u
    OBVIOUS
  <2>2. ArePayloads(sent, d, n)
    BY <1>4, <1>6 DEF ArePayloads
  <2> QED
    BY <1>9, <1>10, <1>14, <2>1, <2>2, LayoutPop
<1>16. off2 \in [Nat -> Nat] /\ own2 \in [Nat -> Nat]
  BY <1>15 DEF Layout
<1>17. \A i \in Nat : d < i /\ i <= n => off2[i] = off[i] - k
  BY DEF EndsAfter
<1> HIDE DEF off2, own2
\* Differences between ends are what they were.
<1>18. ASSUME NEW i \in Nat, d < i, i < n, NEW f \in Nat, off[i + 1] = off[i] + f
       PROVE  off2[i + 1] = off2[i] + f
  <2>1. i + 1 \in Nat /\ d < i + 1 /\ i + 1 <= n /\ i <= n
    BY <1>18
  <2>2. off[i] \in Nat /\ off2[i] = off[i] - k /\ off2[i + 1] = off[i + 1] - k
    BY <1>11, <1>17, <1>18, <2>1
  <2> QED
    BY <1>18, <2>2
<1>19. ASSUME NEW w \in Writers, Busy(w)'
       PROVE  LastIsBusy(w, off2)'
  <2>1. Busy(w) /\ writer' = writer
    BY <1>3, <1>19 DEF Busy, Writing
  <2>2. writer[w].done \in Nat
    BY DEF FramingTyped, FramingTypeOK
  <2>3. PICK f \in Nat : f = writer[w].done
    BY <2>2
  <2>4. PICK m \in Nat :
          /\ Len(sent) = m + 1 /\ sent[m + 1] = writer[w].payload
          /\ Len(delivered) <= m => off[m + 1] = off[m] + writer[w].done
          /\ Len(delivered) > m => writer[w].done = FrameLen(writer[w].payload)
    BY <2>1 DEF Aligned, LastIsBusy
  <2>5. n = m + 1 /\ d <= m /\ off[m + 1] = off[m] + f
    BY <1>6, <1>7, <1>9, <2>3, <2>4
  <2>6. d + 1 <= m => off2[m + 1] = off2[m] + f
    <3> SUFFICES ASSUME d + 1 <= m PROVE off2[m + 1] = off2[m] + f
      OBVIOUS
    <3>1. d < m /\ m < n
      BY <2>5
    <3> QED
      BY <1>18, <2>5, <3>1
  <2>7. d + 1 > m => f = FrameLen(sent[m + 1])
    <3> SUFFICES ASSUME d + 1 > m PROVE f = FrameLen(sent[m + 1])
      OBVIOUS
    <3>1. d = m
      BY <2>5
    <3>2. off[d + 1] = 0 + f
      BY <1>11, <2>5, <3>1
    <3> QED
      BY <1>9, <3>1, <3>2
  <2> QED
    BY <1>3, <1>12, <2>1, <2>3, <2>4, <2>6, <2>7 DEF LastIsBusy
<1>20. ASSUME ~cut' PROVE WholeFrames(off2)'
  <2>1. WholeFrames(off)
    BY <1>3, <1>20 DEF Aligned
  <2> SUFFICES ASSUME NEW i \in Nat, d + 1 <= i, i < n
               PROVE  \/ off2[i + 1] = off2[i] + FrameLen(sent[i + 1])
                      \/ i + 1 = n /\ \E w \in Writers : Busy(w)'
    BY <1>3, <1>6, <1>12 DEF WholeFrames
  <2>2. d <= i /\ d < i
    OBVIOUS
  <2>3. \/ off[i + 1] = off[i] + FrameLen(sent[i + 1])
        \/ i + 1 = n /\ \E w \in Writers : Busy(w)
    BY <1>6, <1>7, <2>1, <2>2 DEF WholeFrames
  <2>4. \A w \in Writers : Busy(w)' = Busy(w)
    BY <1>3 DEF Busy, Writing
  <2>5. FrameLen(sent[i + 1]) \in Nat
    <3>1. sent[i + 1] \in Payloads
      BY <1>4, <1>6
    <3> QED
      BY <3>1, Sizes
  <2> QED
    BY <1>18, <2>2, <2>3, <2>4, <2>5
<1>21. Layout(sent, Len(sent), Len(delivered), Stream, Under, off2, own2)'
  BY <1>3, <1>6, <1>12, <1>13, <1>15
<1>22. Aligned(off2, own2)'
  BY <1>19, <1>20, <1>21 DEF Aligned
<1>23. LengthSound'
  BY <1>3 DEF LengthSound
<1> QED
  BY <1>3, <1>6, <1>7, <1>9, <1>16, <1>22, <1>23

\* As long as no frame was abandoned, a complete header is the one of the
\* next message, and the bytes that follow are its.
LEMMA HeaderIsNext ==
    ASSUME FramingTyped, NEW off, NEW own, Aligned(off, own), ~cut,
           Len(got) >= HeaderBytes
    PROVE  /\ Len(delivered) < Len(sent)
           /\ sent[Len(delivered) + 1] \in Payloads
           /\ \A q \in Nat : /\ 1 <= q /\ q <= Len(got)
                             /\ q <= FrameLen(sent[Len(delivered) + 1])
                => got[q] = FrameByte(sent[Len(delivered) + 1], q)
<1>1. sent \in Seq(Payloads)
  BY DEF FramingTyped, FramingTypeOK
<1>2. PICK g \in Nat : g = Len(got)
  BY Lens
<1>3. PICK n \in Nat : n = Len(sent)
  BY Lens
<1>4. PICK d \in Nat : d = Len(delivered)
  BY Lens
<1>5. PICK u \in Nat : u = Under
  BY Lens
<1>6. g <= u /\ 1 <= g
  <2>1. Len(wire) \in Nat
    BY Lens
  <2> QED
    BY <1>2, <1>5, <2>1, Sizes DEF Under
<1>7. Layout(sent, n, d, Stream, u, off, own)
  BY <1>3, <1>4, <1>5 DEF Aligned
<1>8. off \in [Nat -> Nat] /\ own \in [Nat -> Nat] /\ off[d] = 0 /\ off[n] = u
  BY <1>7 DEF Layout
<1>9. d < n
  <2>1. d <= own[g] /\ own[g] < n
    BY <1>6, <1>7 DEF Layout
  <2>2. own[g] \in Nat
    BY <1>8
  <2> QED
    BY <2>1, <2>2
<1>10. PICK p \in Payloads : p = sent[d + 1]
  BY <1>1, <1>3, <1>9
<1>11. off[d + 1] = FrameLen(p) \/ off[d + 1] = u
  <2>1. WholeFrames(off)
    BY DEF Aligned
  <2>2. \/ off[d + 1] = off[d] + FrameLen(sent[d + 1])
        \/ d + 1 = n
    BY <1>3, <1>4, <1>9, <2>1 DEF WholeFrames
  <2>3. FrameLen(p) \in Nat
    BY Sizes
  <2>4. CASE d + 1 = n
    BY <1>8, <2>4
  <2>5. CASE off[d + 1] = off[d] + FrameLen(sent[d + 1])
    BY <1>8, <1>10, <2>3, <2>5
  <2> QED
    BY <2>2, <2>4, <2>5
<1>12. ASSUME NEW q \in Nat, 1 <= q, q <= g, q <= FrameLen(p)
       PROVE  got[q] = FrameByte(p, q)
  <2>1. q <= u
    BY <1>6, <1>12
  <2>2. q <= off[d + 1]
    BY <1>11, <1>12, <2>1
  <2>3. Stream[q] = FrameByte(sent[d + 1], q)
    BY <1>7, <1>9, <1>12, <2>1, <2>2, FirstBytes
  <2>4. Stream[q] = got[q]
    BY <1>2, <1>12 DEF Stream
  <2> QED
    BY <1>10, <2>3, <2>4
<1> QED
  BY <1>2, <1>3, <1>4, <1>9, <1>10, <1>12


\* The header of the next message says its length, and only that.
LEMMA HeaderSays ==
    ASSUME FramingTyped, NEW off, NEW own, Aligned(off, own), ~cut,
           Len(got) >= HeaderBytes
    PROVE  \A i \in 1..HeaderBytes :
             got[i] = <<"length", Size[sent[Len(delivered) + 1]], i>>
<1>1. PICK p : p = sent[Len(delivered) + 1]
  OBVIOUS
<1>2. p \in Payloads
      /\ \A q \in Nat : 1 <= q /\ q <= Len(got) /\ q <= FrameLen(p)
           => got[q] = FrameByte(p, q)
  BY <1>1, HeaderIsNext
<1>3. Len(got) \in Nat
  BY Lens
<1>4. ASSUME NEW i \in 1..HeaderBytes
      PROVE  got[i] = <<"length", Size[p], i>>
  <2>1. i \in Nat /\ 1 <= i /\ i <= Len(got) /\ i <= FrameLen(p) /\ i <= HeaderBytes
    BY <1>2, <1>3, Sizes DEF FrameLen
  <2>2. FrameByte(p, i) = <<"length", Size[p], i>>
    BY <2>1 DEF FrameByte
  <2> QED
    BY <1>2, <2>1, <2>2
<1> QED
  BY <1>1, <1>4

\* Sequences of a header's bytes that begin alike are the same header.
LEMMA HeadersDiffer ==
    ASSUME NEW m, NEW n, HeaderOf(m) = HeaderOf(n)
    PROVE  m = n
<1>1. 1 \in 1..HeaderBytes
  BY Sizes
<1>2. HeaderOf(m)[1] = <<"length", m, 1>> /\ HeaderOf(n)[1] = <<"length", n, 1>>
  BY <1>1 DEF HeaderOf
<1>3. <<"length", m, 1>> = <<"length", n, 1>>
  BY <1>2
<1> QED
  BY <1>3

\* Bytes that are those of the header of n are read as n.
LEMMA HeaderRead ==
    ASSUME FramingTyped, Len(got) = HeaderBytes, NEW n \in Lengths,
           \A i \in 1..HeaderBytes : got[i] = <<"length", n, i>>
    PROVE  LengthsRead(got) = {n}
<1>1. got = HeaderOf(n)
  <2>1. got \in Seq(AllBytes)
    BY DEF FramingTyped, FramingTypeOK
  <2>2. got = [i \in 1..Len(got) |-> got[i]]
    BY <2>1
  <2>3. [i \in 1..Len(got) |-> got[i]] = [i \in 1..HeaderBytes |-> <<"length", n, i>>]
    OBVIOUS
  <2> QED
    BY <2>2, <2>3 DEF HeaderOf
<1>2. \A m \in Lengths : got = HeaderOf(m) => m = n
  BY <1>1, HeadersDiffer
<1> QED
  BY <1>1, <1>2 DEF LengthsRead

\* recv_frame refuses a length only for a message that is too long, or in
\* the wake of an abandoned frame.
LEMMA HeaderSound ==
    ASSUME FramingTyped, NEW off, NEW own, Aligned(off, own), RecvHeader
    PROVE  \/ /\ Refuse
              /\ cut \/ \E i \in DOMAIN sent : Size[sent[i]] > MaxSize
           \/ /\ LengthSound' /\ Aligned(off, own)'
              /\ UNCHANGED <<link, sent, delivered, cut>>
<1>1. PICK n \in LengthsRead(got) :
        IF TooLong(n) THEN Refuse
        ELSE /\ length' = n
             /\ UNCHANGED <<writer, lock, wire, link, got, delivered, history>>
  BY DEF RecvHeader
<1>2. Len(got) = HeaderBytes
  BY DEF RecvHeader
<1>3. CASE TooLong(n)
  <2>1. Refuse
    BY <1>1, <1>3
  <2>2. ASSUME ~cut
        PROVE  \E i \in DOMAIN sent : Size[sent[i]] > MaxSize
    <3>1. Len(delivered) < Len(sent) /\ sent[Len(delivered) + 1] \in Payloads
      BY <1>2, <2>2, HeaderIsNext, Sizes
    <3>2. PICK j \in Nat : j = Len(delivered) + 1
      BY Lens
    <3>3. j \in DOMAIN sent
      <4>1. sent \in Seq(Payloads) /\ Len(sent) \in Nat /\ Len(delivered) \in Nat
        BY Lens DEF FramingTyped, FramingTypeOK
      <4>2. j \in 1..Len(sent)
        BY <3>1, <3>2, <4>1
      <4> QED
        BY <4>1, <4>2
    <3>4. \A i \in 1..HeaderBytes : got[i] = <<"length", Size[sent[j]], i>>
      BY <1>2, <2>2, <3>2, HeaderSays, Sizes
    <3>5. Size[sent[j]] \in Lengths
      BY <3>1, <3>2 DEF Lengths
    <3>6. LengthsRead(got) = {Size[sent[j]]}
      BY <1>2, <3>4, <3>5, HeaderRead
    <3>7. n = Size[sent[j]]
      BY <3>6
    <3> QED
      BY <1>3, <3>3, <3>7 DEF TooLong
  <2> QED
    BY <2>1, <2>2
<1>4. CASE ~TooLong(n)
  <2>1. /\ length' = n
        /\ UNCHANGED <<writer, wire, link, got, delivered, sent, cut>>
    BY <1>1, <1>4 DEF history
  <2>2. Aligned(off, own)'
    BY <2>1 DEF Aligned, Stream, Under, Busy, Writing, LastIsBusy, WholeFrames
  <2>3. ASSUME NEW m \in Lengths,
               \A i \in 1..HeaderBytes : got[i] = <<"length", m, i>>
        PROVE  n = m
    <3>1. LengthsRead(got) = {m}
      BY <1>2, <2>3, HeaderRead
    <3> QED
      BY <3>1
  <2>4. Len(got) >= HeaderBytes
    BY <1>2, Sizes
  <2>5. LengthSound'
    BY <2>1, <2>3, <2>4 DEF LengthSound
  <2> QED
    BY <2>1, <2>2, <2>5
<1> QED
  BY <1>3, <1>4

\* recv_frame finds a wrong checksum only in the wake of an abandoned frame.
LEMMA WholeFramePasses ==
    ASSUME FramingTyped, NEW off, NEW own, Aligned(off, own), LengthSound,
           length # None, Len(got) = Wanted, ~cut
    PROVE  \E p \in Payloads : Verified(p)
<1>1. PICK p : p = sent[Len(delivered) + 1]
  OBVIOUS
<1>2. Len(got) >= HeaderBytes
  BY DEF LengthSound
<1>3. p \in Payloads
      /\ \A q \in Nat : 1 <= q /\ q <= Len(got) /\ q <= FrameLen(p)
           => got[q] = FrameByte(p, q)
  BY <1>1, <1>2, HeaderIsNext
<1>4. \A i \in 1..HeaderBytes : got[i] = <<"length", Size[p], i>>
  BY <1>1, <1>2, HeaderSays
<1>5. length = Size[p]
  <2>1. Size[p] \in Lengths
    BY <1>3 DEF Lengths
  <2> QED
    BY <1>4, <2>1 DEF LengthSound
<1>6. Len(got) = FrameLen(p) /\ Size[p] \in Nat /\ FrameLen(p) \in Nat
  BY <1>3, <1>5, Sizes DEF Wanted, FrameLen
<1> DEFINE sub == SubSeq(got, HeaderBytes + 1, Len(got))
           bs == BodyOf(p) \o SumOf(p)
           z == Size[p] + SumBytes
<1>7. got \in Seq(AllBytes)
  BY DEF FramingTyped, FramingTypeOK
<1>8. sub \in Seq(AllBytes) /\ Len(sub) = z
      /\ \A j \in 1..z : sub[j] = got[HeaderBytes + j]
  <2>1. HeaderBytes + 1 \in 1..Len(got) /\ Len(got) \in 1..Len(got)
        /\ HeaderBytes + 1 <= Len(got)
    BY <1>3, <1>6, Sizes DEF FrameLen
  <2>2. sub \in Seq(AllBytes) /\ Len(sub) = (Len(got) - (HeaderBytes + 1)) + 1
        /\ \A j \in 1..((Len(got) - (HeaderBytes + 1)) + 1) :
             sub[j] = got[((HeaderBytes + 1) + j) - 1]
    BY <1>7, <2>1, SMTT(30)
  <2>3. (Len(got) - (HeaderBytes + 1)) + 1 = z
    <3>1. /\ Len(got) = HeaderBytes + Size[p] + SumBytes
          /\ HeaderBytes \in Nat /\ SumBytes \in Nat /\ Size[p] \in Nat
      BY <1>6, Sizes DEF FrameLen
    <3> QED
      BY <3>1
  <2>4. \A j \in 1..z : ((HeaderBytes + 1) + j) - 1 = HeaderBytes + j
    BY <1>6, Sizes
  <2> QED
    BY <2>2, <2>3, <2>4
<1>9. bs \in Seq(AnyByte) /\ Len(bs) = z
      /\ \A j \in 1..z : bs[j] = FrameByte(p, HeaderBytes + j)
  BY <1>3, BodyShape, Parts
<1>10. z \in Nat /\ FrameLen(p) = HeaderBytes + z
  BY <1>6, Sizes DEF FrameLen
<1> HIDE DEF sub, bs, z
<1>11. \A j \in 1..z : sub[j] = bs[j]
  <2> SUFFICES ASSUME NEW j \in 1..z PROVE sub[j] = bs[j]
    OBVIOUS
  <2>1. HeaderBytes + j \in Nat /\ 1 <= HeaderBytes + j
        /\ HeaderBytes + j <= FrameLen(p) /\ HeaderBytes + j <= Len(got)
    BY <1>6, <1>10, Sizes
  <2> QED
    BY <1>3, <1>8, <1>9, <2>1
<1>12. sub = bs
  <2>1. sub = [j \in 1..z |-> sub[j]] /\ bs = [j \in 1..z |-> bs[j]]
    BY <1>8, <1>9
  <2>2. [j \in 1..z |-> sub[j]] = [j \in 1..z |-> bs[j]]
    BY <1>11
  <2> QED
    BY <2>1, <2>2
<1>13. Verified(p)
  BY <1>12 DEF Verified, sub, bs
<1> QED
  BY <1>3, <1>13


-----------------------------------------------------------------------------
(* The steps together.                                                     *)

FramingSound == FramingTyped /\ StreamSound /\ RefusedForCause

\* A long message that was sent stays sent.
LEMMA CauseKept ==
    ASSUME FramingTyped, NEW p \in Payloads, sent' = sent \/ sent' = Append(sent, p),
           \E i \in DOMAIN sent : Size[sent[i]] > MaxSize
    PROVE  \E i \in DOMAIN sent' : Size[sent'[i]] > MaxSize
<1>1. PICK i \in DOMAIN sent : Size[sent[i]] > MaxSize
  OBVIOUS
<1>2. i \in DOMAIN sent' /\ sent'[i] = sent[i]
  <2>1. sent \in Seq(Payloads)
    BY DEF FramingTyped, FramingTypeOK
  <2>2. i \in 1..Len(sent) /\ Len(sent) \in Nat
    BY <1>1, <2>1
  <2>3. CASE sent' = Append(sent, p)
    <3>1. /\ DOMAIN Append(sent, p) = 1..(Len(sent) + 1)
          /\ Append(sent, p)[i] = sent[i]
      BY <2>1, <2>2
    <3> QED
      BY <2>2, <2>3, <3>1
  <2> QED
    BY <1>1, <2>3
<1> QED
  BY <1>1, <1>2

\* What a step of the framing is to the channel.
ChannelStep == [Messages!ChannelNext]_(Messages!channelVars)

LEMMA SendSound ==
    ASSUME FramingSound, NEW w \in Writers,
           \/ \E p \in Payloads : Call(w, p)
           \/ TakeLock(w) \/ SendByte(w) \/ Return(w) \/ SendError(w)
    PROVE  StreamSound' /\ RefusedForCause' /\ ChannelStep
<1>1. FramingTyped /\ StreamSound /\ RefusedForCause
  BY DEF FramingSound
<1>2. UNCHANGED <<link, got, length, delivered>>
  BY DEF Call, TakeLock, SendByte, Return, SendError, readerVars
<1>3. LengthSound' = LengthSound
  BY <1>2 DEF LengthSound
<1>4. CASE SendByte(w)
  <2>1. writer[w].payload \in Payloads
    BY <1>1, <1>4 DEF FramingTyped, WritersSound, SendByte
  <2>2. PICK p \in Payloads : p = writer[w].payload
    BY <2>1
  <2>3. (sent' = sent \/ sent' = Append(sent, p)) /\ cut' = cut
    BY <1>4, <2>2 DEF SendByte
  <2>4. StreamSound'
    <3> SUFFICES ASSUME link = "up"
                 PROVE  LengthSound' /\ \E off, own \in [Nat -> Nat] : Aligned(off, own)'
      BY <1>2 DEF StreamSound
    <3>1. PICK off, own \in [Nat -> Nat] : Aligned(off, own)
      BY <1>1 DEF StreamSound
    <3>2. \E off2, own2 \in [Nat -> Nat] : Aligned(off2, own2)'
      BY <1>1, <1>4, <3>1, SendAligned
    <3> QED
      BY <1>1, <1>3, <3>2 DEF StreamSound
  <2>5. RefusedForCause'
    <3> SUFFICES ASSUME link = "refused", ~cut
                 PROVE  \E i \in DOMAIN sent' : Size[sent'[i]] > MaxSize
      BY <1>2, <2>3 DEF RefusedForCause
    <3>1. \E i \in DOMAIN sent : Size[sent[i]] > MaxSize
      BY <1>1 DEF RefusedForCause
    <3> QED
      BY <1>1, <2>3, <3>1, CauseKept
  <2>6. ChannelStep
    <3>1. CASE sent' = sent
      BY <1>2, <3>1 DEF ChannelStep, Messages!channelVars
    <3>2. CASE sent' = Append(sent, p)
      <4>1. Messages!Accept(p)
        BY <1>2, <3>2 DEF Messages!Accept
      <4> QED
        BY <4>1 DEF ChannelStep, Messages!ChannelNext
    <3> QED
      BY <2>3, <3>1, <3>2
  <2> QED
    BY <2>4, <2>5, <2>6
<1>5. CASE ~SendByte(w)
  <2>1. sent' = sent
    BY <1>5 DEF Call, TakeLock, Return, SendError, history
  <2>2. StreamSound'
    <3> SUFFICES ASSUME link = "up"
                 PROVE  LengthSound' /\ \E off, own \in [Nat -> Nat] : Aligned(off, own)'
      BY <1>2 DEF StreamSound
    <3>1. PICK off, own \in [Nat -> Nat] : Aligned(off, own)
      BY <1>1 DEF StreamSound
    <3>2. Aligned(off, own)'
      BY <1>1, <1>5, <3>1, CallAligned
    <3> QED
      BY <1>1, <1>3, <3>1, <3>2 DEF StreamSound
  <2>3. cut => cut'
    <3>1. CASE SendError(w)
      BY <3>1 DEF SendError
    <3>2. CASE ~SendError(w)
      BY <1>5, <3>2 DEF Call, TakeLock, Return, history
    <3> QED
      BY <3>1, <3>2
  <2>4. RefusedForCause'
    BY <1>1, <1>2, <2>1, <2>3 DEF RefusedForCause
  <2>5. ChannelStep
    BY <1>2, <2>1 DEF ChannelStep, Messages!channelVars
  <2> QED
    BY <2>2, <2>4, <2>5
<1> QED
  BY <1>4, <1>5

\* Refusing for a cause.
LEMMA RefuseSound ==
    ASSUME link = "up", Refuse,
           cut \/ \E i \in DOMAIN sent : Size[sent[i]] > MaxSize
    PROVE  StreamSound' /\ RefusedForCause' /\ ChannelStep
<1>1. link' = "refused" /\ UNCHANGED <<delivered, sent, cut>>
  BY DEF Refuse, history
<1>2. StreamSound' /\ RefusedForCause'
  BY <1>1 DEF StreamSound, RefusedForCause
<1>3. (link # "up")' = TRUE
  BY <1>1
<1>4. Messages!Break
  BY <1>1, <1>3 DEF Messages!Break
<1> QED
  BY <1>2, <1>4 DEF ChannelStep, Messages!ChannelNext

LEMMA RecvSound ==
    ASSUME FramingSound, RecvStep \/ LinkBreaks
    PROVE  StreamSound' /\ RefusedForCause' /\ ChannelStep
<1>1. FramingTyped /\ StreamSound /\ link = "up"
  BY DEF FramingSound, RecvStep, RecvByte, RecvHeader, RecvFrame, LinkBreaks
<1>2. PICK off, own \in [Nat -> Nat] : Aligned(off, own)
  BY <1>1 DEF StreamSound
<1>3. LengthSound
  BY <1>1 DEF StreamSound
<1>4. CASE RecvByte
  <2>1. Aligned(off, own)' /\ LengthSound'
    BY <1>1, <1>2, <1>3, <1>4, RecvAligned
  <2>2. UNCHANGED <<link, sent, delivered>>
    BY <1>4 DEF RecvByte, history
  <2> QED
    BY <1>1, <1>2, <2>1, <2>2
       DEF StreamSound, RefusedForCause, ChannelStep, Messages!channelVars
<1>5. CASE RecvHeader
  <2>1. CASE /\ Refuse
             /\ cut \/ \E i \in DOMAIN sent : Size[sent[i]] > MaxSize
    BY <1>1, <2>1, RefuseSound
  <2>2. CASE /\ LengthSound' /\ Aligned(off, own)'
             /\ UNCHANGED <<link, sent, delivered, cut>>
    BY <1>1, <1>2, <2>2
       DEF StreamSound, RefusedForCause, ChannelStep, Messages!channelVars
  <2> QED
    BY <1>1, <1>2, <1>5, <2>1, <2>2, HeaderSound
<1>6. CASE RecvFrame
  <2>1. CASE \E p \in Payloads : Verified(p)
    <3>1. /\ \E off2, own2 \in [Nat -> Nat] : Aligned(off2, own2)'
          /\ Len(delivered) < Len(sent)
          /\ delivered' = Append(delivered, sent[Len(delivered) + 1])
          /\ LengthSound' /\ UNCHANGED <<sent, link>>
      BY <1>1, <1>2, <1>6, <2>1, FrameAligned
    <3>2. StreamSound' /\ RefusedForCause'
      BY <1>1, <3>1 DEF StreamSound, RefusedForCause
    <3>3. Messages!Deliver
      BY <1>1, <3>1 DEF Messages!Deliver
    <3> QED
      BY <3>2, <3>3 DEF ChannelStep, Messages!ChannelNext
  <2>2. CASE ~\E p \in Payloads : Verified(p)
    <3>1. Refuse
      BY <1>6, <2>2 DEF RecvFrame
    <3>2. length # None /\ Len(got) = Wanted
      BY <1>6 DEF RecvFrame
    <3>3. cut
      BY <1>1, <1>2, <1>3, <2>2, <3>2, WholeFramePasses
    <3> QED
      BY <1>1, <3>1, <3>3, RefuseSound
  <2> QED
    BY <2>1, <2>2
<1>7. CASE LinkBreaks
  <2>1. link' = "broken" /\ UNCHANGED <<delivered, sent>>
    BY <1>7 DEF LinkBreaks, readerVars, history
  <2>2. (link # "up")' = TRUE
    BY <2>1
  <2>3. Messages!Break
    BY <2>1, <2>2 DEF Messages!Break
  <2> QED
    BY <2>1, <2>3
       DEF StreamSound, RefusedForCause, ChannelStep, Messages!ChannelNext
<1> QED
  BY <1>4, <1>5, <1>6, <1>7 DEF RecvStep

LEMMA FramingSoundStep ==
    FramingSound /\ [FramingNext]_framingVars => FramingSound' /\ ChannelStep
<1> SUFFICES ASSUME FramingSound, [FramingNext]_framingVars
             PROVE  FramingSound' /\ ChannelStep
  OBVIOUS
<1>1. FramingTyped'
  BY FramingTypedStep DEF FramingSound
<1>2. CASE UNCHANGED framingVars
  <2>1. UNCHANGED <<writer, lock, wire, link, got, length, delivered, calls, sent, cut>>
    BY <1>2 DEF framingVars, readerVars, history
  <2>2. StreamSound' = StreamSound /\ RefusedForCause' = RefusedForCause
    BY <2>1 DEF StreamSound, RefusedForCause, LengthSound, Aligned, Stream, Under,
                Busy, Writing, LastIsBusy, WholeFrames
  <2> QED
    BY <1>1, <2>1, <2>2 DEF FramingSound, ChannelStep, Messages!channelVars
<1>3. CASE FramingNext
  BY <1>1, <1>3, SendSound, RecvSound DEF FramingNext, SendStep, FramingSound
<1> QED
  BY <1>2, <1>3

LEMMA FramingSoundInit == FramingInit => FramingSound
BY FramingTypedInit, StreamInit DEF FramingSound, RefusedForCause, FramingInit

\* recv_frame fails only after a send was abandoned half way or for a message
\* beyond its cap: for any number of threads that contend for write_lock_,
\* and however ::send and ::recv cut the frames up.
THEOREM RefusalsHaveCause == FramingSpec => []RefusedForCause
<1>1. FramingSpec => []FramingSound
  BY FramingSoundInit, FramingSoundStep, PTL DEF FramingSpec
<1> QED
  BY <1>1, PTL DEF FramingSound

\* send_frame and recv_frame implement a channel of whole messages: what
\* recv_frame returns is a prefix of what was sent, in order and unaltered.
THEOREM FramingIsChannel == FramingSpec => ImplementsChannel
<1>1. FramingSpec => []FramingSound
  BY FramingSoundInit, FramingSoundStep, PTL DEF FramingSpec
<1>2. FramingInit => Messages!ChannelInit
  BY DEF FramingInit, Messages!ChannelInit
<1>3. FramingSound /\ [FramingNext]_framingVars =>
        [Messages!ChannelNext]_(Messages!channelVars)
  BY FramingSoundStep DEF ChannelStep
<1> QED
  BY <1>1, <1>2, <1>3, PTL DEF FramingSpec, ImplementsChannel, Messages!ChannelSpec

=============================================================================
