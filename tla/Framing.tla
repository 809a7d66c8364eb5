------------------------------ MODULE Framing -------------------------------
(***************************************************************************)
(* One direction of a connection between two TcpSockets (transport.cpp):   *)
(* from the coordinator, whose control threads call send_frame on the same *)
(* socket at the same time, to a worker, whose run() loop calls recv_frame *)
(* and ends with its process when that fails.                              *)
(*                                                                         *)
(* A frame is [length][payload][checksum].  Bytes travel one at a time, so *)
(* that ::send and ::recv may transfer any number of them; a byte is known *)
(* by what it is a byte of.                                                *)
(***************************************************************************)
EXTENDS Naturals, Sequences

CONSTANTS
    Writers,        \* threads that call send_frame
    Payloads,       \* encoded messages (encode_message never yields none)
    Size,           \* payload -> number of bytes
    MaxSize,        \* largest length recv_frame accepts (64 MiB in the code)
    HeaderBytes,    \* bytes of a length (4 in the code)
    SumBytes,       \* bytes of a checksum (8 in the code)
    BufferBytes,    \* bytes the sockets buffer between the two ends
    MaxCalls,       \* bound: calls of send_frame
    None            \* no thread, no payload

ASSUME FramingAssumption ==
    /\ Size \in [Payloads -> Nat \ {0}]
    /\ MaxSize \in Nat /\ MaxCalls \in Nat
    /\ {HeaderBytes, SumBytes, BufferBytes} \subseteq Nat \ {0}
    /\ None \notin Writers \cup Payloads

VARIABLES
    writer,         \* thread -> what it is sending and how much is sent
    lock,           \* who holds write_lock_
    wire,           \* bytes under way
    link,           \* "up"; "broken" (fault); "refused" (recv_frame failed)
    got,            \* the bytes recv_frame has read of the current frame
    length,         \* the length it read, None while in the header
    calls,          \* number of calls of send_frame
    sent,           \* history: payloads in the order of their first bytes
    delivered,      \* payloads recv_frame returned
    cut             \* history: some frame was abandoned half way

readerVars == <<got, length, delivered>>
history == <<calls, sent, cut>>
framingVars == <<writer, lock, wire, link, readerVars, history>>

-----------------------------------------------------------------------------
(* The wire format.                                                        *)

HeaderOf(n) == [i \in 1..HeaderBytes |-> <<"length", n, i>>]
BodyOf(p) == [i \in 1..Size[p] |-> <<"payload", p, i>>]

\* fnv1a_64 as a hash without collisions.
SumOf(p) == [i \in 1..SumBytes |-> <<"sum", p, i>>]

FrameOf(p) == HeaderOf(Size[p]) \o BodyOf(p) \o SumOf(p)

Lengths == {Size[p] : p \in Payloads}
AllBytes == UNION {{FrameOf(p)[i] : i \in DOMAIN FrameOf(p)} : p \in Payloads}

\* Lengths a header may stand for: the one that was written, and any at all
\* if the bytes are not those of one header.
LengthsRead(bytes) ==
    IF \E n \in Lengths : bytes = HeaderOf(n)
    THEN {n \in Lengths : bytes = HeaderOf(n)}
    ELSE 0..(MaxSize + 1)

FramingTypeOK ==
    /\ writer \in [Writers -> [pc : {"idle", "blocked", "sending"},
                               payload : Payloads \cup {None}, done : Nat]]
    /\ lock \in Writers \cup {None}
    /\ wire \in Seq(AllBytes) /\ Len(wire) <= BufferBytes
    /\ link \in {"up", "broken", "refused"}
    /\ got \in Seq(AllBytes)
    /\ length \in 0..MaxSize \cup {None}
    /\ sent \in Seq(Payloads) /\ delivered \in Seq(Payloads)
    /\ calls \in 0..MaxCalls /\ cut \in BOOLEAN

-----------------------------------------------------------------------------
(* send_frame.                                                             *)

Quiet == [pc |-> "idle", payload |-> None, done |-> 0]

\* A thread calls send_frame and stops at write_lock_.
Call(w, p) ==
    /\ writer[w].pc = "idle"
    /\ calls < MaxCalls
    /\ calls' = calls + 1
    /\ writer' = [writer EXCEPT ![w] =
                    [pc |-> "blocked", payload |-> p, done |-> 0]]
    /\ UNCHANGED <<lock, wire, link, readerVars, sent, cut>>

\* Fault: no mutex.
Unlocked == TRUE

\* write_lock_ is free.
LockFree == lock = None

TakeLock(w) ==
    /\ writer[w].pc = "blocked"
    /\ LockFree
    /\ lock' = w
    /\ writer' = [writer EXCEPT ![w].pc = "sending"]
    /\ UNCHANGED <<wire, link, readerVars, history>>

\* send_all moves one more byte of header, payload or checksum into the
\* socket, if there is room; on a dead connection it may vanish.
SendByte(w) ==
    LET t == writer[w]
        b == FrameOf(t.payload)[t.done + 1]
    IN  /\ t.pc = "sending"
        /\ t.done < Len(FrameOf(t.payload))
        /\ IF link = "up"
           THEN Len(wire) < BufferBytes /\ wire' = Append(wire, b)
           ELSE UNCHANGED wire
        /\ writer' = [writer EXCEPT ![w].done = @ + 1]
        /\ sent' = IF t.done = 0 THEN Append(sent, t.payload) ELSE sent
        /\ UNCHANGED <<lock, link, readerVars, calls, cut>>

\* Fault: an early return that keeps the lock.
LockKept == lock

\* The lock_guard is gone when send_frame returns, one way or the other.
LockAfterReturn == None

\* Everything is sent: send_frame returns true.
Return(w) ==
    /\ writer[w].pc = "sending"
    /\ writer[w].done = Len(FrameOf(writer[w].payload))
    /\ writer' = [writer EXCEPT ![w] = Quiet]
    /\ lock' = LockAfterReturn
    /\ UNCHANGED <<wire, link, readerVars, history>>

\* ::send fails: send_frame returns false.  The socket stays as it is, and
\* what was sent of the frame stays sent.
SendError(w) ==
    /\ writer[w].pc = "sending"
    /\ writer[w].done < Len(FrameOf(writer[w].payload))
    /\ writer' = [writer EXCEPT ![w] = Quiet]
    /\ lock' = LockAfterReturn
    /\ cut' = (cut \/ writer[w].done > 0)
    /\ UNCHANGED <<wire, link, readerVars, calls, sent>>

-----------------------------------------------------------------------------
(* recv_frame.                                                             *)

\* Faults: the checksum is not compared, so any bytes of the right number
\* pass; there is no cap.
Unverified(p) == Size[p] = length
NeverTooLong(n) == FALSE

TooLong(n) == n > MaxSize

\* The bytes read after the header are payload p and its checksum.
Verified(p) == SubSeq(got, HeaderBytes + 1, Len(got)) = BodyOf(p) \o SumOf(p)

\* Fault: a byte too many.
WantedOneMore ==
    IF length = None THEN HeaderBytes ELSE HeaderBytes + length + SumBytes + 1

\* The bytes recv_exact is to have read, from the beginning of the frame.
Wanted ==
    IF length = None THEN HeaderBytes ELSE HeaderBytes + length + SumBytes

\* recv_exact takes one more byte of what it waits for.
RecvByte ==
    /\ link = "up"
    /\ wire # <<>>
    /\ Len(got) < Wanted
    /\ got' = Append(got, Head(wire))
    /\ wire' = Tail(wire)
    /\ UNCHANGED <<writer, lock, link, length, delivered, history>>

\* recv_frame returns false, run() ends, and with it the process: what is
\* under way is lost.
Refuse ==
    /\ link' = "refused"
    /\ wire' = <<>> /\ got' = <<>> /\ length' = None
    /\ UNCHANGED <<writer, lock, delivered, history>>

\* The header is complete.
RecvHeader ==
    /\ link = "up"
    /\ length = None /\ Len(got) = HeaderBytes
    /\ \E n \in LengthsRead(got) :
         IF TooLong(n) THEN Refuse
         ELSE /\ length' = n
              /\ UNCHANGED <<writer, lock, wire, link, got, delivered,
                             history>>

\* The frame is complete: recv_frame returns true, and the loop goes on to
\* the next one, or the checksum differs.
RecvFrame ==
    /\ link = "up"
    /\ length # None /\ Len(got) = Wanted
    /\ IF \E p \in Payloads : Verified(p)
       THEN /\ delivered' = Append(delivered,
                                   CHOOSE p \in Payloads : Verified(p))
            /\ got' = <<>> /\ length' = None
            /\ UNCHANGED <<writer, lock, wire, link, history>>
       ELSE Refuse

\* Fault model: the connection is lost.
LinkBreaks ==
    /\ link = "up"
    /\ link' = "broken"
    /\ wire' = <<>>
    /\ UNCHANGED <<writer, lock, readerVars, history>>

-----------------------------------------------------------------------------

FramingInit ==
    /\ writer = [w \in Writers |-> Quiet]
    /\ lock = None
    /\ wire = <<>>
    /\ link = "up"
    /\ got = <<>> /\ length = None
    /\ delivered = <<>>
    /\ calls = 0 /\ sent = <<>> /\ cut = FALSE

SendStep(w) == TakeLock(w) \/ SendByte(w) \/ Return(w)
RecvStep == RecvByte \/ RecvHeader \/ RecvFrame

FramingNext ==
    \/ \E w \in Writers, p \in Payloads : Call(w, p)
    \/ \E w \in Writers : SendStep(w)
    \/ \E w \in Writers : SendError(w)
    \/ RecvStep
    \/ LinkBreaks

\* A thread in send_frame and the worker's loop go on whenever they can.
FramingSpec ==
    /\ FramingInit /\ [][FramingNext]_framingVars
    /\ \A w \in Writers : WF_framingVars(SendStep(w))
    /\ WF_framingVars(RecvStep)

-----------------------------------------------------------------------------
(* What the framing promises.                                              *)

\* Framing turns the byte stream into a channel of whole messages: however
\* senders contend, wherever a send fails and whatever is left of its frame
\* in the stream, the receiver gets a prefix of what was sent.
Messages == INSTANCE Channel WITH broken <- link # "up"
ImplementsChannel == Messages!ChannelSpec

\* A receiver that reads whole frames finds nothing wrong with them: recv_frame
\* fails only when a send was abandoned half way, or for a message longer than
\* the receiver accepts, which send_frame does not look at.
RefusedForCause ==
    link = "refused" =>
      cut \/ \E i \in DOMAIN sent : Size[sent[i]] > MaxSize

\* Every call of send_frame returns: a writer that fails or finds the buffer
\* full does not keep the others waiting for good.
CallReturns ==
    \A w \in Writers : writer[w].pc = "blocked" ~> writer[w].pc = "idle"

\* Every frame that was sent whole arrives, unless the connection ends or a
\* frame before it was abandoned.
SentArrives ==
    \A n \in 1..MaxCalls :
      Len(sent) >= n ~> (Len(delivered) >= n \/ link # "up" \/ cut)

=============================================================================
