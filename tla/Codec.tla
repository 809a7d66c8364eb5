------------------------------- MODULE Codec --------------------------------
(***************************************************************************)
(* The binary codec (BinWriter and BinReader of persistence.cpp) as the    *)
(* wire protocol uses it (protocol.cpp): encode_message and encode_fence   *)
(* write the fields of a value in one order, decode_message and            *)
(* decode_fence read them, field by field, from bytes that may have been   *)
(* damaged, or that a writer which is not this program has put together.   *)
(*                                                                         *)
(* Bytes have Base values and numbers fewer bytes than in the code.        *)
(***************************************************************************)
EXTENDS Integers, Sequences, SequencesExt

CONSTANTS
    Base,           \* values of a byte (256 in the code)
    Bytes32,        \* bytes of a u32 (4)
    Bytes64,        \* bytes of a u64 (8); a checksum has as many
    BytesId,        \* bytes of a Uuid (16)
    Values,         \* kind of value -> the values that are encoded
    Foreign         \* bytes that another writer may put together

ASSUME CodecAssumption ==
    /\ Base \in Nat \ {0, 1}
    /\ {Bytes32, Bytes64, BytesId} \subseteq Nat \ {0}

VARIABLES
    kind,           \* what is decoded: a message or a fence
    value,          \* history: the value that was encoded
    intact,         \* history: the bytes are as they were encoded
    body,           \* the bytes before the checksum, <<>> when there are none
    pos,            \* pos_
    fields,         \* the fields read so far
    verdict         \* idle, reading, done or the error that was thrown

codecVars == <<kind, value, intact, body, pos, fields, verdict>>

-----------------------------------------------------------------------------
(* The order in which fields are written, and the order in which they are  *)
(* read: two lists in the code too.                                        *)

Kinds == {"message", "fence"}

WriteOrder(k) ==
    IF k = "message"
    THEN <<"type", "text", "text2", "text3", "text4", "a", "b", "c",
           "req_id", "ok", "payload">>
    ELSE <<"adapter", "composition", "adapter_generation",
           "composition_generation", "residency_generation",
           "artifact_generation", "base_model_revision", "epoch",
           "worker", "boot", "attempt", "device", "node">>

\* Fault: boot and worker change places, and two texts of a message.
SwappedOrder(k) ==
    IF k = "message"
    THEN <<"type", "text", "text3", "text2", "text4", "a", "b", "c",
           "req_id", "ok", "payload">>
    ELSE <<"adapter", "composition", "adapter_generation",
           "composition_generation", "residency_generation",
           "artifact_generation", "base_model_revision", "epoch",
           "boot", "worker", "attempt", "device", "node">>

ReadOrder(k) ==
    IF k = "message"
    THEN <<"type", "text", "text2", "text3", "text4", "a", "b", "c",
           "req_id", "ok", "payload">>
    ELSE <<"adapter", "composition", "adapter_generation",
           "composition_generation", "residency_generation",
           "artifact_generation", "base_model_revision", "epoch",
           "worker", "boot", "attempt", "device", "node">>

\* How a field is written.
Form(f) ==
    CASE f = "type" -> "u8"
      [] f = "ok" -> "bool"
      [] f \in {"text", "text2", "text3", "text4"} -> "string"
      [] f = "payload" -> "blob"
      [] f \in {"adapter", "composition", "base_model_revision", "worker",
                "boot", "attempt", "device", "node"} -> "id"
      [] OTHER -> "u64"

-----------------------------------------------------------------------------
(* BinWriter.                                                              *)

\* n shifted right by each number of bytes, v >> (8 * i).
Shifted(n, width) ==
    LET rest[i \in 0..width] == IF i = 0 THEN n ELSE rest[i - 1] \div Base
    IN  rest

LittleEndian(n, width) == [i \in 1..width |-> Shifted(n, width)[i - 1] % Base]

\* The last byte is the highest.
Number(bytes) ==
    LET value_of[i \in 0..Len(bytes)] ==
          IF i = 0 THEN 0
          ELSE bytes[Len(bytes) - i + 1] + Base * value_of[i - 1]
    IN  value_of[Len(bytes)]

\* A string and a payload are preceded by their length.
WriteField(f, v) ==
    CASE Form(f) = "u8" -> <<v>>
      [] Form(f) = "bool" -> IF v THEN <<1>> ELSE <<0>>
      [] Form(f) = "u64" -> LittleEndian(v, Bytes64)
      [] Form(f) = "id" -> v
      [] OTHER -> LittleEndian(Len(v), Bytes32) \o v

\* buf_ after each field of v.
Written(k, v) ==
    LET buf[i \in 0..Len(WriteOrder(k))] ==
          IF i = 0 THEN <<>>
          ELSE buf[i - 1] \o WriteField(WriteOrder(k)[i], v[WriteOrder(k)[i]])
    IN  buf

Encode(k, v) == Written(k, v)[Len(WriteOrder(k))]

-----------------------------------------------------------------------------
(* What the fields of a message and of a fence can hold.  A text is not    *)
(* longer than a u32 can count; u32(size) would cut a larger size.         *)

Byte == 0..(Base - 1)

FitsIn(n, width) == n \in Nat /\ Shifted(n, width)[width] = 0

Holds(f, v) ==
    CASE Form(f) = "u8" -> v \in Byte
      [] Form(f) = "bool" -> v \in BOOLEAN
      [] Form(f) = "u64" -> FitsIn(v, Bytes64)
      [] Form(f) = "id" -> v \in Seq(Byte) /\ Len(v) = BytesId
      [] OTHER -> v \in Seq(Byte) /\ FitsIn(Len(v), Bytes32)

ASSUME ValuesAssumption ==
    \A k \in Kinds : \A v \in Values[k] : \A i \in DOMAIN WriteOrder(k) :
      Holds(WriteOrder(k)[i], v[WriteOrder(k)[i]])

ASSUME ForeignAssumption == \A b \in Foreign : b \in Seq(Byte)

-----------------------------------------------------------------------------
(* What reaches the reader.                                                *)

\* The bytes of b cut short, lengthened, or with one of them replaced.
Altered(b) ==
    {SubSeq(b, 1, n) : n \in 0..(Len(b) - 1)}
    \cup {Append(b, x) : x \in Byte}
    \cup {[b EXCEPT ![i] = x] : i \in DOMAIN b, x \in Byte}

\* BinReader's constructor: it checks the size and compares the checksum,
\* with fnv1a_64 as a hash without collisions.
Open(k, v, encoded, b, checked) ==
    /\ kind' = k /\ value' = v /\ body' = b
    /\ intact' = (b = encoded)
    /\ verdict' = IF checked THEN "reading" ELSE "checksum_mismatch"
    /\ UNCHANGED <<pos, fields>>

OpenShort ==
    /\ verdict = "idle"
    /\ intact' = FALSE
    /\ verdict' = "malformed"
    /\ UNCHANGED <<kind, value, body, pos, fields>>

\* Fault model: bytes are damaged after the checksum was computed, or the
\* checksum is that of bytes which no encoder of this program wrote, close to
\* an encoding or not.
Arrive(k, v) ==
    LET encoded == Encode(k, v)
    IN  /\ verdict = "idle"
        /\ \/ Open(k, v, encoded, encoded, TRUE)
           \/ \E b \in Altered(encoded), checked \in BOOLEAN :
                b # encoded /\ Open(k, v, encoded, b, checked)
           \/ \E b \in Foreign : Open(k, v, encoded, b, TRUE)

-----------------------------------------------------------------------------
(* BinReader.                                                              *)

\* Fault: the size of the data in place of the end of the payload.
MoreThanData(n, at) == n > Len(body) + Bytes64 - at

\* BinReader::check, and the bound of a string.
PastEnd(n, at) == n > Len(body) - at

\* n bytes from pos_ on; the checksum's bytes follow the payload's and stand
\* as zeros, as none of them is ever taken for a field.
Taken(n, at) ==
    SubSeq(body \o [i \in 1..Bytes64 |-> 0], at + 1, at + n)

Throw(error) ==
    /\ verdict' = error
    /\ UNCHANGED <<kind, value, intact, body, pos, fields>>

Read(f, v, next) ==
    /\ pos' = next
    /\ fields' = Append(fields, <<f, v>>)
    /\ UNCHANGED <<kind, value, intact, body, verdict>>

\* A field of n bytes, and what is made of them.
FixedValue(f, bytes) ==
    CASE Form(f) = "u8" -> bytes[1]
      [] Form(f) = "bool" -> bytes[1] # 0
      [] Form(f) = "id" -> bytes
      [] OTHER -> Number(bytes)

ReadFixed(f, n) ==
    IF PastEnd(n, pos) THEN Throw("truncation")
    ELSE Read(f, FixedValue(f, Taken(n, pos)), pos + n)

\* BinReader::string: the length is compared with what is left.
ReadString(f) ==
    LET n == Number(Taken(Bytes32, pos))
        start == pos + Bytes32
    IN  IF PastEnd(Bytes32, pos) THEN Throw("truncation")
        ELSE IF PastEnd(n, start) THEN Throw("malformed")
        ELSE Read(f, Taken(n, start), start + n)

\* The payload of a message: its length is compared with the size of all the
\* data first, and with what is left by bytes().
ReadBlob(f) ==
    LET n == Number(Taken(Bytes32, pos))
        start == pos + Bytes32
    IN  IF PastEnd(Bytes32, pos) THEN Throw("truncation")
        ELSE IF n > Len(body) + Bytes64 THEN Throw("malformed")
        ELSE IF PastEnd(n, start) THEN Throw("truncation")
        ELSE Read(f, Taken(n, start), start + n)

ReadNext ==
    LET f == ReadOrder(kind)[Len(fields) + 1]
    IN  /\ verdict = "reading"
        /\ Len(fields) < Len(ReadOrder(kind))
        /\ CASE Form(f) \in {"u8", "bool"} -> ReadFixed(f, 1)
             [] Form(f) = "u64" -> ReadFixed(f, Bytes64)
             [] Form(f) = "id" -> ReadFixed(f, BytesId)
             [] Form(f) = "string" -> ReadString(f)
             [] Form(f) = "blob" -> ReadBlob(f)

\* Fault: no expect_end.
AnyEnd == TRUE

AtEnd == pos = Len(body)

ExpectEnd ==
    /\ verdict = "reading"
    /\ Len(fields) = Len(ReadOrder(kind))
    /\ verdict' = IF AtEnd THEN "done" ELSE "trailing_garbage"
    /\ UNCHANGED <<kind, value, intact, body, pos, fields>>

-----------------------------------------------------------------------------

CodecInit ==
    /\ kind = "message" /\ value = <<>> /\ intact = TRUE
    /\ body = <<>> /\ pos = 0 /\ fields = <<>>
    /\ verdict = "idle"

CodecNext ==
    \/ OpenShort
    \/ \E k \in Kinds : \E v \in Values[k] : Arrive(k, v)
    \/ ReadNext
    \/ ExpectEnd

CodecSpec == CodecInit /\ [][CodecNext]_codecVars

-----------------------------------------------------------------------------
(* What the codec promises.                                                *)

\* The value that was read for field f.
FieldOf(f) == fields[CHOOSE i \in DOMAIN fields : fields[i][1] = f][2]

\* What encode writes decode accepts, and gives back every field as it was: no
\* length, number or flag is read differently, and the two lists of fields
\* agree, for messages and for fences.
RoundTrip ==
    intact =>
      /\ verdict \in {"idle", "reading", "done"}
      /\ \A i \in DOMAIN fields : fields[i][2] = value[fields[i][1]]

\* protocol.hpp, "Strict deterministic codec": bytes that are accepted are the
\* encoding of what was read from them, whoever wrote them.  The one exception
\* is the flag ok, for which every byte but 0 is true.
AcceptsCanonical ==
    verdict = "done" =>
      LET read == [f \in ToSet(ReadOrder(kind)) |-> FieldOf(f)]
          again == Encode(kind, read)
      IN  /\ Len(again) = Len(body)
          /\ \A i \in DOMAIN body :
               again[i] # body[i] => kind = "message" /\ again[i] = 1 /\ body[i] # 0

\* "validates bounds on every read": the position never passes the end of the
\* payload, on which the unsigned subtraction in string() relies, and no read
\* takes bytes of the checksum for a field.
NeverPastEnd == pos <= Len(body)

=============================================================================
