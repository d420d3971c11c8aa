------------------------------- MODULE Framing -------------------------------
(***************************************************************************)
(* frame-codec: length-prefixed frames for streams (stream.rs) and COBS    *)
(* frames with a CRC for serial lines (serial.rs), decoded from a wire     *)
(* that arrives in pieces.  A byte has ByteBits bits, a length prefix      *)
(* LengthBytes bytes and the CRC two: 8, 4 and 2 in the code.              *)
(*                                                                         *)
(* The wire carries units: a frame, a frame that is too long, a damaged    *)
(* frame, an idle delimiter.  Each unit says what a receiver should make   *)
(* of it; Push gives the decoder the next piece of the wire.               *)
(***************************************************************************)
EXTENDS Integers, Sequences, SequencesExt, FiniteSetsExt, Bitwise

CONSTANTS
    ByteBits, LengthBytes,
    POLY,             \* the CRC's polynomial: 0x1021 in the code
    max_frame_size,
    Payloads,         \* encoded envelopes, and byte strings that are none
    MaxUnits          \* bound: units on a wire

VARIABLES mode, wire, pos, dec, out

vars == <<mode, wire, pos, dec, out>>

Base == 2 ^ ByteBits
Bytes == 0..(Base - 1)

Drop(s, n) == SubSeq(s, n + 1, Len(s))
Take(s, n) == SubSeq(s, 1, n)

\* minicbor: an envelope starts with its array marker.
decode(payload) ==
    IF payload # <<>> /\ payload[1] = 1 THEN <<"Envelope", payload>> ELSE <<"DecodeFailed">>

-----------------------------------------------------------------------------
\* stream.rs

to_be_bytes(n) == [i \in 1..LengthBytes |-> (n \div Base ^ (LengthBytes - i)) % Base]
from_be_bytes(s) == FoldLeft(LAMBDA n, b : n * Base + b, 0, s)

FitsStream(payload) == Len(payload) <= Min({max_frame_size, Base ^ LengthBytes - 1})
encode_stream(payload) == to_be_bytes(Len(payload)) \o payload

NewStream == [buf |-> <<>>, skip_bytes |-> 0]

\* Variant: an oversize frame being skipped does not count.
PendingInBuffer(d) == d.buf # <<>>
stream_has_pending(d) == d.buf # <<>> \/ d.skip_bytes > 0

\* Variant: an oversize frame is dropped when it has arrived as a whole.
SkipWhole(d) ==
    IF Len(d.buf) < d.skip_bytes THEN d
    ELSE [buf |-> Drop(d.buf, d.skip_bytes), skip_bytes |-> 0]

\* Drop what is there of an oversize frame.
Skip(d) ==
    LET n == Min({Len(d.buf), d.skip_bytes})
    IN [buf |-> Drop(d.buf, n), skip_bytes |-> d.skip_bytes - n]

RECURSIVE StreamLoop(_, _)

\* The cursor loop over the buffer.
StreamLoop(old, results) ==
    LET d == Skip(old)
        len == from_be_bytes(Take(d.buf, LengthBytes))
        rest == Drop(d.buf, LengthBytes)
    IN IF d.skip_bytes > 0 \/ Len(d.buf) < LengthBytes THEN [dec |-> d, results |-> results]
       ELSE IF len > max_frame_size
       THEN StreamLoop([buf |-> rest, skip_bytes |-> len], Append(results, <<"OversizeFrame">>))
       ELSE IF Len(rest) < len THEN [dec |-> d, results |-> results]
       ELSE StreamLoop([d EXCEPT !.buf = Drop(rest, len)], Append(results, decode(Take(rest, len))))

\* Variant: what is left to skip is forgotten between two calls.
PushForgetsSkip(d, bytes) == StreamLoop([buf |-> d.buf \o bytes, skip_bytes |-> 0], <<>>)

\* StreamFrameDecoder::push: skip in the input first, then buffer.
stream_push(d, bytes) ==
    LET n == Min({Len(bytes), d.skip_bytes})
    IN StreamLoop([buf |-> d.buf \o Drop(bytes, n), skip_bytes |-> d.skip_bytes - n], <<>>)

-----------------------------------------------------------------------------
\* serial.rs

\* One bit of the CRC's register, two bytes wide.
CrcShift(crc) ==
    IF crc >= (Base * Base) \div 2 THEN ((crc * 2) % (Base * Base)) ^^ POLY ELSE crc * 2

crc16_ccitt_false(data) ==
    FoldLeft(LAMBDA crc, byte : FoldLeft(LAMBDA r, i : CrcShift(r), crc ^^ (byte * Base),
                                         [i \in 1..ByteBits |-> i]), Base * Base - 1, data)

with_crc(payload) ==
    LET crc == crc16_ccitt_false(payload) IN payload \o <<crc \div Base, crc % Base>>

\* The cobs crate: blocks of up to Base - 2 bytes that are not zero.
Run == Base - 2

RECURSIVE cobs_encode(_), cobs_decode(_)
cobs_encode(s) ==
    LET n == Max({k \in 0..Min({Len(s), Run}) : \A i \in 1..k : s[i] # 0})
        block == <<n + 1>> \o Take(s, n)
    IN IF n = Len(s) THEN block
       ELSE block \o cobs_encode(Drop(s, IF n = Run THEN n ELSE n + 1))

\* The decoded bytes in a tuple, or no tuple: a code points past the end.
cobs_decode(s) ==
    IF s = <<>> THEN <<<<>>>>
    ELSE IF Len(s) < s[1] THEN <<>>
    ELSE LET block == SubSeq(s, 2, s[1])
             rest == Drop(s, s[1])
             tail == cobs_decode(rest)
         IN IF rest = <<>> THEN <<block>>
            ELSE IF tail = <<>> THEN <<>>
            ELSE <<block \o (IF s[1] = Base - 1 THEN <<>> ELSE <<0>>) \o tail[1]>>

max_encoding_length(n) == n + n \div Run + (IF n % Run > 0 THEN 1 ELSE 0)

FitsSerial(payload) == Len(payload) <= max_frame_size
encode_serial(payload) == Append(cobs_encode(with_crc(payload)), 0)

max_wire_size == max_encoding_length(max_frame_size + 2)

NewSerial == [buf |-> <<>>, discarding |-> FALSE]
serial_has_pending(d) == d.buf # <<>> \/ d.discarding

\* What the bytes between two delimiters are.
SerialFrame(buf) ==
    LET decoded == cobs_decode(buf)[1]
        payload == Take(decoded, Len(decoded) - 2)
    IN IF cobs_decode(buf) = <<>> THEN <<"LostSync">>
       ELSE IF Len(decoded) < 2 \/ decoded # with_crc(payload) THEN <<"CorruptFrame">>
       ELSE IF Len(payload) > max_frame_size THEN <<"OversizeFrame">>
       ELSE decode(payload)

serial_byte(acc, b) ==
    LET d == acc.dec
    IN IF b = 0
       THEN [dec |-> NewSerial,
             results |-> IF d.buf = <<>> THEN acc.results ELSE Append(acc.results, SerialFrame(d.buf))]
       ELSE IF d.discarding THEN acc
       ELSE IF Len(d.buf) >= max_wire_size
       THEN [dec |-> [buf |-> <<>>, discarding |-> TRUE],
             results |-> Append(acc.results, <<"OversizeFrame">>)]
       ELSE [acc EXCEPT !.dec.buf = Append(@, b)]

\* SerialFrameDecoder::push
serial_push(d, bytes) == FoldLeft(serial_byte, [dec |-> d, results |-> <<>>], bytes)

-----------------------------------------------------------------------------
\* What a wire may carry, and what a receiver should report for it.

Unit(bytes, expect) == [bytes |-> bytes, expect |-> expect]
Filled(n, b) == [i \in 1..n |-> b]

StreamUnits ==
    {Unit(encode_stream(p), <<decode(p)>>) : p \in {q \in Payloads : FitsStream(q)}}
    \cup {Unit(to_be_bytes(n) \o Filled(n, b), <<<<"OversizeFrame">>>>) :
            n \in (max_frame_size + 1)..(max_frame_size + 2), b \in {0, 1}}

Damaged(p) ==
    {Append(cobs_encode([with_crc(p) EXCEPT ![i] = b]), 0) :
        i \in 1..(Len(p) + 2), b \in Bytes} \ {encode_serial(p)}

SerialUnits ==
    {Unit(encode_serial(p), <<decode(p)>>) : p \in {q \in Payloads : FitsSerial(q)}}
    \cup {Unit(encode_serial(p), <<<<"OversizeFrame">>>>) : p \in {q \in Payloads : ~FitsSerial(q)}}
    \cup UNION {{Unit(bytes, <<<<"CorruptFrame">>>>) : bytes \in Damaged(p)} :
                p \in {q \in Payloads : FitsSerial(q)}}
    \cup {Unit(Append(Filled(max_wire_size + n, b), 0), <<<<"OversizeFrame">>>>) :
            n \in 1..2, b \in Bytes \ {0}}
    \cup {Unit(<<0>>, <<>>), Unit(<<Base - 1, 1, 0>>, <<<<"LostSync">>>>),
          Unit(<<1, 0>>, <<<<"CorruptFrame">>>>)}

Wires(units) == UNION {[1..n -> units] : n \in 1..MaxUnits}

Init ==
    /\ \/ mode = "stream" /\ wire \in Wires(StreamUnits) /\ dec = NewStream
       \/ mode = "serial" /\ wire \in Wires(SerialUnits) /\ dec = NewSerial
    /\ pos = 0 /\ out = <<>>

\* The first n units, as bytes and as what should be reported for them.
BytesOf(n) == FlattenSeq([i \in 1..n |-> wire[i].bytes])
ExpectOf(n) == FlattenSeq([i \in 1..n |-> wire[i].expect])

Push ==
    \E n \in 1..(Len(BytesOf(Len(wire))) - pos) :
        LET chunk == SubSeq(BytesOf(Len(wire)), pos + 1, pos + n)
            r == IF mode = "stream" THEN stream_push(dec, chunk) ELSE serial_push(dec, chunk)
        IN /\ pos' = pos + n
           /\ dec' = r.dec
           /\ out' = out \o r.results
           /\ UNCHANGED <<mode, wire>>

Next == Push

Spec == Init /\ [][Next]_vars

-----------------------------------------------------------------------------
Pending(d) == IF mode = "stream" THEN stream_has_pending(d) ELSE serial_has_pending(d)

\* The units the decoder has seen the end of.
Complete == Max({n \in 0..Len(wire) : Len(BytesOf(n)) <= pos})
AtBoundary == Len(BytesOf(Complete)) = pos

(***************************************************************************)
(* However the wire is cut into pieces, a decoder reports exactly what the *)
(* units it has seen call for, in their order: every frame the encoder     *)
(* accepted, also right behind one that was too long, damaged or no frame, *)
(* and one error for each of these.  At most the unit in progress has been *)
(* reported early (a length that is too large is known at once).           *)
(***************************************************************************)
DecodesAsSent ==
    \/ out = ExpectOf(Complete)
    \/ ~AtBoundary /\ out = ExpectOf(Complete + 1)

(***************************************************************************)
(* has_pending, which a transport asks at the end of the stream, is true   *)
(* exactly inside a unit: a close at a frame boundary is clean, one inside *)
(* a frame, or inside an oversize frame being skipped, is not.             *)
(***************************************************************************)
PendingExact == Pending(dec) <=> ~AtBoundary

(***************************************************************************)
(* The buffer never holds more than one frame in the making, whatever      *)
(* length a frame claims, and nothing while bytes are skipped (the         *)
(* debug_assert of push).                                                  *)
(***************************************************************************)
BufferBounded ==
    IF mode = "stream"
    THEN /\ Len(dec.buf) < LengthBytes + max_frame_size
         /\ dec.skip_bytes > 0 => dec.buf = <<>>
    ELSE Len(dec.buf) <= max_wire_size /\ (dec.discarding => dec.buf = <<>>)
=============================================================================
