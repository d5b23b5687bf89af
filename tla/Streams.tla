------------------------------- MODULE Streams -------------------------------
(***************************************************************************)
(* The two byte streams of a session: MQTT packets cut into WebSocket      *)
(* frames at arbitrary places (mqtt_codec.decode_packets, and the receive  *)
(* buffers of device_session.py).                                          *)
(*                                                                         *)
(* "WebSocket framing normally delivers whole packets, but the codec stays *)
(* stream-safe regardless."  A packet is a first byte, its remaining       *)
(* length in digits of base Base (128 in MQTT), the lowest first, all but  *)
(* the last marked by adding Base, and as many bytes as that length says.  *)
(* What the fields of a body must look like is reduced to the least length *)
(* they need.                                                              *)
(***************************************************************************)
EXTENDS Naturals, Sequences, SequencesExt

CONSTANTS
    Base,           \* 128
    MaxDigits,      \* 4
    MaxPacketBytes, \* MAX_PACKET_BYTES
    MinBody,        \* per first byte: the shortest body that decodes
    Bytes,          \* bytes the peers use
    MaxFrame,       \* bound on the length of a WebSocket frame
    MaxStream       \* bound on the bytes a peer sends

ASSUME StreamsAssumption ==
    /\ Base \in Nat \ {0, 1} /\ MaxDigits \in Nat \ {0}
    /\ MaxPacketBytes \in Nat \ {0} /\ MaxFrame \in Nat /\ MaxStream \in Nat
    /\ Bytes \subseteq 0 .. 2 * Base - 1
    /\ MinBody \in [Bytes -> Nat]

VARIABLES
    side,       \* which stream this is: the appliance's or the cloud's
    buffer,     \* _receive_buffer, or _upstream_receive_buffer
    passed,     \* the device packets handled, or what was forwarded to the device
    closed,     \* the session closed itself over what it read
    received,   \* history: everything that was read
    cut         \* history: a fallback has thrown the buffer away

vars == <<side, buffer, passed, closed, received, cut>>

ByteString == Seq(Bytes)

TypeOK ==
    /\ side \in {"device", "cloud"}
    /\ buffer \in ByteString /\ received \in ByteString
    /\ passed \in Seq(ByteString \ {<<>>})
    /\ closed \in BOOLEAN /\ cut \in BOOLEAN
    /\ closed => side = "device"
    /\ cut => side = "cloud"

Init ==
    /\ side \in {"device", "cloud"}
    /\ buffer = <<>> /\ passed = <<>> /\ received = <<>>
    /\ closed = FALSE /\ cut = FALSE

-----------------------------------------------------------------------------
(* mqtt_codec.py; an offset `at` is the number of bytes before it *)

\* The number of digits of a remaining length that begins at `at`; {} if it is
\* not complete, or too long.
DigitCount(b, at) ==
    {k \in 1 .. MaxDigits :
        /\ at + k <= Len(b) /\ b[at + k] < Base
        /\ \A j \in 1 .. k - 1 : b[at + j] >= Base}

TooManyDigits(b, at) ==
    /\ at + MaxDigits <= Len(b)
    /\ \A j \in 1 .. MaxDigits : b[at + j] >= Base

\* The digits of a remaining length that begins at `at`.
Digits(b, at, k) == SubSeq(b, at + 1, at + k)

\* _decode_remaining_length: the loop's value and multiplier after n digits.
RemainingLength(digits) ==
    LET read[n \in 0 .. Len(digits)] ==
            IF n = 0 THEN [value |-> 0, multiplier |-> 1]
            ELSE [value |-> read[n - 1].value + (digits[n] % Base) * read[n - 1].multiplier,
                  multiplier |-> read[n - 1].multiplier * Base]
    IN  read[Len(digits)].value

\* Mutant: the limit on the declared length is not enforced.
OnlyDigitsRejected(b, at) == TooManyDigits(b, at + 1)

\* The header at `at` is refused as soon as it is read.
HeaderRejected(b, at) ==
    \/ TooManyDigits(b, at + 1)
    \/ \E k \in DigitCount(b, at + 1) :
          RemainingLength(Digits(b, at + 1, k)) > MaxPacketBytes

\* The offsets at which the packet at `at` ends: one, or none yet.
PacketEnd(b, at) ==
    {e \in at + 2 .. Len(b) :
        \E k \in DigitCount(b, at + 1) :
            e = at + 1 + k + RemainingLength(Digits(b, at + 1, k))}

\* _decode_one of the packet between two offsets: the fields do not fit the body.
BodyRejected(b, at, end) ==
    \E k \in DigitCount(b, at + 1) : end - (at + 1 + k) < MinBody[b[at + 1]]

\* decode_packets: every complete packet and the bytes of an incomplete one, or
\* an error, which discards the packets before it too.
DecodePackets(b) ==
    LET Failed == [error |-> TRUE, packets |-> <<>>, rest |-> b]
        decoded[at \in 0 .. Len(b)] ==
            IF at < Len(b) /\ HeaderRejected(b, at) THEN Failed
            ELSE IF PacketEnd(b, at) = {}
            THEN [error |-> FALSE, packets |-> <<>>, rest |-> SubSeq(b, at + 1, Len(b))]
            ELSE LET end   == CHOOSE e \in PacketEnd(b, at) : TRUE
                     later == decoded[end]
                 IN  IF BodyRejected(b, at, end) \/ later.error THEN Failed
                     ELSE [later EXCEPT !.packets = <<SubSeq(b, at + 1, end)>> \o @]
    IN  decoded[0]

\* encode_remaining_length: one digit after the other, all but the last marked.
EncodeRemainingLength(length) ==
    LET encoded[n \in 0 .. length] ==
            IF n < Base THEN <<n>>
            ELSE <<(n % Base) + Base>> \o encoded[n \div Base]
    IN  encoded[length]

\* ... which raises for a length above 268_435_455, the largest of MaxDigits digits.
LengthLimit ==
    LET power[k \in 0 .. MaxDigits] == IF k = 0 THEN 1 ELSE Base * power[k - 1]
    IN  power[MaxDigits] - 1

\* _frame: what the bridge itself writes.
MqttFrame(first, body) == (<<first>> \o EncodeRemainingLength(Len(body))) \o body

-----------------------------------------------------------------------------
(* device_session.py *)

\* Mutant: what is left after the last whole packet is dropped.
TailDropped(d) == <<>>

\* The receive buffer after packets were taken out of it.
TailKept(d) == d.rest

\* _handle_device_bytes: an overlong buffer or an error closes the session.
HandleDeviceBytes(data) ==
    /\ side = "device" /\ ~closed
    /\ received' = received \o data
    /\ LET all == buffer \o data
           d   == DecodePackets(all)
       IN  IF Len(all) > 2 * MaxPacketBytes \/ d.error
           THEN closed' = TRUE /\ buffer' = all /\ UNCHANGED passed
           ELSE buffer' = TailKept(d) /\ passed' = passed \o d.packets /\ UNCHANGED closed
    /\ UNCHANGED <<side, cut>>

\* Mutant: bytes that do not decode stay in the buffer too.
KeepsUndecodable(d) == d.rest

\* ... and the upstream buffer once undecodable bytes were passed on as they are.
Emptied(d) == <<>>

\* Mutant: undecodable bytes from the cloud close the session.
ClosesOnError(d) == d.error

\* No error in the cloud's stream closes the session.
StaysOpen(d) == closed

\* _handle_upstream_bytes: bytes that do not decode are forwarded verbatim.
HandleUpstreamBytes(data) ==
    /\ side = "cloud" /\ ~closed
    /\ received' = received \o data
    /\ LET all == buffer \o data
           d   == DecodePackets(all)
       IN  /\ buffer' = IF d.error THEN Emptied(d) ELSE TailKept(d)
           /\ passed' = IF d.error THEN Append(passed, all) ELSE passed \o d.packets
           /\ closed' = StaysOpen(d)
    /\ UNCHANGED <<side, cut>>

\* _fallback_to_local drops what is buffered.  The pump may still read on.
FallbackDropsBuffer ==
    /\ side = "cloud" /\ ~cut /\ buffer # <<>>
    /\ buffer' = <<>>
    /\ cut' = TRUE
    /\ UNCHANGED <<side, passed, closed, received>>

Frames == UNION {[1 .. n -> Bytes] : n \in 1 .. MaxFrame}

Next ==
    \/ \E data \in Frames :
          /\ Len(received) + Len(data) <= MaxStream
          /\ HandleDeviceBytes(data) \/ HandleUpstreamBytes(data)
    \/ FallbackDropsBuffer

Spec == Init /\ [][Next]_vars

-----------------------------------------------------------------------------
(* Properties *)

(***************************************************************************)
(* The reference: the number that digits write in base Base, the lowest    *)
(* digit first; and b is one whole packet, without an offset or a scan.    *)
(***************************************************************************)
Number(digits) ==
    LET number[n \in 1 .. Len(digits) + 1] ==
            IF n > Len(digits) THEN 0 ELSE (digits[n] % Base) + Base * number[n + 1]
    IN  number[1]

IsPacket(b) ==
    \E k \in 1 .. MaxDigits :
        /\ k + 1 <= Len(b) /\ b[k + 1] < Base
        /\ \A j \in 2 .. k : b[j] >= Base
        /\ Len(b) = 1 + k + Number(SubSeq(b, 2, k + 1))

\* A prefix of the buffer is a packet: something waits that could be handled.
PacketWaits == \E n \in 1 .. Len(buffer) : IsPacket(SubSeq(buffer, 1, n))

(***************************************************************************)
(* However its bytes are cut into frames, an appliance's stream is handled *)
(* packet by packet, in order, each as soon as it is complete, and nothing *)
(* is lost or handled twice.                                               *)
(***************************************************************************)
HandledAsSent ==
    side = "device" /\ ~closed =>
        /\ FlattenSeq(passed) \o buffer = received
        /\ \A i \in DOMAIN passed : IsPacket(passed[i])
        /\ ~PacketWaits

(***************************************************************************)
(* The relay passes down what the cloud sent, byte for byte, until a       *)
(* fallback cuts a packet; it never holds a whole one back, even if it     *)
(* does not understand the bytes before it ("Preserve the byte-for-byte    *)
(* relay for anything we can't parse").                                    *)
(***************************************************************************)
RelayedAsSent ==
    side = "cloud" =>
        /\ ~cut => FlattenSeq(passed) \o buffer = received
        /\ ~PacketWaits

(***************************************************************************)
(* An open session never holds more than one incomplete packet of either   *)
(* stream, whatever length a header declares ("a peer cannot make us       *)
(* buffer unbounded memory").                                              *)
(***************************************************************************)
BufferIsBounded == ~closed => Len(buffer) < 1 + MaxDigits + MaxPacketBytes
=============================================================================
