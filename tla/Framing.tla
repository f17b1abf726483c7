------------------------------ MODULE Framing -------------------------------
(***************************************************************************)
(* The frames of the link: a header with the length, least byte first, and *)
(* a payload that is the text of a JSON value (host/framing.ts, protocol.ts*)
(* on the client's side, read_stdin of server.rs on the host's).  A pipe   *)
(* delivers the bytes in order, in chunks that know nothing of frames.     *)
(*                                                                         *)
(* What a byte is, and how a header says a length, are parameters: all that*)
(* counts is that readUInt32LE and from_le_bytes read what writeUInt32LE   *)
(* wrote, and that every four bytes say some length.                       *)
(***************************************************************************)
EXTENDS Naturals, Sequences, FiniteSets, Functions, SequencesExt

CONSTANTS
  Bytes,        \* what a byte may be
  HeaderBytes,  \* the bytes of a header, 4
  Header,       \* writeUInt32LE: per length that a header can say, the header
  MaxFrame,     \* MAX_FRAME_BYTES
  MaxStream,    \* bound: the bytes of a stream
  Json,         \* what JSON.parse makes of a payload: a value, or NotJson
  SerdeJson,    \* what serde_json makes of it
  NotJson,
  Refused       \* what a decoder makes of a value it throws on

Lengths == DOMAIN Header
Payloads == BoundedSeq(Bytes, MaxFrame)

\* The fields of an object that tell whether it is an envelope: id and method are strings
\* or not; error is absent, null, a code and a message with a code of message.rs or with
\* another one, or something else.
Values == [type : {"request", "response", "event", "other"}, id : BOOLEAN, method : BOOLEAN,
           error : {"none", "null", "error", "unknown", "other"}]

ASSUME FramingAssumption ==
  /\ HeaderBytes \in Nat \ {0} /\ MaxFrame \in Nat /\ MaxStream \in Nat
  /\ 0 .. MaxFrame \subseteq Lengths /\ Lengths \subseteq Nat
  /\ Header \in Bijection(Lengths, [1 .. HeaderBytes -> Bytes])
  /\ NotJson \notin Values /\ Refused \notin Values
  /\ Json \in [Payloads -> Values \union {NotJson}]
  /\ SerdeJson \in [Payloads -> Values \union {NotJson}]

-----------------------------------------------------------------------------
(* protocol.ts                                                             *)

\* parseEnvelope keeps the fields of the variant and drops the others.
ParseEnvelope(value) ==
  CASE value = NotJson -> Refused                     \* JSON.parse
    [] value # NotJson /\ value.type = "request" /\ value.id /\ value.method ->
         [value EXCEPT !.error = "none"]
    [] value # NotJson /\ value.type = "event" /\ value.method ->
         [value EXCEPT !.id = FALSE, !.error = "none"]
    [] value # NotJson /\ value.type = "response" /\ value.id
         /\ value.error \in {"none", "error", "unknown"} ->
         [value EXCEPT !.method = FALSE]
    [] OTHER -> Refused

-----------------------------------------------------------------------------
(* message.rs                                                              *)

\* Envelope's Deserialize.  A null error is no error, and a code must be an ErrorCode.
FromSlice(value) ==
  CASE value = NotJson -> Refused
    [] value # NotJson /\ value.type = "request" /\ value.id /\ value.method ->
         [value EXCEPT !.error = "none"]
    [] value # NotJson /\ value.type = "event" /\ value.method ->
         [value EXCEPT !.id = FALSE, !.error = "none"]
    [] value # NotJson /\ value.type = "response" /\ value.id
         /\ value.error \in {"none", "null", "error"} ->
         [value EXCEPT !.method = FALSE, !.error = IF @ = "error" THEN "error" ELSE "none"]
    [] OTHER -> Refused

-----------------------------------------------------------------------------
(* The two decoders, per payload.  They differ: serde_json refuses a lone surrogate that  *)
(* JSON.stringify has escaped, a key of the envelope given twice or a number out of range,*)
(* which JSON.parse takes, and reads a list of the fields as an envelope.                 *)

ClientDecoder == [payload \in Payloads |-> ParseEnvelope(Json[payload])]
HostDecoder   == [payload \in Payloads |-> FromSlice(SerdeJson[payload])]

Good(decoder, payload) == decoder[payload] # Refused
Parsed(decoder, payloads) == [k \in DOMAIN payloads |-> decoder[payloads[k]]]

-----------------------------------------------------------------------------
(* framing.ts                                                              *)

EncodeFrame(payload) == Header[Len(payload)] \o payload

HasHeader(buffer) == Len(buffer) >= HeaderBytes

\* readUInt32LE
FrameLength(buffer) == CHOOSE n \in Lengths : Header[n] = SubSeq(buffer, 1, HeaderBytes)

TooLarge(buffer) == FrameLength(buffer) > MaxFrame

\* Mutant: a frame is whole when the next one has begun.
WholeAndMore(buffer) == Len(buffer) > FrameLength(buffer) + HeaderBytes

Whole(buffer) == Len(buffer) >= FrameLength(buffer) + HeaderBytes

Payload(buffer) == SubSeq(buffer, HeaderBytes + 1, HeaderBytes + FrameLength(buffer))
Rest(buffer) == SubSeq(buffer, HeaderBytes + FrameLength(buffer) + 1, Len(buffer))

\* The loop of push, once round.  A payload that is no envelope has left the buffer when
\* parseEnvelope throws, a frame over the limit has not.
Pass(push) ==
  IF push.threw \/ ~HasHeader(push.buffer) THEN push
  ELSE IF TooLarge(push.buffer) THEN [push EXCEPT !.threw = TRUE]
  ELSE IF ~Whole(push.buffer) THEN push
  ELSE IF Good(ClientDecoder, Payload(push.buffer))
       THEN [buffer |-> Rest(push.buffer), threw |-> FALSE,
             messages |-> Append(push.messages, ClientDecoder[Payload(push.buffer)])]
       ELSE [push EXCEPT !.buffer = Rest(push.buffer), !.threw = TRUE]

\* FrameDecoder.push: every pass takes a header at least, so there are no more than bytes.
Passes(buffer) ==
  LET after[k \in 0 .. Len(buffer)] ==
        IF k = 0 THEN [buffer |-> buffer, messages |-> <<>>, threw |-> FALSE] ELSE Pass(after[k - 1])
  IN  after

Push(buffer) == Passes(buffer)[Len(buffer)]

\* The data handler of client.ts: each message of a push is received, or, when the push
\* throws, none of them, and the link is closed.  The data that follow are still read.
Data(link, chunk) ==
  LET push == Push(link.buffer \o chunk)
  IN  [buffer |-> push.buffer, closed |-> link.closed \/ push.threw,
       received |-> link.received \o IF push.threw THEN <<>> ELSE push.messages]

\* The stream in chunks that end at the cuts.  read: the bytes delivered so far.
NewLink == [buffer |-> <<>>, closed |-> FALSE, received |-> <<>>]

Deliveries(stream, cuts) ==
  LET after[k \in 0 .. Len(stream)] ==
        IF k = 0 THEN [link |-> NewLink, read |-> 0]
        ELSE IF k \in cuts
        THEN [link |-> Data(after[k - 1].link, SubSeq(stream, after[k - 1].read + 1, k)), read |-> k]
        ELSE after[k - 1]
  IN  after

Delivered(stream, cuts) == Deliveries(stream, cuts)[Len(stream)].link

\* FrameDecoder.finish
Finishes(link) == link.buffer = <<>>

-----------------------------------------------------------------------------
(* server.rs                                                               *)

\* The loop of read_stdin, once round: reads exactly a header, then exactly its payload.
ReadFrame(input) ==
  IF input.end # "none" THEN input
  ELSE IF ~HasHeader(input.stream) THEN [input EXCEPT !.end = "end of stream"]
  ELSE IF TooLarge(input.stream) THEN [input EXCEPT !.end = "too large"]
  ELSE IF Len(input.stream) < HeaderBytes + FrameLength(input.stream) THEN [input EXCEPT !.end = "io"]
  ELSE IF Good(HostDecoder, Payload(input.stream))
       THEN [stream |-> Rest(input.stream), end |-> "none",
             sent |-> Append(input.sent, HostDecoder[Payload(input.stream)])]
       ELSE [input EXCEPT !.end = "invalid"]

\* One round more than there are bytes: each takes a header at least, and the last ends it.
Reads(stream) ==
  LET after[k \in 0 .. Len(stream) + 1] ==
        IF k = 0 THEN [stream |-> stream, sent |-> <<>>, end |-> "none"] ELSE ReadFrame(after[k - 1])
  IN  after

ReadStdin(stream) == Reads(stream)[Len(stream) + 1]

-----------------------------------------------------------------------------
(* Correctness                                                             *)

Streams == BoundedSeq(Bytes, MaxStream)

\* The bytes of the first k frames, for each k.
Encodings(frames) ==
  LET bytes[k \in 0 .. Len(frames)] ==
        IF k = 0 THEN <<>> ELSE bytes[k - 1] \o EncodeFrame(frames[k])
  IN  bytes

Encoded(frames) == Encodings(frames)[Len(frames)]

\* The frames that are whole in a stream, and what is left.
Frames[stream \in Streams] ==
  CHOOSE frames \in BoundedSeq(Payloads, MaxStream \div HeaderBytes) :
    /\ IsPrefix(Encoded(frames), stream)
    /\ \A payload \in Payloads : ~IsPrefix(Encoded(Append(frames, payload)), stream)

LeftOver(stream) == SubSeq(stream, Len(Encoded(Frames[stream])) + 1, Len(stream))
OverLimit(stream) == HasHeader(LeftOver(stream)) /\ TooLarge(LeftOver(stream))

\* The frames at the head that the decoder takes, and whether it fails on the stream.
Sound(decoder, frames) ==
  CHOOSE n \in 0 .. Len(frames) :
    /\ \A k \in 1 .. n : Good(decoder, frames[k])
    /\ n < Len(frames) => ~Good(decoder, frames[n + 1])

SoundFrames(decoder, frames) == SubSeq(frames, 1, Sound(decoder, frames))

Broken(decoder, stream) ==
  Sound(decoder, Frames[stream]) < Len(Frames[stream]) \/ OverLimit(stream)

\* Each message is one of the good frames, each frame is taken once, and in their order.
ArrivedFrom(messages, frames) ==
  \E from \in [DOMAIN messages -> DOMAIN frames] :
    /\ \A k \in DOMAIN messages :
         Good(ClientDecoder, frames[from[k]]) /\ messages[k] = ClientDecoder[frames[from[k]]]
    /\ \A k, l \in DOMAIN messages : k < l => from[k] < from[l]

\* However the bytes of the host are cut into chunks, the client receives exactly the
\* messages sent, in their order, and keeps what belongs to the next one; it closes the link
\* just when a frame is no envelope to it or over the limit, and never receives a message
\* that was not sent, or twice, or out of order.  What comes in chunks of its own before a
\* broken frame is received.  The host, which reads frame by frame, takes every frame before
\* the first that serde_json refuses or that is over the limit, in order, and ends there; a
\* stream that neither side refuses ends cleanly for the one just when it does for the other
\* (framing.ts:14-34, client.ts:49-55, server.rs:146-183).
FramesInOrder ==
  \A stream \in Streams :
    LET frames == Frames[stream]
        single == Delivered(stream, 1 .. Len(stream))
        host   == ReadStdin(stream)
    IN  /\ \A cuts \in SUBSET (1 .. Len(stream)) : Len(stream) \in cuts =>
             LET link == Delivered(stream, cuts)
             IN  /\ link.closed <=> Broken(ClientDecoder, stream)
                 /\ ~Broken(ClientDecoder, stream) =>
                      /\ link.received = Parsed(ClientDecoder, frames)
                      /\ link.buffer = LeftOver(stream)
                 /\ ArrivedFrom(link.received, frames)
        /\ IsPrefix(Parsed(ClientDecoder, SoundFrames(ClientDecoder, frames)), single.received)
        /\ host.sent = Parsed(HostDecoder, SoundFrames(HostDecoder, frames))
        /\ host.end \in {"too large", "invalid"} <=> Broken(HostDecoder, stream)
        /\ ~Broken(ClientDecoder, stream) /\ ~Broken(HostDecoder, stream) =>
             (Finishes(single) <=> (host.end = "end of stream" /\ LeftOver(stream) = <<>>))
=============================================================================
