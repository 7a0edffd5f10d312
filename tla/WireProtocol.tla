---------------------------- MODULE WireProtocol ----------------------------
(***************************************************************************)
(* The messages between the clients and the agent (envproxy-proto/src/     *)
(* lib.rs) and how both ends take them from a stream: the agent field by   *)
(* field (server.rs), `envproxy get` with a single read.                   *)
(*                                                                         *)
(* A message is a sequence of octets.  What is in a field does not matter, *)
(* only where it begins and ends; an octet has fewer values than 2^8.      *)
(***************************************************************************)
EXTENDS Naturals, Sequences

CONSTANTS
  Octet,       \* how many values an octet has
  NoMessage,   \* the encoders' None: nothing is sent
  Incomplete,  \* DecodeError::Incomplete, or a read_exact that waits for more
  Invalid      \* DecodeError::InvalidStatus, or an unsupported version

ASSUME WireProtocolAssumption == Octet \in Nat /\ Octet > 3

PROTOCOL_V1 == 1
PROTOCOL_V2 == 2

\* u16::MAX, and with it MAX_KEY_LEN and MAX_VALUE_LEN.
MaxLen == Octet * Octet - 1

\* u16::to_be_bytes and from_be_bytes.
ToBytes(n)     == <<n \div Octet, n % Octet>>
FromBytes(buf) == buf[1] * Octet + buf[2]

\* The n octets of a buffer that follow the first `offset` ones.
Field(buf, offset, n) == SubSeq(buf, offset + 1, offset + n)
Length(buf, offset)   == FromBytes(Field(buf, offset, 2))

-----------------------------------------------------------------------------
(* Requests.  A value of <<>> is none: the agent resolves the key alone.      *)

EncodeRequest(key) ==
  IF Len(key) > MaxLen THEN NoMessage
  ELSE <<PROTOCOL_V1>> \o ToBytes(Len(key)) \o key

\* A mutant: the value's length is cast without being checked.
EncodeRequestV2Cast(key, value) ==
  IF Len(key) > MaxLen THEN NoMessage
  ELSE <<PROTOCOL_V2>> \o ToBytes(Len(key)) \o key
         \o ToBytes(Len(value) % (MaxLen + 1)) \o value

EncodeRequestV2(key, value) ==
  IF Len(key) > MaxLen \/ Len(value) > MaxLen THEN NoMessage
  ELSE <<PROTOCOL_V2>> \o ToBytes(Len(key)) \o key \o ToBytes(Len(value)) \o value

\* libenvproxy and the Python hook: a reference is sent with the key.
NativeRequest(key, value) ==
  IF value = <<>> THEN EncodeRequest(key) ELSE EncodeRequestV2(key, value)

\* The Java hook casts the value's length to a short.
JavaRequest(key, value) ==
  IF Len(key) > MaxLen THEN NoMessage
  ELSE IF value = <<>> THEN EncodeRequest(key)
  ELSE <<PROTOCOL_V2>> \o ToBytes(Len(key)) \o key
         \o ToBytes(Len(value) % (MaxLen + 1)) \o value

Request(key, value) == [key |-> key, value |-> value]

\* A mutant: a value that is not there yet is taken to be empty.
DecodeRequestEager(buf) ==
  LET keyLen == Length(buf, 1)
      valLen == Length(buf, 3 + keyLen)
  IN  IF Len(buf) < 3 \/ Len(buf) < 3 + keyLen THEN Incomplete
      ELSE IF buf[1] = PROTOCOL_V1 \/ Len(buf) < 5 + keyLen
        THEN Request(Field(buf, 3, keyLen), <<>>)
      ELSE IF Len(buf) < 5 + keyLen + valLen THEN Incomplete
      ELSE Request(Field(buf, 3, keyLen), Field(buf, 5 + keyLen, valLen))

\* decode_request: any version but 1 has a value.
DecodeRequest(buf) ==
  LET keyLen == Length(buf, 1)
      valLen == Length(buf, 3 + keyLen)
  IN  IF Len(buf) < 3 \/ Len(buf) < 3 + keyLen THEN Incomplete
      ELSE IF buf[1] = PROTOCOL_V1 THEN Request(Field(buf, 3, keyLen), <<>>)
      ELSE IF Len(buf) < 5 + keyLen \/ Len(buf) < 5 + keyLen + valLen THEN Incomplete
      ELSE Request(Field(buf, 3, keyLen), Field(buf, 5 + keyLen, valLen))

\* handle_connection: one read_exact after the other, the version checked after the
\* first of them.
ReadRequest(stream) ==
  LET keyLen == Length(stream, 1)
      key    == Field(stream, 3, keyLen)
      valLen == Length(stream, 3 + keyLen)
  IN  IF Len(stream) < 3 THEN Incomplete
      ELSE IF stream[1] \notin {PROTOCOL_V1, PROTOCOL_V2} THEN Invalid
      ELSE IF Len(stream) < 3 + keyLen THEN Incomplete
      ELSE IF stream[1] = PROTOCOL_V1 THEN Request(key, <<>>)
      ELSE IF Len(stream) < 5 + keyLen THEN Incomplete
      ELSE IF Len(stream) < 5 + keyLen + valLen THEN Incomplete
      ELSE Request(key, Field(stream, 5 + keyLen, valLen))

-----------------------------------------------------------------------------
(* Responses.                                                                 *)

\* Found, NotFound, Error, Passthrough.
Status == 0..3

EncodeResponse(status, value) ==
  IF Len(value) > MaxLen THEN NoMessage
  ELSE <<status>> \o ToBytes(Len(value)) \o value

Response(status, value) == [status |-> status, value |-> value]

\* A mutant: as much of the value as there is.
DecodeResponseShort(buf) ==
  IF Len(buf) < 3 THEN Incomplete
  ELSE IF buf[1] \notin Status THEN Invalid
  ELSE Response(buf[1], SubSeq(buf, 4, Len(buf)))

DecodeResponse(buf) ==
  IF Len(buf) < 3 THEN Incomplete
  ELSE IF buf[1] \notin Status THEN Invalid
  ELSE IF Len(buf) < 3 + Length(buf, 1) THEN Incomplete
  ELSE Response(buf[1], Field(buf, 3, Length(buf, 1)))

=============================================================================
