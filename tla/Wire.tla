--------------------------------- MODULE Wire ---------------------------------
(***************************************************************************)
(* The messages between a master and its replicas, as the bytes that       *)
(* src/src/replica/protocol.h puts on the socket: Message, a header of     *)
(* twelve bytes and a payload, and DataEntity, the payload of INCR_SYNC.   *)
(* A byte is a number below 256.  Nothing on the receiving side tests the  *)
(* magic number, so a receiver takes any bytes for a message.              *)
(***************************************************************************)
EXTENDS Integers, Sequences

(* enum MessageType: what a master sends. *)
INCR_SYNC == 2
ACK       == 4

Magic == <<151, 152>>

Byte == 0 .. 255

(* htonl and htobe64 of the lengths and offsets that occur, below 2^8. *)
Be32(n) == <<0, 0, 0, n % 256>>
Be64(n) == <<0, 0, 0, 0>> \o Be32(n)

(* ntohl and be64toh of the bytes b; Huge stands for every number that no  *)
(* message here is long enough for.                                        *)
Huge == 256
BeToHost(b) ==
  IF \E i \in 1 .. Len(b) - 1 : b[i] # 0 THEN Huge ELSE b[Len(b)]

-----------------------------------------------------------------------------
(* A string of DataEntity::serialize, behind its length. *)
Field(s) == Be32(Len(s)) \o s

(* Mutant: the value before the key. *)
SerializeSwapped(e) ==
  Be64(e.sequence) \o Field(e.cmd) \o Field(e.value) \o Field(e.key)

(* DataEntity::serialize: the sequence number, then three strings. *)
Serialize(e) ==
  Be64(e.sequence) \o Field(e.cmd) \o Field(e.key) \o Field(e.value)

(* One string of DataEntity::deserialize, from offset off of data. *)
NoField == [ok |-> FALSE, text |-> <<>>, end |-> 0]
ReadField(data) ==
  [off \in Nat |->
     LET n == BeToHost(SubSeq(data, off + 1, off + 4))
     IN  IF off + 4 <= Len(data) /\ off + 4 + n <= Len(data)
         THEN [ok |-> TRUE, text |-> SubSeq(data, off + 5, off + 4 + n),
               end |-> off + 4 + n]
         ELSE NoField]

(* DataEntity::deserialize: a string that does not fit ends it, and the    *)
(* strings before it keep what was read.  The caller ignores the result.   *)
Deserialize ==
  [data \in Seq(Byte) |->
     LET c == ReadField(data)[8]
         k == IF c.ok THEN ReadField(data)[c.end] ELSE NoField
         v == IF k.ok THEN ReadField(data)[k.end] ELSE NoField
     IN  [cmd |-> c.text, key |-> k.text, value |-> v.text]]

-----------------------------------------------------------------------------
(* Mutant: the length does not count the payload. *)
PiecesUncounted(type, offset, payload) ==
  <<<<type>>, <<offset % 256>>, Magic, Be64(0)>>
    \o (IF payload = <<>> THEN <<>> ELSE <<payload>>)

(* Message::sendToSocket: one send_all for each of these, in turn.  The    *)
(* offset is cut to a byte.                                                *)
Pieces(type, offset, payload) ==
  <<<<type>>, <<offset % 256>>, Magic, Be64(Len(payload))>>
    \o (IF payload = <<>> THEN <<>> ELSE <<payload>>)

(* fromDataEntity: an INCR_SYNC of the command c, read from offset off. *)
IncrSync(off, c) ==
  Pieces(INCR_SYNC, off,
         Serialize([sequence |-> off, cmd |-> c.cmd, key |-> c.key,
                    value |-> c.value]))

(* What recvFromSocket makes of the bytes s that arrive before the end of  *)
(* the stream.  len announces the length of the payload; resize() throws   *)
(* for one of 2^40 or more.  A return in the middle leaves the fields read *)
(* so far: the default type ACK when not even that was read, and a payload *)
(* of the announced length with zeros where nothing arrived.               *)
PayloadLen(s) == IF Len(s) >= 12 THEN BeToHost(SubSeq(s, 5, 12)) ELSE 0
Complete(s)   == Len(s) >= 12 + PayloadLen(s)
Throws(s)     == Len(s) >= 12 /\ SubSeq(s, 5, 7) # <<0, 0, 0>>
Type(s)       == IF s = <<>> THEN ACK ELSE s[1]
Payload(s)    == [i \in 1 .. PayloadLen(s) |-> IF 12 + i <= Len(s) THEN s[12 + i] ELSE 0]
After(s)      == SubSeq(s, 13 + PayloadLen(s), Len(s))
===============================================================================
