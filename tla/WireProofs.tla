------------------------------- MODULE WireProofs -------------------------------
(***************************************************************************)
(* Theorems about the messages of Wire, for every type, offset and payload *)
(* that the module stands for: where a message ends, and that what is read *)
(* back is what was sent.                                                  *)
(***************************************************************************)
EXTENDS Wire, SequenceTheorems, TLAPS

(* The payloads whose length the last byte of the header's length holds. *)
Payloads == {s \in Seq(Byte) : Len(s) < Huge}

(* The strings that fit a payload together with what DataEntity::serialize *)
(* puts around them.                                                       *)
Entities ==
  {e \in [sequence : Nat, cmd : Seq(Byte), key : Seq(Byte), value : Seq(Byte)] :
     20 + Len(e.cmd) + Len(e.key) + Len(e.value) < Huge}

(* The bytes of the first k pieces of a message. *)
Joined2(pc) == pc[1] \o pc[2]
Joined3(pc) == Joined2(pc) \o pc[3]
Joined4(pc) == Joined3(pc) \o pc[4]
Joined5(pc) == Joined4(pc) \o pc[5]
Joined(pc, k) ==
  CASE k = 0 -> <<>>
    [] k = 1 -> pc[1]
    [] k = 2 -> Joined2(pc)
    [] k = 3 -> Joined3(pc)
    [] k = 4 -> Joined4(pc)
    [] k = 5 -> Joined5(pc)

(* pc is a message of the given type and payload, in the pieces in which   *)
(* sendToSocket sends it.                                                  *)
IsPacket(pc, type, payload) ==
  /\ type \in {INCR_SYNC, ACK} /\ payload \in Payloads
  /\ pc \in Seq(Seq(Byte)) /\ Len(pc) = IF payload = <<>> THEN 4 ELSE 5
  /\ pc[1] = <<type>> /\ Len(pc[2]) = 1 /\ pc[3] = Magic
  /\ pc[4] = Be64(Len(payload))
  /\ payload # <<>> => pc[5] = payload

-----------------------------------------------------------------------------
(* Two sequences, one behind the other. *)
LEMMA Concat ==
  ASSUME NEW S, NEW s \in Seq(S), NEW t \in Seq(S)
  PROVE  /\ s \o t \in Seq(S) /\ Len(s \o t) = Len(s) + Len(t)
         /\ Len(s) \in Nat /\ Len(t) \in Nat
         /\ \A i \in 1 .. Len(s) : (s \o t)[i] = s[i]
         /\ \A i \in 1 .. Len(t) : (s \o t)[Len(s) + i] = t[i]
BY ConcatProperties, LenProperties

(* The length and the offset of a header are eight bytes, seven of them 0. *)
LEMMA Be32Bytes ==
  ASSUME NEW n \in Nat
  PROVE  /\ Be32(n) \in Seq(Byte) /\ Len(Be32(n)) = 4
         /\ Be32(n)[1] = 0 /\ Be32(n)[2] = 0 /\ Be32(n)[3] = 0 /\ Be32(n)[4] = n % 256
BY DEF Be32, Byte

(* The same for eight bytes. *)
LEMMA Be64Bytes ==
  ASSUME NEW n \in Nat
  PROVE  /\ Be64(n) \in Seq(Byte) /\ Len(Be64(n)) = 8
         /\ \A i \in 1 .. 7 : Be64(n)[i] = 0
         /\ Be64(n)[8] = n % 256
<1>1. /\ <<0, 0, 0, 0>> \in Seq(Byte) /\ Len(<<0, 0, 0, 0>>) = 4
      /\ \A i \in 1 .. 4 : <<0, 0, 0, 0>>[i] = 0
  BY DEF Byte
<1> DEFINE z == <<0, 0, 0, 0>>
           b == Be32(n)
<1>2. z \in Seq(Byte) /\ Len(z) = 4 /\ \A i \in 1 .. 4 : z[i] = 0
  BY <1>1
<1>3. /\ b \in Seq(Byte) /\ Len(b) = 4
      /\ b[1] = 0 /\ b[2] = 0 /\ b[3] = 0 /\ b[4] = n % 256
  BY Be32Bytes
<1> HIDE DEF z, b
<1> DEFINE w == z \o b
<1>4. /\ w \in Seq(Byte) /\ Len(w) = Len(z) + Len(b)
      /\ \A i \in 1 .. Len(z) : w[i] = z[i]
      /\ \A i \in 1 .. Len(b) : w[Len(z) + i] = b[i]
  <2>1. z \in Seq(Byte) /\ b \in Seq(Byte)
    BY <1>2, <1>3
  <2>2. QED
    BY <2>1, Concat
<1>5. Be64(n) = w
  BY DEF Be64, z, b
<1> HIDE DEF w
<1>6. /\ Len(w) = 8 /\ \A i \in 1 .. 4 : w[i] = z[i]
      /\ \A i \in 1 .. 4 : w[4 + i] = b[i]
  BY <1>2, <1>3, <1>4
<1>7. /\ w[1] = 0 /\ w[2] = 0 /\ w[3] = 0 /\ w[4] = 0
      /\ w[5] = 0 /\ w[6] = 0 /\ w[7] = 0 /\ w[8] = n % 256
  <2>1. 5 = 4 + 1 /\ 6 = 4 + 2 /\ 7 = 4 + 3 /\ 8 = 4 + 4
    OBVIOUS
  <2>2. w[4 + 1] = b[1] /\ w[4 + 2] = b[2] /\ w[4 + 3] = b[3] /\ w[4 + 4] = b[4]
    BY <1>6
  <2>3. QED
    BY <1>2, <1>3, <1>6, <2>1, <2>2
<1>8. \A i \in 1 .. 7 : w[i] = 0
  BY <1>7
<1>9. QED
  BY <1>4, <1>5, <1>6, <1>7, <1>8

(* The pieces of sendToSocket. *)
LEMMA PiecesAre ==
  ASSUME NEW type \in {INCR_SYNC, ACK}, NEW offset \in Nat, NEW payload \in Payloads
  PROVE  IsPacket(Pieces(type, offset, payload), type, payload)
<1> DEFINE a == <<type>>
           b == <<offset % 256>>
           l == Be64(Len(payload))
           h == <<a, b, Magic, l>>
           t == IF payload = <<>> THEN <<>> ELSE <<payload>>
<1>1. /\ a \in Seq(Byte) /\ b \in Seq(Byte) /\ Magic \in Seq(Byte)
      /\ payload \in Seq(Byte) /\ Len(payload) \in Nat
  BY DEF Byte, INCR_SYNC, ACK, Magic, Payloads
<1>2. l \in Seq(Byte)
  BY <1>1, Be64Bytes
<1> HIDE DEF a, b, l
<1>3. h \in Seq(Seq(Byte)) /\ Len(h) = 4 /\ h[1] = a /\ h[2] = b /\ h[3] = Magic /\ h[4] = l
  BY <1>1, <1>2
<1>4. /\ t \in Seq(Seq(Byte)) /\ Len(t) = IF payload = <<>> THEN 0 ELSE 1
      /\ payload # <<>> => t[1] = payload
  BY <1>1
<1> DEFINE w == h \o t
<1>5. /\ Pieces(type, offset, payload) = w
  BY DEF Pieces, a, b, l
<1> HIDE DEF h, t
<1>6. /\ w \in Seq(Seq(Byte)) /\ Len(w) = Len(h) + Len(t)
      /\ \A i \in 1 .. Len(h) : w[i] = h[i]
      /\ \A i \in 1 .. Len(t) : w[Len(h) + i] = t[i]
  <2>1. h \in Seq(Seq(Byte)) /\ t \in Seq(Seq(Byte))
    BY <1>3, <1>4
  <2>2. QED
    BY <2>1, Concat
<1> HIDE DEF w
<1>7. /\ w[1] = a /\ w[2] = b /\ w[3] = Magic /\ w[4] = l
      /\ payload # <<>> => w[5] = payload
      /\ Len(w) = IF payload = <<>> THEN 4 ELSE 5
  BY <1>3, <1>4, <1>6
<1>8. b \in Seq(Byte) /\ Len(b) = 1 /\ a = <<type>> /\ l = Be64(Len(payload))
  BY <1>1 DEF a, b, l
<1>9. IsPacket(w, type, payload)
  BY <1>6, <1>7, <1>8 DEF IsPacket
<1>10. QED
  BY <1>5, <1>9, Zenon

(* What the first k pieces of a message are: the type, behind one more     *)
(* byte the magic number, then the length of the payload, then the payload. *)
LEMMA JoinedAre ==
  ASSUME NEW pc, NEW type, NEW payload, IsPacket(pc, type, payload)
  PROVE  /\ Joined(pc, 0) = <<>>
         /\ Joined(pc, 1) \in Seq(Byte) /\ Joined(pc, 2) \in Seq(Byte)
         /\ Joined(pc, 3) \in Seq(Byte) /\ Joined(pc, 4) \in Seq(Byte)
         /\ Joined(pc, 1)[1] = type /\ Joined(pc, 2)[1] = type
         /\ Joined(pc, 3)[1] = type /\ Joined(pc, 4)[1] = type
         /\ Len(Joined(pc, 1)) = 1 /\ Len(Joined(pc, 2)) = 2
         /\ Len(Joined(pc, 3)) = 4 /\ Len(Joined(pc, 4)) = 12
         /\ Joined(pc, 3)[3] = 151 /\ Joined(pc, 3)[4] = 152
         /\ Joined(pc, 4)[3] = 151 /\ Joined(pc, 4)[4] = 152
         /\ \A i \in 5 .. 11 : Joined(pc, 4)[i] = 0
         /\ Joined(pc, 4)[12] = Len(payload)
<1> DEFINE a == pc[1]
           b == pc[2]
           l == pc[4]
           j2 == Joined2(pc)
           j3 == Joined3(pc)
           j4 == Joined4(pc)
<1>1. pc[3] = Magic /\ type \in {INCR_SYNC, ACK} /\ payload \in Payloads
  BY DEF IsPacket
<1>2. /\ Joined(pc, 0) = <<>> /\ Joined(pc, 1) = a /\ Joined(pc, 2) = j2
      /\ Joined(pc, 3) = j3 /\ Joined(pc, 4) = j4
  BY DEF Joined
<1>3. /\ a \in Seq(Byte) /\ Len(a) = 1 /\ a[1] = type
      /\ b \in Seq(Byte) /\ Len(b) = 1
  <2>1. pc \in Seq(Seq(Byte)) /\ Len(pc) \in 4 .. 5 /\ a = <<type>> /\ Len(b) = 1
    BY DEF IsPacket
  <2>2. a \in Seq(Byte) /\ b \in Seq(Byte)
    <3>1. pc \in Seq(Seq(Byte)) /\ 1 \in 1 .. Len(pc) /\ 2 \in 1 .. Len(pc)
      BY <2>1
    <3>2. QED
      BY <3>1, ElementOfSeq, Zenon
  <2>3. QED
    BY <2>1, <2>2
<1>4. Magic \in Seq(Byte) /\ Len(Magic) = 2 /\ Magic[1] = 151 /\ Magic[2] = 152
  BY DEF Byte, Magic
<1>5. Len(payload) \in Nat /\ Len(payload) % 256 = Len(payload)
  <2>1. Len(payload) \in Nat /\ Len(payload) < 256
    BY <1>1 DEF Payloads, Huge
  <2>2. \A n \in Nat : n < 256 => n % 256 = n
    OBVIOUS
  <2>3. QED
    BY <2>1, <2>2, Zenon
<1>6. /\ l \in Seq(Byte) /\ Len(l) = 8 /\ \A i \in 1 .. 7 : l[i] = 0
      /\ l[8] = Len(payload)
  <2>1. l = Be64(Len(payload))
    BY DEF IsPacket
  <2>2. PICK n \in Nat : n = Len(payload) /\ n % 256 = n
    BY <1>5
  <2>3. l = Be64(n)
    BY <2>1, <2>2
  <2>4. /\ Be64(n) \in Seq(Byte) /\ Len(Be64(n)) = 8 /\ \A i \in 1 .. 7 : Be64(n)[i] = 0
        /\ Be64(n)[8] = n % 256
    BY Be64Bytes, Zenon
  <2>5. QED
    BY <2>2, <2>3, <2>4
<1> HIDE DEF a, b, l
<1>7. /\ j2 \in Seq(Byte) /\ Len(j2) = Len(a) + Len(b)
      /\ \A i \in 1 .. Len(a) : j2[i] = a[i]
  <2>1. a \in Seq(Byte) /\ b \in Seq(Byte)
    BY <1>3
  <2>2. j2 = a \o b
    BY DEF Joined2, a, b
  <2>3. QED
    BY <2>1, <2>2, Concat
<1> HIDE DEF j2
<1>8. /\ j3 \in Seq(Byte) /\ Len(j3) = Len(j2) + Len(Magic)
      /\ \A i \in 1 .. Len(j2) : j3[i] = j2[i]
      /\ \A i \in 1 .. Len(Magic) : j3[Len(j2) + i] = Magic[i]
  <2>1. j2 \in Seq(Byte) /\ Magic \in Seq(Byte)
    BY <1>4, <1>7
  <2>2. j3 = j2 \o Magic
    BY <1>1 DEF Joined3, j2
  <2>3. QED
    BY <2>1, <2>2, Concat
<1> HIDE DEF j3
<1>9. /\ j4 \in Seq(Byte) /\ Len(j4) = Len(j3) + Len(l)
      /\ \A i \in 1 .. Len(j3) : j4[i] = j3[i]
      /\ \A i \in 1 .. Len(l) : j4[Len(j3) + i] = l[i]
  <2>1. j3 \in Seq(Byte) /\ l \in Seq(Byte)
    BY <1>6, <1>8
  <2>2. j4 = j3 \o l
    BY DEF Joined4, j3, l
  <2>3. QED
    BY <2>1, <2>2, Concat
<1> HIDE DEF j4
<1>10. Len(j2) = 2 /\ j2[1] = type
  BY <1>3, <1>7
<1>11. Len(j3) = 4 /\ j3[1] = type /\ j3[3] = 151 /\ j3[4] = 152
  BY <1>4, <1>8, <1>10
<1>12. Len(j4) = 12 /\ j4[1] = type /\ j4[3] = 151 /\ j4[4] = 152 /\ j4[12] = Len(payload)
  BY <1>6, <1>9, <1>11
<1>13. ASSUME NEW i \in 5 .. 11 PROVE j4[i] = 0
  <2>1. i - 4 \in 1 .. 7 /\ i - 4 \in 1 .. Len(l) /\ 4 + (i - 4) = i
    BY <1>6
  <2>2. j4[4 + (i - 4)] = l[i - 4]
    BY <1>9, <1>11, <2>1
  <2>3. QED
    BY <1>6, <2>1, <2>2
<1>14. /\ Joined(pc, 1) \in Seq(Byte) /\ Joined(pc, 2) \in Seq(Byte)
       /\ Joined(pc, 3) \in Seq(Byte) /\ Joined(pc, 4) \in Seq(Byte)
       /\ Joined(pc, 1)[1] = type /\ Joined(pc, 2)[1] = type
       /\ Joined(pc, 3)[1] = type /\ Joined(pc, 4)[1] = type
       /\ Joined(pc, 3)[3] = 151 /\ Joined(pc, 3)[4] = 152
       /\ Joined(pc, 4)[3] = 151 /\ Joined(pc, 4)[4] = 152
  BY <1>2, <1>3, <1>7, <1>8, <1>9, <1>10, <1>11, <1>12, Zenon
<1>15. /\ Len(Joined(pc, 1)) = 1 /\ Len(Joined(pc, 2)) = 2
       /\ Len(Joined(pc, 3)) = 4 /\ Len(Joined(pc, 4)) = 12
       /\ Joined(pc, 4)[12] = Len(payload) /\ Joined(pc, 0) = <<>>
       /\ \A i \in 5 .. 11 : Joined(pc, 4)[i] = 0
  BY <1>2, <1>3, <1>10, <1>11, <1>12, <1>13, Zenon
<1>16. QED
  BY <1>14, <1>15, Zenon

-----------------------------------------------------------------------------
(* The length that recvFromSocket reads out of a header whose length bytes *)
(* but the last are 0; resize() does not throw for it.                     *)
LEMMA SmallLength ==
  ASSUME NEW s \in Seq(Byte), Len(s) >= 12, \A i \in 5 .. 11 : s[i] = 0
  PROVE  PayloadLen(s) = s[12] /\ s[12] \in Nat /\ ~Throws(s)
<1> DEFINE u == SubSeq(s, 5, 12)
           v == SubSeq(s, 5, 7)
<1>1. Len(s) \in Nat /\ s[12] \in Nat
  <2>1. Len(s) \in Nat
    OBVIOUS
  <2>2. 12 \in 1 .. Len(s)
    BY <2>1
  <2>3. s[12] \in Byte
    BY <2>2, ElementOfSeq
  <2>4. \A b \in Byte : b \in Nat
    BY DEF Byte
  <2>5. QED
    BY <2>1, <2>3, <2>4, Zenon
<1>2. u \in Seq(Byte) /\ Len(u) = 8 /\ \A i \in 1 .. 8 : u[i] = s[4 + i]
  BY <1>1
<1>3. v \in Seq(Byte) /\ Len(v) = 3 /\ \A i \in 1 .. 3 : v[i] = s[4 + i]
  BY <1>1
<1> HIDE DEF u, v
<1>4. \A i \in 1 .. 7 : u[i] = 0
  <2> SUFFICES ASSUME NEW i \in 1 .. 7 PROVE u[i] = 0
    OBVIOUS
  <2>1. 4 + i \in 5 .. 11 /\ i \in 1 .. 8
    OBVIOUS
  <2>2. QED
    BY <1>2, <2>1
<1>5. u[8] = s[12] /\ Len(u) - 1 = 7
  BY <1>2
<1>6. BeToHost(u) = s[12]
  BY <1>2, <1>4, <1>5 DEF BeToHost
<1>7. PayloadLen(s) = s[12]
  BY <1>1, <1>6 DEF PayloadLen, u
<1>8. v[1] = 0 /\ v[2] = 0 /\ v[3] = 0
  <2>1. v[1] = s[5] /\ v[2] = s[6] /\ v[3] = s[7]
    BY <1>3
  <2>2. QED
    BY <2>1
<1>9. v = <<0, 0, 0>>
  BY <1>3, <1>8
<1>10. ~Throws(s)
  BY <1>9 DEF Throws, v
<1>11. QED
  BY <1>1, <1>7, <1>10

(* The last piece, if there is a payload. *)
LEMMA JoinedPayload ==
  ASSUME NEW pc, NEW type, NEW payload, IsPacket(pc, type, payload), payload # <<>>
  PROVE  /\ Joined(pc, 5) \in Seq(Byte) /\ Len(Joined(pc, 5)) = 12 + Len(payload)
         /\ \A i \in 1 .. 12 : Joined(pc, 5)[i] = Joined(pc, 4)[i]
         /\ \A i \in 1 .. Len(payload) : Joined(pc, 5)[12 + i] = payload[i]
<1> DEFINE s == Joined(pc, 4)
           w == Joined(pc, 5)
<1>1. s \in Seq(Byte) /\ Len(s) = 12
  BY JoinedAre
<1>2. pc[5] = payload /\ payload \in Seq(Byte)
  BY DEF IsPacket, Payloads
<1>3. s = Joined4(pc) /\ w = Joined5(pc)
  BY DEF Joined
<1>4. w = s \o payload
  BY <1>2, <1>3 DEF Joined5
<1> HIDE DEF s, w
<1>5. /\ w \in Seq(Byte) /\ Len(w) = Len(s) + Len(payload)
      /\ \A i \in 1 .. Len(s) : w[i] = s[i]
      /\ \A i \in 1 .. Len(payload) : w[Len(s) + i] = payload[i]
  <2>1. s \in Seq(Byte) /\ payload \in Seq(Byte)
    BY <1>1, <1>2
  <2>2. QED
    BY <1>4, <2>1, Concat
<1>6. QED
  BY <1>1, <1>5 DEF s, w

(* recvFromSocket finds the type and the magic number in their places and  *)
(* misreads no length.                                                     *)
Begun(s, type) ==
  /\ s \in Seq(Byte)
  /\ s # <<>> => s[1] = type
  /\ Len(s) >= 4 => s[3] = 151 /\ s[4] = 152
  /\ ~Throws(s)

(* recvFromSocket finds a complete message with this payload. *)
Whole(s, payload) ==
  /\ Complete(s) /\ PayloadLen(s) = Len(payload)
  /\ Len(s) = 12 + Len(payload)
  /\ \A i \in 1 .. Len(payload) : s[12 + i] = payload[i]

(* Before the length is read. *)
LEMMA BegunEarly ==
  ASSUME NEW s \in Seq(Byte), NEW type, NEW n \in {0, 1, 2, 4}, Len(s) = n,
         s # <<>> => s[1] = type, n = 4 => s[3] = 151 /\ s[4] = 152
  PROVE  Begun(s, type) /\ ~Complete(s)
<1>1. ~(n >= 12) /\ (n >= 4 => n = 4) /\ ~(n >= 12 + 0)
  OBVIOUS
<1>2. ~(Len(s) >= 12) /\ (Len(s) >= 4 => n = 4) /\ ~(Len(s) >= 12 + 0)
  BY <1>1, Zenon
<1>3. PayloadLen(s) = 0 /\ ~Throws(s)
  BY <1>2, Zenon DEF Throws, PayloadLen
<1>4. ~Complete(s)
  BY <1>2, <1>3, Zenon DEF Complete
<1>5. QED
  BY <1>2, <1>3, <1>4, Zenon DEF Begun

(* A header with a small length. *)
Header(s, type, n) ==
  /\ s \in Seq(Byte) /\ Len(s) >= 12 /\ s[1] = type /\ s[3] = 151 /\ s[4] = 152
  /\ s[12] = n /\ \A i \in 5 .. 11 : s[i] = 0

(* Behind the length. *)
LEMMA BegunLate ==
  ASSUME NEW s, NEW type, NEW n, Header(s, type, n)
  PROVE  Begun(s, type) /\ PayloadLen(s) = n
BY SmallLength DEF Begun, Header

(* A message of which k pieces have arrived: it is complete with its last  *)
(* piece only.                                                             *)
LEMMA Arrived ==
  ASSUME NEW pc, NEW type, NEW payload, IsPacket(pc, type, payload),
         NEW k \in 0 .. Len(pc)
  PROVE  /\ Begun(Joined(pc, k), type)
         /\ k = Len(pc) => Whole(Joined(pc, k), payload)
         /\ k # Len(pc) => ~Complete(Joined(pc, k))
<1>1. /\ Len(pc) = IF payload = <<>> THEN 4 ELSE 5
      /\ payload \in Seq(Byte)
  BY DEF IsPacket, Payloads
<1>2. /\ Len(payload) \in Nat /\ (payload # <<>> => Len(payload) > 0)
      /\ (payload = <<>> => Len(payload) = 0)
  BY <1>1, EmptySeq, LenProperties
<1>3. k = 0 \/ k = 1 \/ k = 2 \/ k = 3 \/ k = 4 \/ (k = 5 /\ payload # <<>>)
  BY <1>1
<1>4. 0 # Len(pc) /\ 1 # Len(pc) /\ 2 # Len(pc) /\ 3 # Len(pc)
  BY <1>1
<1>5. CASE k = 0
  <2>1. Joined(pc, 0) = <<>> /\ <<>> \in Seq(Byte) /\ Len(<<>>) = 0
    BY JoinedAre
  <2>2. 0 \in {0, 1, 2, 4} /\ 0 # 4
    OBVIOUS
  <2>3. QED
    BY <1>4, <1>5, <2>1, <2>2, BegunEarly, Zenon
<1>6. CASE k = 1
  <2>1. Joined(pc, 1) \in Seq(Byte) /\ Len(Joined(pc, 1)) = 1 /\ Joined(pc, 1)[1] = type
    BY JoinedAre
  <2>2. 1 \in {0, 1, 2, 4} /\ 1 # 4
    OBVIOUS
  <2>3. QED
    BY <1>4, <1>6, <2>1, <2>2, BegunEarly, Zenon
<1>7. CASE k = 2
  <2>1. Joined(pc, 2) \in Seq(Byte) /\ Len(Joined(pc, 2)) = 2 /\ Joined(pc, 2)[1] = type
    BY JoinedAre
  <2>2. 2 \in {0, 1, 2, 4} /\ 2 # 4
    OBVIOUS
  <2>3. QED
    BY <1>4, <1>7, <2>1, <2>2, BegunEarly, Zenon
<1>8. CASE k = 3
  <2>1. /\ Joined(pc, 3) \in Seq(Byte) /\ Len(Joined(pc, 3)) = 4 /\ Joined(pc, 3)[1] = type
        /\ Joined(pc, 3)[3] = 151 /\ Joined(pc, 3)[4] = 152
    BY JoinedAre
  <2>2. 4 \in {0, 1, 2, 4}
    OBVIOUS
  <2>3. QED
    BY <1>4, <1>8, <2>1, <2>2, BegunEarly, Zenon
<1>9. /\ Joined(pc, 4) \in Seq(Byte) /\ Len(Joined(pc, 4)) = 12 /\ Joined(pc, 4)[1] = type
      /\ Joined(pc, 4)[3] = 151 /\ Joined(pc, 4)[4] = 152
      /\ \A i \in 5 .. 11 : Joined(pc, 4)[i] = 0
      /\ Joined(pc, 4)[12] = Len(payload)
  BY JoinedAre
<1>10. CASE k = 4
  <2> DEFINE s == Joined(pc, 4)
  <2>1. s \in Seq(Byte) /\ Len(s) = 12 /\ 12 >= 12 /\ s[12] = Len(payload)
    BY <1>9
  <2>2. Begun(s, type) /\ PayloadLen(s) = Len(payload)
    <3>1. Header(s, type, Len(payload))
      BY <1>9, <2>1, Zenon DEF Header
    <3>2. QED
      BY <3>1, BegunLate, Zenon
  <2> HIDE DEF s
  <2>3. PICK n \in Nat : n = Len(payload)
    BY <1>2
  <2>4. Complete(s) <=> n = 0
    <3>1. Complete(s) <=> 12 >= 12 + n
      BY <2>1, <2>2, <2>3, Zenon DEF Complete
    <3>2. QED
      BY <3>1
  <2>5. 4 = Len(pc) <=> n = 0
    BY <1>1, <1>2, <2>3
  <2>6. n = 0 => Whole(s, payload)
    <3>1. n = 0 => 12 = 12 + n /\ 1 .. n = {}
      OBVIOUS
    <3>2. QED
      BY <2>1, <2>2, <2>3, <2>4, <3>1, Zenon DEF Whole
  <2>7. QED
    BY <1>10, <2>2, <2>4, <2>5, <2>6, Zenon DEF s
<1>11. CASE k = 5 /\ payload # <<>>
  <2> DEFINE s == Joined(pc, 5)
  <2>1. /\ s \in Seq(Byte) /\ Len(s) = 12 + Len(payload)
        /\ \A i \in 1 .. 12 : s[i] = Joined(pc, 4)[i]
        /\ \A i \in 1 .. Len(payload) : s[12 + i] = payload[i]
    BY <1>11, JoinedPayload
  <2> HIDE DEF s
  <2>2. /\ s[1] = type /\ s[3] = 151 /\ s[4] = 152 /\ s[12] = Len(payload)
        /\ \A i \in 5 .. 11 : s[i] = 0
    BY <1>9, <2>1
  <2>3. PICK n \in Nat : n = Len(payload)
    BY <1>2
  <2>4. 12 + n >= 12 /\ 12 + n >= 12 + n
    OBVIOUS
  <2>5. Begun(s, type) /\ PayloadLen(s) = Len(payload)
    <3>1. Header(s, type, Len(payload))
      BY <2>1, <2>2, <2>3, <2>4, Zenon DEF Header
    <3>2. QED
      BY <3>1, BegunLate, Zenon
  <2>6. Complete(s)
    BY <2>1, <2>3, <2>4, <2>5, Zenon DEF Complete
  <2>7. Whole(s, payload)
    BY <2>1, <2>5, <2>6, Zenon DEF Whole
  <2>8. k = Len(pc)
    BY <1>1, <1>11
  <2>9. QED
    BY <1>11, <2>5, <2>7, <2>8, Zenon DEF s
<1>12. QED
  BY <1>3, <1>5, <1>6, <1>7, <1>8, <1>10, <1>11, Zenon

(* One more piece of a message behind those that are there. *)
LEMMA JoinedNext ==
  ASSUME NEW pc, NEW type, NEW payload, IsPacket(pc, type, payload),
         NEW k \in 0 .. Len(pc) - 1
  PROVE  /\ k + 1 \in 1 .. Len(pc) /\ pc[k + 1] \in Seq(Byte)
         /\ Joined(pc, k + 1) = Joined(pc, k) \o pc[k + 1]
<1>1. pc \in Seq(Seq(Byte)) /\ Len(pc) \in 4 .. 5
  BY DEF IsPacket
<1>2. k + 1 \in 1 .. Len(pc)
  BY <1>1
<1>3. pc[k + 1] \in Seq(Byte)
  BY <1>1, <1>2, ElementOfSeq
<1>4. k = 0 \/ k = 1 \/ k = 2 \/ k = 3 \/ k = 4
  <2>1. PICK n \in 4 .. 5 : n = Len(pc)
    BY <1>1
  <2>2. k \in 0 .. n - 1
    BY <2>1
  <2>3. QED
    BY <2>2
<1>5. CASE k = 0
  <2>1. k + 1 = 1 /\ pc[1] \in Seq(Byte)
    BY <1>3, <1>5
  <2>2. Joined(pc, 0) = <<>> /\ Joined(pc, 1) = pc[1]
    BY DEF Joined
  <2>3. pc[1] = <<>> \o pc[1]
    BY <2>1, ConcatEmptySeq
  <2>4. QED
    BY <1>2, <1>3, <1>5, <2>1, <2>2, <2>3, Zenon
<1>6. CASE k = 1
  <2>1. k + 1 = 2
    BY <1>6
  <2>2. Joined(pc, 1) = pc[1] /\ Joined(pc, 2) = Joined2(pc)
    BY DEF Joined
  <2>3. QED
    BY <1>2, <1>3, <1>6, <2>1, <2>2, Zenon DEF Joined2
<1>7. CASE k = 2
  <2>1. k + 1 = 3
    BY <1>7
  <2>2. Joined(pc, 2) = Joined2(pc) /\ Joined(pc, 3) = Joined3(pc)
    BY DEF Joined
  <2>3. QED
    BY <1>2, <1>3, <1>7, <2>1, <2>2, Zenon DEF Joined3
<1>8. CASE k = 3
  <2>1. k + 1 = 4
    BY <1>8
  <2>2. Joined(pc, 3) = Joined3(pc) /\ Joined(pc, 4) = Joined4(pc)
    BY DEF Joined
  <2>3. QED
    BY <1>2, <1>3, <1>8, <2>1, <2>2, Zenon DEF Joined4
<1>9. CASE k = 4
  <2>1. k + 1 = 5
    BY <1>9
  <2>2. Joined(pc, 4) = Joined4(pc) /\ Joined(pc, 5) = Joined5(pc)
    BY DEF Joined
  <2>3. QED
    BY <1>2, <1>3, <1>9, <2>1, <2>2, Zenon DEF Joined5
<1>10. QED
  BY <1>4, <1>5, <1>6, <1>7, <1>8, <1>9, Zenon

(* Of a complete message recvFromSocket takes all there is, and its        *)
(* payload is the one that was sent.                                       *)
LEMMA WholeTaken ==
  ASSUME NEW s \in Seq(Byte), NEW payload \in Seq(Byte), Whole(s, payload)
  PROVE  After(s) = <<>> /\ Payload(s) = payload
<1>1. PICK n \in Nat : n = Len(payload)
  OBVIOUS
<1>2. /\ PayloadLen(s) = n /\ Len(s) = 12 + n
      /\ \A i \in 1 .. n : s[12 + i] = payload[i]
  BY <1>1 DEF Whole
<1>3. After(s) = <<>>
  <2>1. SubSeq(s, 13 + n, 12 + n) = <<>>
    <3>1. 13 + n \in Int /\ 12 + n \in Int /\ 12 + n < 13 + n
      OBVIOUS
    <3>2. QED
      BY <3>1, SubSeqEmpty
  <2>2. QED
    BY <1>2, <2>1, Zenon DEF After
<1>4. Payload(s) = payload
  <2>1. payload = [i \in 1 .. n |-> payload[i]]
    <3>1. payload \in [1 .. Len(payload) -> Byte]
      BY LenProperties
    <3>2. payload \in [1 .. n -> Byte]
      BY <1>1, <3>1, Zenon
    <3>3. QED
      BY <3>2
  <2>2. \A i \in 1 .. n : 12 + i <= 12 + n
    OBVIOUS
  <2>3. [i \in 1 .. n |-> IF 12 + i <= 12 + n THEN s[12 + i] ELSE 0]
          = [i \in 1 .. n |-> payload[i]]
    BY <1>2, <2>2, Zenon
  <2>4. Payload(s) = [i \in 1 .. n |-> IF 12 + i <= 12 + n THEN s[12 + i] ELSE 0]
    BY <1>2, Zenon DEF Payload
  <2>5. QED
    BY <2>1, <2>3, <2>4, Zenon
<1>5. QED
  BY <1>3, <1>4

-----------------------------------------------------------------------------
(* DataEntity.  A string behind its length. *)
LEMMA FieldIs ==
  ASSUME NEW f \in Seq(Byte)
  PROVE  /\ Field(f) \in Seq(Byte) /\ Len(Field(f)) = 4 + Len(f)
         /\ \A i \in 1 .. 4 : Field(f)[i] = Be32(Len(f))[i]
         /\ \A i \in 1 .. Len(f) : Field(f)[4 + i] = f[i]
<1> DEFINE b == Be32(Len(f))
           w == Field(f)
<1>1. Len(f) \in Nat
  OBVIOUS
<1>2. b \in Seq(Byte) /\ Len(b) = 4
  BY <1>1, Be32Bytes, Zenon
<1>3. w = b \o f
  BY DEF Field
<1> HIDE DEF b, w
<1>4. /\ w \in Seq(Byte) /\ Len(w) = Len(b) + Len(f)
      /\ \A i \in 1 .. Len(b) : w[i] = b[i]
      /\ \A i \in 1 .. Len(f) : w[Len(b) + i] = f[i]
  <2>1. b \in Seq(Byte)
    BY <1>2
  <2>2. QED
    BY <1>3, <2>1, Concat
<1>5. QED
  BY <1>2, <1>4, Zenon DEF b, w

(* The string f, with its length, is in data behind the first off bytes. *)
Holds(data, off, f) ==
  /\ off + Len(Field(f)) <= Len(data)
  /\ \A i \in 1 .. Len(Field(f)) : data[off + i] = Field(f)[i]

(* The length that is read is the length that was written. *)
LEMMA LengthRead ==
  ASSUME NEW data \in Seq(Byte), NEW off \in Nat, NEW n \in 0 .. 255,
         off + 4 <= Len(data), \A i \in 1 .. 4 : data[off + i] = Be32(n)[i]
  PROVE  BeToHost(SubSeq(data, off + 1, off + 4)) = n
<1> DEFINE u == SubSeq(data, off + 1, off + 4)
<1>1. u \in Seq(Byte) /\ Len(u) = 4 /\ \A i \in 1 .. 4 : u[i] = data[off + i]
  <2>1. Len(data) \in Nat
    OBVIOUS
  <2>2. \A i \in off + 1 .. off + 4 : data[i] \in Byte
    BY <2>1, ElementOfSeq
  <2>3. off + 1 \in Int /\ off + 4 \in Int
    OBVIOUS
  <2>4. /\ u \in Seq(Byte)
        /\ Len(u) = IF off + 1 <= off + 4 THEN (off + 4) - (off + 1) + 1 ELSE 0
        /\ \A i \in 1 .. (off + 4) - (off + 1) + 1 : u[i] = data[(off + 1) + i - 1]
    BY <2>2, <2>3, SubSeqProperties
  <2> HIDE DEF u
  <2>5. Len(u) = 4 /\ (off + 4) - (off + 1) + 1 = 4
    BY <2>4
  <2>6. \A i \in 1 .. 4 : (off + 1) + i - 1 = off + i
    OBVIOUS
  <2>7. QED
    BY <2>4, <2>5, <2>6
<1>2. Be32(n)[1] = 0 /\ Be32(n)[2] = 0 /\ Be32(n)[3] = 0 /\ Be32(n)[4] = n
  <2>1. n \in Nat /\ n % 256 = n
    OBVIOUS
  <2>2. QED
    BY <2>1, Be32Bytes, Zenon
<1> HIDE DEF u
<1>3. u[1] = 0 /\ u[2] = 0 /\ u[3] = 0 /\ u[4] = n
  BY <1>1, <1>2
<1>4. ~\E i \in 1 .. Len(u) - 1 : u[i] # 0
  <2>1. Len(u) - 1 = 3
    BY <1>1
  <2>2. \A i \in 1 .. 3 : u[i] = 0
    BY <1>3
  <2>3. QED
    BY <2>1, <2>2, Zenon
<1>5. u[Len(u)] = n
  BY <1>1, <1>3
<1>6. BeToHost(u) = n
  BY <1>4, <1>5, Zenon DEF BeToHost
<1>7. QED
  BY <1>6 DEF u

(* Reading a string where one was put gives that string and the place      *)
(* behind it.                                                              *)
LEMMA ReadHeld ==
  ASSUME NEW data \in Seq(Byte), NEW off \in Nat, NEW f \in Seq(Byte), Len(f) < Huge,
         Holds(data, off, f)
  PROVE  ReadField(data)[off] = [ok |-> TRUE, text |-> f, end |-> off + 4 + Len(f)]
<1>1. PICK n \in Nat : n = Len(f)
  OBVIOUS
<1>2. PICK m \in Nat : m = Len(data)
  OBVIOUS
<1>3. n \in 0 .. 255
  <2>1. n < 256
    BY <1>1, Zenon DEF Huge
  <2>2. QED
    BY <2>1
<1>4. /\ Len(Field(f)) = 4 + n
      /\ \A i \in 1 .. 4 : Field(f)[i] = Be32(n)[i]
      /\ \A i \in 1 .. n : Field(f)[4 + i] = f[i]
  BY <1>1, FieldIs
<1>5. /\ off + (4 + n) <= m
      /\ \A i \in 1 .. 4 + n : data[off + i] = Field(f)[i]
  BY <1>2, <1>4, Zenon DEF Holds
<1>6. /\ off + 4 <= m /\ off + 4 + n <= m
      /\ \A i \in 1 .. 4 : i \in 1 .. 4 + n
      /\ \A i \in 1 .. n : 4 + i \in 1 .. 4 + n
      /\ \A i \in 1 .. n : off + (4 + i) = off + 5 + i - 1
  BY <1>5
<1>7. \A i \in 1 .. 4 : data[off + i] = Be32(n)[i]
  BY <1>4, <1>5, <1>6, Zenon
<1>8. BeToHost(SubSeq(data, off + 1, off + 4)) = n
  BY <1>2, <1>3, <1>6, <1>7, LengthRead
<1>9. \A i \in 1 .. n : data[off + 5 + i - 1] = f[i]
  BY <1>4, <1>5, <1>6, Zenon
<1>10. SubSeq(data, off + 5, off + 4 + n) = f
  <2> DEFINE u == SubSeq(data, off + 5, off + 4 + n)
  <2>1. off + 5 \in Int /\ off + 4 + n \in Int
    OBVIOUS
  <2>2. \A i \in off + 5 .. off + 4 + n : data[i] \in Byte
    <3>1. \A i \in off + 5 .. off + 4 + n : i \in 1 .. m
      BY <1>6
    <3>2. QED
      BY <1>2, <3>1, ElementOfSeq
  <2>3. /\ u \in Seq(Byte)
        /\ Len(u) = IF off + 5 <= off + 4 + n THEN off + 4 + n - (off + 5) + 1 ELSE 0
        /\ \A i \in 1 .. off + 4 + n - (off + 5) + 1 : u[i] = data[off + 5 + i - 1]
    BY <2>1, <2>2, SubSeqProperties
  <2> HIDE DEF u
  <2>4. Len(u) = n /\ off + 4 + n - (off + 5) + 1 = n
    BY <2>3
  <2>5. \A i \in 1 .. n : u[i] = f[i]
    BY <1>9, <2>3, <2>4, Zenon
  <2>6. u = f
    BY <1>1, <2>3, <2>4, <2>5, SeqEqual
  <2>7. QED
    BY <2>6 DEF u
<1>11. /\ off + 4 <= Len(data)
       /\ off + 4 + BeToHost(SubSeq(data, off + 1, off + 4)) <= Len(data)
  BY <1>2, <1>6, <1>8, Zenon
<1>12. QED
  BY <1>1, <1>8, <1>10, <1>11, Zenon DEF ReadField

(* A string put behind the bytes s is there, ... *)
LEMMA HoldsBehind ==
  ASSUME NEW s \in Seq(Byte), NEW f \in Seq(Byte)
  PROVE  /\ s \o Field(f) \in Seq(Byte) /\ Holds(s \o Field(f), Len(s), f)
         /\ Len(s \o Field(f)) = Len(s) + (4 + Len(f))
<1> DEFINE t == Field(f)
           w == s \o t
<1>1. t \in Seq(Byte) /\ Len(t) = 4 + Len(f)
  BY FieldIs
<1> HIDE DEF t
<1>2. /\ w \in Seq(Byte) /\ Len(w) = Len(s) + Len(t) /\ Len(w) \in Nat
      /\ \A i \in 1 .. Len(t) : w[Len(s) + i] = t[i]
  <2>1. t \in Seq(Byte)
    BY <1>1
  <2>2. QED
    BY <2>1, Concat
<1> HIDE DEF w
<1>3. Len(s) + Len(t) <= Len(w)
  BY <1>2
<1>4. Holds(w, Len(s), f)
  BY <1>2, <1>3, Zenon DEF Holds, t
<1>5. QED
  BY <1>1, <1>2, <1>4, Zenon DEF t, w

(* ... and stays there when more follows. *)
LEMMA HoldsLonger ==
  ASSUME NEW s \in Seq(Byte), NEW t \in Seq(Byte), NEW off \in Nat, NEW f \in Seq(Byte),
         Holds(s, off, f)
  PROVE  Holds(s \o t, off, f)
<1> DEFINE w == s \o t
<1>1. /\ Len(w) = Len(s) + Len(t) /\ Len(s) \in Nat /\ Len(t) \in Nat
      /\ \A i \in 1 .. Len(s) : w[i] = s[i]
  BY Concat
<1> HIDE DEF w
<1>2. PICK n \in Nat : n = Len(Field(f))
  BY FieldIs
<1>3. off + n <= Len(s) /\ \A i \in 1 .. n : s[off + i] = Field(f)[i]
  BY <1>2, Zenon DEF Holds
<1>4. off + n <= Len(w) /\ \A i \in 1 .. n : off + i \in 1 .. Len(s)
  BY <1>1, <1>3
<1>5. \A i \in 1 .. n : w[off + i] = Field(f)[i]
  BY <1>1, <1>3, <1>4, Zenon
<1>6. Holds(w, off, f)
  BY <1>2, <1>4, <1>5, Zenon DEF Holds
<1>7. QED
  BY <1>6 DEF w

(* DataEntity::deserialize reads the three strings that                    *)
(* DataEntity::serialize wrote, whatever they hold, lengths and zeros in   *)
(* them included, for every entity that fits into a message.               *)
THEOREM RoundTrip ==
  \A e \in Entities :
    /\ Serialize(e) \in Payloads
    /\ Deserialize[Serialize(e)] = [cmd |-> e.cmd, key |-> e.key, value |-> e.value]
<1> SUFFICES ASSUME NEW e \in Entities
             PROVE  /\ Serialize(e) \in Payloads
                    /\ Deserialize[Serialize(e)] =
                         [cmd |-> e.cmd, key |-> e.key, value |-> e.value]
  OBVIOUS
<1> DEFINE d0 == Be64(e.sequence)
           d1 == d0 \o Field(e.cmd)
           d2 == d1 \o Field(e.key)
           d3 == d2 \o Field(e.value)
<1>1. /\ e.sequence \in Nat /\ e.cmd \in Seq(Byte) /\ e.key \in Seq(Byte)
      /\ e.value \in Seq(Byte)
      /\ 20 + Len(e.cmd) + Len(e.key) + Len(e.value) < Huge
  BY DEF Entities
<1>2. PICK nc \in Nat, nk \in Nat, nv \in Nat :
        nc = Len(e.cmd) /\ nk = Len(e.key) /\ nv = Len(e.value)
  BY <1>1
<1>3. 20 + nc + nk + nv < 256
  BY <1>1, <1>2, Zenon DEF Huge
<1>4. /\ nc < 256 /\ nk < 256 /\ nv < 256
      /\ 8 + (4 + nc) = 8 + 4 + nc
      /\ 8 + 4 + nc + (4 + nk) = 8 + 4 + nc + 4 + nk
      /\ 8 + 4 + nc + 4 + nk + (4 + nv) < 256
      /\ 8 + 4 + nc \in Nat /\ 8 + 4 + nc + 4 + nk \in Nat
  BY <1>3
<1>5. Len(e.cmd) < Huge /\ Len(e.key) < Huge /\ Len(e.value) < Huge
  BY <1>2, <1>4, Zenon DEF Huge
<1>6. d0 \in Seq(Byte) /\ Len(d0) = 8
  BY <1>1, Be64Bytes, Zenon
<1> HIDE DEF d0
<1>7. d1 \in Seq(Byte) /\ Holds(d1, 8, e.cmd) /\ Len(d1) = 8 + 4 + nc
  BY <1>1, <1>2, <1>4, <1>6, HoldsBehind, Zenon
<1> HIDE DEF d1
<1>8. /\ d2 \in Seq(Byte) /\ Holds(d2, 8 + 4 + nc, e.key)
      /\ Len(d2) = 8 + 4 + nc + 4 + nk
  BY <1>1, <1>2, <1>4, <1>7, HoldsBehind, Zenon
<1>9. Holds(d2, 8, e.cmd)
  <2>1. Field(e.key) \in Seq(Byte) /\ 8 \in Nat
    BY <1>1, FieldIs
  <2>2. QED
    BY <1>1, <1>7, <2>1, HoldsLonger, Zenon
<1> HIDE DEF d2
<1>10. /\ d3 \in Seq(Byte) /\ Holds(d3, 8 + 4 + nc + 4 + nk, e.value)
       /\ Len(d3) = 8 + 4 + nc + 4 + nk + (4 + nv)
  <2>1. /\ d3 \in Seq(Byte) /\ Holds(d3, Len(d2), e.value)
        /\ Len(d3) = Len(d2) + (4 + Len(e.value))
    BY <1>1, <1>8, HoldsBehind, Zenon
  <2>2. QED
    BY <1>2, <1>8, <2>1, Zenon
<1>11. Holds(d3, 8, e.cmd) /\ Holds(d3, 8 + 4 + nc, e.key)
  <2>1. Field(e.value) \in Seq(Byte) /\ 8 \in Nat
    BY <1>1, FieldIs
  <2>2. QED
    BY <1>1, <1>4, <1>8, <1>9, <2>1, HoldsLonger, Zenon
<1>12. Serialize(e) = d3
  BY Zenon DEF Serialize, d0, d1, d2
<1> HIDE DEF d3
<1>13. d3 \in Payloads
  BY <1>4, <1>10, Zenon DEF Payloads, Huge
<1>14. /\ ReadField(d3)[8] = [ok |-> TRUE, text |-> e.cmd, end |-> 8 + 4 + nc]
       /\ ReadField(d3)[8 + 4 + nc] = [ok |-> TRUE, text |-> e.key, end |-> 8 + 4 + nc + 4 + nk]
       /\ ReadField(d3)[8 + 4 + nc + 4 + nk] =
            [ok |-> TRUE, text |-> e.value, end |-> 8 + 4 + nc + 4 + nk + 4 + nv]
  <2>1. ReadField(d3)[8] = [ok |-> TRUE, text |-> e.cmd, end |-> 8 + 4 + Len(e.cmd)]
    <3>1. PICK o \in Nat : o = 8
      OBVIOUS
    <3>2. Holds(d3, o, e.cmd) /\ d3 \in Seq(Byte) /\ e.cmd \in Seq(Byte) /\ Len(e.cmd) < Huge
      BY <1>1, <1>5, <1>10, <1>11, <3>1, Zenon
    <3>3. ReadField(d3)[o] = [ok |-> TRUE, text |-> e.cmd, end |-> o + 4 + Len(e.cmd)]
      BY <3>2, ReadHeld, Zenon
    <3>4. QED
      BY <3>1, <3>3, Zenon
  <2>2. ReadField(d3)[8 + 4 + nc] =
          [ok |-> TRUE, text |-> e.key, end |-> 8 + 4 + nc + 4 + Len(e.key)]
    <3>1. PICK o \in Nat : o = 8 + 4 + nc
      BY <1>4
    <3>2. Holds(d3, o, e.key) /\ d3 \in Seq(Byte) /\ e.key \in Seq(Byte) /\ Len(e.key) < Huge
      BY <1>1, <1>5, <1>10, <1>11, <3>1, Zenon
    <3>3. ReadField(d3)[o] = [ok |-> TRUE, text |-> e.key, end |-> o + 4 + Len(e.key)]
      BY <3>2, ReadHeld, Zenon
    <3>4. QED
      BY <3>1, <3>3, Zenon
  <2>3. ReadField(d3)[8 + 4 + nc + 4 + nk] =
          [ok |-> TRUE, text |-> e.value, end |-> 8 + 4 + nc + 4 + nk + 4 + Len(e.value)]
    <3>1. PICK o \in Nat : o = 8 + 4 + nc + 4 + nk
      BY <1>4
    <3>2. Holds(d3, o, e.value) /\ d3 \in Seq(Byte) /\ e.value \in Seq(Byte) /\ Len(e.value) < Huge
      BY <1>1, <1>5, <1>10, <3>1, Zenon
    <3>3. ReadField(d3)[o] = [ok |-> TRUE, text |-> e.value, end |-> o + 4 + Len(e.value)]
      BY <3>2, ReadHeld, Zenon
    <3>4. QED
      BY <3>1, <3>3, Zenon
  <2>4. QED
    BY <1>2, <2>1, <2>2, <2>3, Zenon
<1>15. Deserialize[d3] = [cmd |-> e.cmd, key |-> e.key, value |-> e.value]
  BY <1>10, <1>14 DEF Deserialize
<1>16. QED
  BY <1>12, <1>13, <1>15, Zenon

=============================================================================
