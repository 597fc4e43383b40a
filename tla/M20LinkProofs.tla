---------------------------- MODULE M20LinkProofs ----------------------------
(***************************************************************************)
(* Theorems about the link to the M20 robot, for every number of handlers  *)
(* and whatever the robot sends.                                           *)
(***************************************************************************)
EXTENDS M20Link, SequenceTheorems, TLAPS

\* Unless two handlers raced, one handler at most is connecting, the receive
\* thread does not exist before it is through, and sockfd_ is never given back
\* before the end.
ConnectionInv ==
    \/ raced
    \/ /\ ~crashed
       /\ \A h, u \in Handlers : Connecting(h) /\ Connecting(u) => h = u
       /\ \A h \in Handlers :
            /\ Connecting(h) => receiver = "unborn"
            /\ pc[h] = "socket" => link = "none"
            /\ pc[h] = "dial" => link = "made"
            /\ pc[h] = "start" => link \in {"connected", "lost"}
            /\ main # "run" => pc[h] = "idle"
       /\ receiver # "unborn" => link # "none" \/ main = "closed"

\* The last state was reported.
ChargeInv ==
    charge # Unknown =>
        \E i \in DOMAIN delivered :
            Payload(delivered[i]) = <<Status, charge>>

\* A handler under way has not answered, and one that waits knows for what.
WaitInv ==
    \A h \in Handlers :
        /\ pc[h] # "idle" => reply[h] = "none"
        /\ pc[h] = "wait" => cmd[h] \in DOMAIN Awaited

Inv == TypeOK /\ ConnectionInv /\ ChargeInv /\ WaitInv

\* The length of a packet by the header at i.
LengthAt(b, i) == HeaderLength + b[i + 4] + 256 * b[i + 5]

First(k) == packets[k].first
Last(k) == packets[k].last

\* A packet is where its header says, the packets are in order, and a sync word
\* is the beginning of a packet or inside of one.
PacketsInv ==
    /\ \A k \in 1..Len(packets) :
          /\ First(k) >= 1 /\ First(k) + 15 <= Len(stream)
          /\ IsSync(stream, First(k))
          /\ Last(k) = First(k) + LengthAt(stream, First(k)) - 1
          /\ Last(k) <= Len(stream)
    /\ \A k, l \in 1..Len(packets) : k < l => Last(k) < First(l)
    /\ \A i \in 1..Len(stream) :
          IsSync(stream, i) =>
              \E k \in 1..Len(packets) : First(k) <= i /\ i <= Last(k)

\* How much of what has arrived is no longer in the buffer.
Position == arrived - Len(buffer)

\* Nothing is sent before there is a connection; what is in the buffer and what
\* is on the way continue the stream.
StreamInv ==
    /\ main # "closed" /\ link \in {"none", "made"} => stream = <<>>
    /\ Len(buffer) <= arrived /\ arrived <= Len(stream)
    /\ \A j \in 1..Len(buffer) : buffer[j] = stream[Position + j]
    /\ link = "connected" \/ wire # <<>> =>
          /\ Len(wire) = Len(stream) - arrived
          /\ \A j \in 1..Len(wire) : wire[j] = stream[arrived + j]

\* The packets before the buffer are delivered, and no other.
TakenInv ==
    /\ Len(delivered) <= Len(packets)
    /\ \A i \in 1..Len(delivered) :
          /\ delivered[i] = SubSeq(stream, First(i), Last(i))
          /\ Last(i) <= Position
    /\ \A k \in 1..Len(packets) :
          k > Len(delivered) =>
              /\ First(k) > Position
              /\ receiver # "parse" => Last(k) > arrived

BytesInv == PacketsInv /\ (raced \/ (StreamInv /\ TakenInv))

-----------------------------------------------------------------------------
(* The bytes.                                                              *)

LEMMA SliceType ==
  ASSUME NEW b \in Seq(Byte), NEW m \in Nat \ {0}, NEW n \in 0..Len(b)
  PROVE  /\ SubSeq(b, m, n) \in Seq(Byte)
         /\ Len(SubSeq(b, m, n)) = IF m <= n THEN n - m + 1 ELSE 0
         /\ \A i \in 1..(n - m + 1) : SubSeq(b, m, n)[i] = b[m + i - 1]
  <1>1. m \in Int /\ n \in Int /\ Len(b) \in Nat
    BY LenProperties
  <1>2. \A i \in m..n : b[i] \in Byte
    BY <1>1, ElementOfSeq
  <1> QED
    BY <1>1, <1>2, SubSeqProperties

LEMMA PacketType ==
  ASSUME NEW p \in Payloads
  PROVE  Packet(p) \in Seq(Byte)
  <1>1. p \in Seq(Byte) /\ Len(p) \in Nat /\ Len(p) < 65536
    BY PayloadsAssumption, LenProperties
  <1>2. <<Len(p) % 256, Len(p) \div 256>> \in Seq(Byte)
    <2>1. \A n \in Nat : n < 65536 => n % 256 \in Byte /\ n \div 256 \in Byte
      BY DEF Byte
    <2> QED
      BY <1>1, <2>1
  <1>3. /\ Sync \in Seq(Byte) /\ <<0, 0, 1>> \in Seq(Byte)
        /\ <<0, 0, 0, 0, 0, 0, 0>> \in Seq(Byte)
    BY DEF Sync, Byte
  <1>4. Sync \o <<Len(p) % 256, Len(p) \div 256>> \in Seq(Byte)
    BY <1>2, <1>3, ConcatProperties
  <1>5. Sync \o <<Len(p) % 256, Len(p) \div 256>> \o <<0, 0, 1>> \in Seq(Byte)
    BY <1>3, <1>4, ConcatProperties
  <1>6. Sync \o <<Len(p) % 256, Len(p) \div 256>> \o <<0, 0, 1>>
             \o <<0, 0, 0, 0, 0, 0, 0>> \in Seq(Byte)
    BY <1>3, <1>5, ConcatProperties
  <1> QED
    BY <1>1, <1>6, ConcatProperties DEF Packet

LEMMA ItemType == ASSUME NEW item \in Packets \cup Noise PROVE item \in Seq(Byte)
  BY PacketType, NoiseAssumption DEF Packets

LEMMA ConcatBytes ==
  ASSUME NEW s \in Seq(Byte), NEW t \in Seq(Byte)
  PROVE  /\ s \o t \in Seq(Byte) /\ Len(s \o t) = Len(s) + Len(t)
         /\ Len(s) \in Nat /\ Len(t) \in Nat
         /\ \A i \in 1..Len(s) : (s \o t)[i] = s[i]
         /\ \A i \in 1..Len(t) : (s \o t)[Len(s) + i] = t[i]
  <1>1. Len(s) \in Nat /\ Len(t) \in Nat
    BY LenProperties
  <1>2. /\ s \o t \in Seq(Byte) /\ Len(s \o t) = Len(s) + Len(t)
        /\ \A i \in 1..(Len(s) + Len(t)) :
              (s \o t)[i] = IF i <= Len(s) THEN s[i] ELSE t[i - Len(s)]
    BY ConcatProperties
  <1>3. \A i \in 1..Len(s) : i \in 1..(Len(s) + Len(t)) /\ i <= Len(s)
    BY <1>1
  <1>4. \A i \in 1..Len(t) :
           /\ Len(s) + i \in 1..(Len(s) + Len(t)) /\ ~(Len(s) + i <= Len(s))
           /\ Len(s) + i - Len(s) = i
    BY <1>1
  <1> QED
    BY <1>1, <1>2, <1>3, <1>4

\* The four bytes of a sync word.
SyncAt(b, i) == b[i] = 235 /\ b[i + 1] = 145 /\ b[i + 2] = 235 /\ b[i + 3] = 144

LEMMA SyncBytes ==
  ASSUME NEW b \in Seq(Byte), NEW i \in Nat \ {0}
  PROVE  IsSync(b, i) <=> i + 3 <= Len(b) /\ SyncAt(b, i)
  <1> SUFFICES ASSUME i + 3 <= Len(b)
               PROVE  SubSeq(b, i, i + 3) = Sync <=> SyncAt(b, i)
    BY DEF IsSync
  <1> DEFINE s == SubSeq(b, i, i + 3)
  <1>1. i + 3 \in 0..Len(b) /\ i + 3 - i + 1 = 4
    BY LenProperties
  <1>2. s \in Seq(Byte) /\ Len(s) = 4
    BY <1>1, SliceType
  <1>3. s[1] = b[i] /\ s[2] = b[i + 1] /\ s[3] = b[i + 2] /\ s[4] = b[i + 3]
    <2>1. \A j \in 1..4 : s[j] = b[i + j - 1]
      BY <1>1, SliceType
    <2>2. i + 1 - 1 = i /\ i + 2 - 1 = i + 1 /\ i + 3 - 1 = i + 2 /\ i + 4 - 1 = i + 3
      OBVIOUS
    <2> QED
      BY <2>1, <2>2
  <1> HIDE DEF s
  <1>4. /\ Sync \in Seq(Byte) /\ Len(Sync) = 4
        /\ Sync[1] = 235 /\ Sync[2] = 145 /\ Sync[3] = 235 /\ Sync[4] = 144
    BY DEF Sync, Byte
  <1>5. s = Sync <=> \A j \in 1..4 : s[j] = Sync[j]
    BY <1>2, <1>4, SeqEqual
  <1>6. s = Sync <=> s[1] = 235 /\ s[2] = 145 /\ s[3] = 235 /\ s[4] = 144
    <2>1. \A j \in 1..4 : j = 1 \/ j = 2 \/ j = 3 \/ j = 4
      OBVIOUS
    <2> QED
      BY <1>4, <1>5, <2>1
  <1> QED
    BY <1>3, <1>6 DEF s, SyncAt

\* What a packet begins with.
LEMMA PacketBytes ==
  ASSUME NEW p \in Payloads
  PROVE  LET q == Packet(p) IN
         /\ Len(q) = 16 + Len(p) /\ SyncAt(q, 1)
         /\ q[5] + 256 * q[6] = Len(p)
  <1> DEFINE length == <<Len(p) % 256, Len(p) \div 256>>
             head == Sync \o length
             middle == <<0, 0, 1>>
             rest == <<0, 0, 0, 0, 0, 0, 0>>
             header == head \o middle
             full == header \o rest
  <1>1. p \in Seq(Byte) /\ Len(p) \in Nat /\ Len(p) < 65536
    BY PayloadsAssumption, LenProperties
  <1>2. length \in Seq(Byte) /\ Len(length) = 2
        /\ length[1] = Len(p) % 256 /\ length[2] = Len(p) \div 256
    <2>1. \A n \in Nat : n < 65536 => n % 256 \in Byte /\ n \div 256 \in Byte
      BY DEF Byte
    <2> QED
      BY <1>1, <2>1
  <1>3. /\ Sync \in Seq(Byte) /\ Len(Sync) = 4
        /\ Sync[1] = 235 /\ Sync[2] = 145 /\ Sync[3] = 235 /\ Sync[4] = 144
    BY DEF Sync, Byte
  <1>4. middle \in Seq(Byte) /\ Len(middle) = 3 /\ rest \in Seq(Byte) /\ Len(rest) = 7
    BY DEF Byte
  <1> HIDE DEF length, middle, rest
  <1>5. head \in Seq(Byte) /\ Len(head) = 6
        /\ (\A i \in 1..4 : head[i] = Sync[i])
        /\ head[5] = length[1] /\ head[6] = length[2]
    <2>0. /\ Sync \in Seq(Byte) /\ length \in Seq(Byte)
          /\ head \in Seq(Byte) /\ Len(head) = Len(Sync) + Len(length)
          /\ \A i \in 1..Len(Sync) : head[i] = Sync[i]
          /\ \A i \in 1..Len(length) : head[Len(Sync) + i] = length[i]
      <3>1. Sync \in Seq(Byte) /\ length \in Seq(Byte)
        BY <1>2, <1>3
      <3> QED
        BY <3>1, ConcatBytes
    <2> HIDE DEF head
    <2>1. /\ head \in Seq(Byte) /\ Len(head) = 4 + 2
          /\ \A i \in 1..4 : head[i] = Sync[i]
          /\ \A i \in 1..2 : head[4 + i] = length[i]
      BY <2>0, <1>2, <1>3
    <2>2. head[4 + 1] = length[1] /\ head[4 + 2] = length[2]
      BY <2>1
    <2> QED
      BY <2>1, <2>2
  <1> HIDE DEF head
  <1>6. header \in Seq(Byte) /\ Len(header) = 9 /\ \A i \in 1..6 : header[i] = head[i]
    <2>0. /\ head \in Seq(Byte) /\ middle \in Seq(Byte)
          /\ header \in Seq(Byte) /\ Len(header) = Len(head) + Len(middle)
          /\ \A i \in 1..Len(head) : header[i] = head[i]
          /\ \A i \in 1..Len(middle) : header[Len(head) + i] = middle[i]
      BY <1>4, <1>5, ConcatBytes
    <2> HIDE DEF header
    <2>1. /\ header \in Seq(Byte) /\ Len(header) = 6 + 3
          /\ \A i \in 1..6 : header[i] = head[i]
      BY <2>0, <1>4, <1>5
    <2> QED
      BY <2>1
  <1> HIDE DEF header
  <1>7. full \in Seq(Byte) /\ Len(full) = 16 /\ \A i \in 1..6 : full[i] = head[i]
    <2>0. /\ header \in Seq(Byte) /\ rest \in Seq(Byte)
          /\ full \in Seq(Byte) /\ Len(full) = Len(header) + Len(rest)
          /\ \A i \in 1..Len(header) : full[i] = header[i]
          /\ \A i \in 1..Len(rest) : full[Len(header) + i] = rest[i]
      BY <1>4, <1>6, ConcatBytes
    <2> HIDE DEF full
    <2>1. /\ full \in Seq(Byte) /\ Len(full) = 9 + 7
          /\ \A i \in 1..9 : full[i] = header[i]
      BY <2>0, <1>4, <1>6
    <2>2. \A i \in 1..6 : i \in 1..9
      OBVIOUS
    <2> QED
      BY <1>6, <2>1, <2>2
  <1> HIDE DEF full
  <1>8. Packet(p) = full \o p
    BY DEF Packet, full, header, head, length, middle, rest
  <1>9. Len(Packet(p)) = 16 + Len(p) /\ \A i \in 1..6 : Packet(p)[i] = head[i]
    <2>0. /\ Len(full \o p) = Len(full) + Len(p)
          /\ \A i \in 1..Len(full) : (full \o p)[i] = full[i]
      <3>1. full \in Seq(Byte) /\ p \in Seq(Byte)
        BY <1>1, <1>7
      <3> QED
        BY <3>1, ConcatBytes
    <2>1. /\ Len(Packet(p)) = 16 + Len(p)
          /\ \A i \in 1..16 : Packet(p)[i] = full[i]
      BY <1>7, <1>8, <2>0
    <2>2. \A i \in 1..6 : i \in 1..16
      OBVIOUS
    <2> QED
      BY <1>7, <2>1, <2>2
  <1>10. SyncAt(Packet(p), 1)
    BY <1>3, <1>5, <1>9 DEF SyncAt
  <1>11. Packet(p)[5] + 256 * Packet(p)[6] = Len(p)
    <2>1. Packet(p)[5] = Len(p) % 256 /\ Packet(p)[6] = Len(p) \div 256
      BY <1>2, <1>5, <1>9
    <2>2. \A n \in Nat : (n % 256) + 256 * (n \div 256) = n
      OBVIOUS
    <2> QED
      BY <1>1, <2>1, <2>2
  <1> QED
    BY <1>9, <1>10, <1>11

\* A packet and what is no packet, by what a reader of the stream looks at.
LEMMA ItemBytes ==
  ASSUME NEW item \in Packets \cup Noise
  PROVE  /\ item \in Seq(Byte) /\ Len(item) \in Nat \ {0}
         /\ item \in Packets =>
              /\ Len(item) >= 16 /\ SyncAt(item, 1)
              /\ Len(item) = 16 + item[5] + 256 * item[6]
         /\ item \notin Packets =>
              /\ item[1] \notin {235, 145, 144}
              /\ \A i \in 1..Len(item) : ~IsSync(item, i)
  <1>1. item \in Seq(Byte)
    BY ItemType
  <1>2. CASE item \in Packets
    <2>1. PICK p \in Payloads : item = Packet(p)
      BY <1>2 DEF Packets
    <2>2. Len(p) \in Nat
      BY PayloadsAssumption, LenProperties
    <2>3. Len(item) = 16 + Len(p) /\ SyncAt(item, 1) /\ item[5] + 256 * item[6] = Len(p)
      BY <2>1, PacketBytes
    <2>4. item[5] \in Byte /\ item[6] \in Byte
      BY <1>1, <2>2, <2>3, ElementOfSeq
    <2>5. Len(item) = 16 + item[5] + 256 * item[6]
      <3>1. \A n, x, y \in Nat : x + 256 * y = n => 16 + n = 16 + x + 256 * y
        OBVIOUS
      <3>2. item[5] \in Nat /\ item[6] \in Nat
        BY <2>4 DEF Byte
      <3> QED
        BY <2>2, <2>3, <3>1, <3>2
    <2> QED
      BY <1>1, <1>2, <2>2, <2>3, <2>5
  <1>3. CASE item \notin Packets
    <2>1. item \in Noise
      BY <1>3
    <2>2. item # <<>> /\ \A i \in DOMAIN Sync : item[1] # Sync[i]
      BY <2>1, NoiseAssumption
    <2>3. Len(item) \in Nat \ {0}
      BY <1>1, <2>2, EmptySeq, LenProperties
    <2>4. item[1] \notin {235, 145, 144}
      BY <2>2 DEF Sync
    <2> QED
      BY <1>1, <1>3, <2>1, <2>3, <2>4, NoiseAssumption
  <1> QED
    BY <1>2, <1>3

\* Two parts of the stream make no sync word that neither has.
LEMMA SyncInConcat ==
  ASSUME NEW s \in Seq(Byte), NEW item \in Packets \cup Noise, NEW i \in Nat \ {0},
         IsSync(s \o item, i), ~IsSync(s, i)
  PROVE  item \in Packets /\ i > Len(s) /\ i <= Len(s) + Len(item)
  <1> DEFINE b == s \o item
  <1>1. item \in Seq(Byte) /\ Len(item) \in Nat \ {0} /\ Len(s) \in Nat
    BY ItemBytes, LenProperties
  <1>2. /\ b \in Seq(Byte) /\ Len(b) = Len(s) + Len(item)
        /\ \A j \in 1..Len(s) : b[j] = s[j]
        /\ \A j \in 1..Len(item) : b[Len(s) + j] = item[j]
    BY <1>1, ConcatBytes
  <1> HIDE DEF b
  <1>3. i + 3 <= Len(b) /\ SyncAt(b, i)
    BY <1>2, SyncBytes DEF b
  <1>4. ~(i + 3 <= Len(s))
    <2> SUFFICES ASSUME i + 3 <= Len(s) PROVE FALSE
      OBVIOUS
    <2>1. i \in 1..Len(s) /\ i + 1 \in 1..Len(s) /\ i + 2 \in 1..Len(s)
          /\ i + 3 \in 1..Len(s)
      BY <1>1
    <2>2. SyncAt(s, i)
      BY <1>2, <1>3, <2>1 DEF SyncAt
    <2> QED
      BY <2>2, SyncBytes
  <1>5. ~(i <= Len(s))
    <2> SUFFICES ASSUME i <= Len(s) PROVE FALSE
      OBVIOUS
    <2>1. Len(s) + 1 = i + 1 \/ Len(s) + 1 = i + 2 \/ Len(s) + 1 = i + 3
      BY <1>1, <1>4
    <2>2. b[Len(s) + 1] = item[1]
      BY <1>1, <1>2
    <2>3. item[1] = 145 \/ (item[1] = 235 /\ Len(s) + 1 = i + 2) \/ item[1] = 144
      BY <1>3, <2>1, <2>2 DEF SyncAt
    <2>4. item \in Packets
      BY <2>3, ItemBytes
    <2>5. item[1] = 235 /\ item[2] = 145 /\ Len(item) >= 16
      BY <2>4, ItemBytes DEF SyncAt
    <2>6. b[Len(s) + 2] = 145
      BY <1>1, <1>2, <2>5
    <2>7. Len(s) + 2 = i + 3
      BY <1>1, <2>3, <2>5
    <2> QED
      BY <1>3, <2>6, <2>7 DEF SyncAt
  <1>6. item \in Packets
    <2> SUFFICES ASSUME item \notin Packets PROVE FALSE
      OBVIOUS
    <2> DEFINE j == i - Len(s)
    <2>1. j \in Nat \ {0} /\ j \in 1..Len(item) /\ j + 3 <= Len(item)
      BY <1>1, <1>2, <1>3, <1>5
    <2>2. /\ i = Len(s) + j /\ i + 1 = Len(s) + (j + 1)
          /\ i + 2 = Len(s) + (j + 2) /\ i + 3 = Len(s) + (j + 3)
      BY <1>1
    <2>3. j + 1 \in 1..Len(item) /\ j + 2 \in 1..Len(item) /\ j + 3 \in 1..Len(item)
      BY <1>1, <2>1
    <2> HIDE DEF j
    <2>4. SyncAt(item, j)
      BY <1>2, <1>3, <2>1, <2>2, <2>3 DEF SyncAt
    <2> QED
      BY <1>1, <2>1, <2>4, ItemBytes, SyncBytes
  <1> QED
    BY <1>1, <1>2, <1>3, <1>5, <1>6

\* A status holds the state that is read from it.
LEMMA StatusCharge ==
  ASSUME NEW packet \in Seq(Byte), IsStatus(packet)
  PROVE  /\ ChargeOf(packet) \in ChargeStates
         /\ Payload(packet) = <<Status, ChargeOf(packet)>>
  <1>1. PICK c \in ChargeStates : Payload(packet) = <<Status, c>>
    BY DEF IsStatus
  <1>2. Len(packet) \in Nat
    BY LenProperties
  <1>3. Len(Payload(packet)) = 2
    BY <1>1
  <1>4. Len(packet) = HeaderLength + 2
    BY <1>2, <1>3, SliceType DEF Payload, HeaderLength
  <1>5. Payload(packet)[2] = packet[HeaderLength + 2]
    BY <1>2, <1>4, SliceType DEF Payload, HeaderLength
  <1>6. Payload(packet)[2] = c
    BY <1>1
  <1> QED
    BY <1>1, <1>5, <1>6 DEF ChargeOf

-----------------------------------------------------------------------------
LEMMA InvInit == Init => Inv
  <1> SUFFICES ASSUME Init PROVE Inv
    OBVIOUS
  <1> USE DEF Init
  <1>1. /\ <<>> \in Seq(Byte) /\ <<>> \in Seq([first : Nat, last : Nat])
        /\ <<>> \in Seq(Seq(Byte))
    BY EmptySeq
  <1>2. TypeOK
    <2>1. items \in 0..MaxItems
      BY BoundAssumption
    <2>2. /\ wire \in Seq(Byte) /\ buffer \in Seq(Byte)
          /\ stream \in Seq(Byte) /\ packets \in Seq([first : Nat, last : Nat])
          /\ delivered \in Seq(Seq(Byte))
      BY <1>1
    <2>3. charge \in ChargeStates \cup {Unknown} /\ arrived \in Nat
      OBVIOUS
    <2>4. /\ pc \in [Handlers -> Pcs] /\ cmd \in [Handlers -> Commands]
          /\ reply \in [Handlers -> {"none", "ok", "failed"}] /\ link \in Links
      BY DEF Pcs, Commands, Links
    <2> QED
      BY <2>1, <2>2, <2>3, <2>4 DEF TypeOK
  <1>3. ConnectionInv /\ ChargeInv /\ WaitInv
    BY DEF ConnectionInv, Connecting, ChargeInv, WaitInv
  <1> QED
    BY <1>2, <1>3 DEF Inv

\* The steps of a handler leave the receive thread and the bytes alone.
LEMMA HandlerInv ==
  ASSUME Inv, ~crashed, NEW h \in Handlers, Request(h) \/ Handle(h)
  PROVE  Inv'
  <1> USE DEF Inv
  <1>1. UNCHANGED <<main, parsing, sent, arrived>>
    BY DEF Request, Handle, Connect, OpenSocket, Dial, StartThreads, Refuse,
       Send, SendSecond, Wait, WaitTimeout, threads
  <1>2. /\ pc' \in [Handlers -> Pcs] /\ \A u \in Handlers : u # h => pc'[u] = pc[u]
        /\ cmd' \in [Handlers -> Commands]
        /\ \A u \in Handlers : u # h => cmd'[u] = cmd[u] /\ reply'[u] = reply[u]
        /\ reply' \in [Handlers -> {"none", "ok", "failed"}]
    BY DEF TypeOK, Request, Handle, Connect, OpenSocket, Dial, StartThreads,
       Refuse, Send, SendSecond, Wait, WaitTimeout, Goto, Answer, Result, Pcs,
       Commands
  <1>3. TypeOK'
    <2>1. /\ link' \in Links /\ running' \in BOOLEAN
          /\ receiver' \in {"unborn", "top", "recv", "parse", "exited"}
          /\ wire' \in Seq(Byte) /\ raced' \in BOOLEAN /\ crashed' \in BOOLEAN
      BY EmptySeq DEF TypeOK, Request, Handle, Connect, OpenSocket, Dial,
         StartThreads, Refuse, Send, SendSecond, Wait, WaitTimeout, threads, Links
    <2> QED
      BY <1>1, <1>2, <2>1 DEF TypeOK, parsing, sent
  <1>4. ChargeInv'
    BY <1>1 DEF ChargeInv, parsing
  <1>5. WaitInv'
    <2>1. /\ pc'[h] # "idle" => reply'[h] = "none"
          /\ pc'[h] = "wait" => cmd'[h] \in DOMAIN Awaited
      BY DEF TypeOK, WaitInv, Request, Handle, Connect, OpenSocket, Dial,
         StartThreads, Refuse, Send, SendSecond, Wait, WaitTimeout, Goto, Answer
    <2> QED
      BY <1>2, <2>1 DEF WaitInv
  <1>6. ConnectionInv'
    <2> SUFFICES ASSUME ~raced' PROVE ConnectionInv'
      BY DEF ConnectionInv
    <2>1. ~raced
      BY DEF Request, Handle, Connect, OpenSocket, Dial, StartThreads, Refuse,
         Send, SendSecond, Wait, WaitTimeout
    <2> USE <2>1 DEF ConnectionInv, Connecting
    <2>2. CASE \/ Request(h) \/ Refuse(h) \/ SendSecond(h) \/ Wait(h)
               \/ WaitTimeout(h) \/ \E c \in Commands : Send(h, c)
      <3>1. /\ pc[h] \notin {"socket", "dial", "start"}
            /\ pc'[h] \notin {"socket", "dial", "start"}
            /\ main = "run" \/ pc[h] # "idle"
            /\ UNCHANGED <<threads, link, crashed>>
        BY <2>2 DEF TypeOK, Request, Refuse, Send, SendSecond, Wait,
           WaitTimeout, Goto, Answer
      <3> QED
        BY <1>2, <3>1 DEF threads
    <2>3. CASE Connect(h)
      BY <1>2, <2>3 DEF Connect, Goto, TypeOK, threads
    <2>4. CASE OpenSocket(h)
      BY <1>2, <2>4 DEF OpenSocket, Goto, Answer, TypeOK, threads
    <2>5. CASE Dial(h)
      <3>1. /\ pc[h] = "dial" /\ receiver = "unborn" /\ main = "run"
            /\ UNCHANGED <<receiver, main, crashed>>
        BY <2>5 DEF Dial, TypeOK, threads
      <3>2. \/ pc'[h] = "start" /\ link' = "connected"
            \/ pc'[h] = "idle" /\ link' = "none"
        BY <2>5 DEF Dial, Goto, Answer, TypeOK
      <3>3. \A u \in Handlers : pc[u] \in {"socket", "dial", "start"} => u = h
        BY <3>1
      <3> QED
        BY <1>2, <3>1, <3>2, <3>3
    <2>6. CASE StartThreads(h)
      BY <1>2, <2>6 DEF StartThreads, Goto, TypeOK
    <2> QED
      BY <2>2, <2>3, <2>4, <2>5, <2>6 DEF Handle
  <1> QED
    BY <1>3, <1>4, <1>5, <1>6

\* The steps of the receive thread leave the handlers and the socket alone.
LEMMA ReceiverInv ==
  ASSUME Inv, ReceiveThread
  PROVE  Inv'
  <1> USE DEF Inv
  <1>1. /\ UNCHANGED <<handlers, running, main, link, sent, raced, crashed>>
        /\ receiver # "unborn" /\ receiver' # "unborn"
        /\ receiver' \in {"top", "recv", "parse", "exited"}
    BY DEF ReceiveThread, Loop, Receive, RecvFails, Discard, Deliver, Keep,
       Parsing, threads
  <1>2. ConnectionInv'
    BY <1>1 DEF ConnectionInv, Connecting, handlers
  <1>3. WaitInv'
    BY <1>1 DEF WaitInv, handlers
  <1>4. SUFFICES ASSUME TRUE
                 PROVE  /\ wire' \in Seq(Byte) /\ buffer' \in Seq(Byte)
                        /\ charge' \in ChargeStates \cup {Unknown}
                        /\ arrived' \in Nat /\ delivered' \in Seq(Seq(Byte))
                        /\ ChargeInv'
    BY <1>1, <1>2, <1>3 DEF TypeOK, handlers, sent
  <1>5. CASE Loop \/ RecvFails \/ Keep
    BY <1>5 DEF Loop, RecvFails, Keep, parsing, TypeOK, ChargeInv
  <1>6. CASE Receive
    <2>1. PICK n \in 1..Len(wire) :
             /\ buffer' = buffer \o SubSeq(wire, 1, n)
             /\ wire' = SubSeq(wire, n + 1, Len(wire))
             /\ arrived' = arrived + n
      BY <1>6 DEF Receive
    <2>2. Len(wire) \in Nat
      BY LenProperties DEF TypeOK
    <2>3. SubSeq(wire, 1, n) \in Seq(Byte) /\ wire' \in Seq(Byte)
      BY <2>1, <2>2, SliceType DEF TypeOK
    <2>4. buffer' \in Seq(Byte)
      BY <2>1, <2>3, ConcatProperties DEF TypeOK
    <2> QED
      BY <1>6, <2>1, <2>2, <2>3, <2>4 DEF Receive, TypeOK, ChargeInv
  <1>7. CASE Discard
    <2>1. PICK k \in 1..Len(buffer) : buffer' = SubSeq(buffer, k + 1, Len(buffer))
      BY <1>7 DEF Discard
    <2>2. Len(buffer) \in Nat
      BY LenProperties DEF TypeOK
    <2>3. buffer' \in Seq(Byte)
      BY <2>1, <2>2, SliceType DEF TypeOK
    <2> QED
      BY <1>7, <2>3 DEF Discard, TypeOK, ChargeInv
  <1>8. CASE Deliver
    <2> DEFINE packet == SubSeq(buffer, 1, PacketLength(buffer))
    <2>1. Len(buffer) \in Nat /\ Len(buffer) >= HeaderLength
      BY <1>8, LenProperties DEF TypeOK, Deliver, Parsing
    <2>2. buffer[5] \in Byte /\ buffer[6] \in Byte
      BY <2>1, ElementOfSeq DEF TypeOK, HeaderLength
    <2>3. PacketLength(buffer) \in Nat /\ PacketLength(buffer) <= Len(buffer)
      <3>1. PacketLength(buffer) \in Nat
        <4>1. \A x, y \in 0..255 : 16 + x + 256 * y \in Nat
          OBVIOUS
        <4> QED
          BY <2>2, <4>1 DEF PacketLength, HeaderLength, Byte
      <3>2. PacketLength(buffer) <= Len(buffer)
        BY <1>8 DEF Deliver
      <3> QED
        BY <3>1, <3>2
    <2>4. packet \in Seq(Byte) /\ buffer' \in Seq(Byte)
      BY <1>8, <2>1, <2>3, SliceType DEF Deliver, TypeOK
    <2> HIDE DEF packet
    <2>5. /\ delivered' = Append(delivered, packet)
          /\ charge' = IF IsStatus(packet) THEN ChargeOf(packet) ELSE charge
          /\ UNCHANGED <<wire, arrived>>
      BY <1>8 DEF Deliver, packet
    <2>6. /\ delivered' \in Seq(Seq(Byte))
          /\ Len(delivered') = Len(delivered) + 1 /\ Len(delivered) \in Nat
          /\ \A i \in 1..Len(delivered) : delivered'[i] = delivered[i]
          /\ delivered'[Len(delivered) + 1] = packet
      BY <2>4, <2>5, AppendProperties, LenProperties DEF TypeOK
    <2>7. DOMAIN delivered = 1..Len(delivered) /\ DOMAIN delivered' = 1..Len(delivered')
      BY <2>6, LenProperties DEF TypeOK
    <2>8. charge' \in ChargeStates \cup {Unknown}
      BY <2>4, <2>5, StatusCharge DEF TypeOK
    <2>9. ChargeInv'
      <3>1. CASE IsStatus(packet)
        <4>1. Payload(delivered'[Len(delivered) + 1]) = <<Status, charge'>>
          BY <2>4, <2>5, <2>6, <3>1, StatusCharge
        <4>2. Len(delivered) + 1 \in DOMAIN delivered'
          BY <2>6, <2>7
        <4> QED
          BY <4>1, <4>2 DEF ChargeInv
      <3>2. CASE ~IsStatus(packet)
        <4>1. charge' = charge
          BY <2>5, <3>2
        <4>2. \A i \in DOMAIN delivered :
                 i \in DOMAIN delivered' /\ delivered'[i] = delivered[i]
          BY <2>6, <2>7
        <4> QED
          BY <4>1, <4>2 DEF ChargeInv
      <3> QED
        BY <3>1, <3>2
    <2> QED
      BY <2>4, <2>5, <2>6, <2>8, <2>9 DEF TypeOK
  <1> QED
    BY <1>5, <1>6, <1>7, <1>8 DEF ReceiveThread

LEMMA InvNext == Inv /\ [Next]_vars => Inv'
  <1> SUFFICES ASSUME Inv, [Next]_vars PROVE Inv'
    OBVIOUS
  <1>1. CASE ~crashed /\ \E h \in Handlers : Request(h) \/ Handle(h)
    BY <1>1, HandlerInv
  <1>2. CASE ReceiveThread
    BY <1>2, ReceiverInv
  <1>3. CASE Disconnect \/ Close
    <2>1. UNCHANGED <<handlers, parsing, sent, arrived, raced, crashed, receiver>>
      BY <1>3 DEF Disconnect, Close
    <2>2. TypeOK'
      BY <1>3, <2>1, EmptySeq
      DEF Inv, TypeOK, Disconnect, Close, handlers, parsing, sent, Links
    <2>3. ConnectionInv'
      BY <1>3, <2>1
      DEF Inv, TypeOK, ConnectionInv, Connecting, Disconnect, Close, handlers
    <2> QED
      BY <2>1, <2>2, <2>3 DEF Inv, ChargeInv, WaitInv, handlers, parsing
  <1>4. CASE Lose \/ \E item \in Packets \cup Noise : Report(item)
    <2>1. /\ UNCHANGED <<handlers, threads, parsing, arrived, raced, crashed>>
          /\ link = "connected" /\ link' \in {"connected", "lost"}
      BY <1>4 DEF Lose, Report
    <2>2. wire' \in Seq(Byte)
      <3>1. CASE Lose
        BY <3>1, EmptySeq DEF Lose, Inv, TypeOK
      <3>2. ASSUME NEW item \in Packets \cup Noise, Report(item)
            PROVE  wire' \in Seq(Byte)
        BY <3>2, ItemType, ConcatProperties DEF Report, Inv, TypeOK
      <3> QED
        BY <1>4, <3>1, <3>2
    <2>3. /\ items' \in 0..MaxItems /\ stream' \in Seq(Byte)
          /\ packets' \in Seq([first : Nat, last : Nat])
      <3>1. CASE Lose
        BY <3>1 DEF Lose, Inv, TypeOK, sent
      <3>2. ASSUME NEW item \in Packets \cup Noise, Report(item)
            PROVE  /\ items' \in 0..MaxItems /\ stream' \in Seq(Byte)
                   /\ packets' \in Seq([first : Nat, last : Nat])
        <4>1. items' \in 0..MaxItems
          BY <3>2, BoundAssumption DEF Report, Inv, TypeOK
        <4>2. stream' \in Seq(Byte)
          BY <3>2, ItemType, ConcatProperties DEF Report, Inv, TypeOK
        <4>3. Len(stream) \in Nat /\ Len(item) \in Nat
          BY ItemType, LenProperties DEF Inv, TypeOK
        <4>4. [first |-> Len(stream) + 1, last |-> Len(stream) + Len(item)]
                 \in [first : Nat, last : Nat]
          BY <4>3
        <4>5. packets' \in Seq([first : Nat, last : Nat])
          BY <3>2, <4>4, AppendProperties DEF Report, Inv, TypeOK
        <4> QED
          BY <4>1, <4>2, <4>5
      <3> QED
        BY <1>4, <3>1, <3>2
    <2>4. TypeOK'
      BY <2>1, <2>2, <2>3 DEF Inv, TypeOK, handlers, threads, parsing, Links
    <2> QED
      BY <2>1, <2>4
      DEF Inv, ConnectionInv, Connecting, ChargeInv, WaitInv, handlers,
          threads, parsing
  <1>5. CASE UNCHANGED vars
    BY <1>5 DEF vars, handlers, threads, parsing, sent, Inv, TypeOK, ConnectionInv,
       Connecting, ChargeInv, WaitInv
  <1> QED
    BY <1>1, <1>2, <1>3, <1>4, <1>5 DEF Next

-----------------------------------------------------------------------------
(* The stream and the packets in it.                                       *)

LEMMA SlicesEqual ==
  ASSUME NEW s \in Seq(Byte), NEW t \in Seq(Byte),
         NEW k \in Nat \ {0}, NEW m \in Nat \ {0}, NEW n \in Nat \ {0},
         k + n - 1 <= Len(s), m + n - 1 <= Len(t),
         \A j \in 1..n : s[k + j - 1] = t[m + j - 1]
  PROVE  SubSeq(s, k, k + n - 1) = SubSeq(t, m, m + n - 1)
  <1> DEFINE u == SubSeq(s, k, k + n - 1)
             v == SubSeq(t, m, m + n - 1)
  <1>1. /\ k + n - 1 \in 0..Len(s) /\ k <= k + n - 1 /\ k + n - 1 - k + 1 = n
        /\ m + n - 1 \in 0..Len(t) /\ m <= m + n - 1 /\ m + n - 1 - m + 1 = n
    BY LenProperties
  <1>2. u \in Seq(Byte) /\ Len(u) = n /\ \A j \in 1..n : u[j] = s[k + j - 1]
    BY <1>1, SliceType
  <1>3. v \in Seq(Byte) /\ Len(v) = n /\ \A j \in 1..n : v[j] = t[m + j - 1]
    BY <1>1, SliceType
  <1> HIDE DEF u, v
  <1>4. \A j \in 1..n : u[j] = v[j]
    BY <1>2, <1>3
  <1>5. u = v
    BY <1>2, <1>3, <1>4, SeqEqual
  <1> QED
    BY <1>5 DEF u, v

LEMMA LengthType ==
  ASSUME NEW b \in Seq(Byte), NEW i \in Nat \ {0}, i + 5 <= Len(b)
  PROVE  LengthAt(b, i) \in Nat /\ LengthAt(b, i) >= 16
  <1>1. i + 4 \in 1..Len(b) /\ i + 5 \in 1..Len(b)
    BY LenProperties
  <1>2. b[i + 4] \in Nat /\ b[i + 5] \in Nat
    <2>1. b[i + 4] \in Byte /\ b[i + 5] \in Byte
      BY <1>1, ElementOfSeq
    <2>2. \A x \in Byte : x \in Nat
      BY DEF Byte
    <2> QED
      BY <2>1, <2>2
  <1>3. \A x, y \in Nat : 16 + x + 256 * y \in Nat /\ 16 + x + 256 * y >= 16
    OBVIOUS
  <1> QED
    BY <1>2, <1>3 DEF LengthAt, HeaderLength

\* Two streams that agree somewhere have the same sync word and length there.
LEMMA SameSync ==
  ASSUME NEW s \in Seq(Byte), NEW t \in Seq(Byte),
         NEW k \in Nat \ {0}, NEW m \in Nat \ {0},
         k + 3 <= Len(s), m + 3 <= Len(t),
         \A j \in 0..3 : s[k + j] = t[m + j]
  PROVE  IsSync(s, k) <=> IsSync(t, m)
  <1>1. k + 0 = k /\ m + 0 = m
    OBVIOUS
  <1>2. s[k] = t[m] /\ s[k + 1] = t[m + 1] /\ s[k + 2] = t[m + 2] /\ s[k + 3] = t[m + 3]
    BY <1>1
  <1> QED
    BY <1>2, SyncBytes DEF SyncAt

LEMMA SameHeader ==
  ASSUME NEW s \in Seq(Byte), NEW t \in Seq(Byte),
         NEW k \in Nat \ {0}, NEW m \in Nat \ {0},
         k + 5 <= Len(s), m + 5 <= Len(t),
         \A j \in 0..5 : s[k + j] = t[m + j]
  PROVE  (IsSync(s, k) <=> IsSync(t, m)) /\ LengthAt(s, k) = LengthAt(t, m)
  <1>1. IsSync(s, k) <=> IsSync(t, m)
    <2>1. k + 3 <= Len(s) /\ m + 3 <= Len(t)
      BY LenProperties
    <2>2. \A j \in 0..3 : s[k + j] = t[m + j]
      <3>1. \A j \in 0..3 : j \in 0..5
        OBVIOUS
      <3> QED
        BY <3>1
    <2> QED
      BY <2>1, <2>2, SameSync
  <1>2. s[k + 4] = t[m + 4] /\ s[k + 5] = t[m + 5]
    OBVIOUS
  <1> QED
    BY <1>1, <1>2 DEF LengthAt

\* Where a packet of the stream is.
LEMMA PacketPlace ==
  ASSUME TypeOK, PacketsInv, NEW k \in 1..Len(packets)
  PROVE  /\ First(k) \in Nat \ {0} /\ Last(k) \in Nat /\ Len(stream) \in Nat
         /\ First(k) + 15 <= Last(k) /\ Last(k) <= Len(stream)
         /\ LengthAt(stream, First(k)) \in Nat
         /\ LengthAt(stream, First(k)) >= 16
         /\ Last(k) = First(k) + LengthAt(stream, First(k)) - 1
  <1>1. packets[k] \in [first : Nat, last : Nat]
    BY ElementOfSeq DEF TypeOK
  <1>2. First(k) \in Nat /\ Last(k) \in Nat /\ Len(stream) \in Nat
    BY <1>1, LenProperties DEF First, Last, TypeOK
  <1>3. /\ First(k) >= 1 /\ First(k) + 15 <= Len(stream) /\ Last(k) <= Len(stream)
        /\ Last(k) = First(k) + LengthAt(stream, First(k)) - 1
    BY DEF PacketsInv
  <1>4. LengthAt(stream, First(k)) \in Nat /\ LengthAt(stream, First(k)) >= 16
    <2>1. stream \in Seq(Byte)
      BY DEF TypeOK
    <2>2. First(k) \in Nat \ {0} /\ First(k) + 5 <= Len(stream)
      BY <1>2, <1>3
    <2> HIDE DEF First
    <2> QED
      BY <2>1, <2>2, LengthType
  <1> QED
    BY <1>2, <1>3, <1>4

\* What is sent leaves what was sent, and the packets in it, where it is.
LEMMA StreamGrows ==
  ASSUME TypeOK, PacketsInv, NEW item \in Packets \cup Noise, Report(item)
  PROVE  /\ Len(stream') = Len(stream) + Len(item)
         /\ \A i \in 1..Len(stream) : stream'[i] = stream[i]
         /\ \A i \in 1..Len(item) : stream'[Len(stream) + i] = item[i]
         /\ Len(packets') = IF item \in Packets THEN Len(packets) + 1
                            ELSE Len(packets)
         /\ \A k \in 1..Len(packets) :
              /\ First(k)' = First(k) /\ Last(k)' = Last(k)
              /\ IsSync(stream', First(k))
              /\ LengthAt(stream', First(k)) = LengthAt(stream, First(k))
              /\ SubSeq(stream', First(k), Last(k)) = SubSeq(stream, First(k), Last(k))
         /\ item \in Packets =>
              /\ packets'[Len(packets) + 1].first = Len(stream) + 1
              /\ packets'[Len(packets) + 1].last = Len(stream')
              /\ LengthAt(stream', Len(stream) + 1) = Len(item)
              /\ IsSync(stream', Len(stream) + 1) /\ Len(item) >= 16
  <1>1. stream \in Seq(Byte) /\ item \in Seq(Byte) /\ Len(item) \in Nat \ {0}
    BY ItemBytes DEF TypeOK
  <1>2. /\ stream' \in Seq(Byte) /\ Len(stream) \in Nat
        /\ Len(stream') = Len(stream) + Len(item)
        /\ \A i \in 1..Len(stream) : stream'[i] = stream[i]
        /\ \A i \in 1..Len(item) : stream'[Len(stream) + i] = item[i]
    BY <1>1, ConcatBytes DEF Report
  <1>3. /\ Len(packets) \in Nat
        /\ Len(packets') = IF item \in Packets THEN Len(packets) + 1
                           ELSE Len(packets)
        /\ \A k \in 1..Len(packets) : packets'[k] = packets[k]
        /\ item \in Packets =>
             packets'[Len(packets) + 1] = [first |-> Len(stream) + 1,
                                           last |-> Len(stream) + Len(item)]
    <2> DEFINE place == [first |-> Len(stream) + 1, last |-> Len(stream) + Len(item)]
    <2>1. place \in [first : Nat, last : Nat]
      BY <1>1, <1>2
    <2>2. packets' = IF item \in Packets THEN Append(packets, place) ELSE packets
      BY DEF Report
    <2>3. packets \in Seq([first : Nat, last : Nat]) /\ Len(packets) \in Nat
      BY LenProperties DEF TypeOK
    <2> HIDE DEF place
    <2>4. /\ Len(Append(packets, place)) = Len(packets) + 1
          /\ \A k \in 1..Len(packets) : Append(packets, place)[k] = packets[k]
          /\ Append(packets, place)[Len(packets) + 1] = place
      BY <2>1, <2>3, AppendProperties
    <2> QED
      BY <2>2, <2>3, <2>4 DEF place
  <1>4. ASSUME NEW k \in 1..Len(packets)
        PROVE  /\ First(k)' = First(k) /\ Last(k)' = Last(k)
               /\ IsSync(stream', First(k))
               /\ LengthAt(stream', First(k)) = LengthAt(stream, First(k))
               /\ SubSeq(stream', First(k), Last(k)) = SubSeq(stream, First(k), Last(k))
    <2> DEFINE f == First(k)
               n == LengthAt(stream, f)
    <2>1. /\ f \in Nat \ {0} /\ Last(k) = f + n - 1 /\ n \in Nat /\ n >= 16
          /\ f + n - 1 <= Len(stream)
      BY PacketPlace
    <2>2. f + n - 1 <= Len(stream')
      BY <1>1, <1>2, <2>1
    <2>3. \A j \in 1..n : stream'[f + j - 1] = stream[f + j - 1]
      <3>1. \A j \in 1..n : f + j - 1 \in 1..Len(stream)
        BY <1>2, <2>1
      <3> QED
        BY <1>2, <3>1
    <2>4. IsSync(stream, f)
      BY DEF PacketsInv
    <2>5. First(k)' = f /\ Last(k)' = Last(k)
      BY <1>3 DEF First, Last
    <2>6. n \in Nat \ {0}
      BY <2>1
    <2> HIDE DEF f, n
    <2>7. IsSync(stream', f) /\ LengthAt(stream', f) = LengthAt(stream, f)
      <3>1. f + 5 <= Len(stream) /\ f + 5 <= Len(stream')
        BY <1>1, <1>2, <2>1
      <3>2. \A j \in 0..5 : stream'[f + j] = stream[f + j]
        <4>1. \A j \in 0..5 : f + j \in 1..Len(stream)
          BY <1>2, <2>1, <3>1
        <4> QED
          BY <1>2, <4>1
      <3> QED
        BY <1>1, <1>2, <2>1, <2>4, <3>1, <3>2, SameHeader
    <2>8. SubSeq(stream', f, f + n - 1) = SubSeq(stream, f, f + n - 1)
      BY <1>1, <1>2, <2>1, <2>2, <2>3, <2>6, SlicesEqual
    <2> QED
      BY <2>1, <2>5, <2>7, <2>8 DEF f
  <1>5. ASSUME item \in Packets
        PROVE  /\ packets'[Len(packets) + 1].first = Len(stream) + 1
               /\ packets'[Len(packets) + 1].last = Len(stream')
               /\ LengthAt(stream', Len(stream) + 1) = Len(item)
               /\ IsSync(stream', Len(stream) + 1) /\ Len(item) >= 16
    <2>1. /\ Len(item) >= 16 /\ SyncAt(item, 1)
          /\ Len(item) = 16 + item[5] + 256 * item[6]
      BY <1>5, ItemBytes
    <2> DEFINE k == Len(stream) + 1
    <2>2. PICK m \in Nat \ {0} : m = 1
      OBVIOUS
    <2>3. k \in Nat \ {0} /\ k + 5 <= Len(stream') /\ m + 5 <= Len(item)
      BY <1>1, <1>2, <2>1, <2>2
    <2>4. \A j \in 0..5 : stream'[k + j] = item[m + j]
      <3>1. \A j \in 0..5 : k + j = Len(stream) + (m + j) /\ m + j \in 1..Len(item)
        BY <1>1, <1>2, <2>1, <2>2
      <3> QED
        BY <1>2, <3>1
    <2> HIDE DEF k
    <2>5. (IsSync(stream', k) <=> IsSync(item, m)) /\ LengthAt(stream', k) = LengthAt(item, m)
      <3>1. stream' \in Seq(Byte) /\ item \in Seq(Byte)
        BY <1>1, <1>2
      <3> QED
        BY <2>3, <2>4, <3>1, SameHeader
    <2>6. IsSync(item, 1)
      BY <1>1, <2>1, SyncBytes
    <2>7. LengthAt(item, 1) = Len(item)
      BY <2>1 DEF LengthAt, HeaderLength
    <2>8. /\ packets'[Len(packets) + 1].first = Len(stream) + 1
          /\ packets'[Len(packets) + 1].last = Len(stream')
      BY <1>2, <1>3, <1>5 DEF First, Last
    <2> QED
      BY <2>1, <2>2, <2>5, <2>6, <2>7, <2>8 DEF k
  <1> QED
    BY <1>2, <1>3, <1>4, <1>5

LEMMA PacketsNext ==
  ASSUME TypeOK, PacketsInv, [Next]_vars
  PROVE  PacketsInv'
  <1>1. CASE UNCHANGED sent
    BY <1>1 DEF PacketsInv, First, Last, sent
  <1>2. ASSUME NEW item \in Packets \cup Noise, Report(item)
        PROVE  PacketsInv'
    <2> DEFINE n == Len(packets)
               k == n + 1
    <2>1. /\ Len(stream') = Len(stream) + Len(item) /\ Len(stream) \in Nat
          /\ Len(item) \in Nat \ {0} /\ stream \in Seq(Byte)
          /\ n \in Nat /\ Len(packets') = IF item \in Packets THEN k ELSE n
      BY <1>2, StreamGrows, ItemBytes, LenProperties DEF TypeOK
    <2>2. ASSUME NEW l \in 1..n
          PROVE  /\ First(l)' = First(l) /\ Last(l)' = Last(l)
                 /\ IsSync(stream', First(l))
                 /\ LengthAt(stream', First(l)) = LengthAt(stream, First(l))
                 /\ First(l) \in Nat \ {0} /\ Last(l) \in Nat
                 /\ First(l) + 15 <= Last(l) /\ Last(l) <= Len(stream)
                 /\ Last(l) = First(l) + LengthAt(stream, First(l)) - 1
      BY <1>2, StreamGrows, PacketPlace
    <2>3. ASSUME item \in Packets
          PROVE  /\ packets'[k].first = Len(stream) + 1
                 /\ packets'[k].last = Len(stream')
                 /\ LengthAt(stream', Len(stream) + 1) = Len(item)
                 /\ IsSync(stream', Len(stream) + 1) /\ Len(item) >= 16
      BY <1>2, <2>3, StreamGrows
    <2> HIDE DEF n
    <2>4. ASSUME NEW l \in 1..Len(packets')
          PROVE  /\ First(l)' >= 1 /\ First(l)' + 15 <= Len(stream')
                 /\ IsSync(stream', First(l)')
                 /\ Last(l)' = First(l)' + LengthAt(stream', First(l)') - 1
                 /\ Last(l)' <= Len(stream')
      <3>1. CASE l \in 1..n
        BY <2>1, <2>2, <3>1
      <3>2. CASE l \notin 1..n
        <4>1. item \in Packets /\ l = k
          BY <2>1, <3>2
        <4>2. First(l)' = Len(stream) + 1 /\ Last(l)' = Len(stream')
          BY <2>3, <4>1 DEF First, Last
        <4> QED
          BY <2>1, <2>3, <4>1, <4>2
      <3> QED
        BY <3>1, <3>2
    <2>5. ASSUME NEW j \in 1..Len(packets'), NEW l \in 1..Len(packets'), j < l
          PROVE  Last(j)' < First(l)'
      <3>1. j \in 1..n
        BY <2>1, <2>5
      <3>2. CASE l \in 1..n
        BY <2>2, <2>5, <3>1, <3>2 DEF PacketsInv, n
      <3>3. CASE l \notin 1..n
        <4>1. item \in Packets /\ l = k
          BY <2>1, <3>3
        <4>2. First(l)' = Len(stream) + 1
          BY <2>3, <4>1 DEF First
        <4> QED
          BY <2>1, <2>2, <3>1, <4>2
      <3> QED
        BY <3>2, <3>3
    <2>6. ASSUME NEW i \in 1..Len(stream'), IsSync(stream', i)
          PROVE  \E l \in 1..Len(packets') : First(l)' <= i /\ i <= Last(l)'
      <3>1. stream' = stream \o item /\ i \in Nat \ {0}
        BY <1>2, <2>1 DEF Report
      <3>2. CASE IsSync(stream, i)
        <4>1. i + 3 <= Len(stream)
          BY <2>1, <3>1, <3>2, SyncBytes
        <4>2. i \in 1..Len(stream)
          BY <2>1, <3>1, <4>1
        <4>3. PICK l \in 1..n : First(l) <= i /\ i <= Last(l)
          BY <3>2, <4>2 DEF PacketsInv, n
        <4>4. l \in 1..Len(packets')
          BY <2>1
        <4> QED
          BY <2>2, <4>3, <4>4
      <3>3. CASE ~IsSync(stream, i)
        <4>1. item \in Packets /\ i > Len(stream)
          BY <2>1, <2>6, <3>1, <3>3, SyncInConcat
        <4>2. PICK l \in 1..Len(packets') : l = k
          BY <2>1, <4>1
        <4>3. First(l)' = Len(stream) + 1 /\ Last(l)' = Len(stream')
          BY <2>3, <4>1, <4>2 DEF First, Last
        <4> QED
          BY <2>1, <4>1, <4>3
      <3> QED
        BY <3>2, <3>3
    <2> QED
      BY <2>4, <2>5, <2>6 DEF PacketsInv
  <1>3. \/ UNCHANGED sent
        \/ \E item \in Packets \cup Noise : Report(item)
    BY DEF Next, vars, Request, Handle, Connect, OpenSocket, Dial, StartThreads,
       Refuse, Send, SendSecond, Wait, WaitTimeout, ReceiveThread, Loop, Receive,
       RecvFails, Discard, Deliver, Keep, Disconnect, Close, Lose
  <1> QED
    BY <1>1, <1>2, <1>3

-----------------------------------------------------------------------------
(* The bytes on the way and in the buffer.                                 *)

LEMMA Rest ==
  ASSUME NEW b \in Seq(Byte), NEW k \in 0..Len(b)
  PROVE  LET rest == SubSeq(b, k + 1, Len(b)) IN
         /\ rest \in Seq(Byte) /\ Len(rest) = Len(b) - k
         /\ \A j \in 1..(Len(b) - k) : rest[j] = b[k + j]
  <1>1. Len(b) \in Nat /\ k \in Nat /\ k + 1 \in Nat \ {0} /\ Len(b) \in 0..Len(b)
    BY LenProperties
  <1> DEFINE rest == SubSeq(b, k + 1, Len(b))
  <1>2. /\ rest \in Seq(Byte)
        /\ Len(rest) = IF k + 1 <= Len(b) THEN Len(b) - (k + 1) + 1 ELSE 0
        /\ \A j \in 1..(Len(b) - (k + 1) + 1) : rest[j] = b[k + 1 + j - 1]
    BY <1>1, SliceType
  <1> HIDE DEF rest
  <1>3. Len(rest) = Len(b) - k /\ Len(b) - (k + 1) + 1 = Len(b) - k
    BY <1>1, <1>2
  <1>4. \A j \in 1..(Len(b) - k) : k + 1 + j - 1 = k + j
    BY <1>1
  <1>5. \A j \in 1..(Len(b) - k) : rest[j] = b[k + j]
    BY <1>2, <1>3, <1>4
  <1> QED
    BY <1>2, <1>3, <1>5 DEF rest

\* The receive thread takes k bytes out of the buffer.
Takes(k) ==
    /\ k \in 0..Len(buffer)
    /\ buffer' = SubSeq(buffer, k + 1, Len(buffer))
    /\ UNCHANGED <<threads, link, wire, sent, arrived, raced>>

LEMMA Takings ==
  ASSUME TypeOK
  PROVE  /\ Discard => \E k \in 1..Len(buffer) : StopsAt(buffer, k) /\ Takes(k)
         /\ Deliver => /\ PacketLength(buffer) = LengthAt(buffer, 1)
                       /\ LengthAt(buffer, 1) \in Nat /\ LengthAt(buffer, 1) >= 16
                       /\ Takes(LengthAt(buffer, 1))
  <1>1. Len(buffer) \in Nat /\ buffer \in Seq(Byte)
    BY LenProperties DEF TypeOK
  <1>2. ASSUME Discard
        PROVE  \E k \in 1..Len(buffer) : StopsAt(buffer, k) /\ Takes(k)
    BY <1>1, <1>2 DEF Discard, Takes
  <1>3. ASSUME Deliver
        PROVE  /\ PacketLength(buffer) = LengthAt(buffer, 1)
               /\ LengthAt(buffer, 1) \in Nat /\ LengthAt(buffer, 1) >= 16
               /\ Takes(LengthAt(buffer, 1))
    <2>1. PacketLength(buffer) = LengthAt(buffer, 1)
      BY DEF PacketLength, LengthAt
    <2>2. 1 \in Nat \ {0} /\ 1 + 5 <= Len(buffer)
      BY <1>1, <1>3 DEF Deliver, Parsing, HeaderLength
    <2>3. LengthAt(buffer, 1) \in Nat /\ LengthAt(buffer, 1) >= 16
      BY <1>1, <2>2, LengthType
    <2>4. LengthAt(buffer, 1) <= Len(buffer)
      BY <1>3, <2>1 DEF Deliver
    <2>5. LengthAt(buffer, 1) \in 0..Len(buffer)
      BY <1>1, <2>3, <2>4
    <2>6. Takes(LengthAt(buffer, 1))
      BY <1>3, <2>1, <2>5 DEF Deliver, Takes
    <2> QED
      BY <2>1, <2>3, <2>6
  <1> QED
    BY <1>2, <1>3

LEMMA TakesStream ==
  ASSUME TypeOK, StreamInv, NEW k, Takes(k)
  PROVE  StreamInv' /\ Position' = Position + k
  <1>1. /\ buffer \in Seq(Byte) /\ Len(buffer) \in Nat /\ arrived \in Nat
        /\ Len(stream) \in Nat /\ k \in Nat /\ k <= Len(buffer)
    BY LenProperties DEF TypeOK, Takes
  <1>2. /\ Len(buffer') = Len(buffer) - k
        /\ \A j \in 1..Len(buffer') : buffer'[j] = buffer[k + j]
    BY <1>1, Rest DEF Takes
  <1>3. UNCHANGED <<main, link, wire, stream, arrived>>
    BY DEF Takes, threads, sent
  <1>4. Position' = Position + k
    BY <1>1, <1>2, <1>3 DEF Position
  <1>5. Len(buffer') <= arrived' /\ arrived' <= Len(stream')
    BY <1>1, <1>2, <1>3 DEF StreamInv
  <1>6. ASSUME NEW j \in 1..Len(buffer')
        PROVE  buffer'[j] = stream'[Position' + j]
    <2>1. k + j \in 1..Len(buffer)
      BY <1>1, <1>2
    <2>2. buffer'[j] = stream[Position + (k + j)]
      BY <1>2, <2>1 DEF StreamInv
    <2>3. Position + (k + j) = Position' + j
      BY <1>1, <1>2, <1>4 DEF Position
    <2> QED
      BY <1>3, <2>2, <2>3
  <1> QED
    BY <1>3, <1>4, <1>5, <1>6 DEF StreamInv

LEMMA ReceiveStream ==
  ASSUME TypeOK, StreamInv, Receive
  PROVE  StreamInv' /\ Position' = Position /\ arrived' \in Nat /\ arrived <= arrived'
  <1>1. PICK n \in 1..Len(wire) :
           /\ buffer' = buffer \o SubSeq(wire, 1, n)
           /\ wire' = SubSeq(wire, n + 1, Len(wire))
           /\ arrived' = arrived + n
    BY DEF Receive
  <1>2. /\ buffer \in Seq(Byte) /\ Len(buffer) \in Nat /\ arrived \in Nat
        /\ wire \in Seq(Byte) /\ Len(wire) \in Nat /\ Len(stream) \in Nat
        /\ n \in Nat \ {0} /\ n <= Len(wire)
    BY LenProperties DEF TypeOK
  <1>3. wire # <<>>
    BY <1>2, EmptySeq
  <1>4. /\ Len(wire) = Len(stream) - arrived
        /\ \A j \in 1..Len(wire) : wire[j] = stream[arrived + j]
    BY <1>3 DEF StreamInv
  <1> DEFINE part == SubSeq(wire, 1, n)
  <1>5. part \in Seq(Byte) /\ Len(part) = n /\ \A j \in 1..n : part[j] = wire[j]
    <2>1. n \in 0..Len(wire) /\ 1 <= n /\ n - 1 + 1 = n
      BY <1>2
    <2>2. part \in Seq(Byte) /\ Len(part) = n /\ \A j \in 1..n : part[j] = wire[1 + j - 1]
      BY <1>2, <2>1, SliceType
    <2>3. \A j \in 1..n : 1 + j - 1 = j
      BY <1>2
    <2> QED
      BY <2>2, <2>3
  <1> HIDE DEF part
  <1>6. /\ Len(buffer') = Len(buffer) + n
        /\ \A j \in 1..Len(buffer) : buffer'[j] = buffer[j]
        /\ \A j \in 1..n : buffer'[Len(buffer) + j] = wire[j]
    <2>1. buffer' = buffer \o part
      BY <1>1 DEF part
    <2>2. /\ Len(buffer') = Len(buffer) + Len(part)
          /\ \A j \in 1..Len(buffer) : buffer'[j] = buffer[j]
          /\ \A j \in 1..Len(part) : buffer'[Len(buffer) + j] = part[j]
      <3>1. buffer \in Seq(Byte) /\ part \in Seq(Byte)
        BY <1>2, <1>5
      <3> QED
        BY <2>1, <3>1, ConcatBytes
    <2> QED
      BY <1>5, <2>2
  <1>7. /\ Len(wire') = Len(wire) - n
        /\ \A j \in 1..Len(wire') : wire'[j] = wire[n + j]
    <2>1. n \in 0..Len(wire)
      BY <1>2
    <2> QED
      BY <1>1, <1>2, <2>1, Rest
  <1>8. UNCHANGED <<main, link, stream>>
    BY DEF Receive, sent
  <1>9. Position' = Position
    BY <1>1, <1>2, <1>6 DEF Position
  <1>10. Len(buffer') <= arrived' /\ arrived' <= Len(stream')
    BY <1>1, <1>2, <1>4, <1>6, <1>8 DEF StreamInv
  <1>11. ASSUME NEW j \in 1..Len(buffer')
         PROVE  buffer'[j] = stream[Position + j]
    <2>1. CASE j <= Len(buffer)
      <3>1. j \in 1..Len(buffer)
        BY <1>2, <1>6, <2>1
      <3> QED
        BY <1>6, <3>1 DEF StreamInv
    <2>2. CASE ~(j <= Len(buffer))
      <3> DEFINE i == j - Len(buffer)
      <3>1. i \in 1..n /\ i \in 1..Len(wire) /\ Len(buffer) + i = j
        BY <1>2, <1>6, <2>2
      <3>2. arrived + i = Position + j
        BY <1>2, <3>1 DEF Position
      <3> HIDE DEF i
      <3> QED
        BY <1>4, <1>6, <3>1, <3>2
    <2> QED
      BY <2>1, <2>2
  <1>12. Len(wire') = Len(stream') - arrived'
    BY <1>1, <1>2, <1>4, <1>7, <1>8
  <1>13. ASSUME NEW j \in 1..Len(wire')
         PROVE  wire'[j] = stream'[arrived' + j]
    <2>1. n + j \in 1..Len(wire) /\ arrived + (n + j) = arrived' + j
      BY <1>1, <1>2, <1>7
    <2> QED
      BY <1>4, <1>7, <1>8, <2>1
  <1>14. main' # "closed" /\ link' \in {"none", "made"} => stream' = <<>>
    BY <1>8 DEF StreamInv
  <1> QED
    BY <1>1, <1>2, <1>8, <1>9, <1>10, <1>11, <1>12, <1>13, <1>14 DEF StreamInv

LEMMA StreamNext ==
  ASSUME Inv, StreamInv, [Next]_vars, ~raced
  PROVE  StreamInv'
  <1> USE DEF Inv
  <1>1. \A h \in Handlers :
           /\ pc[h] = "socket" => link = "none"
           /\ pc[h] = "dial" => link = "made"
           /\ main # "run" => pc[h] = "idle"
    BY DEF ConnectionInv
  <1>2. stream \in Seq(Byte) /\ Len(stream) \in Nat /\ arrived \in Nat
        /\ Len(buffer) \in Nat /\ wire \in Seq(Byte) /\ Len(wire) \in Nat
    BY LenProperties DEF TypeOK
  <1>3. CASE UNCHANGED <<main, link, wire, buffer, stream, arrived>>
    BY <1>3 DEF StreamInv, Position
  <1>4. ASSUME NEW h \in Handlers, OpenSocket(h) \/ Dial(h)
        PROVE  StreamInv'
    <2>1. /\ main = "run" /\ link \in {"none", "made"}
          /\ UNCHANGED <<main, buffer, stream, arrived>>
      BY <1>1, <1>4 DEF TypeOK, OpenSocket, Dial, threads, parsing, sent
    <2>2. stream = <<>> /\ Len(stream) = 0
      BY <2>1, EmptySeq DEF StreamInv
    <2>3. wire' = <<>> /\ Len(wire') = 0
      <3>1. CASE wire' = <<>>
        BY <3>1, EmptySeq
      <3>2. CASE wire' = wire /\ wire # <<>>
        <4>1. Len(wire) = 0
          BY <1>2, <2>2, <3>2 DEF StreamInv
        <4> QED
          BY <1>2, <3>2, <4>1, EmptySeq
      <3> QED
        BY <1>4, <3>1, <3>2 DEF OpenSocket, Dial
    <2>4. Len(buffer) = 0 /\ arrived = 0
      BY <1>2, <2>2 DEF StreamInv
    <2> QED
      BY <2>1, <2>2, <2>3, <2>4 DEF StreamInv, Position
  <1>5. CASE Receive
    BY <1>5, ReceiveStream
  <1>6. CASE Discard
    BY <1>6, Takings, TakesStream
  <1>7. CASE Deliver
    BY <1>7, Takings, TakesStream
  <1>8. CASE Disconnect
    BY <1>8 DEF Disconnect, StreamInv, Position, parsing, sent
  <1>9. CASE Close
    BY <1>9 DEF Close, StreamInv, Position, parsing, sent
  <1>10. CASE Lose
    <2>1. /\ UNCHANGED <<main, buffer, stream, arrived>> /\ link' = "lost"
          /\ wire' = wire \/ wire' = <<>>
      BY <1>10 DEF Lose, threads, parsing, sent
    <2> QED
      BY <2>1 DEF StreamInv, Position
  <1>11. ASSUME NEW item \in Packets \cup Noise, Report(item)
         PROVE  StreamInv'
    <2>1. /\ link = "connected" /\ UNCHANGED <<main, link, buffer, arrived>>
          /\ wire' = wire \o item /\ stream' = stream \o item
      BY <1>11 DEF Report, threads, parsing
    <2>2. item \in Seq(Byte) /\ Len(item) \in Nat
      BY ItemBytes
    <2>3. /\ Len(stream') = Len(stream) + Len(item)
          /\ \A i \in 1..Len(stream) : stream'[i] = stream[i]
          /\ \A i \in 1..Len(item) : stream'[Len(stream) + i] = item[i]
      BY <1>2, <2>1, <2>2, ConcatBytes
    <2>4. /\ Len(wire') = Len(wire) + Len(item)
          /\ \A i \in 1..Len(wire) : wire'[i] = wire[i]
          /\ \A i \in 1..Len(item) : wire'[Len(wire) + i] = item[i]
      BY <1>2, <2>1, <2>2, ConcatBytes
    <2>5. Len(buffer) <= arrived /\ arrived <= Len(stream)
          /\ Len(wire) = Len(stream) - arrived
      BY <2>1 DEF StreamInv
    <2>6. ASSUME NEW j \in 1..Len(buffer)
          PROVE  buffer'[j] = stream'[Position' + j]
      <3>1. Position' = Position /\ Position + j \in 1..Len(stream)
        BY <1>2, <2>1, <2>5 DEF Position
      <3> QED
        BY <2>1, <2>3, <3>1 DEF StreamInv
    <2>7. ASSUME NEW j \in 1..Len(wire')
          PROVE  wire'[j] = stream'[arrived + j]
      <3>1. CASE j <= Len(wire)
        <4>1. j \in 1..Len(wire) /\ arrived + j \in 1..Len(stream)
          BY <1>2, <2>2, <2>4, <2>5, <3>1
        <4> QED
          BY <2>1, <2>3, <2>4, <4>1 DEF StreamInv
      <3>2. CASE ~(j <= Len(wire))
        <4> DEFINE i == j - Len(wire)
        <4>1. i \in 1..Len(item) /\ Len(wire) + i = j /\ Len(stream) + i = arrived + j
          BY <1>2, <2>2, <2>4, <2>5, <3>2
        <4> HIDE DEF i
        <4> QED
          BY <2>3, <2>4, <4>1
      <3> QED
        BY <3>1, <3>2
    <2>8. /\ Len(wire') = Len(stream') - arrived'
          /\ Len(buffer') <= arrived' /\ arrived' <= Len(stream')
      BY <1>2, <2>1, <2>2, <2>3, <2>4, <2>5
    <2> QED
      BY <2>1, <2>6, <2>7, <2>8 DEF StreamInv
  <1>12. \/ UNCHANGED <<main, link, wire, buffer, stream, arrived>>
         \/ \E h \in Handlers : OpenSocket(h) \/ Dial(h)
         \/ Receive \/ Discard \/ Deliver \/ Disconnect \/ Close \/ Lose
         \/ \E item \in Packets \cup Noise : Report(item)
    BY DEF Next, vars, Request, Handle, Connect, StartThreads, Refuse, Send,
       SendSecond, Wait, WaitTimeout, ReceiveThread, Loop, RecvFails, Keep,
       threads, parsing, sent
  <1> QED
    BY <1>3, <1>4, <1>5, <1>6, <1>7, <1>8, <1>9, <1>10, <1>11, <1>12

-----------------------------------------------------------------------------
(* The packets taken.                                                      *)

LEMMA SyncInBuffer ==
  ASSUME TypeOK, StreamInv, NEW i \in Nat \ {0}, i + 3 <= Len(buffer)
  PROVE  IsSync(buffer, i) <=> IsSync(stream, Position + i)
  <1>1. /\ buffer \in Seq(Byte) /\ stream \in Seq(Byte) /\ Len(buffer) \in Nat
        /\ arrived \in Nat /\ Len(stream) \in Nat
        /\ Len(buffer) <= arrived /\ arrived <= Len(stream)
    BY LenProperties DEF TypeOK, StreamInv
  <1> DEFINE m == Position + i
  <1>2. m \in Nat \ {0} /\ m + 3 <= Len(stream)
    BY <1>1 DEF Position
  <1>3. \A j \in 0..3 : buffer[i + j] = stream[m + j]
    <2>1. \A j \in 0..3 : i + j \in 1..Len(buffer) /\ Position + (i + j) = m + j
      BY <1>1 DEF Position
    <2> QED
      BY <2>1 DEF StreamInv
  <1> HIDE DEF m
  <1>4. IsSync(buffer, i) <=> IsSync(stream, m)
    BY <1>1, <1>2, <1>3, SameSync
  <1> QED
    BY <1>4 DEF m

\* A sync word at the beginning of the buffer is that of the next packet.
LEMMA NextPacket ==
  ASSUME TypeOK, PacketsInv, StreamInv, TakenInv, Parsing, StopsAt(buffer, 0)
  PROVE  LET n == Len(delivered) + 1 IN
         /\ n \in 1..Len(packets) /\ First(n) = Position + 1
         /\ LengthAt(stream, Position + 1) = LengthAt(buffer, 1)
  <1> DEFINE n == Len(delivered) + 1
             m == Position + 1
  <1>1. /\ buffer \in Seq(Byte) /\ stream \in Seq(Byte) /\ Len(buffer) \in Nat
        /\ arrived \in Nat /\ Len(stream) \in Nat
        /\ Len(buffer) <= arrived /\ arrived <= Len(stream)
        /\ Len(delivered) \in Nat /\ Len(packets) \in Nat
        /\ Len(delivered) <= Len(packets) /\ Len(buffer) >= 16
    BY LenProperties DEF TypeOK, StreamInv, TakenInv, Parsing, HeaderLength
  <1>2. Position \in Nat /\ m \in Nat \ {0} /\ m \in 1..Len(stream) /\ m + 5 <= Len(stream)
    BY <1>1 DEF Position
  <1>3. IsSync(buffer, 1)
    <2>1. Len(buffer) \in Nat /\ Len(buffer) >= 16
      BY <1>1
    <2>2. 0 # Len(buffer) - 3
      <3>1. \A x \in Nat : x >= 16 => 0 # x - 3
        OBVIOUS
      <3> QED
        BY <2>1, <3>1
    <2>3. IsSync(buffer, 0 + 1)
      BY <2>2 DEF StopsAt
    <2> QED
      BY <2>3
  <1>4. IsSync(stream, m)
    BY <1>1, <1>3, SyncInBuffer
  <1>5. LengthAt(stream, m) = LengthAt(buffer, 1)
    <2>1. /\ 5 \in 1..Len(buffer) /\ 6 \in 1..Len(buffer)
          /\ Position + 5 = m + 4 /\ Position + 6 = m + 5
      BY <1>1, <1>2
    <2>2. buffer[5] = stream[m + 4] /\ buffer[6] = stream[m + 5]
      BY <2>1 DEF StreamInv
    <2> QED
      BY <2>2 DEF LengthAt
  <1>6. PICK k \in 1..Len(packets) : First(k) <= m /\ m <= Last(k)
    BY <1>2, <1>4 DEF PacketsInv
  <1>7. First(k) \in Nat /\ Last(k) \in Nat
    BY PacketPlace
  <1>8. ~(k <= Len(delivered))
    <2> SUFFICES ASSUME k <= Len(delivered) PROVE FALSE
      OBVIOUS
    <2>1. k \in 1..Len(delivered)
      BY <1>1
    <2> QED
      BY <1>2, <1>6, <1>7, <2>1 DEF TakenInv
  <1>9. First(k) = m
    BY <1>1, <1>2, <1>6, <1>7, <1>8 DEF TakenInv
  <1>10. n \in 1..Len(packets)
    BY <1>1, <1>8
  <1>11. k = n
    <2> SUFFICES ASSUME k # n PROVE FALSE
      OBVIOUS
    <2>1. n < k /\ n > Len(delivered)
      BY <1>1, <1>8
    <2>2. Last(n) < First(k)
      BY <1>10, <2>1 DEF PacketsInv
    <2>3. First(n) > Position
      BY <1>10, <2>1 DEF TakenInv
    <2>4. First(n) \in Nat /\ Last(n) \in Nat /\ First(n) + 15 <= Last(n)
      BY <1>10, PacketPlace
    <2> QED
      BY <1>2, <1>9, <2>2, <2>3, <2>4
  <1> QED
    BY <1>5, <1>9, <1>10, <1>11

\* What is dropped is no part of a packet.
LEMMA DiscardTaken ==
  ASSUME Inv, PacketsInv, StreamInv, TakenInv, Discard
  PROVE  TakenInv'
  <1> USE DEF Inv
  <1>1. PICK k \in 1..Len(buffer) : StopsAt(buffer, k) /\ Takes(k)
    BY Takings
  <1>2. /\ Len(buffer) \in Nat /\ Len(delivered) \in Nat /\ Len(packets) \in Nat
        /\ arrived \in Nat /\ Len(buffer) <= arrived /\ k \in Nat \ {0}
    BY LenProperties DEF TypeOK, StreamInv
  <1>3. Position' = Position + k /\ Position \in Nat
    BY <1>1, <1>2, TakesStream DEF Position
  <1>4. /\ UNCHANGED <<packets, stream, delivered, arrived, receiver>>
        /\ receiver' = "parse"
    BY DEF Discard, Parsing, threads, sent
  <1>5. ASSUME NEW l \in 1..Len(packets), l > Len(delivered)
        PROVE  First(l) > Position + k
    <2> DEFINE i == First(l) - Position
    <2>1. First(l) \in Nat /\ First(l) > Position /\ IsSync(stream, First(l))
      BY <1>5, PacketPlace DEF TakenInv, PacketsInv
    <2>2. i \in Nat \ {0} /\ Position + i = First(l)
      BY <1>3, <2>1
    <2> HIDE DEF i
    <2> SUFFICES ASSUME i <= k PROVE FALSE
      BY <1>2, <1>3, <2>2
    <2>3. i \in 1..k /\ ~IsSync(buffer, i)
      BY <1>1, <1>2, <2>2 DEF StopsAt
    <2>4. i + 3 <= Len(buffer)
      <3>1. CASE k = Len(buffer) - 3
        BY <1>2, <2>2, <3>1
      <3>2. CASE IsSync(buffer, k + 1)
        <4>1. k + 1 + 3 <= Len(buffer)
          BY <3>2 DEF IsSync
        <4> QED
          BY <1>2, <2>2, <4>1
      <3> QED
        BY <1>1, <3>1, <3>2 DEF StopsAt
    <2> QED
      BY <2>1, <2>2, <2>3, <2>4, SyncInBuffer
  <1>6. ASSUME NEW l \in 1..Len(delivered)
        PROVE  Last(l) <= Position + k
    <2>1. l \in 1..Len(packets) /\ Last(l) <= Position
      BY <1>2 DEF TakenInv
    <2>2. Last(l) \in Nat
      BY <2>1, PacketPlace
    <2> QED
      BY <1>2, <1>3, <2>1, <2>2
  <1> QED
    BY <1>3, <1>4, <1>5, <1>6 DEF TakenInv, First, Last

\* What is delivered is the next packet.
LEMMA DeliverTaken ==
  ASSUME Inv, PacketsInv, StreamInv, TakenInv, Deliver
  PROVE  TakenInv'
  <1> USE DEF Inv
  <1> DEFINE n == Len(delivered) + 1
             size == LengthAt(buffer, 1)
             packet == SubSeq(buffer, 1, size)
  <1>1. Parsing /\ StopsAt(buffer, 0)
    BY DEF Deliver
  <1>2. /\ n \in 1..Len(packets) /\ First(n) = Position + 1
        /\ LengthAt(stream, Position + 1) = size
    BY <1>1, NextPacket
  <1>3. /\ PacketLength(buffer) = size /\ Takes(size)
        /\ size \in Nat /\ size >= 16 /\ size <= Len(buffer)
    <2>1. PacketLength(buffer) = size /\ Takes(size) /\ size \in Nat /\ size >= 16
      BY Takings
    <2>2. size <= Len(buffer)
      BY <2>1 DEF Deliver
    <2> QED
      BY <2>1, <2>2
  <1>4. /\ Len(buffer) \in Nat /\ Len(delivered) \in Nat /\ Len(packets) \in Nat
        /\ arrived \in Nat /\ Len(stream) \in Nat /\ Len(buffer) <= arrived
        /\ arrived <= Len(stream) /\ buffer \in Seq(Byte) /\ stream \in Seq(Byte)
    BY LenProperties DEF TypeOK, StreamInv
  <1>5. delivered' = Append(delivered, packet)
    BY <1>3 DEF Deliver
  <1>6. /\ UNCHANGED <<packets, stream, arrived, receiver>>
        /\ receiver' = "parse"
    BY DEF Deliver, Parsing, threads, sent
  <1>7. Position' = Position + size /\ Position \in Nat
    BY <1>3, <1>4, TakesStream DEF Position
  <1>8. Last(n) = Position + size
    <2>1. Last(n) = First(n) + LengthAt(stream, First(n)) - 1
      BY <1>2, PacketPlace
    <2>2. Last(n) = Position + 1 + size - 1
      BY <1>2, <2>1
    <2> QED
      BY <1>3, <1>7, <2>2
  <1> HIDE DEF size
  <1>9. packet \in Seq(Byte) /\ packet = SubSeq(stream, First(n), Last(n))
    <2> DEFINE m == Position + 1
    <2>1. /\ size \in Nat \ {0} /\ size \in 0..Len(buffer) /\ m \in Nat \ {0}
          /\ m + size - 1 <= Len(stream)
      BY <1>3, <1>4, <1>7 DEF Position
    <2>2. PICK u \in Nat \ {0} : u = 1
      OBVIOUS
    <2>3. u + size - 1 <= Len(buffer) /\ u + size - 1 = size
      BY <1>3, <2>2
    <2>4. \A j \in 1..size : buffer[u + j - 1] = stream[m + j - 1]
      <3>1. \A j \in 1..size :
               /\ j \in 1..Len(buffer) /\ u + j - 1 = j /\ m + j - 1 = Position + j
        BY <1>3, <1>4, <1>7, <2>2
      <3> QED
        BY <3>1 DEF StreamInv
    <2> HIDE DEF m
    <2>5. SubSeq(buffer, u, u + size - 1) = SubSeq(stream, m, m + size - 1)
      BY <1>4, <2>1, <2>2, <2>3, <2>4, SlicesEqual
    <2>6. m = First(n) /\ m + size - 1 = Last(n)
      BY <1>2, <1>3, <1>7, <1>8 DEF m
    <2>7. packet \in Seq(Byte)
      BY <1>4, <2>1, SliceType
    <2> QED
      BY <2>2, <2>3, <2>5, <2>6, <2>7
  <1> HIDE DEF packet
  <1>10. /\ Len(delivered') = n /\ delivered'[n] = packet
         /\ \A l \in 1..Len(delivered) : delivered'[l] = delivered[l]
    BY <1>5, <1>9, AppendProperties DEF TypeOK
  <1> HIDE DEF n
  <1>11. ASSUME NEW l \in 1..n
         PROVE  /\ delivered'[l] = SubSeq(stream, First(l), Last(l))
                /\ Last(l) <= Position + size
    <2>1. CASE l = n
      BY <1>3, <1>7, <1>8, <1>9, <1>10, <2>1
    <2>2. CASE l # n
      <3>1. l \in 1..Len(delivered) /\ l \in 1..Len(packets)
        BY <1>2, <1>4, <2>2 DEF n
      <3>2. Last(l) \in Nat /\ Last(l) <= Position
        BY <3>1, PacketPlace DEF TakenInv
      <3> QED
        BY <1>3, <1>7, <1>10, <3>1, <3>2 DEF TakenInv
    <2> QED
      BY <2>1, <2>2
  <1>12. ASSUME NEW l \in 1..Len(packets), l > n
         PROVE  First(l) > Position + size
    BY <1>2, <1>8, <1>12 DEF PacketsInv
  <1>13. n <= Len(packets)
    BY <1>2, <1>4
  <1> QED
    BY <1>6, <1>7, <1>10, <1>11, <1>12, <1>13 DEF TakenInv, First, Last

\* What is kept ends before the next packet does.
LEMMA KeepTaken ==
  ASSUME Inv, PacketsInv, StreamInv, TakenInv, Keep
  PROVE  TakenInv'
  <1> USE DEF Inv
  <1>1. UNCHANGED <<packets, stream, delivered, arrived, buffer>>
    BY DEF Keep, parsing, sent
  <1>2. /\ Len(buffer) \in Nat /\ Len(delivered) \in Nat /\ Len(packets) \in Nat
        /\ arrived \in Nat /\ Len(buffer) <= arrived
    BY LenProperties DEF TypeOK, StreamInv
  <1>3. Position \in Nat /\ Position + Len(buffer) = arrived
    BY <1>2 DEF Position
  <1>4. ASSUME NEW l \in 1..Len(packets), l > Len(delivered)
        PROVE  Last(l) > arrived
    <2>1. /\ First(l) \in Nat /\ Last(l) \in Nat /\ First(l) + 15 <= Last(l)
          /\ First(l) > Position
      BY <1>4, PacketPlace DEF TakenInv
    <2>2. CASE Len(buffer) < HeaderLength
      BY <1>2, <1>3, <2>1, <2>2 DEF HeaderLength
    <2>3. CASE Parsing /\ StopsAt(buffer, 0) /\ PacketLength(buffer) > Len(buffer)
      <3> DEFINE n == Len(delivered) + 1
                 size == LengthAt(buffer, 1)
      <3>1. /\ n \in 1..Len(packets) /\ First(n) = Position + 1
            /\ LengthAt(stream, Position + 1) = size
        BY <2>3, NextPacket
      <3>2. size > Len(buffer)
        BY <2>3 DEF PacketLength, LengthAt
      <3> HIDE DEF size
      <3>3. /\ Last(n) = Position + 1 + size - 1 /\ size \in Nat /\ Last(n) \in Nat
            /\ First(n) \in Nat
        BY <3>1, PacketPlace
      <3>4. Last(n) > arrived
        BY <1>2, <1>3, <3>2, <3>3
      <3>5. CASE l = n
        BY <3>4, <3>5
      <3>6. CASE l # n
        <4>1. n < l
          BY <1>2, <1>4, <3>6
        <4>2. Last(n) < First(l)
          BY <3>1, <4>1 DEF PacketsInv
        <4> QED
          BY <1>2, <2>1, <3>3, <3>4, <4>2
      <3> QED
        BY <3>5, <3>6
    <2> QED
      BY <2>2, <2>3 DEF Keep
  <1> QED
    BY <1>1, <1>4 DEF TakenInv, First, Last, Position

LEMMA ReportTaken ==
  ASSUME Inv, PacketsInv, StreamInv, TakenInv,
         NEW item \in Packets \cup Noise, Report(item)
  PROVE  TakenInv'
  <1> USE DEF Inv
  <1> DEFINE n == Len(packets)
  <1>1. /\ Len(buffer) \in Nat /\ Len(delivered) \in Nat /\ n \in Nat
        /\ arrived \in Nat /\ Len(stream) \in Nat /\ Len(item) \in Nat
        /\ Len(buffer) <= arrived /\ arrived <= Len(stream) /\ Len(delivered) <= n
    BY ItemBytes, LenProperties DEF TypeOK, StreamInv, TakenInv
  <1>2. /\ UNCHANGED <<delivered, arrived, buffer, receiver>>
    BY DEF Report, parsing, threads
  <1>3. Position' = Position /\ Position \in Nat /\ Position <= arrived
    BY <1>1, <1>2 DEF Position
  <1>4. /\ Len(stream') = Len(stream) + Len(item)
        /\ Len(packets') = IF item \in Packets THEN n + 1 ELSE n
        /\ \A k \in 1..n :
             /\ First(k)' = First(k) /\ Last(k)' = Last(k)
             /\ SubSeq(stream', First(k), Last(k)) = SubSeq(stream, First(k), Last(k))
        /\ item \in Packets =>
             /\ packets'[n + 1].first = Len(stream) + 1
             /\ packets'[n + 1].last = Len(stream') /\ Len(item) >= 16
    BY StreamGrows
  <1> HIDE DEF n
  <1>5. Len(delivered') <= Len(packets')
    BY <1>1, <1>2, <1>4
  <1>6. ASSUME NEW l \in 1..Len(delivered)
        PROVE  /\ delivered[l] = SubSeq(stream', First(l)', Last(l)')
               /\ Last(l)' <= Position
    <2>1. l \in 1..n
      BY <1>1
    <2> QED
      BY <1>4, <2>1 DEF TakenInv
  <1>7. ASSUME NEW l \in 1..Len(packets'), l > Len(delivered)
        PROVE  First(l)' > Position /\ (receiver # "parse" => Last(l)' > arrived)
    <2>1. CASE l \in 1..n
      BY <1>4, <1>7, <2>1 DEF TakenInv, n
    <2>2. CASE l \notin 1..n
      <3>1. item \in Packets /\ l = n + 1
        BY <1>1, <1>4, <2>2
      <3>2. First(l)' = Len(stream) + 1 /\ Last(l)' = Len(stream')
        BY <1>4, <3>1 DEF First, Last
      <3> QED
        BY <1>1, <1>3, <1>4, <3>1, <3>2
    <2> QED
      BY <2>1, <2>2
  <1> QED
    BY <1>2, <1>3, <1>5, <1>6, <1>7 DEF TakenInv

LEMMA TakenNext ==
  ASSUME Inv, PacketsInv, StreamInv, TakenInv, [Next]_vars
  PROVE  TakenInv'
  <1> USE DEF Inv
  <1>1. CASE /\ UNCHANGED <<packets, stream, delivered, arrived, buffer>>
             /\ receiver' # "parse" => receiver # "parse"
    BY <1>1 DEF TakenInv, First, Last, Position
  <1>2. CASE Receive
    <2>1. Position' = Position
      BY <1>2, ReceiveStream
    <2>2. UNCHANGED <<packets, stream, delivered>> /\ receiver' = "parse"
      BY <1>2 DEF Receive, sent
    <2> QED
      BY <2>1, <2>2 DEF TakenInv, First, Last
  <1>3. \/ /\ UNCHANGED <<packets, stream, delivered, arrived, buffer>>
           /\ receiver' # "parse" => receiver # "parse"
        \/ Receive \/ Discard \/ Deliver \/ Keep
        \/ \E item \in Packets \cup Noise : Report(item)
    BY DEF Next, vars, Request, Handle, Connect, OpenSocket, Dial, StartThreads,
       Refuse, Send, SendSecond, Wait, WaitTimeout, ReceiveThread, Loop, RecvFails,
       Disconnect, Close, Lose, threads, parsing, sent
  <1> QED
    BY <1>1, <1>2, <1>3, DiscardTaken, DeliverTaken, KeepTaken, ReportTaken

LEMMA BytesNext == Inv /\ BytesInv /\ [Next]_vars => BytesInv'
  <1> SUFFICES ASSUME Inv, BytesInv, [Next]_vars PROVE BytesInv'
    OBVIOUS
  <1>1. PacketsInv'
    BY PacketsNext DEF Inv, BytesInv
  <1>2. ASSUME ~raced' PROVE StreamInv' /\ TakenInv'
    <2>1. ~raced
      BY <1>2 DEF Next, vars, Request, Handle, Connect, OpenSocket, Dial,
         StartThreads, Refuse, Send, SendSecond, Wait, WaitTimeout, ReceiveThread,
         Loop, Receive, RecvFails, Discard, Deliver, Keep, Disconnect, Close, Lose,
         Report
    <2> QED
      BY <2>1, StreamNext, TakenNext DEF BytesInv
  <1> QED
    BY <1>1, <1>2 DEF BytesInv

LEMMA BytesInit == Init => BytesInv
  <1> SUFFICES ASSUME Init PROVE BytesInv
    OBVIOUS
  <1>1. /\ wire = <<>> /\ buffer = <<>> /\ stream = <<>> /\ packets = <<>>
        /\ delivered = <<>> /\ arrived = 0
    BY DEF Init
  <1>2. /\ Len(wire) = 0 /\ Len(buffer) = 0 /\ Len(stream) = 0 /\ Len(packets) = 0
        /\ Len(delivered) = 0
    BY <1>1
  <1> QED
    BY <1>1, <1>2 DEF BytesInv, PacketsInv, StreamInv, TakenInv, Position

-----------------------------------------------------------------------------
\* The inductive invariant holds.
THEOREM M20LinkInvariant == Spec => []Inv
  BY InvInit, InvNext, PTL DEF Spec

\* Type correctness, for any number of handlers and whatever is received.
THEOREM M20LinkTypes == Spec => []TypeOK
  <1>1. Inv => TypeOK
    BY DEF Inv
  <1> QED
    BY <1>1, M20LinkInvariant, PTL

\* The program ends only if two handlers connect at the same time.
THEOREM RacesAloneTerminate == Spec => []OnlyRacingConnectsTerminate
  <1>1. Inv => OnlyRacingConnectsTerminate
    BY DEF Inv, TypeOK, ConnectionInv, OnlyRacingConnectsTerminate
  <1> QED
    BY <1>1, M20LinkInvariant, PTL

\* Every packet that has arrived is taken, once and in order, and nothing else.
THEOREM PacketsAreTaken == Spec => []DeliveredIsArrived
  <1>1. TypeOK /\ BytesInv => DeliveredIsArrived
    <2> SUFFICES ASSUME TypeOK, BytesInv, receiver # "parse", ~raced
                 PROVE  DeliveredIsArrived
      BY DEF DeliveredIsArrived
    <2>1. StreamInv /\ TakenInv /\ PacketsInv
      BY DEF BytesInv
    <2>2. /\ Len(buffer) \in Nat /\ Len(delivered) \in Nat /\ Len(packets) \in Nat
          /\ arrived \in Nat /\ Position <= arrived /\ Position \in Nat
      BY <2>1, LenProperties DEF TypeOK, StreamInv, Position
    <2>3. ASSUME NEW i \in 1..Len(packets)
          PROVE  i <= Len(delivered) <=> Last(i) <= arrived
      <3>1. Last(i) \in Nat
        BY <2>1, PacketPlace
      <3>2. ASSUME i <= Len(delivered) PROVE Last(i) <= arrived
        <4>1. i \in 1..Len(delivered)
          BY <2>2, <3>2
        <4> QED
          BY <2>1, <2>2, <3>1, <4>1 DEF TakenInv
      <3>3. ASSUME ~(i <= Len(delivered)) PROVE ~(Last(i) <= arrived)
        BY <2>1, <2>2, <3>1, <3>3 DEF TakenInv
      <3> QED
        BY <3>2, <3>3
    <2> QED
      BY <2>1, <2>3 DEF TakenInv, DeliveredIsArrived, First, Last
  <1>2. Inv => TypeOK
    BY DEF Inv
  <1>3. Spec => []BytesInv
    BY BytesInit, BytesNext, M20LinkInvariant, PTL DEF Spec
  <1> QED
    BY <1>1, <1>2, <1>3, M20LinkInvariant, PTL

\* A charge command succeeds on a state that the robot has reported.
THEOREM ChargeIsReported == Spec => ChargeWasReported
  <1>1. Inv /\ [Next]_vars =>
          [\A h \in Handlers :
             pc[h] = "wait" /\ reply'[h] = "ok" =>
               \E i \in DOMAIN delivered :
                 Payload(delivered[i]) = <<Status, Awaited[cmd[h]]>>]_vars
    <2> SUFFICES ASSUME Inv, Next, NEW h \in Handlers, pc[h] = "wait",
                        reply'[h] = "ok"
                 PROVE  \E i \in DOMAIN delivered :
                           Payload(delivered[i]) = <<Status, Awaited[cmd[h]]>>
      OBVIOUS
    <2>1. reply[h] = "none" /\ cmd[h] \in DOMAIN Awaited
      BY DEF Inv, WaitInv
    <2>2. reply' # reply
      BY <2>1
    <2>3. PICK u \in Handlers : Request(u) \/ Handle(u)
      BY <2>2 DEF Next, ReceiveThread, Loop, Receive, RecvFails, Discard,
         Deliver, Keep, Disconnect, Close, Lose, Report, handlers
    <2>4. u = h
      BY <2>1, <2>3 DEF Inv, TypeOK, Request, Handle, Connect, OpenSocket, Dial,
         StartThreads, Refuse, Send, SendSecond, Wait, WaitTimeout, Answer
    <2>5. charge = Awaited[cmd[h]]
      BY <2>1, <2>3, <2>4 DEF Inv, TypeOK, Request, Handle, Connect, OpenSocket,
         Dial, StartThreads, Refuse, Send, SendSecond, Wait, WaitTimeout, Answer
    <2>6. Awaited[cmd[h]] # Unknown
      BY <2>1 DEF Awaited, Unknown
    <2> QED
      BY <2>5, <2>6 DEF Inv, ChargeInv
  <1> QED
    BY <1>1, M20LinkInvariant, PTL DEF Spec, ChargeWasReported
-----------------------------------------------------------------------------
(* What never recovers: isConnected() looks at sockfd_, which a lost         *)
(* connection leaves set, so that no request makes another.                  *)

\* The connection is lost, or was until the destructor closed it.
Lost ==
    /\ ~raced
    /\ link = "lost" \/ (main = "closed" /\ link = "none")

LEMMA LostStays ==
  ASSUME Inv, Lost, [Next]_vars
  PROVE  Lost' /\ stream' = stream
  <1> USE DEF Lost, handlers, threads, parsing, sent
  <1>1. ASSUME NEW h \in Handlers, Request(h) \/ Handle(h)
        PROVE  Lost' /\ stream' = stream
    <2>1. /\ pc[h] \notin {"socket", "dial"}
          /\ main = "closed" => pc[h] = "idle"
      BY DEF Inv, ConnectionInv, Connecting
    <2>2. CASE Request(h) \/ Refuse(h) \/ SendSecond(h) \/ Wait(h) \/ WaitTimeout(h)
               \/ \E c \in Commands : Send(h, c)
      BY <2>2 DEF Request, Refuse, SendSecond, Wait, WaitTimeout, Send
    <2>3. CASE Connect(h)
      <3>1. link = "lost"
        BY <2>1, <2>3 DEF Connect
      <3>2. ~raced'
        BY <2>3, <3>1, Zenon DEF Connect
      <3> QED
        BY <2>3, <3>1, <3>2 DEF Connect
    <2>4. CASE StartThreads(h)
      BY <2>4 DEF StartThreads
    <2> QED
      BY <1>1, <2>1, <2>2, <2>3, <2>4 DEF Handle, OpenSocket, Dial
  <1>2. CASE ReceiveThread
    BY <1>2 DEF ReceiveThread, Loop, Receive, RecvFails, Discard, Deliver, Keep
  <1>3. CASE Disconnect \/ Close \/ Lose
    BY <1>3 DEF Disconnect, Close, Lose
  <1>4. CASE \E item \in Packets \cup Noise : Report(item)
    BY <1>4 DEF Report
  <1>5. CASE UNCHANGED vars
    BY <1>5 DEF vars
  <1> QED
    BY <1>1, <1>2, <1>3, <1>4, <1>5 DEF Next

\* Unless two handlers had raced, a connection that was lost is never made again
\* while the program runs, whatever is requested of the robot, and nothing the
\* robot says is heard after it: what it has sent remains what it was.
THEOREM LostIsForGood ==
  ASSUME NEW s
  PROVE  Spec => [](~raced /\ link = "lost" /\ stream = s
                      => []((link = "lost" \/ main = "closed") /\ stream = s))
  <1>1. Inv /\ Lost /\ stream = s /\ [Next]_vars => Lost' /\ (stream = s)'
    BY LostStays
  <1>2. ~raced /\ link = "lost" => Lost
    BY DEF Lost
  <1>3. Lost => link = "lost" \/ main = "closed"
    BY DEF Lost
  <1> QED
    BY <1>1, <1>2, <1>3, M20LinkInvariant, PTL DEF Spec

\* Nothing more is on the way, and the receive thread is through with what was.
Deaf == Lost /\ wire = <<>> /\ receiver \in {"unborn", "top", "recv", "exited"}

LEMMA DeafStays ==
  ASSUME Inv, Deaf, [Next]_vars
  PROVE  Deaf' /\ charge' = charge
  <1>1. Lost'
    BY LostStays DEF Deaf
  <1> USE DEF Deaf, handlers, threads, parsing, sent
  <1>2. ASSUME NEW h \in Handlers, Request(h) \/ Handle(h)
        PROVE  Deaf' /\ charge' = charge
    BY <1>1, <1>2
    DEF Request, Handle, Connect, OpenSocket, Dial, StartThreads, Refuse, Send,
        SendSecond, Wait, WaitTimeout
  <1>3. CASE ReceiveThread
    <2>1. ~Receive
      BY EmptySeq DEF Receive
    <2> QED
      BY <1>1, <1>3, <2>1
      DEF ReceiveThread, Loop, RecvFails, Discard, Deliver, Keep, Parsing
  <1>4. CASE Disconnect \/ Close \/ Lose
    BY <1>1, <1>4 DEF Disconnect, Close, Lose, Lost
  <1>5. CASE \E item \in Packets \cup Noise : Report(item)
    BY <1>5 DEF Report, Lost
  <1>6. CASE UNCHANGED vars
    BY <1>1, <1>6 DEF vars
  <1> QED
    BY <1>2, <1>3, <1>4, <1>5, <1>6 DEF Next

\* From then on the charge state is the last one heard: a charge command that
\* waits for another never succeeds, and one that waits for this one can succeed
\* without a word from the robot.
THEOREM DeafKeepsCharge ==
  ASSUME NEW c
  PROVE  Spec => [](Deaf /\ charge = c => [](charge = c))
  <1>1. Inv /\ Deaf /\ charge = c /\ [Next]_vars => Deaf' /\ (charge = c)'
    BY DeafStays
  <1> QED
    BY <1>1, M20LinkInvariant, PTL DEF Spec
=============================================================================
