--------------------------- MODULE BulkPortProofs ---------------------------
(***************************************************************************)
(* The bulk endpoint delivers, for every packet size, media packet and set *)
(* of commands.  The inductive invariant says where the command under way  *)
(* is: one named stage at a time, as long as none came too early.          *)
(***************************************************************************)
EXTENDS BulkPort, SequenceTheorems, TLAPS

LEMMA Numbers ==
  /\ MaxPacket \in Nat /\ MaxPacket > 0
  /\ Media \in Nat /\ Media > 0 /\ Media % MaxPacket = 0
BY SizeAssumption

LEMMA CommandType ==
  ASSUME NEW c \in Commands \cup {NoCommand}
  PROVE  /\ c.kind \in Kinds /\ c.size \in Nat
         /\ c.kind = "reply" => c.size > 0 /\ c.size <= MaxPacket
         /\ c.kind \in {"read", "write"} => c.size > 0 /\ c.size % Media = 0
BY CommandAssumption, Numbers DEF NoCommand, Kinds

-----------------------------------------------------------------------------
\* Multiples of a length.
LEMMA Multiple ==
  ASSUME NEW m \in Nat, m > 0, NEW x \in Nat, x % m = 0
  PROVE  \E q \in Nat : x = q * m
<1>1. x \div m \in Nat /\ x = m * (x \div m) + (x % m)
  OBVIOUS
<1>2. x = (x \div m) * m
  BY <1>1
<1> QED BY <1>1, <1>2

LEMMA Multiplied ==
  ASSUME NEW m \in Nat, m > 0, NEW q \in Nat
  PROVE  (q * m) % m = 0 /\ q * m \in Nat
OBVIOUS

\* One more, one less, and the next multiple below another one.
LEMMA MultipleUp ==
  ASSUME NEW m \in Nat, m > 0, NEW x \in Nat, x % m = 0
  PROVE  (x + m) % m = 0
<1>1. PICK q \in Nat : x = q * m
  BY Multiple
<1>2. PICK k \in Nat : x + m = k * m
  <2>1. q + 1 \in Nat /\ x + m = (q + 1) * m
    BY <1>1
  <2> QED BY <2>1
<1>3. (k * m) % m = 0
  BY <1>2, Multiplied
<1> QED BY <1>2, <1>3, Zenon

LEMMA MultipleDown ==
  ASSUME NEW m \in Nat, m > 0, NEW x \in Nat, x % m = 0, x > 0
  PROVE  x >= m /\ (x - m) % m = 0
<1>1. PICK q \in Nat : x = q * m
  BY Multiple
<1>2. q > 0
  BY <1>1
<1>3. q - 1 \in Nat /\ x - m = (q - 1) * m
  BY <1>1, <1>2
<1>4. (q - 1) * m \in Nat
  BY <1>3, Multiplied
<1> QED BY <1>3, <1>4, Multiplied

LEMMA MultipleBelow ==
  ASSUME NEW m \in Nat, m > 0, NEW x \in Nat, x % m = 0,
         NEW y \in Nat, y % m = 0, x < y
  PROVE  x + m <= y
<1>1. PICK q \in Nat : x = q * m
  BY Multiple
<1>2. PICK r \in Nat : y = r * m
  BY Multiple
<1>3. q < r
  BY <1>1, <1>2
<1>4. PICK d \in Nat : r = q + 1 + d
  <2>1. r - q - 1 \in Nat /\ r = q + 1 + (r - q - 1)
    BY <1>3
  <2> QED BY <2>1
<1>5. y = x + m + d * m /\ d * m \in Nat
  BY <1>1, <1>2, <1>4
<1> QED BY <1>5

\* A multiple of the media packet is a multiple of the packet.
LEMMA WholePackets ==
  ASSUME NEW x \in Nat, x % Media = 0
  PROVE  x % MaxPacket = 0
<1>1. PICK r \in Nat : x = r * Media
  BY Numbers, Multiple
<1>2. PICK q \in Nat : Media = q * MaxPacket
  BY Numbers, Multiple
<1>3. MaxPacket \in Nat /\ x = (r * q) * MaxPacket /\ r * q \in Nat
  BY <1>1, <1>2, Numbers
<1> QED BY <1>3, Numbers, Multiplied

\* The packets it takes to move a number of bytes.
LEMMA PacketCount ==
  ASSUME NEW m \in Nat
  PROVE  (m * MaxPacket + MaxPacket - 1) \div MaxPacket = m
<1> DEFINE x == m * MaxPacket + MaxPacket - 1
           d == x \div MaxPacket
           r == x % MaxPacket
<1>0. MaxPacket \in Nat /\ MaxPacket > 0 /\ m * MaxPacket \in Nat
  BY Numbers, Multiplied
<1>1. x \in Nat
  BY <1>0
<1>2. d \in Nat /\ r \in Nat /\ r < MaxPacket /\ x = MaxPacket * d + r
  BY <1>0, <1>1
<1>3. x = m * MaxPacket + (MaxPacket - 1)
  BY <1>0
<1> HIDE DEF x, d, r
<1>4. ASSUME d < m PROVE FALSE
  <2>1. PICK k \in Nat : m = d + 1 + k
    <3>1. m - d - 1 \in Nat /\ m = d + 1 + (m - d - 1)
      BY <1>2, <1>4
    <3> QED BY <3>1
  <2>2. m * MaxPacket = d * MaxPacket + MaxPacket + k * MaxPacket /\ k * MaxPacket \in Nat
    BY <1>0, <1>2, <2>1
  <2> QED BY <1>0, <1>2, <1>3, <2>2
<1>5. ASSUME d > m PROVE FALSE
  <2>1. PICK k \in Nat : d = m + 1 + k
    <3>1. d - m - 1 \in Nat /\ d = m + 1 + (d - m - 1)
      BY <1>2, <1>5
    <3> QED BY <3>1
  <2>2. MaxPacket * d = m * MaxPacket + MaxPacket + k * MaxPacket /\ k * MaxPacket \in Nat
    BY <1>0, <1>2, <2>1
  <2> QED BY <1>0, <1>2, <1>3, <2>2
<1>6. d = m
  BY <1>2, <1>4, <1>5
<1> QED BY <1>6 DEF d, x

-----------------------------------------------------------------------------
\* A sequence that agrees with a longer one is a prefix of it.
LEMMA PrefixByElements ==
  ASSUME NEW S, NEW s \in Seq(S), NEW t \in Seq(S), Len(s) <= Len(t),
         \A i \in 1 .. Len(s) : s[i] = t[i]
  PROVE  IsPrefix(s, t)
<1>1. Len(s) \in Nat /\ Len(t) \in Nat
  BY LenProperties
<1>2. \A i \in 1 .. Len(s) : s[i] \in S /\ t[i] \in S
  BY <1>1, ElementOfSeq
<1>3. /\ SubSeq(s, 1, Len(s)) \in Seq(S) /\ SubSeq(t, 1, Len(s)) \in Seq(S)
      /\ Len(SubSeq(s, 1, Len(s))) = Len(s) /\ Len(SubSeq(t, 1, Len(s))) = Len(s)
      /\ \A i \in 1 .. Len(s) : SubSeq(s, 1, Len(s))[i] = s[i]
      /\ \A i \in 1 .. Len(s) : SubSeq(t, 1, Len(s))[i] = t[i]
  BY <1>1, <1>2, SubSeqProperties
<1>4. SubSeq(s, 1, Len(s)) = SubSeq(t, 1, Len(s))
  BY <1>3, SeqEqual
<1> QED BY <1>4 DEF IsPrefix

LEMMA PacketType ==
  /\ Csw \in DataPacket
  /\ \A at \in Nat : Packet(at) \in DataPacket
BY Numbers DEF Csw, Packet, DataPacket

\* The packets of whole ones: how many, and which.
LEMMA PacketsShape ==
  ASSUME NEW m \in Nat
  PROVE  /\ Packets(m * MaxPacket) \in Seq(DataPacket)
         /\ Len(Packets(m * MaxPacket)) = m
         /\ \A i \in 1 .. m : Packets(m * MaxPacket)[i] = Packet((i - 1) * MaxPacket)
<1> DEFINE n == m * MaxPacket
           p == Packets(n)
           at(i) == (i - 1) * MaxPacket
           Elem(i) == [what |-> "data", at |-> at(i),
                       len |-> IF n - at(i) > MaxPacket THEN MaxPacket ELSE n - at(i)]
<1>1. p = [i \in 1 .. m |-> Elem(i)]
  BY PacketCount DEF Packets
<1>2. ASSUME NEW i \in 1 .. m PROVE Elem(i) = Packet(at(i)) /\ at(i) \in Nat
  <2>1. i - 1 \in Nat /\ MaxPacket \in Nat /\ MaxPacket > 0
    BY Numbers
  <2>2. at(i) \in Nat
    BY <2>1, Multiplied
  <2>3. PICK k \in Nat : m = i + k
    <3>1. m - i \in Nat /\ m = i + (m - i)
      OBVIOUS
    <3> QED BY <3>1
  <2>4. n = at(i) + MaxPacket + k * MaxPacket /\ k * MaxPacket \in Nat
    BY <2>1, <2>3
  <2> HIDE DEF n, at
  <2>5. (IF n - at(i) > MaxPacket THEN MaxPacket ELSE n - at(i)) = MaxPacket
    BY <2>1, <2>2, <2>4
  <2> QED BY <2>2, <2>5 DEF Packet
<1> HIDE DEF n, at, Elem
<1>3. p \in [1 .. m -> DataPacket]
  BY <1>1, <1>2, PacketType
<1>4. p \in Seq(DataPacket) /\ Len(p) = m
  BY <1>3
<1>5. \A i \in 1 .. m : p[i] = Packet(at(i))
  BY <1>1, <1>2
<1> QED BY <1>4, <1>5 DEF n, at

\* One more packet in its place.
LEMMA OneMore ==
  ASSUME NEW s \in Seq(DataPacket), NEW e \in Nat, InOrder(s, e)
  PROVE  InOrder(Append(s, Packet(e)), e + MaxPacket)
<1> DEFINE t == Append(s, Packet(e))
<1>1. Len(s) \in Nat /\ Len(s) * MaxPacket = e /\ MaxPacket \in Nat
  BY LenProperties, Numbers DEF InOrder
<1>2. /\ Len(t) = Len(s) + 1
      /\ \A i \in 1 .. Len(s) : t[i] = s[i]
      /\ t[Len(s) + 1] = Packet(e)
  BY AppendProperties, PacketType
<1>3. (Len(s) + 1) * MaxPacket = e + MaxPacket
  BY <1>1
<1>4. ASSUME NEW i \in 1 .. Len(t) PROVE t[i] = Packet((i - 1) * MaxPacket)
  <2>1. CASE i = Len(s) + 1
    <3>1. i - 1 = Len(s)
      BY <1>1, <2>1
    <3> QED BY <1>1, <1>2, <2>1, <3>1
  <2>2. CASE i # Len(s) + 1
    <3>1. i \in 1 .. Len(s)
      BY <1>1, <1>2, <2>2
    <3> QED BY <1>2, <3>1 DEF InOrder
  <2> QED BY <2>1, <2>2
<1> HIDE DEF t
<1>5. InOrder(t, e + MaxPacket)
  BY <1>2, <1>3, <1>4 DEF InOrder
<1> QED BY <1>5 DEF t

\* Packets in order, up to the end of some whole ones, are these.
LEMMA AllOfThem ==
  ASSUME NEW n \in Nat, n % MaxPacket = 0,
         NEW s \in Seq(DataPacket), InOrder(s, n)
  PROVE  s = Packets(n)
<1>1. Len(s) \in Nat /\ Len(s) * MaxPacket = n
  BY LenProperties DEF InOrder
<1>2. /\ Packets(n) \in Seq(DataPacket) /\ Len(Packets(n)) = Len(s)
      /\ \A i \in 1 .. Len(s) : Packets(n)[i] = Packet((i - 1) * MaxPacket)
  BY <1>1, PacketsShape
<1> QED BY <1>2, SeqEqual DEF InOrder

\* Packets in order, up to a place in some whole ones, are the first of them.
LEMMA FirstOfThem ==
  ASSUME NEW n \in Nat, n % MaxPacket = 0, NEW e \in Nat, e <= n,
         NEW s \in Seq(DataPacket), InOrder(s, e)
  PROVE  IsPrefix(s, Packets(n)) /\ IsPrefix(s, Append(Packets(n), Csw))
<1>1. MaxPacket \in Nat /\ MaxPacket > 0
  BY Numbers
<1>2. PICK m \in Nat : n = m * MaxPacket
  BY <1>1, Multiple
<1>3. Len(s) \in Nat /\ Len(s) * MaxPacket = e
  BY LenProperties DEF InOrder
<1>4. Len(s) <= m
  BY <1>1, <1>2, <1>3
<1>5. /\ Packets(n) \in Seq(DataPacket) /\ Len(Packets(n)) = m
      /\ \A i \in 1 .. m : Packets(n)[i] = Packet((i - 1) * MaxPacket)
  BY <1>2, PacketsShape
<1>6. /\ Append(Packets(n), Csw) \in Seq(DataPacket)
      /\ Len(Append(Packets(n), Csw)) = m + 1
      /\ \A i \in 1 .. m : Append(Packets(n), Csw)[i] = Packets(n)[i]
  <2>1. Csw \in DataPacket /\ Packets(n) \in Seq(DataPacket)
    BY <1>5, PacketType
  <2>2. /\ Append(Packets(n), Csw) \in Seq(DataPacket)
        /\ Len(Append(Packets(n), Csw)) = Len(Packets(n)) + 1
        /\ \A i \in 1 .. Len(Packets(n)) :
             Append(Packets(n), Csw)[i] = Packets(n)[i]
    BY <2>1, AppendProperties
  <2> QED BY <1>5, <2>2
<1>7. \A i \in 1 .. Len(s) : i \in 1 .. m /\ s[i] = Packets(n)[i]
  BY <1>3, <1>4, <1>5 DEF InOrder
<1>8. IsPrefix(s, Packets(n))
  BY <1>3, <1>4, <1>5, <1>7, PrefixByElements
<1>9. IsPrefix(s, Append(Packets(n), Csw))
  <2>1. \A i \in 1 .. Len(s) : s[i] = Append(Packets(n), Csw)[i]
    BY <1>6, <1>7
  <2>2. Len(s) <= Len(Append(Packets(n), Csw))
    BY <1>3, <1>4, <1>6
  <2> QED BY <1>6, <2>1, <2>2, PrefixByElements
<1> QED BY <1>8, <1>9

\* A reply goes in one packet.
LEMMA OnePacket ==
  ASSUME NEW n \in Nat, n > 0, n <= MaxPacket
  PROVE  Packets(n) = <<[what |-> "data", at |-> 0, len |-> n]>>
<1>1. MaxPacket \in Nat /\ MaxPacket > 0
  BY Numbers
<1>2. (n + MaxPacket - 1) \div MaxPacket = 1
  <2>1. /\ n + MaxPacket - 1 \in Nat
        /\ n + MaxPacket - 1 >= MaxPacket /\ n + MaxPacket - 1 < MaxPacket + MaxPacket
    BY <1>1
  <2> QED BY <1>1, <2>1
<1>3. (1 - 1) * MaxPacket = 0 /\ ~(n - 0 > MaxPacket) /\ n - 0 = n
  BY <1>1
<1> QED BY <1>2, <1>3 DEF Packets

-----------------------------------------------------------------------------
LEMMA CutType ==
  ASSUME NEW n \in Nat
  PROVE  /\ Cut(n) \in Nat /\ Cut(n) <= MaxPacket /\ Cut(n) <= n
         /\ n <= MaxPacket => Cut(n) = n
         /\ n >= MaxPacket => Cut(n) = MaxPacket
BY Numbers DEF Cut

\* What a transmission leaves in the endpoint.
LEMMA TransmitType ==
  ASSUME NEW what \in {"data", "csw"}, NEW at \in Nat,
         NEW n \in Nat, n <= Media \/ n <= MaxPacket, Transmit(what, at, n)
  PROVE  /\ in_ep' \in [what : {"data", "csw"}, at : Nat, xfer_len : 0 .. Media]
         /\ tx_packet' \in [what : {"data", "csw"}, at : Nat, len : 0 .. MaxPacket]
         /\ tx' = "valid"
<1>1. /\ Media \in Nat /\ MaxPacket \in Nat
      /\ Cut(n) \in 0 .. MaxPacket /\ n - Cut(n) \in 0 .. Media
  BY Numbers, CutType
<1>2. /\ in_ep' = [what |-> what, at |-> at, xfer_len |-> n - Cut(n)]
      /\ tx_packet' = [what |-> what, at |-> at, len |-> Cut(n)]
      /\ tx' = "valid"
  BY DEF Transmit
<1> QED BY <1>1, <1>2

LEMMA ReceiveType ==
  ASSUME NEW at \in Nat, NEW n \in Nat, n <= Media \/ n <= MaxPacket, Receive(at, n)
  PROVE  out_ep' \in [at : Nat, xfer_len : 0 .. Media] /\ rx' = "valid"
<1>1. Media \in Nat /\ MaxPacket \in Nat /\ n - Cut(n) \in 0 .. Media
  BY Numbers, CutType
<1>2. out_ep' = [at |-> at, xfer_len |-> n - Cut(n)] /\ rx' = "valid"
  BY DEF Receive
<1> QED BY <1>1, <1>2

\* The types of what the class changes.
ClassOK ==
  /\ bot_state \in {"IDLE", "DATA_IN", "DATA_OUT", "SEND_DATA", "LAST_DATA_IN"}
  /\ cbw \in Commands \cup {NoCommand} /\ moved \in Nat
  /\ in_ep \in [what : {"data", "csw"}, at : Nat, xfer_len : 0 .. Media]
  /\ tx \in {"nak", "valid", "stall"}
  /\ tx_packet \in [what : {"data", "csw"}, at : Nat, len : 0 .. MaxPacket]
  /\ out_ep \in [at : Nat, xfer_len : 0 .. Media]
  /\ rx \in {"nak", "valid"}

LEMMA SendCSWType ==
  ASSUME SendCSW
  PROVE  /\ bot_state' = "IDLE" /\ tx' = "valid" /\ rx' = "valid"
         /\ in_ep' \in [what : {"data", "csw"}, at : Nat, xfer_len : 0 .. Media]
         /\ tx_packet' \in [what : {"data", "csw"}, at : Nat, len : 0 .. MaxPacket]
         /\ out_ep' \in [at : Nat, xfer_len : 0 .. Media]
         /\ in_ep'.xfer_len = 0 /\ out_ep'.xfer_len = 0 /\ tx_packet' = Csw
<1>1. bot_state' = "IDLE" /\ Transmit("csw", 0, 1) /\ Receive(0, 1)
  BY DEF SendCSW
<1>2. 1 \in Nat /\ 1 <= MaxPacket /\ Cut(1) = 1 /\ 1 - Cut(1) = 0
  BY Numbers, CutType
<1>3. in_ep'.xfer_len = 0 /\ out_ep'.xfer_len = 0 /\ tx_packet' = Csw
  BY <1>1, <1>2 DEF Transmit, Receive, Csw
<1> QED BY <1>1, <1>2, <1>3, TransmitType, ReceiveType

LEMMA ProcessReadType ==
  ASSUME ClassOK, NEW done \in Nat, ProcessRead(done), cbw' \in Commands \cup {NoCommand}
  PROVE  ClassOK'
<1>1. /\ Transmit("data", done, Media) /\ moved' = done + Media
      /\ bot_state' \in {"DATA_IN", "LAST_DATA_IN"} /\ UNCHANGED outVars
  BY DEF ProcessRead
<1>2. Media \in Nat /\ Media <= Media
  BY Numbers
<1>3. /\ in_ep' \in [what : {"data", "csw"}, at : Nat, xfer_len : 0 .. Media]
      /\ tx_packet' \in [what : {"data", "csw"}, at : Nat, len : 0 .. MaxPacket]
      /\ tx' = "valid"
  BY <1>1, <1>2, TransmitType
<1> QED BY <1>1, <1>2, <1>3 DEF ClassOK, outVars

LEMMA DecodeType ==
  ASSUME ClassOK, asked \in Commands \cup {NoCommand}, Decode
  PROVE  ClassOK'
<1>0. cbw' = asked /\ asked.size \in Nat
  BY CommandType DEF Decode
<1>1. CASE SendCSW /\ moved' = 0
  BY <1>0, <1>1, SendCSWType DEF ClassOK
<1>2. CASE /\ asked.kind = "reply" /\ bot_state' = "SEND_DATA"
           /\ Transmit("data", 0, asked.size) /\ moved' = asked.size
           /\ UNCHANGED outVars
  <2>1. asked.size <= MaxPacket
    BY <1>2, CommandType
  <2>2. /\ in_ep' \in [what : {"data", "csw"}, at : Nat, xfer_len : 0 .. Media]
        /\ tx_packet' \in [what : {"data", "csw"}, at : Nat, len : 0 .. MaxPacket]
        /\ tx' = "valid"
    BY <1>0, <1>2, <2>1, TransmitType
  <2> QED BY <1>0, <1>2, <2>2 DEF ClassOK, outVars
<1>3. CASE ProcessRead(0)
  BY <1>0, <1>3, ProcessReadType
<1>4. CASE /\ bot_state' = "DATA_OUT" /\ moved' = 0 /\ Receive(0, Media)
           /\ UNCHANGED inVars
  <2>1. Media \in Nat /\ Media <= Media
    BY Numbers
  <2>2. out_ep' \in [at : Nat, xfer_len : 0 .. Media] /\ rx' = "valid"
    BY <1>4, <2>1, ReceiveType
  <2> QED BY <1>0, <1>4, <2>2 DEF ClassOK, inVars
<1>5. CASE /\ tx' = "stall" /\ moved' = 0
           /\ UNCHANGED <<bot_state, in_ep, tx_packet, outVars>>
  BY <1>0, <1>5 DEF ClassOK, outVars
<1> QED BY <1>1, <1>2, <1>3, <1>4, <1>5 DEF Decode

LEMMA DataStagesType ==
  ASSUME ClassOK, asked \in Commands \cup {NoCommand}, DataOutStage \/ DataInStage
  PROVE  ClassOK'
<1>1. CASE Decode
  BY <1>1, DecodeType
<1>2. CASE ProcessWrite /\ cbw' = cbw
  <2>0. /\ Media \in Nat /\ Media <= Media /\ moved' = moved + Media /\ moved' \in Nat
    BY <1>2, Numbers DEF ProcessWrite, ClassOK
  <2>1. CASE SendCSW
    BY <1>2, <2>0, <2>1, SendCSWType DEF ClassOK
  <2>2. CASE Receive(moved', Media) /\ UNCHANGED <<bot_state, inVars>>
    <3>1. out_ep' \in [at : Nat, xfer_len : 0 .. Media] /\ rx' = "valid"
      <4>1. ASSUME NEW at \in Nat, Receive(at, Media)
            PROVE  out_ep' \in [at : Nat, xfer_len : 0 .. Media] /\ rx' = "valid"
        BY <2>0, <4>1, ReceiveType
      <4> QED BY <2>0, <2>2, <4>1
    <3> QED BY <1>2, <2>0, <2>2, <3>1 DEF ClassOK, inVars
  <2> QED BY <1>2, <2>1, <2>2 DEF ProcessWrite
<1>3. CASE cbw' = cbw /\ ProcessRead(moved)
  <2>1. moved \in Nat /\ cbw' \in Commands \cup {NoCommand}
    BY <1>3 DEF ClassOK
  <2> QED BY <1>3, <2>1, ProcessReadType
<1>4. CASE SendCSW /\ UNCHANGED <<cbw, moved>>
  BY <1>4, SendCSWType DEF ClassOK
<1>5. CASE UNCHANGED <<bot_state, cbw, moved, inVars, outVars>>
  BY <1>5 DEF ClassOK, inVars, outVars
<1> QED BY <1>1, <1>2, <1>3, <1>4, <1>5 DEF DataOutStage, DataInStage

\* The types of the rest.
RestOK ==
  /\ asked \in Commands \cup {NoCommand} /\ given \in Nat
  /\ rx_packet \in [what : {"data", "cbw"}, at : {0}, len : 1 .. MaxPacket]
  /\ ctr \subseteq {"rx", "tx"} /\ seen \subseteq {"rx", "tx", "sent"}
  /\ stage \in {"idle", "out", "in"}
  /\ hasty \in BOOLEAN

LEMMA TypeParts == TypeOK <=> ClassOK /\ RestOK
BY Zenon DEF TypeOK, ClassOK, RestOK

\* The handler goes on with a buffer, or tells the class.
LEMMA HandlerType ==
  ASSUME ClassOK, RestOK, Interrupt
  PROVE  ClassOK' /\ RestOK'
<1>0. asked \in Commands \cup {NoCommand}
  BY DEF RestOK
<1>1. CASE Look \/ ClearIn
  <2>1. UNCHANGED <<classVars, inVars, outVars, rx_packet, hostVars>>
    BY <1>1, Zenon DEF Look, ClearIn
  <2>2. ClassOK'
    BY <2>1 DEF ClassOK, classVars, inVars, outVars
  <2>3. ctr' \subseteq {"rx", "tx"} /\ seen' \subseteq {"rx", "tx", "sent"}
    BY <1>1 DEF Look, ClearIn, RestOK
  <2> QED BY <2>1, <2>2, <2>3, Zenon DEF RestOK, hostVars
<1>2. CASE ServeOut
  <2>1. RestOK'
    <3>1. ctr' \subseteq {"rx", "tx"} /\ seen' \subseteq {"rx", "tx", "sent"}
      BY <1>2 DEF ServeOut, RestOK
    <3>2. UNCHANGED <<rx_packet, hostVars>>
      BY <1>2, Zenon DEF ServeOut
    <3> QED BY <3>1, <3>2, Zenon DEF RestOK, hostVars
  <2>2. CASE DataOutStage
    BY <1>0, <2>1, <2>2, DataStagesType
  <2>3. CASE /\ Receive(out_ep.at + rx_packet.len, out_ep.xfer_len)
             /\ UNCHANGED <<bot_state, cbw, moved, inVars>>
    <3>1. /\ out_ep.at + rx_packet.len \in Nat
          /\ out_ep.xfer_len \in Nat /\ out_ep.xfer_len <= Media
      BY Numbers DEF ClassOK, RestOK
    <3>2. out_ep' \in [at : Nat, xfer_len : 0 .. Media] /\ rx' = "valid"
      BY <2>3, <3>1, ReceiveType
    <3> QED BY <2>1, <2>3, <3>2 DEF ClassOK, inVars
  <2> QED BY <1>2, <2>2, <2>3 DEF ServeOut
<1>3. CASE ServeIn
  <2>1. RestOK'
    <3>1. seen' \subseteq {"rx", "tx", "sent"}
      BY <1>3 DEF ServeIn
    <3>2. UNCHANGED <<rx_packet, ctr, hostVars>>
      BY <1>3, Zenon DEF ServeIn
    <3> QED BY <3>1, <3>2, Zenon DEF RestOK, hostVars
  <2>2. CASE DataInStage
    BY <1>0, <2>1, <2>2, DataStagesType
  <2>3. CASE /\ Transmit(in_ep.what, in_ep.at + tx_packet.len, in_ep.xfer_len)
             /\ UNCHANGED <<classVars, outVars>>
    <3>1. /\ in_ep.what \in {"data", "csw"} /\ in_ep.at + tx_packet.len \in Nat
          /\ in_ep.xfer_len \in Nat /\ in_ep.xfer_len <= Media
      BY Numbers DEF ClassOK
    <3>2. /\ in_ep' \in [what : {"data", "csw"}, at : Nat, xfer_len : 0 .. Media]
          /\ tx_packet' \in [what : {"data", "csw"}, at : Nat, len : 0 .. MaxPacket]
          /\ tx' = "valid"
      BY <2>3, <3>1, TransmitType
    <3> QED BY <2>1, <2>3, <3>2 DEF ClassOK, classVars, outVars
  <2> QED BY <1>3, <2>2, <2>3 DEF ServeIn
<1> QED BY <1>1, <1>2, <1>3 DEF Interrupt

LEMMA HostType ==
  ASSUME ClassOK, RestOK, Host
  PROVE  ClassOK' /\ RestOK'
<1>0. CBW \in [what : {"data", "cbw"}, at : {0}, len : 1 .. MaxPacket]
  BY Numbers DEF CBW
<1>1. ASSUME NEW c \in Commands, SendCBW(c) PROVE ClassOK' /\ RestOK'
  <2>1. ClassOK'
    BY <1>1 DEF SendCBW, deviceVars, ClassOK
  <2>2. /\ stage' \in {"idle", "out", "in"} /\ given' \in Nat
        /\ rx_packet' = CBW /\ asked' \in Commands \cup {NoCommand}
        /\ ctr' \subseteq {"rx", "tx"} /\ seen' = seen
    BY <1>1 DEF SendCBW, deviceVars, RestOK
  <2>3. hasty' \in BOOLEAN
    BY <1>1, Zenon DEF SendCBW
  <2> QED BY <1>0, <2>1, <2>2, <2>3, Zenon DEF RestOK
<1>2. CASE GiveData
  <2>1. ClassOK'
    BY <1>2 DEF GiveData, deviceVars, ClassOK
  <2>2. /\ stage' \in {"idle", "out", "in"} /\ given' \in Nat
        /\ rx_packet' \in [what : {"data", "cbw"}, at : {0}, len : 1 .. MaxPacket]
        /\ asked' = asked /\ ctr' \subseteq {"rx", "tx"} /\ seen' = seen
    BY <1>2, Numbers DEF GiveData, deviceVars, RestOK
  <2>3. hasty' = hasty
    BY <1>2, Zenon DEF GiveData
  <2> QED BY <2>1, <2>2, <2>3, Zenon DEF RestOK
<1>3. CASE TakePacket
  <2>1. ClassOK'
    BY <1>3 DEF TakePacket, deviceVars, ClassOK
  <2>2. /\ stage' \in {"idle", "out", "in"} /\ given' = given
        /\ rx_packet' = rx_packet
        /\ asked' = asked /\ ctr' \subseteq {"rx", "tx"} /\ seen' = seen
    BY <1>3 DEF TakePacket, deviceVars, RestOK
  <2>3. hasty' = hasty
    BY <1>3, Zenon DEF TakePacket
  <2> QED BY <2>1, <2>2, <2>3, Zenon DEF RestOK
<1>4. CASE ClearHalt
  <2>1. SendCSW /\ cbw' = cbw /\ moved' = moved
    BY <1>4 DEF ClearHalt
  <2>2. ClassOK'
    BY <2>1, SendCSWType DEF ClassOK
  <2>3. RestOK'
    BY <1>4, Zenon DEF ClearHalt, hostVars, RestOK
  <2> QED BY <2>2, <2>3
<1>5. CASE ResetPort
  <2>1. /\ bot_state' = "IDLE" /\ Receive(0, 1) /\ tx' = "nak"
        /\ UNCHANGED <<cbw, moved, in_ep, tx_packet>>
    BY <1>5 DEF ResetPort
  <2>2. out_ep' \in [at : Nat, xfer_len : 0 .. Media] /\ rx' = "valid"
    <3>1. 0 \in Nat /\ 1 \in Nat /\ 1 <= MaxPacket
      BY Numbers
    <3> QED BY <2>1, <3>1, ReceiveType
  <2>3. ClassOK'
    BY <2>1, <2>2 DEF ClassOK
  <2>4. /\ stage' = "idle" /\ asked' = NoCommand /\ ctr' = {} /\ hasty' = FALSE
        /\ UNCHANGED <<rx_packet, given, seen>>
    BY <1>5, Zenon DEF ResetPort
  <2>5. ctr' \subseteq {"rx", "tx"} /\ stage' \in {"idle", "out", "in"}
    BY <2>4
  <2> QED BY <2>3, <2>4, <2>5, Zenon DEF RestOK
<1> QED BY <1>1, <1>2, <1>3, <1>4, <1>5 DEF Host

LEMMA NextType == ASSUME TypeOK, [Next]_vars PROVE TypeOK'
<1>1. ClassOK /\ RestOK
  BY TypeParts
<1>2. CASE Next
  <2>1. ClassOK' /\ RestOK'
    BY <1>1, <1>2, HandlerType, HostType DEF Next
  <2> QED BY <2>1, Zenon DEF TypeOK, ClassOK, RestOK
<1>3. CASE UNCHANGED vars
  <2>1. ClassOK'
    BY <1>1, <1>3 DEF vars, classVars, inVars, outVars, ClassOK
  <2>2. RestOK'
    BY <1>1, <1>3, Zenon DEF vars, hostVars, RestOK
  <2> QED BY <2>1, <2>2, Zenon DEF TypeOK, ClassOK, RestOK
<1> QED BY <1>2, <1>3

\* What the host has got and stored are packets.
LEMMA NextHistory == ASSUME TypeOK, HistoryOK, [Next]_vars PROVE HistoryOK'
<1>1. CASE TakePacket
  <2>1. got' = Append(got, tx_packet) /\ stored' = stored
    BY <1>1 DEF TakePacket
  <2>2. tx_packet \in DataPacket
    BY Numbers DEF TypeOK, DataPacket
  <2> QED BY <2>1, <2>2, AppendProperties DEF HistoryOK
<1>2. CASE ServeOut
  <2>1. /\ got' = got
        /\ \/ stored' = stored
           \/ stored' = Append(stored, [rx_packet EXCEPT !.at = out_ep.at])
    BY <1>2 DEF ServeOut, hostVars
  <2>2. [rx_packet EXCEPT !.at = out_ep.at] \in DataPacket
    BY Numbers DEF TypeOK, DataPacket
  <2> QED BY <2>1, <2>2, AppendProperties DEF HistoryOK
<1>3. CASE got' \in {got, <<>>} /\ stored' \in {stored, <<>>}
  BY <1>3, EmptySeq DEF HistoryOK
<1>4. CASE Look \/ ClearIn \/ ServeIn
  <2>1. got' = got /\ stored' = stored
    BY <1>4, Zenon DEF Look, ClearIn, ServeIn, DataInStage, hostVars, classVars
  <2> QED BY <1>3, <2>1
<1>5. CASE (\E c \in Commands : SendCBW(c)) \/ GiveData \/ ClearHalt \/ ResetPort
  <2>1. got' \in {got, <<>>} /\ stored' \in {stored, <<>>}
    BY <1>5 DEF SendCBW, GiveData, ClearHalt, ResetPort, hostVars
  <2> QED BY <1>3, <2>1
<1>6. CASE UNCHANGED vars
  BY <1>6, Zenon DEF vars, classVars, hostVars, HistoryOK
<1> QED BY <1>1, <1>2, <1>4, <1>5, <1>6 DEF Next, Interrupt, Host

-----------------------------------------------------------------------------
\* What a command's answer is made of.
LEMMA AnswerFacts ==
  ASSUME NEW c \in Commands \cup {NoCommand}
  PROVE  /\ c.kind \in {"none", "write", "refused"} => Answer(c) = Append(<<>>, Csw)
         /\ c.kind = "reply" =>
              Answer(c) = Append(<<[what |-> "data", at |-> 0, len |-> c.size]>>, Csw)
         /\ c.kind = "read" => Answer(c) = Append(Packets(c.size), Csw)
         /\ c.kind = "write" => Written(c) = Packets(c.size)
         /\ c.kind # "write" => Written(c) = <<>>
<1>1. CASE c.kind = "reply"
  <2>1. Packets(c.size) = <<[what |-> "data", at |-> 0, len |-> c.size]>>
    BY <1>1, CommandType, OnePacket
  <2>2. Answer(c) = Append(Packets(c.size), Csw)
    BY <1>1 DEF Answer, Csw
  <2> QED BY <1>1, <2>1, <2>2 DEF Written
<1>2. CASE c.kind # "reply"
  <2>1. <<Csw>> = Append(<<>>, Csw)
    OBVIOUS
  <2> QED BY <1>2, <2>1 DEF Answer, Written, Csw
<1> QED BY <1>1, <1>2

LEMMA MediaFacts ==
  /\ Media >= MaxPacket /\ (Media - MaxPacket) % MaxPacket = 0
  /\ 0 % Media = 0 /\ Media % Media = 0
<1>1. Media >= MaxPacket /\ (Media - MaxPacket) % MaxPacket = 0
  BY Numbers, MultipleDown
<1>2. 0 % Media = 0
  BY Numbers
<1>3. (0 + Media) % Media = 0
  BY <1>2, Numbers, MultipleUp
<1>4. 0 + Media = Media
  BY Numbers
<1> QED BY <1>1, <1>2, <1>3, <1>4

LEMMA NothingYet == InOrder(<<>>, 0)
BY Numbers DEF InOrder

\* The next packet of a transfer of whole ones.
LEMMA TransmitWhole ==
  ASSUME NEW at \in Nat, NEW n \in Nat, n > 0, n % MaxPacket = 0,
         Transmit("data", at, n)
  PROVE  /\ tx' = "valid" /\ tx_packet' = Packet(at)
         /\ in_ep'.what = "data" /\ in_ep'.at = at
         /\ in_ep'.xfer_len = n - MaxPacket
         /\ in_ep'.xfer_len % MaxPacket = 0
<1>1. n >= MaxPacket /\ (n - MaxPacket) % MaxPacket = 0 /\ Cut(n) = MaxPacket
  BY Numbers, MultipleDown, CutType
<1> QED BY <1>1 DEF Transmit, Packet

LEMMA ReceiveWhole ==
  ASSUME NEW at \in Nat, NEW n \in Nat, n > 0, n % MaxPacket = 0, Receive(at, n)
  PROVE  /\ rx' = "valid" /\ out_ep'.at = at
         /\ out_ep'.xfer_len = n - MaxPacket
         /\ out_ep'.xfer_len % MaxPacket = 0
<1>1. n >= MaxPacket /\ (n - MaxPacket) % MaxPacket = 0 /\ Cut(n) = MaxPacket
  BY Numbers, MultipleDown, CutType
<1> QED BY <1>1 DEF Receive

-----------------------------------------------------------------------------
\* The handler looks at the endpoint, or clears a flag: the stage is the same.
LEMMA LookStage ==
  ASSUME Stages, Look \/ ClearIn
  PROVE  Stages'
<1>1. /\ UNCHANGED <<bot_state, cbw, moved, stored, in_ep, tx, tx_packet, out_ep,
                     rx, rx_packet, stage, asked, given, got>>
      /\ \/ seen = {} /\ ctr # {} /\ seen' = ctr /\ ctr' = ctr
         \/ seen = {"tx"} /\ seen' = {"sent"} /\ ctr' = ctr \ {"tx"}
  BY Zenon DEF Look, ClearIn, classVars, inVars, outVars, hostVars
<1>2. ~Quiet
  BY <1>1 DEF Quiet
<1>3. Taken => Taken'
  BY <1>1 DEF Taken
<1>4. CASE Resting
  BY <1>1, <1>2, <1>3, <1>4 DEF Resting, Stages
<1>5. CASE Commanded
  BY <1>1, <1>5 DEF Commanded, Stages
<1>6. CASE Sending
  BY <1>1, <1>2, <1>3, <1>6 DEF Sending, Replying, ReadingOn, Stages
<1>7. CASE Writing
  BY <1>1, <1>2, <1>7 DEF Writing, Stages
<1>8. ~Refused /\ ~Closing
  BY <1>2 DEF Refused, Closing
<1> QED BY <1>4, <1>5, <1>6, <1>7, <1>8 DEF Stages

\* The class sends the status of the command.
LEMMA ClosesStage ==
  ASSUME SendCSW, stage' = "in", ctr' = {}, seen' = {},
         Append(got', Csw) = Answer(asked'), stored' = Written(asked')
  PROVE  Closing'
BY SendCSWType DEF Closing, Quiet

\* The class is given a CBW.
LEMMA DecodeStage ==
  ASSUME TypeOK, Commanded, Decode, ctr' = {}, seen' = {},
         UNCHANGED <<stored, hostVars>>
  PROVE  Stages'
<1>1. /\ asked' = asked /\ got' = <<>> /\ stored' = <<>> /\ given' = 0
      /\ stage' = stage /\ cbw' = asked /\ Quiet'
      /\ stage = (IF asked.kind = "write" THEN "out" ELSE "in")
      /\ bot_state = "IDLE" /\ rx = "nak" /\ tx = "nak"
  BY DEF Decode, Commanded, hostVars, Quiet
<1>2. asked \in Commands \cup {NoCommand} /\ asked.size \in Nat
  BY CommandType DEF TypeOK
<1>3. CASE asked.kind = "none" /\ SendCSW
  <2>1. Append(got', Csw) = Answer(asked') /\ stored' = Written(asked')
    BY <1>1, <1>2, <1>3, AnswerFacts
  <2>2. stage' = "in"
    BY <1>1, <1>3
  <2> QED BY <1>3, <2>1, <2>2, ClosesStage DEF Stages
<1>4. CASE /\ asked.kind = "reply" /\ bot_state' = "SEND_DATA"
           /\ Transmit("data", 0, asked.size) /\ UNCHANGED outVars
  <2>1. Cut(asked.size) = asked.size /\ asked.size - Cut(asked.size) = 0
    BY <1>2, <1>4, CommandType, CutType
  <2>2. /\ tx' = "valid" /\ in_ep'.xfer_len = 0
        /\ tx_packet' = [what |-> "data", at |-> 0, len |-> asked.size]
    BY <1>4, <2>1 DEF Transmit
  <2>3. Replying' /\ stage' = "in" /\ rx' = "nak"
    BY <1>1, <1>4, <2>2 DEF Replying, outVars
  <2> QED BY <1>1, <2>2, <2>3 DEF Sending, Stages
<1>5. CASE asked.kind = "read" /\ ProcessRead(0)
  <2>1. /\ Transmit("data", 0, Media) /\ moved' = 0 + Media /\ UNCHANGED outVars
        /\ bot_state' = IF moved' = asked.size THEN "LAST_DATA_IN" ELSE "DATA_IN"
    BY <1>1, <1>5 DEF ProcessRead
  <2>2. /\ tx' = "valid" /\ tx_packet' = Packet(0)
        /\ in_ep'.what = "data" /\ in_ep'.at = 0
        /\ in_ep'.xfer_len = Media - MaxPacket
        /\ in_ep'.xfer_len % MaxPacket = 0
    BY <2>1, Numbers, TransmitWhole
  <2>3. moved' = Media /\ moved' % Media = 0
    BY <2>1, Numbers, MediaFacts
  <2>4. moved' <= asked.size
    BY <1>2, <1>5, <2>3, Numbers, CommandType, MultipleDown
  <2>5. moved' = in_ep'.at + MaxPacket + in_ep'.xfer_len
    BY <2>2, <2>3, Numbers
  <2>6. InOrder(got', in_ep'.at)
    BY <1>1, <2>2, NothingYet
  <2>7. ReadingOn'
    BY <1>1, <1>5, <2>1, <2>2, <2>3, <2>4, <2>5, <2>6 DEF ReadingOn
  <2> QED BY <1>1, <1>5, <2>1, <2>2, <2>7 DEF Sending, outVars, Stages
<1>6. CASE /\ asked.kind = "write" /\ bot_state' = "DATA_OUT" /\ moved' = 0
           /\ Receive(0, Media) /\ UNCHANGED inVars
  <2>1. /\ rx' = "valid" /\ out_ep'.at = 0
        /\ out_ep'.xfer_len = Media - MaxPacket
        /\ out_ep'.xfer_len % MaxPacket = 0
    BY <1>6, Numbers, ReceiveWhole
  <2>2. /\ moved' % Media = 0 /\ moved' + Media <= asked.size
        /\ moved' + Media = out_ep'.at + MaxPacket + out_ep'.xfer_len
    BY <1>2, <1>6, <2>1, Numbers, CommandType, MultipleDown, MediaFacts
  <2>3. InOrder(stored', out_ep'.at)
    BY <1>1, <2>1, NothingYet
  <2> QED BY <1>1, <1>6, <2>1, <2>2, <2>3 DEF Writing, inVars, Stages
<1>7. CASE /\ asked.kind = "refused" /\ tx' = "stall" /\ bot_state' = bot_state
  BY <1>1, <1>7 DEF Refused, Stages
<1> QED BY <1>3, <1>4, <1>5, <1>6, <1>7 DEF Decode

\* The class is given the last packet of a part, or the handler the next one.
LEMMA WriteStage ==
  ASSUME TypeOK, HistoryOK, Writing, ServeOut
  PROVE  Stages'
<1> DEFINE end == out_ep.at + MaxPacket
<1>1. /\ seen = {"rx"} /\ rx_packet = Packet(0) /\ given = end
      /\ stage = (IF given = asked.size THEN "in" ELSE "out")
      /\ asked.kind = "write" /\ cbw = asked /\ bot_state = "DATA_OUT"
      /\ tx = "nak" /\ got = <<>> /\ ctr = {"rx"}
  BY DEF Writing, ServeOut, Quiet
<1>2. /\ out_ep.at \in Nat /\ out_ep.xfer_len \in Nat /\ end \in Nat
      /\ out_ep.xfer_len % MaxPacket = 0
      /\ moved \in Nat /\ moved % Media = 0 /\ moved + Media <= asked.size
      /\ moved + Media = end + out_ep.xfer_len
      /\ asked \in Commands \cup {NoCommand} /\ asked.size \in Nat
      /\ asked.size % Media = 0
      /\ MaxPacket \in Nat /\ MaxPacket > 0 /\ Media \in Nat /\ Media > 0
  <2>1. /\ out_ep.at \in Nat /\ out_ep.xfer_len \in Nat /\ moved \in Nat
        /\ asked \in Commands \cup {NoCommand}
    BY Numbers DEF TypeOK
  <2>2. /\ out_ep.xfer_len % MaxPacket = 0
        /\ moved % Media = 0 /\ moved + Media <= asked.size
        /\ moved + Media = end + out_ep.xfer_len
    BY DEF Writing
  <2>3. asked.size \in Nat /\ asked.size % Media = 0
    BY <1>1, <2>1, CommandType
  <2>4. end \in Nat
    BY <2>1, Numbers
  <2> HIDE DEF end
  <2> QED BY <2>1, <2>2, <2>3, <2>4, Numbers
<1>3. /\ Quiet' /\ rx_packet' = rx_packet /\ asked' = asked /\ got' = <<>>
      /\ given' = given /\ stage' = stage
  BY <1>1 DEF ServeOut, Quiet, hostVars
<1>4. stored' = Append(stored, Packet(out_ep.at))
  <2>1. /\ rx_packet.what = "data"
        /\ [rx_packet EXCEPT !.at = out_ep.at] = Packet(out_ep.at)
    BY <1>1 DEF Packet
  <2> QED BY <2>1 DEF ServeOut
<1>5. InOrder(stored', end)
  BY <1>2, <1>4, OneMore DEF Writing, HistoryOK
<1>6. stored' \in Seq(DataPacket)
  <2>1. Packet(out_ep.at) \in DataPacket
    BY <1>2, PacketType
  <2> QED BY <1>4, <2>1, AppendProperties DEF HistoryOK
<1>7. rx_packet.len = MaxPacket
  BY <1>1 DEF Packet
<1>8. CASE out_ep.xfer_len = 0
  <2>1. ProcessWrite /\ cbw' = cbw
    BY <1>1, <1>8 DEF ServeOut, DataOutStage
  <2>2. moved' = moved + Media /\ moved' = end /\ moved' \in Nat
    BY <1>2, <1>8, <2>1 DEF ProcessWrite
  <2>3. CASE moved' = asked.size
    <3>1. SendCSW /\ stage' = "in"
      BY <1>1, <1>3, <2>1, <2>2, <2>3 DEF ProcessWrite
    <3>2. stored' = Packets(asked.size)
      BY <1>2, <1>5, <1>6, <2>2, <2>3, WholePackets, AllOfThem
    <3>3. Append(got', Csw) = Answer(asked') /\ stored' = Written(asked')
      BY <1>1, <1>2, <1>3, <3>2, AnswerFacts
    <3> QED BY <1>3, <3>1, <3>3, ClosesStage DEF Quiet, Stages
  <2>4. CASE moved' # asked.size
    <3>1. Receive(moved', Media) /\ UNCHANGED <<bot_state, inVars>>
      BY <1>1, <2>1, <2>4 DEF ProcessWrite
    <3>2. /\ rx' = "valid" /\ out_ep'.at = moved'
          /\ out_ep'.xfer_len = Media - MaxPacket
          /\ out_ep'.xfer_len % MaxPacket = 0
      <4>1. ASSUME NEW at \in Nat, Receive(at, Media)
            PROVE  /\ rx' = "valid" /\ out_ep'.at = at
                   /\ out_ep'.xfer_len = Media - MaxPacket
                   /\ out_ep'.xfer_len % MaxPacket = 0
        BY <4>1, Numbers, ReceiveWhole
      <4> QED BY <2>2, <3>1, <4>1
    <3>3. moved' % Media = 0
      BY <1>2, <2>2, MultipleUp
    <3>4. moved' + Media <= asked.size
      <4>1. moved' < asked.size
        BY <1>2, <2>2, <2>4
      <4>2. ASSUME NEW x \in Nat, x % Media = 0, x < asked.size
            PROVE  x + Media <= asked.size
        BY <1>2, <4>2, MultipleBelow
      <4> QED BY <2>2, <3>3, <4>1, <4>2
    <3>5. moved' + Media = out_ep'.at + MaxPacket + out_ep'.xfer_len
      <4>1. ASSUME NEW x \in Nat PROVE x + Media = x + MaxPacket + (Media - MaxPacket)
        BY Numbers
      <4> QED BY <2>2, <3>2, <4>1
    <3>6. given' = out_ep'.at /\ stage' = "out" /\ InOrder(stored', out_ep'.at)
      BY <1>1, <1>3, <1>5, <2>2, <2>4, <3>2
    <3> QED BY <1>1, <1>3, <2>1, <3>1, <3>2, <3>3, <3>4, <3>5, <3>6
            DEF Writing, inVars, Stages
  <2> QED BY <2>3, <2>4
<1>9. CASE out_ep.xfer_len # 0
  <2>1. /\ Receive(out_ep.at + rx_packet.len, out_ep.xfer_len)
        /\ UNCHANGED <<bot_state, cbw, moved, inVars>>
    BY <1>2, <1>7, <1>9 DEF ServeOut
  <2>2. Receive(end, out_ep.xfer_len)
    BY <1>7, <2>1
  <2>3. out_ep.xfer_len > 0
    BY <1>2, <1>9
  <2> HIDE DEF end
  <2>4. /\ rx' = "valid" /\ out_ep'.at = end
        /\ out_ep'.xfer_len = out_ep.xfer_len - MaxPacket
        /\ out_ep'.xfer_len % MaxPacket = 0
    BY <1>2, <2>2, <2>3, ReceiveWhole
  <2>5. moved + Media = out_ep'.at + MaxPacket + out_ep'.xfer_len
    BY <1>2, <2>4
  <2>6. given # asked.size
    BY <1>1, <1>2, <2>3
  <2>7. given' = out_ep'.at /\ stage' = "out" /\ InOrder(stored', out_ep'.at)
    BY <1>1, <1>3, <1>5, <2>4, <2>6
  <2> QED BY <1>1, <1>2, <1>3, <2>1, <2>4, <2>5, <2>7 DEF Writing, inVars, Stages
<1> QED BY <1>8, <1>9

\* A packet of the host's has come.
LEMMA ServeOutStage ==
  ASSUME TypeOK, HistoryOK, Stages, ServeOut
  PROVE  Stages'
<1>1. CASE Writing
  BY <1>1, WriteStage
<1>2. CASE Commanded
  <2>1. seen = {"rx"} /\ ctr = {"rx"} /\ rx_packet = CBW /\ out_ep.xfer_len = 0
    BY <1>2 DEF Commanded, ServeOut
  <2>2. rx_packet.what # "data"
    BY <2>1 DEF CBW
  <2>3. DataOutStage /\ UNCHANGED <<stored, hostVars>> /\ ctr' = {} /\ seen' = {}
    BY <2>1, <2>2 DEF ServeOut
  <2>4. Decode
    BY <1>2, <2>3 DEF DataOutStage, Commanded
  <2> QED BY <1>2, <2>3, <2>4, DecodeStage
<1>3. ~Resting /\ ~Sending /\ ~Refused /\ ~Closing
  BY DEF Resting, Sending, Refused, Closing, Quiet, Taken, ServeOut
<1> QED BY <1>1, <1>2, <1>3 DEF Stages

\* The packet of a read has gone: the next one of the part, the next part, or
\* the status.
LEMMA ReadStage ==
  ASSUME TypeOK, HistoryOK, Sending, ReadingOn, ServeIn
  PROVE  Stages'
<1> DEFINE end == in_ep.at + MaxPacket
<1>1. /\ seen = {"sent"} /\ ctr = {} /\ tx = "nak"
      /\ stage = "in" /\ cbw = asked /\ rx = "nak" /\ stored = <<>>
      /\ asked.kind = "read" /\ in_ep.what = "data" /\ tx_packet = Packet(in_ep.at)
      /\ bot_state = (IF moved = asked.size THEN "LAST_DATA_IN" ELSE "DATA_IN")
      /\ InOrder(got, end)
  BY DEF Sending, ReadingOn, Taken, Quiet, ServeIn
<1>2. /\ in_ep.at \in Nat /\ in_ep.xfer_len \in Nat /\ moved \in Nat /\ end \in Nat
      /\ asked \in Commands \cup {NoCommand} /\ asked.size \in Nat
      /\ asked.size % Media = 0
      /\ in_ep.xfer_len % MaxPacket = 0 /\ moved = end + in_ep.xfer_len
      /\ moved % Media = 0 /\ moved <= asked.size
  <2>1. /\ in_ep.at \in Nat /\ in_ep.xfer_len \in Nat /\ moved \in Nat
        /\ asked \in Commands \cup {NoCommand}
    BY Numbers DEF TypeOK
  <2>2. /\ in_ep.xfer_len % MaxPacket = 0 /\ moved = end + in_ep.xfer_len
        /\ moved % Media = 0 /\ moved <= asked.size
    BY DEF ReadingOn
  <2>3. asked.size \in Nat /\ asked.size % Media = 0
    BY <1>1, <2>1, CommandType
  <2>4. end \in Nat
    BY <2>1, Numbers
  <2> HIDE DEF end
  <2> QED BY <2>1, <2>2, <2>3, <2>4
<1>3. /\ asked' = asked /\ got' = got /\ stage' = stage
      /\ seen' = {} /\ ctr' = {} /\ Quiet' /\ rx_packet' = rx_packet
  BY <1>1 DEF ServeIn, hostVars, Quiet
<1>4. CASE in_ep.xfer_len = 0
  <2>0. DataInStage /\ moved = end /\ stored' = stored
    BY <1>2, <1>4 DEF ServeIn, DataInStage
  <2>1. CASE moved = asked.size
    <3>1. SendCSW
      BY <1>1, <2>0, <2>1 DEF DataInStage
    <3>2. got = Packets(asked.size)
      BY <1>1, <1>2, <2>0, <2>1, WholePackets, AllOfThem DEF HistoryOK
    <3>3. Append(got', Csw) = Answer(asked') /\ stored' = Written(asked')
      BY <1>1, <1>2, <1>3, <2>0, <3>2, AnswerFacts
    <3> QED BY <1>1, <1>3, <3>1, <3>3, ClosesStage DEF Stages
  <2>2. CASE moved # asked.size
    <3>1. cbw' = cbw /\ ProcessRead(moved)
      BY <1>1, <2>0, <2>2 DEF DataInStage
    <3>2. /\ Transmit("data", moved, Media) /\ moved' = moved + Media
          /\ bot_state' = (IF moved' = asked.size THEN "LAST_DATA_IN" ELSE "DATA_IN")
          /\ UNCHANGED outVars
      BY <1>1, <3>1 DEF ProcessRead
    <3>3. /\ tx' = "valid" /\ tx_packet' = Packet(moved)
          /\ in_ep'.what = "data" /\ in_ep'.at = moved
          /\ in_ep'.xfer_len = Media - MaxPacket
          /\ in_ep'.xfer_len % MaxPacket = 0
      BY <1>2, <3>2, Numbers, TransmitWhole
    <3>4. moved' % Media = 0 /\ moved' <= asked.size
      <4>1. moved < asked.size
        BY <1>2, <2>2
      <4> QED BY <1>2, <3>2, <4>1, Numbers, MultipleUp, MultipleBelow
    <3>5. moved' = in_ep'.at + MaxPacket + in_ep'.xfer_len
      <4>1. ASSUME NEW x \in Nat PROVE x + Media = x + MaxPacket + (Media - MaxPacket)
        BY Numbers
      <4> QED BY <1>2, <3>2, <3>3, <4>1
    <3>6. InOrder(got', in_ep'.at)
      BY <1>1, <1>3, <2>0, <3>3
    <3>7. ReadingOn'
      BY <1>1, <1>3, <3>2, <3>3, <3>4, <3>5, <3>6 DEF ReadingOn
    <3> QED BY <1>1, <1>3, <2>0, <3>1, <3>2, <3>3, <3>7 DEF Sending, outVars, Stages
  <2> QED BY <2>1, <2>2
<1>5. CASE in_ep.xfer_len # 0
  <2>1. /\ Transmit(in_ep.what, in_ep.at + tx_packet.len, in_ep.xfer_len)
        /\ UNCHANGED <<classVars, outVars>>
    BY <1>5 DEF ServeIn
  <2>2. Transmit("data", end, in_ep.xfer_len)
    BY <1>1, <2>1 DEF Packet
  <2>3. in_ep.xfer_len > 0
    BY <1>2, <1>5
  <2> HIDE DEF end
  <2>4. /\ tx' = "valid" /\ tx_packet' = Packet(end)
        /\ in_ep'.what = "data" /\ in_ep'.at = end
        /\ in_ep'.xfer_len = in_ep.xfer_len - MaxPacket
        /\ in_ep'.xfer_len % MaxPacket = 0
    BY <1>2, <2>2, <2>3, TransmitWhole
  <2>5. moved' = moved /\ moved' = in_ep'.at + MaxPacket + in_ep'.xfer_len
    BY <1>2, <2>1, <2>4, Numbers DEF classVars
  <2>6. ReadingOn'
    BY <1>1, <1>2, <1>3, <2>1, <2>4, <2>5 DEF ReadingOn, classVars
  <2> QED BY <1>1, <1>3, <2>1, <2>4, <2>6 DEF Sending, classVars, outVars, Stages
<1> QED BY <1>4, <1>5

\* A packet of the device's has gone.
LEMMA ServeInStage ==
  ASSUME TypeOK, HistoryOK, Stages, ServeIn
  PROVE  Stages'
<1>1. /\ seen = {"sent"} /\ seen' = {}
      /\ UNCHANGED <<rx_packet, ctr, stage, asked, given, got>>
  BY DEF ServeIn, hostVars
<1>2. ASSUME bot_state = "IDLE", in_ep.xfer_len = 0
      PROVE  UNCHANGED <<bot_state, cbw, moved, in_ep, tx, tx_packet, out_ep, rx, stored>>
  BY <1>2 DEF ServeIn, DataInStage, inVars, outVars
<1>3. CASE Resting
  <2>1. in_ep.xfer_len = 0 /\ bot_state = "IDLE" /\ ctr = {}
    BY <1>1, <1>3 DEF Resting, Quiet, Taken
  <2>2. Quiet'
    BY <1>1, <2>1 DEF Quiet
  <2> QED BY <1>1, <1>2, <1>3, <2>1, <2>2 DEF Resting, Stages
<1>4. CASE Commanded
  <2>1. in_ep.xfer_len = 0 /\ bot_state = "IDLE"
    BY <1>1, <1>4 DEF Commanded
  <2> QED BY <1>1, <1>2, <1>4, <2>1 DEF Commanded, Stages
<1>5. CASE Sending /\ Replying
  <2>1. /\ tx = "nak" /\ ctr = {} /\ bot_state = "SEND_DATA" /\ stage = "in"
        /\ got = <<tx_packet>> /\ in_ep.xfer_len = 0 /\ stored = <<>>
        /\ tx_packet = [what |-> "data", at |-> 0, len |-> asked.size]
        /\ asked.kind = "reply"
    BY <1>1, <1>5 DEF Sending, Replying, Quiet, Taken
  <2>2. SendCSW /\ stored' = stored
    BY <2>1 DEF ServeIn, DataInStage
  <2>3. asked \in Commands \cup {NoCommand}
    BY DEF TypeOK
  <2>4. Append(got', Csw) = Answer(asked') /\ stored' = Written(asked')
    BY <1>1, <2>1, <2>2, <2>3, AnswerFacts
  <2> QED BY <1>1, <2>1, <2>2, <2>4, ClosesStage DEF Stages
<1>6. CASE Sending /\ ReadingOn
  BY <1>6, ReadStage
<1>7. ~Writing /\ ~Refused /\ ~Closing
  BY <1>1 DEF Writing, Refused, Closing, Quiet
<1> QED BY <1>3, <1>4, <1>5, <1>6, <1>7 DEF Stages, Sending

-----------------------------------------------------------------------------
\* The host sends a command after the last status has been served.
LEMMA SendCBWStage ==
  ASSUME Stages, NEW c \in Commands, SendCBW(c), "tx" \notin ctr
  PROVE  Stages'
<1>1. Resting
  BY DEF Stages, Resting, Commanded, Sending, Writing, Refused, Closing, SendCBW
<1>2. /\ ctr = {} /\ tx = "nak" /\ bot_state = "IDLE" /\ out_ep.xfer_len = 0
      /\ seen = {} \/ (seen = {"sent"} /\ in_ep.xfer_len = 0)
  BY <1>1 DEF Resting, Quiet, Taken
<1>3. Commanded'
  BY <1>2 DEF SendCBW, deviceVars, Commanded
<1> QED BY <1>3 DEF Stages

LEMMA GiveDataStage ==
  ASSUME Stages, GiveData
  PROVE  Stages'
<1>1. Writing
  BY DEF Stages, Resting, Commanded, Sending, Writing, Refused, Closing, GiveData
<1>2. /\ rx = "valid" /\ ctr = {} /\ seen = {} /\ given = out_ep.at
  BY <1>1 DEF Writing, Quiet, GiveData
<1>3. /\ rx' = "nak" /\ ctr' = {"rx"} /\ seen' = {} /\ rx_packet' = Packet(0)
      /\ given' = out_ep'.at + MaxPacket /\ asked' = asked
      /\ stage' = IF given' = asked.size THEN "in" ELSE "out"
      /\ UNCHANGED <<bot_state, cbw, moved, out_ep, tx, got, stored>>
  BY <1>2 DEF GiveData, Packet, deviceVars
<1>4. Writing'
  BY <1>1, <1>3 DEF Writing
<1> QED BY <1>4 DEF Stages

LEMMA TakePacketStage ==
  ASSUME TypeOK, HistoryOK, Stages, TakePacket
  PROVE  Stages'
<1>1. /\ stage = "in" /\ tx = "valid" /\ tx' = "nak"
      /\ ctr' = ctr \cup {"tx"} /\ got' = Append(got, tx_packet)
      /\ stage' = (IF tx_packet.what = "csw" THEN "idle" ELSE "in")
      /\ UNCHANGED <<bot_state, cbw, moved, in_ep, tx_packet, out_ep, seen, stored,
                     rx, asked>>
  BY DEF TakePacket, deviceVars
<1>2. ASSUME Quiet PROVE Taken'
  BY <1>1, <1>2 DEF Quiet, Taken
<1>3. CASE Sending /\ Replying
  <2>1. Quiet /\ tx_packet.what = "data" /\ got = <<>>
    BY <1>1, <1>3 DEF Sending, Replying, Taken
  <2>2. got' = <<tx_packet>> /\ stage' = "in"
    BY <1>1, <2>1
  <2> QED BY <1>1, <1>2, <1>3, <2>1, <2>2 DEF Sending, Replying, Stages
<1>4. CASE Sending /\ ReadingOn
  <2>1. /\ Quiet /\ tx_packet = Packet(in_ep.at) /\ InOrder(got, in_ep.at)
        /\ in_ep.at \in Nat
    BY <1>1, <1>4 DEF Sending, ReadingOn, Taken, TypeOK
  <2>2. InOrder(got', in_ep.at + MaxPacket)
    BY <1>1, <2>1, OneMore DEF HistoryOK
  <2>3. stage' = "in"
    BY <1>1, <2>1 DEF Packet
  <2>4. ReadingOn'
    BY <1>1, <1>4, <2>2 DEF ReadingOn
  <2> QED BY <1>1, <1>2, <1>4, <2>1, <2>3, <2>4 DEF Sending, Stages
<1>5. CASE Closing
  <2>1. /\ Quiet /\ tx_packet = Csw /\ Append(got, Csw) = Answer(asked)
        /\ stored = Written(asked) /\ in_ep.xfer_len = 0
        /\ bot_state = "IDLE" /\ rx = "valid" /\ out_ep.xfer_len = 0
    BY <1>5 DEF Closing
  <2>2. got' = Answer(asked') /\ stored' = Written(asked') /\ stage' = "idle"
    BY <1>1, <2>1 DEF Csw
  <2>3. Resting'
    BY <1>1, <1>2, <2>1, <2>2 DEF Resting
  <2> QED BY <2>3 DEF Stages
<1>6. ~Resting /\ ~Commanded /\ ~Writing /\ ~Refused
  BY <1>1 DEF Resting, Commanded, Writing, Refused
<1> QED BY <1>3, <1>4, <1>5, <1>6 DEF Stages, Sending

LEMMA ClearHaltStage ==
  ASSUME TypeOK, Stages, ClearHalt
  PROVE  Stages'
<1>1. Refused
  BY DEF Stages, Resting, Commanded, Sending, Taken, Writing, Refused, Closing, ClearHalt
<1>2. /\ SendCSW /\ stage' = "in" /\ asked' = asked /\ got' = <<>> /\ stored' = <<>>
      /\ ctr' = {} /\ seen' = {} /\ asked.kind = "refused"
      /\ asked \in Commands \cup {NoCommand}
  BY <1>1 DEF ClearHalt, Refused, Quiet, hostVars, TypeOK
<1>3. Append(got', Csw) = Answer(asked') /\ stored' = Written(asked')
  BY <1>2, AnswerFacts
<1> QED BY <1>2, <1>3, ClosesStage DEF Stages

LEMMA ResetPortStage ==
  ASSUME ResetPort
  PROVE  Stages'
<1>1. 1 - Cut(1) = 0
  BY Numbers, CutType
<1>2. out_ep'.xfer_len = 0 /\ rx' = "valid"
  BY <1>1 DEF ResetPort, Receive
<1> QED BY <1>2 DEF ResetPort, Resting, Quiet, Stages

-----------------------------------------------------------------------------
LEMMA InvInit == Init => IInv
<1> SUFFICES ASSUME Init PROVE IInv
  OBVIOUS
<1>1. ClassOK /\ HistoryOK
  BY Numbers, EmptySeq DEF Init, ClassOK, NoCommand, HistoryOK
<1>2. RestOK
  <2>1. /\ asked \in Commands \cup {NoCommand} /\ given \in Nat
        /\ rx_packet \in [what : {"data", "cbw"}, at : {0}, len : 1 .. MaxPacket]
        /\ ctr \subseteq {"rx", "tx"} /\ seen \subseteq {"rx", "tx", "sent"}
        /\ stage \in {"idle", "out", "in"}
    BY Numbers DEF Init, CBW
  <2>2. hasty \in BOOLEAN
    BY Zenon DEF Init
  <2> QED BY <2>1, <2>2, Zenon DEF RestOK
<1>3. TypeOK
  BY <1>1, <1>2, TypeParts
<1>4. Stages
  BY DEF Init, Stages, Resting, Quiet
<1> QED BY <1>1, <1>3, <1>4 DEF IInv

LEMMA InvNext == IInv /\ [Next]_vars => IInv'
<1> SUFFICES ASSUME IInv, [Next]_vars PROVE IInv'
  OBVIOUS
<1>1. TypeOK /\ HistoryOK /\ (~hasty => Stages)
  BY Zenon DEF IInv
<1>2. TypeOK' /\ HistoryOK'
  BY <1>1, NextType, NextHistory
<1>3. ASSUME ~hasty' PROVE Stages'
  <2>1. CASE Interrupt
    <3>1. ~hasty
      BY <1>3, <2>1, Zenon DEF Interrupt, Look, ClearIn, ServeOut, ServeIn, hostVars
    <3> QED BY <1>1, <2>1, <3>1, LookStage, ServeOutStage, ServeInStage DEF Interrupt
  <2>2. ASSUME NEW c \in Commands, SendCBW(c) PROVE Stages'
    <3>1. ~hasty /\ "tx" \notin ctr
      BY <1>3, <2>2, Zenon DEF SendCBW
    <3> QED BY <1>1, <2>2, <3>1, SendCBWStage
  <2>3. CASE GiveData \/ TakePacket \/ ClearHalt
    <3>1. ~hasty
      BY <1>3, <2>3, Zenon DEF GiveData, TakePacket, ClearHalt, hostVars
    <3> QED BY <1>1, <2>3, <3>1, GiveDataStage, TakePacketStage, ClearHaltStage
  <2>4. CASE ResetPort
    BY <2>4, ResetPortStage
  <2>5. CASE UNCHANGED vars
    <3>1. ~hasty
      BY <1>3, <2>5, Zenon DEF vars, hostVars
    <3>2. Stages
      BY <1>1, <3>1
    <3> QED BY <2>5, <3>2 DEF vars, classVars, inVars, outVars, hostVars, Stages, Resting,
               Commanded, Sending, Replying, ReadingOn, Writing, Refused, Closing,
               Quiet, Taken
  <2> QED BY <2>1, <2>2, <2>3, <2>4, <2>5 DEF Next, Host
<1> QED BY <1>2, <1>3, Zenon DEF IInv

\* Where a command is, packet by packet, for every size of packet and media
\* packet and every set of commands, unless one comes before the last status
\* has been served.
THEOREM Invariance == Spec => []IInv
BY InvInit, InvNext, PTL DEF Spec

\* The variables keep their types, also after a command that came too early:
\* no transfer is longer than a media packet, no packet than the endpoint's.
THEOREM TypeCorrect == Spec => []TypeOK
<1>1. IInv => TypeOK
  BY Zenon DEF IInv
<1> QED BY <1>1, Invariance, PTL

-----------------------------------------------------------------------------
\* The answers are sequences of packets, and what the data are.
LEMMA PacketsType ==
  ASSUME NEW n \in Nat, n % MaxPacket = 0
  PROVE  Packets(n) \in Seq(DataPacket)
<1>1. PICK m \in Nat : n = m * MaxPacket
  BY Numbers, Multiple
<1> QED BY <1>1, PacketsShape

LEMMA AnswerType ==
  ASSUME NEW c \in Commands \cup {NoCommand}
  PROVE  Answer(c) \in Seq(DataPacket) /\ Written(c) \in Seq(DataPacket)
<1>1. c.kind \in Kinds /\ c.size \in Nat
  BY CommandType
<1>2. <<>> \in Seq(DataPacket) /\ Csw \in DataPacket
  BY EmptySeq, PacketType
<1>3. ASSUME c.kind \in {"read", "write"}
      PROVE  Packets(c.size) \in Seq(DataPacket)
  BY <1>1, <1>3, CommandType, WholePackets, PacketsType
<1>4. CASE c.kind \in {"none", "refused"}
  <2>1. Answer(c) = Append(<<>>, Csw) /\ Written(c) = <<>>
    BY <1>4, AnswerFacts
  <2> QED BY <2>1, <1>2, AppendProperties
<1>5. CASE c.kind = "write"
  <2>1. Answer(c) = Append(<<>>, Csw) /\ Written(c) = Packets(c.size)
    BY <1>5, AnswerFacts
  <2> QED BY <2>1, <1>2, <1>3, <1>5, AppendProperties
<1>6. CASE c.kind = "read"
  <2>1. Answer(c) = Append(Packets(c.size), Csw) /\ Written(c) = <<>>
    BY <1>6, AnswerFacts
  <2> QED BY <2>1, <1>2, <1>3, <1>6, AppendProperties
<1>7. CASE c.kind = "reply"
  <2> DEFINE p == [what |-> "data", at |-> 0, len |-> c.size]
  <2>1. Answer(c) = Append(<<p>>, Csw) /\ Written(c) = <<>>
    BY <1>7, AnswerFacts
  <2>2. p \in DataPacket
    BY <1>1 DEF DataPacket
  <2> HIDE DEF p
  <2>3. <<p>> \in Seq(DataPacket)
    BY <2>2
  <2> QED BY <2>1, <2>3, <1>2, AppendProperties
<1> QED BY <1>1, <1>4, <1>5, <1>6, <1>7 DEF Kinds

\* Nothing yet, everything, and everything but the last packet are the beginning
\* of a sequence.
LEMMA Beginnings ==
  ASSUME NEW t \in Seq(DataPacket)
  PROVE  IsPrefix(<<>>, t) /\ IsPrefix(t, t)
<1>1. <<>> \in Seq(DataPacket) /\ Len(<<>>) = 0 /\ Len(t) \in Nat
  BY EmptySeq, LenProperties
<1>2. IsPrefix(<<>>, t)
  <2>1. \A i \in 1 .. Len(<<>>) : <<>>[i] = t[i]
    BY <1>1
  <2>2. Len(<<>>) <= Len(t)
    BY <1>1
  <2> QED BY <1>1, <2>1, <2>2, PrefixByElements
<1>3. IsPrefix(t, t)
  <2>1. Len(t) <= Len(t) /\ \A i \in 1 .. Len(t) : t[i] = t[i]
    BY <1>1
  <2> QED BY <2>1, PrefixByElements
<1> QED BY <1>2, <1>3

LEMMA AllButTheLast ==
  ASSUME NEW s \in Seq(DataPacket), NEW e \in DataPacket
  PROVE  IsPrefix(s, Append(s, e))
<1>1. /\ Append(s, e) \in Seq(DataPacket) /\ Len(Append(s, e)) = Len(s) + 1
      /\ \A i \in 1 .. Len(s) : Append(s, e)[i] = s[i]
  BY AppendProperties
<1>2. Len(s) \in Nat
  BY LenProperties
<1> DEFINE t == Append(s, e)
<1>3. t \in Seq(DataPacket) /\ Len(s) <= Len(t) /\ \A i \in 1 .. Len(s) : s[i] = t[i]
  BY <1>1, <1>2
<1> HIDE DEF t
<1>4. IsPrefix(s, t)
  BY <1>3, PrefixByElements
<1> QED BY <1>4 DEF t

\* What has been delivered, stage by stage.
Begun ==
  /\ IsPrefix(got, Answer(asked)) /\ IsPrefix(stored, Written(asked))
  /\ stage = "idle" /\ asked # NoCommand => got = Answer(asked) /\ stored = Written(asked)

LEMMA SendingBegun == ASSUME TypeOK, HistoryOK, Sending PROVE Begun
<1>1. /\ stage = "in" /\ stored = <<>> /\ cbw = asked
      /\ asked \in Commands \cup {NoCommand}
  BY DEF Sending, TypeOK
<1>2. IsPrefix(stored, Written(asked))
  BY <1>1, AnswerType, Beginnings
<1>3. asked.size \in Nat
  BY <1>1, CommandType
<1>4. CASE Replying
  <2> DEFINE p == [what |-> "data", at |-> 0, len |-> asked.size]
  <2>1. asked.kind = "reply" /\ got \in {<<>>, <<p>>}
    BY <1>4 DEF Replying
  <2>2. Answer(asked) = Append(<<p>>, Csw)
    BY <1>1, <2>1, AnswerFacts
  <2>3. p \in DataPacket
    BY <1>3 DEF DataPacket
  <2> HIDE DEF p
  <2>4. <<p>> \in Seq(DataPacket)
    BY <2>3
  <2>5. IsPrefix(<<p>>, Append(<<p>>, Csw))
    BY <2>4, PacketType, AllButTheLast
  <2>6. IsPrefix(<<>>, Answer(asked))
    BY <1>1, AnswerType, Beginnings
  <2>7. IsPrefix(got, Answer(asked))
    BY <2>1, <2>2, <2>5, <2>6
  <2> QED BY <1>1, <1>2, <2>7 DEF Begun
<1>5. CASE ReadingOn
  <2> DEFINE e == IF tx = "valid" THEN in_ep.at ELSE in_ep.at + MaxPacket
  <2>1. asked.kind = "read" /\ InOrder(got, e)
    BY <1>5 DEF ReadingOn
  <2>2. e \in Nat /\ e <= asked.size
    <3>1. in_ep.at \in Nat /\ in_ep.xfer_len \in Nat
      BY Numbers DEF TypeOK
    <3>2. moved = in_ep.at + MaxPacket + in_ep.xfer_len /\ moved <= asked.size
      BY <1>5 DEF ReadingOn
    <3>3. in_ep.at + MaxPacket <= asked.size /\ in_ep.at <= asked.size
      BY <1>3, <3>1, <3>2, Numbers
    <3>4. CASE tx = "valid"
      BY <3>1, <3>3, <3>4
    <3>5. CASE tx # "valid"
      BY <3>1, <3>3, <3>5, Numbers
    <3> QED BY <3>4, <3>5
  <2> HIDE DEF e
  <2>3. asked.size % MaxPacket = 0
    BY <1>1, <1>3, <2>1, CommandType, WholePackets
  <2>4. got \in Seq(DataPacket)
    BY DEF HistoryOK
  <2>5. IsPrefix(got, Append(Packets(asked.size), Csw))
    BY <1>3, <2>1, <2>2, <2>3, <2>4, FirstOfThem
  <2>6. Answer(asked) = Append(Packets(asked.size), Csw)
    BY <1>1, <2>1, AnswerFacts
  <2> QED BY <1>1, <1>2, <2>5, <2>6 DEF Begun
<1> QED BY <1>4, <1>5 DEF Sending

LEMMA WritingBegun == ASSUME TypeOK, HistoryOK, Writing PROVE Begun
<1>1. /\ asked.kind = "write" /\ got = <<>> /\ stage \in {"in", "out"}
      /\ asked \in Commands \cup {NoCommand}
  BY DEF Writing, TypeOK
<1>2. asked.size \in Nat /\ asked.size % MaxPacket = 0
  BY <1>1, CommandType, WholePackets
<1>3. IsPrefix(got, Answer(asked))
  BY <1>1, AnswerType, Beginnings
<1>4. out_ep.at \in Nat /\ out_ep.at <= asked.size
  <2>1. out_ep.at \in Nat /\ out_ep.xfer_len \in Nat /\ moved \in Nat
    BY Numbers DEF TypeOK
  <2>2. moved + Media = out_ep.at + MaxPacket + out_ep.xfer_len /\ moved + Media <= asked.size
    BY DEF Writing
  <2> QED BY <1>2, <2>1, <2>2, Numbers
<1>5. stored \in Seq(DataPacket) /\ InOrder(stored, out_ep.at)
  BY DEF HistoryOK, Writing
<1>6. IsPrefix(stored, Packets(asked.size))
  BY <1>2, <1>4, <1>5, FirstOfThem
<1>7. Written(asked) = Packets(asked.size)
  BY <1>1, AnswerFacts
<1> QED BY <1>1, <1>3, <1>6, <1>7 DEF Begun

LEMMA StagesBegun == ASSUME TypeOK, HistoryOK, Stages PROVE Begun
<1>1. /\ asked \in Commands \cup {NoCommand}
      /\ got \in Seq(DataPacket) /\ stored \in Seq(DataPacket)
  BY DEF TypeOK, HistoryOK
<1>2. /\ IsPrefix(<<>>, Answer(asked)) /\ IsPrefix(<<>>, Written(asked))
      /\ IsPrefix(Answer(asked), Answer(asked)) /\ IsPrefix(Written(asked), Written(asked))
  BY <1>1, AnswerType, Beginnings
<1>3. CASE Resting
  <2>1. \/ asked = NoCommand /\ got = <<>> /\ stored = <<>>
        \/ got = Answer(asked) /\ stored = Written(asked)
    BY <1>3 DEF Resting
  <2> QED BY <2>1, <1>2 DEF Begun
<1>4. CASE Commanded \/ Refused
  <2>1. got = <<>> /\ stored = <<>> /\ stage \in {"in", "out"}
    BY <1>4 DEF Commanded, Refused
  <2> QED BY <2>1, <1>2 DEF Begun
<1>5. CASE Closing
  <2>1. stage = "in" /\ Append(got, Csw) = Answer(asked) /\ stored = Written(asked)
    BY <1>5 DEF Closing
  <2>2. IsPrefix(got, Append(got, Csw))
    BY <1>1, PacketType, AllButTheLast
  <2> QED BY <2>1, <2>2, <1>2 DEF Begun
<1> QED BY <1>3, <1>4, <1>5, SendingBegun, WritingBegun DEF Stages

\* The host gets the packets of its answers in order and each once, and what it
\* writes is stored where it belongs, unless a command came before the last
\* status was served.
THEOREM DeliveredInOrder == Spec => []Delivered
<1>1. IInv => Delivered
  BY StagesBegun DEF IInv, Delivered, Begun
<1> QED BY <1>1, Invariance, PTL

\* When the class is told that a packet has gone, the host has it, with the same
\* exception.
THEOREM CompletionMeansTaken == Spec => []TxComplete
<1>1. IInv => TxComplete
  <2>1. SUFFICES ASSUME Stages, seen = {"sent"}, bot_state # "IDLE"
                 PROVE  tx = "nak"
    BY DEF IInv, TxComplete
  <2>2. Sending \/ Writing
    BY <2>1 DEF Stages, Resting, Commanded, Refused, Closing
  <2> QED BY <2>1, <2>2 DEF Sending, Writing, Taken, Quiet
<1> QED BY <1>1, Invariance, PTL

=============================================================================
