------------------------- MODULE MsgFraming_proofs -------------------------
(***************************************************************************)
(* Proofs about MsgFraming, for every PackSize, ReadSize, byte range and   *)
(* set of messages, and every way of cutting the stream into chunks.       *)
(***************************************************************************)
EXTENDS MsgFraming, SequenceTheorems, TLAPS

\* A size below Base * Base fits in a header.
LEMMA HeaderFits ==
  ASSUME NEW size \in 0 .. Base * Base - 1
  PROVE  Header(size) \in Seq(Byte)
<1> USE FramingAssumption
<1>1. Base * Base \in Nat /\ size \in Nat /\ size < Base * Base
  OBVIOUS
<1> DEFINE q == size \div Base
           r == size % Base
<1>2. q \in Nat /\ r \in 0 .. Base - 1 /\ size = Base * q + r
  OBVIOUS
<1> HIDE DEF q, r
<1>3. q < Base
  <2>1. SUFFICES ASSUME q >= Base PROVE FALSE
    BY <1>2
  <2>2. Base * q >= Base * Base
    BY <1>2, <2>1
  <2>3. QED
    BY <1>1, <1>2, <2>2
<1>4. q \in Byte /\ r \in Byte
  BY <1>2, <1>3 DEF Byte
<1>5. QED
  BY <1>4 DEF Header, q, r

\* A header's two bytes give a natural number.
LEMMA SizeIsNat ==
  ASSUME NEW hdr \in Seq(Byte), Len(hdr) = HdrLen
  PROVE  SizeOf(hdr) \in Nat
<1>1. hdr[1] \in Byte /\ hdr[2] \in Byte
  BY DEF HdrLen
<1>2. hdr[1] \in Nat /\ hdr[2] \in Nat /\ Base \in Nat
  BY <1>1, FramingAssumption DEF Byte
<1>3. \A x, y, b \in Nat : x * b + y \in Nat
  OBVIOUS
<1>4. hdr[1] * Base + hdr[2] \in Nat
  BY ONLY <1>2, <1>3, Zenon
<1>5. QED
  BY <1>4 DEF SizeOf

\* The pieces a chunk is cut into.
LEMMA CutChunk ==
  ASSUME NEW s \in Seq(Byte), NEW n \in 0 .. Len(s)
  PROVE  /\ FirstOf(s, n) \in Seq(Byte) /\ Len(FirstOf(s, n)) = n
         /\ Rest(s, n) \in Seq(Byte) /\ Len(Rest(s, n)) = Len(s) - n
<1>1. \A i \in 1 .. Len(s) : s[i] \in Byte
  OBVIOUS
<1>2. FirstOf(s, n) \in Seq(Byte) /\ Len(FirstOf(s, n)) = n
  BY <1>1, SubSeqProperties DEF FirstOf
<1>3. Rest(s, n) \in Seq(Byte) /\ Len(Rest(s, n)) = Len(s) - n
  BY <1>1, SubSeqProperties DEF Rest
<1>4. QED
  BY <1>2, <1>3

\* The invariant holds of a reader that has read nothing.
LEMMA FramingInitInv == Init => FramingInv
<1> SUFFICES ASSUME Init PROVE FramingInv
  OBVIOUS
<1> USE FramingAssumption DEF Init
<1>1. TypeOK
  <2>1. <<>> \in Seq(Byte) /\ <<>> \in Seq(Nat) /\ <<>> \in Seq(Seq(Byte))
    OBVIOUS
  <2>2. QED
    BY <2>1, Zenon DEF TypeOK
<1>2. RoomLeft
  BY DEF RoomLeft, HdrLen
<1>3. QED
  BY <1>1, <1>2 DEF FramingInv

\* Every chunk that is read, and every message the peer sends, preserves it.
LEMMA FramingStepInv == FramingInv /\ [Next]_vars => FramingInv'
<1> SUFFICES ASSUME FramingInv, [Next]_vars PROVE FramingInv'
  OBVIOUS
<1> USE FramingAssumption DEF FramingInv, TypeOK, RoomLeft, peerVars, readerVars
<1>1. ASSUME NEW m \in Bodies, PeerSends(m) PROVE FramingInv'
  <2>1. m \in Seq(Byte) /\ Len(m) \in 0 .. Base * Base - 1
    OBVIOUS
  <2>2. Header(Len(m)) \in Seq(Byte)
    BY <2>1, HeaderFits
  <2>3. stream' \in Seq(Byte) /\ sent' \in Seq(Seq(Byte)) /\ ends' \in Seq(Nat)
    <3>1. stream \o Header(Len(m)) \in Seq(Byte)
      BY <2>2, ConcatProperties
    <3>2. stream' \in Seq(Byte)
      BY <1>1, <2>1, <3>1, ConcatProperties DEF PeerSends
    <3>3. sent' \in Seq(Seq(Byte)) /\ ends' \in Seq(Nat)
      BY <1>1, <2>1, <3>2 DEF PeerSends
    <3>4. QED
      BY <3>2, <3>3
  <2>4. UNCHANGED <<bad, readerVars>>
    BY <1>1 DEF PeerSends
  <2>5. QED
    BY <2>3, <2>4
<1>2. ASSUME NEW size \in 0 .. Base * Base - 1, PeerSendsBad(size) PROVE FramingInv'
  <2>1. Header(size) \in Seq(Byte)
    BY HeaderFits
  <2>2. stream' \in Seq(Byte) /\ bad' \in BOOLEAN
    BY <1>2, <2>1, ConcatProperties DEF PeerSendsBad
  <2>3. UNCHANGED <<sent, ends, readerVars>>
    BY <1>2 DEF PeerSendsBad
  <2>4. QED
    BY <2>2, <2>3
<1>3. ASSUME NEW k \in 1 .. ReadSize, ReadChunk(k) PROVE FramingInv'
  <2>1. taken' \in Nat /\ at = "wait" /\ at' = "cut" /\ UNCHANGED <<peerVars, msgbuf, cursize, received>>
    BY <1>3 DEF ReadChunk
  <2>2. buf' \in Seq(Byte)
    <3>1. /\ taken + 1 \in 1 .. Len(stream) + 1 /\ taken + k \in 0 .. Len(stream)
          /\ \A i \in taken + 1 .. taken + k : stream[i] \in Byte
      BY <1>3 DEF ReadChunk
    <3>2. QED
      BY <1>3, <3>1, SubSeqProperties DEF ReadChunk
  <2>3. QED
    BY <2>1, <2>2
<1>4. CASE InBody
  BY <1>4 DEF InBody
<1>5. CASE KeepHeader
  <2>1. msgbuf' \in Seq(Byte) /\ Len(msgbuf') = Len(msgbuf) + Len(buf) /\ buf' = <<>>
    BY <1>5, ConcatProperties DEF KeepHeader
  <2>2. QED
    BY <1>5, <2>1 DEF KeepHeader, PartHeader, HdrLen
<1>6. CASE ReadHeader
  <2> DEFINE n == Missing(HdrLen, Len(msgbuf))
             all == msgbuf \o FirstOf(buf, n)
  <2>1. /\ at = "cut" /\ cursize = 0 /\ Len(msgbuf) < HdrLen
        /\ Len(buf) + Len(msgbuf) >= HdrLen
    BY <1>6 DEF ReadHeader, PartHeader, HdrLen
  <2>2. n = HdrLen - Len(msgbuf) /\ n \in 0 .. Len(buf)
    BY <2>1 DEF Missing, HdrLen
  <2>3. all \in Seq(Byte) /\ Len(all) = HdrLen
    <3>1. FirstOf(buf, n) \in Seq(Byte) /\ Len(FirstOf(buf, n)) = n
      BY <2>2, CutChunk
    <3>2. Len(all) = Len(msgbuf) + n /\ all \in Seq(Byte)
      BY <3>1, ConcatProperties
    <3> HIDE DEF all
    <3>3. QED
      BY <2>2, <3>2 DEF HdrLen
  <2>4. buf' = Rest(buf, n) /\ msgbuf' = Rest(all, HdrLen) /\ cursize' = SizeOf(all)
    BY <1>6 DEF ReadHeader
  <2>5. /\ at' = IF TooLarge(cursize') THEN "closed" ELSE "body"
        /\ UNCHANGED <<peerVars, taken, received>>
    BY <1>6 DEF ReadHeader
  <2>6. cursize' \in Nat
    BY <2>3, <2>4, SizeIsNat
  <2>7. buf' \in Seq(Byte)
    BY <2>2, <2>4, CutChunk
  <2>8. msgbuf' \in Seq(Byte) /\ Len(msgbuf') = 0
    <3>1. HdrLen \in 0 .. Len(all)
      BY <2>3 DEF HdrLen
    <3>2. Rest(all, HdrLen) \in Seq(Byte) /\ Len(Rest(all, HdrLen)) = Len(all) - HdrLen
      BY ONLY <2>3, <3>1, CutChunk, Zenon
    <3> HIDE DEF all
    <3>3. QED
      BY <2>3, <2>4, <3>2 DEF HdrLen
  <2> HIDE DEF n, all
  <2>9. QED
    BY <2>5, <2>6, <2>7, <2>8 DEF TooLarge
<1>7. CASE KeepBody
  <2>1. msgbuf' \in Seq(Byte) /\ Len(msgbuf') = Len(msgbuf) + Len(buf) /\ buf' = <<>>
    BY <1>7, ConcatProperties DEF KeepBody
  <2>2. QED
    BY <1>7, <2>1 DEF KeepBody, PartBody
<1>8. CASE Deliver
  <2> DEFINE n == cursize - Len(msgbuf)
  <2>1. n \in 0 .. Len(buf)
    BY <1>8 DEF Deliver, PartBody
  <2>2. FirstOf(buf, n) \in Seq(Byte) /\ Rest(buf, n) \in Seq(Byte)
    BY <2>1, CutChunk
  <2>3. msgbuf \o FirstOf(buf, n) \in Seq(Byte)
    BY <2>2, ConcatProperties
  <2>4. /\ received' = Append(received, msgbuf \o FirstOf(buf, n)) /\ buf' = Rest(buf, n)
        /\ msgbuf' = <<>> /\ cursize' = 0 /\ at' = "cut" /\ UNCHANGED <<peerVars, taken>>
    BY <1>8 DEF Deliver
  <2>5. received' \in Seq(Seq(Byte)) /\ buf' \in Seq(Byte)
    BY <2>2, <2>3, <2>4
  <2> HIDE DEF n
  <2>6. QED
    BY <2>4, <2>5 DEF HdrLen
<1>9. CASE UNCHANGED vars
  BY <1>9 DEF vars
<1>10. QED
  BY <1>1, <1>2, <1>3, <1>4, <1>5, <1>6, <1>7, <1>8, <1>9 DEF Next, Read, CutMsgPack

\* The invariant, at every instant.
LEMMA FramingInvariant == Spec => []FramingInv
<1>1. QED
  BY FramingInitInv, FramingStepInv, PTL DEF Spec

\* The state of the reader is always well-formed.
THEOREM FramingTyped == Spec => []TypeOK
<1>1. FramingInv => TypeOK
  BY DEF FramingInv
<1>2. QED
  BY <1>1, FramingInvariant, PTL

\* Neither unsigned subtraction of _CutMsgPack wraps round, and no more than
\* PackSize bytes are ever collected, whatever the peer sends.
THEOREM FramingRoomLeft == Spec => []RoomLeft
<1>1. FramingInv => RoomLeft
  BY DEF FramingInv
<1>2. QED
  BY <1>1, FramingInvariant, PTL

-----------------------------------------------------------------------------
(* What is delivered is what was sent.                                     *)

\* A header's two bytes give back the size it was made of.
LEMMA HeaderKeepsSize ==
  ASSUME NEW size \in 0 .. Base * Base - 1
  PROVE  Header(size)[1] * Base + Header(size)[2] = size
<1> USE FramingAssumption
<1>1. Base * Base \in Nat /\ size \in Nat
  OBVIOUS
<1> DEFINE q == size \div Base
           r == size % Base
<1>2. q \in Nat /\ r \in Nat /\ size = Base * q + r
  OBVIOUS
<1>3. Header(size)[1] = q /\ Header(size)[2] = r
  BY DEF Header
<1> HIDE DEF q, r
<1>4. q * Base = Base * q
  BY <1>2
<1>5. QED
  BY <1>2, <1>3, <1>4

\* A message begins where the one before it ends.
LEMMA StartNext ==
  ASSUME NEW n \in Nat
  PROVE  Start(1) = 0 /\ (n # 0 => Start(n + 1) = ends[n])
<1>1. n # 0 => n + 1 # 1 /\ (n + 1) - 1 = n
  OBVIOUS
<1>2. QED
  BY <1>1, Zenon DEF Start

\* Where the messages begin.
LEMMA StartOf ==
  ASSUME TypeOK, StreamInv, NEW i \in 1 .. Len(sent) + 1
  PROVE  /\ Start(i) \in Nat /\ Start(i) <= Len(stream)
         /\ i <= Len(sent) => Start(i + 1) = Start(i) + HdrLen + Len(sent[i])
<1>1. ends \in Seq(Nat) /\ sent \in Seq(Seq(Byte)) /\ stream \in Seq(Byte) /\ Len(ends) = Len(sent)
  BY DEF TypeOK, StreamInv
<1>2. Len(stream) \in Nat /\ Len(sent) \in Nat
  BY <1>1
<1>3. i <= Len(sent) => Start(i + 1) = Start(i) + HdrLen + Len(sent[i])
  <2>1. i \in Nat /\ i # 0
    OBVIOUS
  <2>2. Start(i + 1) = ends[i]
    BY <2>1, StartNext
  <2>3. QED
    BY <1>1, <1>2, <2>1, <2>2 DEF StreamInv, InStream
<1>4. CASE i = 1
  BY <1>1, <1>2, <1>3, <1>4 DEF Start
<1>5. CASE i # 1
  <2>1. i - 1 \in 1 .. Len(sent) /\ ends[i - 1] \in Nat
    BY <1>1, <1>2, <1>5
  <2>2. Start(i) = ends[i - 1]
    BY <1>5 DEF Start
  <2>3. ends[i - 1] <= Len(stream)
    BY <2>1 DEF StreamInv, InStream
  <2>4. QED
    BY <1>3, <2>1, <2>2, <2>3
<1>6. QED
  BY <1>4, <1>5

\* What the peer adds to the stream changes nothing for the reader.
LEMMA StreamGrows ==
  ASSUME TypeOK, StreamInv, ReaderInv, ReceivedAsSent, UNCHANGED readerVars,
         stream' \in Seq(Byte), Len(stream) <= Len(stream'),
         \A k \in 1..Len(stream) : stream'[k] = stream[k],
         Len(sent') \in Nat, Len(sent) <= Len(sent'),
         \A i \in 1..Len(sent) : sent'[i] = sent[i] /\ ends'[i] = ends[i]
  PROVE  /\ \A i \in 1..(Len(sent) + 1) : Start(i)' = Start(i)
         /\ ReaderInv' /\ ReceivedAsSent'
<1>1. /\ stream \in Seq(Byte) /\ sent \in Seq(Seq(Byte)) /\ ends \in Seq(Nat)
      /\ received \in Seq(Seq(Byte)) /\ taken \in Nat
      /\ Len(stream') \in Nat
  BY DEF TypeOK
<1>n. PICK N \in Nat : N = Len(sent)
  BY <1>1
<1>l. PICK L \in Nat : L = Len(stream)
  BY <1>1
<1>3. ASSUME NEW i \in 1..(N + 1) PROVE Start(i)' = Start(i)
  <2>1. i = 1 \/ i - 1 \in 1..N
    BY <1>n
  <2>2. i # 1 => ends'[i - 1] = ends[i - 1]
    BY <1>n, <2>1
  <2>3. QED
    BY <2>2 DEF Start
<1>4. ReaderInv'
  <2>1. /\ taken' = taken /\ at' = at /\ buf' = buf /\ msgbuf' = msgbuf
        /\ cursize' = cursize /\ received' = received
    BY DEF readerVars
  <2>2. taken <= L /\ L <= Len(stream')
    BY <1>1, <1>l DEF ReaderInv
  <2>3. Len(received) \in Nat /\ Len(received) + 1 \in 1..(N + 1)
    BY <1>1, <1>n DEF ReceivedAsSent
  <2>4. Start(Len(received) + 1)' = Start(Len(received) + 1)
    <3>1. \A i \in 1..(N + 1) : Start(i)' = Start(i)
      BY <1>3
    <3>2. PICK r \in Nat : r = Len(received)
      BY <2>3
    <3>3. Start(r + 1)' = Start(r + 1)
      BY <2>3, <3>1, <3>2
    <3>4. QED
      BY <2>1, <3>2, <3>3 DEF Start
  <2>5. HeldFrom' = HeldFrom /\ HeaderKnown' = HeaderKnown
    BY <2>1, <2>4 DEF HeldFrom, HeaderKnown
  <2>6. HeldFrom \in Nat
    <3>1. Start(Len(received) + 1) \in Nat
      BY <1>n, <2>3, StartOf
    <3>2. QED
      BY <3>1 DEF HeldFrom, HdrLen
  <2>7. CASE at # "closed"
    <3>1. /\ taken = HeldFrom + Len(msgbuf) + Len(buf)
          /\ \A j \in 1..Len(msgbuf) : msgbuf[j] = stream[HeldFrom + j]
          /\ \A j \in 1..Len(buf) : buf[j] = stream[HeldFrom + Len(msgbuf) + j]
          /\ Len(msgbuf) \in Nat /\ Len(buf) \in Nat
      BY <2>7 DEF ReaderInv, TypeOK
    <3>2. /\ \A j \in 1..Len(msgbuf) : HeldFrom + j \in 1..L
          /\ \A j \in 1..Len(buf) : HeldFrom + Len(msgbuf) + j \in 1..L
      BY <1>1, <1>l, <2>2, <2>6, <3>1
    <3>3. /\ \A j \in 1..Len(msgbuf) : msgbuf[j] = stream'[HeldFrom + j]
          /\ \A j \in 1..Len(buf) : buf[j] = stream'[HeldFrom + Len(msgbuf) + j]
      BY <1>l, <3>1, <3>2
    <3>4. HeaderKnown =>
            Len(received) < Len(sent') /\ cursize = Len(sent'[Len(received) + 1])
      <4>1. ASSUME HeaderKnown PROVE Len(received) + 1 \in 1..N
        BY <1>n, <2>3, <2>7, <4>1 DEF ReaderInv
      <4>2. QED
        BY <1>n, <2>3, <2>7, <4>1 DEF ReaderInv
    <3>5. QED
      BY <2>1, <2>2, <2>5, <2>7, <3>1, <3>3, <3>4 DEF ReaderInv
  <2>8. QED
    BY <1>l, <1>1, <1>l, <2>1, <2>2, <2>7 DEF ReaderInv
<1>5. ReceivedAsSent'
  BY <1>1 DEF ReceivedAsSent, readerVars
<1>6. QED
  BY <1>n, <1>3, <1>4, <1>5

\* A message of the peer stands at the end of the stream.
LEMMA PeerSendsInv ==
  ASSUME DeliveryInv, NEW m \in Bodies, PeerSends(m)
  PROVE  StreamInv' /\ ReaderInv' /\ ReceivedAsSent'
<1> USE DEF DeliveryInv, FramingInv
<1>1. /\ stream \in Seq(Byte) /\ sent \in Seq(Seq(Byte)) /\ ends \in Seq(Nat)
      /\ received \in Seq(Seq(Byte)) /\ taken \in Nat /\ Len(ends) = Len(sent)
  BY DEF TypeOK, StreamInv
<1>2. /\ m \in Seq(Byte) /\ Len(m) \in 0 .. Base * Base - 1 /\ Len(m) <= PackSize /\ Len(m) \in Nat
  BY FramingAssumption
<1>3. Header(Len(m)) \in Seq(Byte) /\ Len(Header(Len(m))) = HdrLen
  BY <1>2, HeaderFits DEF Header, HdrLen
<1>4. /\ ~bad /\ ~bad'
      /\ stream' = (stream \o Header(Len(m))) \o m
      /\ sent' = Append(sent, m) /\ ends' = Append(ends, Len(stream'))
      /\ UNCHANGED readerVars
  BY DEF PeerSends
<1>n. PICK N \in Nat : N = Len(sent)
  BY <1>1
<1>l. PICK L \in Nat : L = Len(stream)
  BY <1>1
<1>5. L = Start(N + 1)
  BY <1>n, <1>l, <1>1, <1>4, <1>n, <1>l DEF StreamInv
<1>6. /\ stream' \in Seq(Byte) /\ Len(stream') = L + HdrLen + Len(m)
      /\ \A k \in 1..L : stream'[k] = stream[k]
      /\ \A k \in 1..HdrLen : stream'[L + k] = Header(Len(m))[k]
      /\ \A k \in 1..Len(m) : stream'[L + HdrLen + k] = m[k]
  <2> DEFINE h == stream \o Header(Len(m))
  <2>1. /\ h \in Seq(Byte) /\ Len(h) = L + HdrLen
        /\ \A k \in 1..Len(h) : h[k] = IF k <= L THEN stream[k] ELSE Header(Len(m))[k - L]
    <3>1. /\ h \in Seq(Byte) /\ Len(h) = Len(stream) + Len(Header(Len(m)))
          /\ \A k \in 1..(Len(stream) + Len(Header(Len(m)))) :
               h[k] = IF k <= Len(stream) THEN stream[k] ELSE Header(Len(m))[k - Len(stream)]
      BY <1>1, <1>3, ConcatProperties
    <3> HIDE DEF h
    <3>2. QED
      BY <1>l, <1>3, <3>1
  <2> HIDE DEF h
  <2>2. /\ h \o m \in Seq(Byte) /\ Len(h \o m) = Len(h) + Len(m)
        /\ \A k \in 1..(Len(h) + Len(m)) :
             (h \o m)[k] = IF k <= Len(h) THEN h[k] ELSE m[k - Len(h)]
    BY <1>n, <1>l, <1>2, <2>1, ConcatProperties
  <2>3. stream' = h \o m
    BY <1>n, <1>l, <1>4 DEF h
  <2>4. Len(h) = L + HdrLen /\ HdrLen \in Nat
    BY <2>1 DEF HdrLen
  <2>5. \A k \in 1..L : stream'[k] = stream[k]
    BY <1>n, <1>l, <1>2, <1>5, <2>1, <2>2, <2>3, <2>4
  <2>6. \A k \in 1..HdrLen : stream'[L + k] = Header(Len(m))[k]
    <3>1. ASSUME NEW k \in 1..HdrLen PROVE stream'[L + k] = Header(Len(m))[k]
      <4>1. L + k \in 1..Len(h) /\ ~ (L + k <= L) /\ (L + k) - L = k
        BY <2>4
      <4>2. L + k \in 1..(Len(h) + Len(m)) /\ L + k <= Len(h)
        BY <1>2, <2>4, <4>1
      <4>3. QED
        BY <2>1, <2>2, <2>3, <4>1, <4>2
    <3>2. QED
      BY <3>1
  <2>7. \A k \in 1..Len(m) : stream'[L + HdrLen + k] = m[k]
    <3>1. ASSUME NEW k \in 1..Len(m) PROVE stream'[L + HdrLen + k] = m[k]
      <4>1. /\ L + HdrLen + k \in 1..(Len(h) + Len(m)) /\ ~ (L + HdrLen + k <= Len(h))
            /\ (L + HdrLen + k) - Len(h) = k
        BY <1>2, <2>4
      <4>2. QED
        BY <2>2, <2>3, <4>1
    <3>2. QED
      BY <3>1
  <2>8. QED
    BY <2>2, <2>3, <2>4, <2>5, <2>6, <2>7
<1>7. /\ Len(sent') = N + 1 /\ Len(ends') = N + 1 /\ sent'[N + 1] = m
      /\ ends'[N + 1] = L + HdrLen + Len(m)
      /\ \A i \in 1..N : sent'[i] = sent[i] /\ ends'[i] = ends[i]
  <2>1. Len(stream') \in Nat /\ Len(stream') = L + HdrLen + Len(m)
    BY <1>6
  <2>2. /\ Len(Append(ends, Len(stream'))) = N + 1
        /\ Append(ends, Len(stream'))[N + 1] = Len(stream')
        /\ \A i \in 1..N : Append(ends, Len(stream'))[i] = ends[i]
    BY <1>n, <1>1, <2>1
  <2>3. /\ Len(Append(sent, m)) = N + 1 /\ Append(sent, m)[N + 1] = m
        /\ \A i \in 1..N : Append(sent, m)[i] = sent[i]
    BY <1>n, <1>1, <1>2
  <2>4. QED
    BY <1>4, <2>1, <2>2, <2>3
<1>8. /\ \A i \in 1..(N + 1) : Start(i)' = Start(i)
      /\ ReaderInv' /\ ReceivedAsSent'
  <2>1. /\ stream' \in Seq(Byte) /\ Len(stream) <= Len(stream')
        /\ \A k \in 1..Len(stream) : stream'[k] = stream[k]
    BY <1>2, <1>l, <1>6 DEF HdrLen
  <2>2. /\ Len(sent') \in Nat /\ Len(sent) <= Len(sent')
        /\ \A i \in 1..Len(sent) : sent'[i] = sent[i] /\ ends'[i] = ends[i]
    BY <1>n, <1>7
  <2>3. QED
    BY <1>n, <1>4, <2>1, <2>2, StreamGrows
<1>9. StreamInv'
  <2>1. ASSUME NEW i \in 1..N PROVE InStream(i)'
    <3>1. /\ sent'[i] = sent[i] /\ ends'[i] = ends[i] /\ Start(i)' = Start(i)
          /\ Start(i) \in Nat /\ Len(sent[i]) \in Nat /\ ends[i] \in Nat
      <4>1. i \in 1 .. N + 1
        BY <1>n, <1>l, <1>5
      <4>2. Start(i) \in Nat
        BY <1>n, <4>1, StartOf 
      <4>3. QED
        BY <1>n, <1>l, <1>1, <1>7, <1>8, <4>1, <4>2 
    <3>2. /\ Len(sent[i]) <= PackSize
          /\ ends[i] = Start(i) + HdrLen + Len(sent[i]) /\ ends[i] <= L
          /\ stream[Start(i) + 1] * Base + stream[Start(i) + 2] = Len(sent[i])
          /\ \A j \in 1..Len(sent[i]) : stream[Start(i) + HdrLen + j] = sent[i][j]
          /\ \A k \in 1..N : i <= k => ends[i] <= ends[k]
      BY <1>n, <1>l DEF StreamInv, InStream
    <3>3. /\ Start(i) + 1 \in 1..L /\ Start(i) + 2 \in 1..L
          /\ \A j \in 1..Len(sent[i]) : Start(i) + HdrLen + j \in 1..L
      BY <1>n, <1>l, <1>5, <3>1, <3>2 DEF HdrLen
    <3>4. stream'[Start(i) + 1] = stream[Start(i) + 1] /\ stream'[Start(i) + 2] = stream[Start(i) + 2]
      BY <1>n, <1>l, <1>6, <3>3
    <3>5. \A j \in 1..Len(sent[i]) : stream'[Start(i) + HdrLen + j] = sent[i][j]
      BY <1>n, <1>l, <1>6, <3>2, <3>3
    <3>6. \A k \in 1..(N + 1) : i <= k => ends[i] <= ends'[k]
      <4>1. ends[i] <= L + HdrLen + Len(m)
        BY <1>n, <1>l, <1>2, <1>5, <3>1, <3>2 DEF HdrLen
      <4>2. \A k \in 1..(N + 1) : k \in 1..N \/ k = N + 1
        BY <1>n, <1>l, <1>5
      <4>3. QED
        BY <1>n, <1>l, <1>7, <3>2, <4>1, <4>2
    <3>7. ends[i] <= Len(stream')
      BY <1>n, <1>l, <1>2, <1>5, <1>6, <3>1, <3>2 DEF HdrLen
    <3>8. QED
      BY <1>7, <3>1, <3>2, <3>4, <3>5, <3>6, <3>7 DEF InStream
  <2>2. InStream(N + 1)'
    <3>1. Start(N + 1)' = L
      <4>1. N + 1 \in 1..(N + 1)
        BY <1>n, <1>l, <1>5
      <4>2. QED
        BY <1>n, <1>l, <1>5, <1>8, <4>1
    <3>2. stream'[L + 1] * Base + stream'[L + 2] = Len(m)
      <4>1. stream'[L + 1] = Header(Len(m))[1] /\ stream'[L + 2] = Header(Len(m))[2]
        BY <1>n, <1>l, <1>6 DEF HdrLen
      <4>2. QED
        BY <1>n, <1>l, <1>2, <4>1, HeaderKeepsSize
    <3>3. ends'[N + 1] <= Len(stream') /\ ends'[N + 1] \in Nat
      BY <1>n, <1>l, <1>2, <1>5, <1>6, <1>7 DEF HdrLen
    <3>4. \A k \in 1..(N + 1) : N + 1 <= k => k = N + 1
      BY <1>n, <1>l, <1>5
    <3>5. QED
      BY <1>2, <1>6, <1>7, <3>1, <3>2, <3>3, <3>4 DEF InStream
  <2>3. Start(N + 2)' = Len(stream')
    <3>1. (N + 2) - 1 = N + 1 /\ N + 2 # 1
      BY <1>n, <1>l, <1>5
    <3>2. Start(N + 2)' = ends'[N + 1]
      BY <3>1 DEF Start
    <3>3. QED
      BY <1>n, <1>l, <1>6, <1>7, <3>2
  <2>4. \A i \in 1..(N + 1) : i \in 1..N \/ i = N + 1
    BY <1>n, <1>l, <1>5
  <2>5. Len(sent') + 1 = N + 2
    BY <1>n, <1>l, <1>5, <1>7
  <2>6. QED
    BY <1>n, <1>l, <1>4, <1>7, <2>1, <2>2, <2>3, <2>4, <2>5 DEF StreamInv
<1>10. QED
  BY <1>8, <1>9

\* A header that announces too much stands there alone.
LEMMA PeerSendsBadInv ==
  ASSUME DeliveryInv, NEW size \in 0 .. Base * Base - 1, PeerSendsBad(size)
  PROVE  StreamInv' /\ ReaderInv' /\ ReceivedAsSent'
<1> USE DEF DeliveryInv, FramingInv
<1>1. /\ stream \in Seq(Byte) /\ sent \in Seq(Seq(Byte)) /\ Len(stream) \in Nat
      /\ Len(sent) \in Nat /\ ends \in Seq(Nat)
  BY DEF TypeOK
<1>2. /\ bad' = TRUE /\ ~bad /\ size > PackSize /\ stream' = stream \o Header(size)
      /\ sent' = sent /\ ends' = ends /\ UNCHANGED readerVars
  BY DEF PeerSendsBad
<1>3. Header(size) \in Seq(Byte) /\ Len(Header(size)) = 2
  BY HeaderFits DEF Header
<1>4. /\ stream' \in Seq(Byte) /\ Len(stream') = Len(stream) + 2
      /\ \A k \in 1..Len(stream) : stream'[k] = stream[k]
      /\ stream'[Len(stream) + 1] = Header(size)[1]
      /\ stream'[Len(stream) + 2] = Header(size)[2]
  <2>1. /\ stream' \in Seq(Byte) /\ Len(stream') = Len(stream) + 2
        /\ \A k \in 1..(Len(stream) + 2) :
             stream'[k] = IF k <= Len(stream) THEN stream[k] ELSE Header(size)[k - Len(stream)]
    <3>1. /\ stream \o Header(size) \in Seq(Byte)
          /\ Len(stream \o Header(size)) = Len(stream) + Len(Header(size))
          /\ \A k \in 1..(Len(stream) + Len(Header(size))) :
               (stream \o Header(size))[k] =
                 IF k <= Len(stream) THEN stream[k] ELSE Header(size)[k - Len(stream)]
      BY <1>1, <1>3, ConcatProperties
    <3>2. QED
      BY <1>2, <1>3, <3>1
  <2>2. /\ \A k \in 1..Len(stream) : k \in 1..(Len(stream) + 2) /\ k <= Len(stream)
        /\ Len(stream) + 1 \in 1..(Len(stream) + 2) /\ (Len(stream) + 1) - Len(stream) = 1
        /\ Len(stream) + 2 \in 1..(Len(stream) + 2) /\ (Len(stream) + 2) - Len(stream) = 2
        /\ ~ (Len(stream) + 1 <= Len(stream)) /\ ~ (Len(stream) + 2 <= Len(stream))
    BY <1>1
  <2>3. QED
    <3>1. /\ stream'[Len(stream) + 1] = Header(size)[1]
          /\ stream'[Len(stream) + 2] = Header(size)[2]
      BY <2>1, <2>2
    <3>2. \A k \in 1..Len(stream) : stream'[k] = stream[k]
      BY <2>1, <2>2
    <3>3. QED
      BY <2>1, <3>1, <3>2
<1>5. /\ \A i \in 1..(Len(sent) + 1) : Start(i)' = Start(i)
      /\ ReaderInv' /\ ReceivedAsSent'
  <2>1. Len(stream) <= Len(stream') /\ Len(sent) <= Len(sent')
    BY <1>1, <1>2, <1>4
  <2>2. QED
    BY <1>1, <1>2, <1>4, <2>1, StreamGrows
<1>6. ASSUME NEW i \in 1..Len(sent) PROVE InStream(i)'
  <2>1. /\ InStream(i) /\ Start(i)' = Start(i) /\ Start(i) \in Nat
        /\ Len(sent[i]) \in Nat /\ ends[i] \in Nat
    <3>1. i \in 1..(Len(sent) + 1)
      BY <1>1
    <3>2. QED
      <4>1. InStream(i) /\ Len(ends) = Len(sent)
        BY DEF StreamInv
      <4>2. Len(sent[i]) \in Nat /\ ends[i] \in Nat
        BY <1>1, <4>1
      <4>3. Start(i) \in Nat
        BY <3>1, StartOf
      <4>4. QED
        BY <1>5, <3>1, <4>1, <4>2, <4>3
  <2>2. /\ Start(i) + 1 \in 1..Len(stream) /\ Start(i) + 2 \in 1..Len(stream)
        /\ \A j \in 1..Len(sent[i]) : Start(i) + HdrLen + j \in 1..Len(stream)
        /\ ends[i] <= Len(stream')
    <3>1. ends[i] = Start(i) + 2 + Len(sent[i]) /\ ends[i] <= Len(stream)
      BY <2>1 DEF InStream, HdrLen
    <3>2. \A b, c, l \in Nat :
            b + 2 + c <= l => /\ b + 1 \in 1..l /\ b + 2 \in 1..l
                              /\ \A j \in 1..c : b + 2 + j \in 1..l
      OBVIOUS
    <3>3. Start(i) + 2 + Len(sent[i]) <= Len(stream)
      BY <3>1
    <3>4. ends[i] <= Len(stream')
      BY <1>1, <1>4, <2>1, <3>1
    <3>5. QED
      BY <1>1, <2>1, <3>2, <3>3, <3>4 DEF HdrLen
  <2>3. QED
    BY <1>2, <1>4, <2>1, <2>2 DEF InStream
<1>7. StreamInv'
  <2>1. Len(stream) = Start(Len(sent) + 1) /\ Start(Len(sent) + 1)' = Start(Len(sent) + 1)
    <3>1. PICK N \in Nat : N = Len(sent)
      BY <1>1
    <3>2. Start(N + 1)' = Start(N + 1)
      BY <1>5, <3>1
    <3>3. QED
      BY <1>2, <3>1, <3>2 DEF StreamInv, Start
  <2>2. Header(size)[1] * Base + Header(size)[2] > PackSize
    BY <1>2, HeaderKeepsSize
  <2>3. QED
    BY <1>2, <1>4, <1>6, <2>1, <2>2 DEF StreamInv, HdrLen
<1>8. QED
  BY <1>5, <1>7

\* The bytes of the pieces a chunk is cut into.
LEMMA CutBytes ==
  ASSUME NEW s \in Seq(Byte), NEW n \in 0 .. Len(s)
  PROVE  /\ \A j \in 1..n : FirstOf(s, n)[j] = s[j]
         /\ \A j \in 1..(Len(s) - n) : Rest(s, n)[j] = s[n + j]
<1>1. PICK l \in Nat : l = Len(s) /\ n \in 0 .. l
  OBVIOUS
<1>2. ASSUME NEW j \in 1..n PROVE FirstOf(s, n)[j] = s[j]
  BY <1>1 DEF FirstOf
<1>3. ASSUME NEW j \in 1..(l - n) PROVE Rest(s, n)[j] = s[n + j]
  <2>1. SubSeq(s, n + 1, l)[j] = s[(n + 1) + j - 1]
    BY <1>1
  <2>2. (n + 1) + j - 1 = n + j
    BY <1>1
  <2>3. QED
    BY <1>1, <2>1, <2>2 DEF Rest
<1>4. QED
  BY <1>1, <1>2, <1>3

\* The stream does not change while the reader works.
LEMMA StreamKept ==
  ASSUME StreamInv, UNCHANGED peerVars
  PROVE  StreamInv'
<1>1. \A i \in Nat : Start(i)' = Start(i)
  BY DEF Start, peerVars
<1>2. \A i \in 1..Len(sent) : InStream(i)' = InStream(i)
  BY DEF InStream, Start, peerVars
<1>3. (Start(Len(sent) + 1))' = Start(Len(sent) + 1)
  BY DEF Start, peerVars
<1>4. QED
  BY <1>2, <1>3 DEF StreamInv, peerVars

\* What the reader knows of its own numbers.
LEMMA ReaderFacts ==
  ASSUME DeliveryInv
  PROVE  /\ taken \in Nat /\ cursize \in Nat /\ Len(stream) \in Nat /\ Len(sent) \in Nat
         /\ Len(msgbuf) \in Nat /\ Len(buf) \in Nat /\ Len(received) \in Nat
         /\ Len(received) + 1 \in 1..(Len(sent) + 1)
         /\ Start(Len(received) + 1) \in Nat /\ HeldFrom \in Nat
<1> USE DEF DeliveryInv, FramingInv
<1>1. /\ taken \in Nat /\ cursize \in Nat /\ Len(stream) \in Nat /\ Len(sent) \in Nat
      /\ Len(msgbuf) \in Nat /\ Len(buf) \in Nat /\ Len(received) \in Nat
  BY DEF TypeOK
<1>2. Len(received) + 1 \in 1..(Len(sent) + 1)
  BY <1>1 DEF ReceivedAsSent
<1>3. Start(Len(received) + 1) \in Nat
  BY <1>2, StartOf
<1>4. HeldFrom \in Nat
  BY <1>3 DEF HeldFrom, HdrLen
<1>5. QED
  BY <1>1, <1>2, <1>3, <1>4

\* A chunk continues the bytes the reader holds.
LEMMA ReadChunkInv ==
  ASSUME DeliveryInv, NEW k \in 1 .. ReadSize, ReadChunk(k)
  PROVE  ReaderInv'
<1> USE DEF DeliveryInv, FramingInv
<1>1. /\ at = "wait" /\ at' = "cut" /\ taken' = taken + k /\ taken + k <= Len(stream)
      /\ buf' = SubSeq(stream, taken + 1, taken + k)
      /\ UNCHANGED <<peerVars, msgbuf, cursize, received>>
  BY DEF ReadChunk
<1>2. k \in Nat /\ stream \in Seq(Byte)
  BY FramingAssumption DEF TypeOK
<1>3. taken = HeldFrom + Len(msgbuf)
  BY <1>1, ReaderFacts DEF ReaderInv
<1>4. Len(buf') = k /\ \A j \in 1..k : buf'[j] = stream[taken + j]
  <2>1. PICK l \in Nat : l = Len(stream) /\ taken + k <= l /\ taken \in Nat
    BY <1>1, ReaderFacts
  <2>2. \A i \in 1..l : stream[i] \in Byte
    BY <1>2, <2>1
  <2>3. Len(SubSeq(stream, taken + 1, taken + k)) = k
    BY <1>2, <2>1, <2>2
  <2>4. ASSUME NEW j \in 1..k PROVE buf'[j] = stream[taken + j]
    <3>1. SubSeq(stream, taken + 1, taken + k)[j] = stream[(taken + 1) + j - 1]
      BY <1>2, <2>1, <2>2
    <3>2. (taken + 1) + j - 1 = taken + j
      BY <1>2, <2>1
    <3>3. QED
      BY <1>1, <3>1, <3>2
  <2>5. QED
    BY <1>1, <2>3, <2>4
<1>5. HeldFrom' = HeldFrom /\ HeaderKnown' = HeaderKnown
  BY <1>1 DEF HeldFrom, HeaderKnown, Start, peerVars
<1>6. QED
  <2>1. taken' = HeldFrom + Len(msgbuf) + Len(buf')
    BY <1>1, <1>3, <1>4
  <2>2. \A j \in 1..Len(buf') : buf'[j] = stream[HeldFrom + Len(msgbuf) + j]
    BY <1>3, <1>4, Zenon
  <2>3. QED
    BY <1>1, <1>5, <2>1, <2>2 DEF ReaderInv, peerVars

\* What is kept of an unfinished header or body is what was held.
LEMMA KeepInv ==
  ASSUME DeliveryInv, KeepHeader \/ KeepBody
  PROVE  ReaderInv'
<1> USE DEF DeliveryInv, FramingInv
<1>1. /\ at \in {"cut", "body"} /\ at' = "wait" /\ msgbuf' = msgbuf \o buf /\ buf' = <<>>
      /\ UNCHANGED <<peerVars, taken, cursize, received>>
  BY DEF KeepHeader, KeepBody
<1>2. HeaderKnown' = HeaderKnown
  BY ReaderFacts DEF HeaderKnown, KeepHeader, KeepBody, PartBody
<1>3. HeldFrom' = HeldFrom
  BY <1>1, <1>2 DEF HeldFrom, Start, peerVars
<1>4. /\ Len(msgbuf') = Len(msgbuf) + Len(buf)
      /\ \A j \in 1..(Len(msgbuf) + Len(buf)) :
           msgbuf'[j] = IF j <= Len(msgbuf) THEN msgbuf[j] ELSE buf[j - Len(msgbuf)]
  BY <1>1, ConcatProperties DEF TypeOK
<1>5. \A j \in 1..Len(msgbuf') : msgbuf'[j] = stream[HeldFrom + j]
  <2>1. ASSUME NEW j \in 1..Len(msgbuf') PROVE msgbuf'[j] = stream[HeldFrom + j]
    <3>1. CASE j <= Len(msgbuf)
      BY <1>1, <1>4, <2>1, <3>1, ReaderFacts DEF ReaderInv
    <3>2. CASE ~ (j <= Len(msgbuf))
      <4>1. /\ j - Len(msgbuf) \in 1..Len(buf)
            /\ HeldFrom + Len(msgbuf) + (j - Len(msgbuf)) = HeldFrom + j
        BY <1>4, <2>1, <3>2, ReaderFacts
      <4>2. buf[j - Len(msgbuf)] = stream[HeldFrom + Len(msgbuf) + (j - Len(msgbuf))]
        BY <1>1, <4>1 DEF ReaderInv
      <4>3. QED
        BY <1>4, <2>1, <3>2, <4>1, <4>2
    <3>3. QED
      BY <3>1, <3>2
  <2>2. QED
    BY <2>1
<1>6. QED
  <2>1. taken' = HeldFrom' + Len(msgbuf') + Len(buf') /\ taken' <= Len(stream')
    BY <1>1, <1>3, <1>4, ReaderFacts DEF ReaderInv, peerVars
  <2>2. HeaderKnown' =>
          Len(received') < Len(sent') /\ cursize' = Len(sent'[Len(received') + 1])
    BY <1>1, <1>2 DEF ReaderInv, peerVars
  <2>3. buf' = <<>> /\ Len(buf') = 0
    BY <1>1
  <2>4. \A j \in 1..Len(msgbuf') : msgbuf'[j] = stream'[HeldFrom' + j]
    BY <1>1, <1>3, <1>5 DEF peerVars
  <2>5. QED
    BY <2>1, <2>2, <2>3, <2>4 DEF ReaderInv

\* A header that is read belongs to the next message, or announces too much.
LEMMA ReadHeaderInv ==
  ASSUME DeliveryInv, ReadHeader
  PROVE  ReaderInv'
<1> USE DEF DeliveryInv, FramingInv
<1>1. /\ msgbuf \in Seq(Byte) /\ buf \in Seq(Byte)
      /\ Len(msgbuf) < 2 /\ Len(buf) + Len(msgbuf) >= 2
      /\ at = "cut" /\ cursize = 0 /\ UNCHANGED <<peerVars, taken, received>>
  BY ReaderFacts DEF ReadHeader, PartHeader, HdrLen, TypeOK, RoomLeft
<1>2. PICK P \in Nat, b \in Nat, h \in Nat, r \in Nat :
        P = HeldFrom /\ b = Len(buf) /\ h = Len(msgbuf) /\ r = Len(received)
  BY ReaderFacts
<1>3. PICK n \in Nat : n = 2 - h /\ n \in 0..b /\ n + h = 2
  BY <1>1, <1>2
<1>4. Missing(HdrLen, Len(msgbuf)) = n
  BY <1>1, <1>2, <1>3 DEF Missing, HdrLen
<1> DEFINE all == msgbuf \o FirstOf(buf, n)
<1>5. /\ buf' = Rest(buf, n) /\ msgbuf' = Rest(all, 2) /\ cursize' = SizeOf(all)
      /\ at' = IF TooLarge(cursize') THEN "closed" ELSE "body"
  BY <1>4 DEF ReadHeader, HdrLen
<1>6. /\ FirstOf(buf, n) \in Seq(Byte) /\ Len(FirstOf(buf, n)) = n
      /\ Len(Rest(buf, n)) = b - n
      /\ \A j \in 1..n : FirstOf(buf, n)[j] = buf[j]
      /\ \A j \in 1..(b - n) : Rest(buf, n)[j] = buf[n + j]
  BY <1>1, <1>2, <1>3, CutChunk, CutBytes
<1>7. /\ all \in Seq(Byte) /\ Len(all) = 2
      /\ \A j \in 1..2 : all[j] = IF j <= h THEN msgbuf[j] ELSE FirstOf(buf, n)[j - h]
  <2>1. /\ all \in Seq(Byte) /\ Len(all) = Len(msgbuf) + Len(FirstOf(buf, n))
        /\ \A j \in 1..(Len(msgbuf) + Len(FirstOf(buf, n))) :
             all[j] = IF j <= Len(msgbuf) THEN msgbuf[j] ELSE FirstOf(buf, n)[j - Len(msgbuf)]
    BY <1>1, <1>6, ConcatProperties
  <2> HIDE DEF all
  <2>2. Len(msgbuf) + Len(FirstOf(buf, n)) = 2
    BY <1>2, <1>3, <1>6
  <2>3. QED
    BY <1>2, <2>1, <2>2
<1> HIDE DEF all
<1>8. /\ taken = P + h + b /\ taken <= Len(stream) /\ Len(stream) \in Nat
      /\ \A j \in 1..h : msgbuf[j] = stream[P + j]
      /\ \A j \in 1..b : buf[j] = stream[P + h + j]
  BY <1>1, <1>2, ReaderFacts DEF ReaderInv
<1>9. P = Start(r + 1)
  BY <1>1, <1>2, ReaderFacts DEF HeldFrom, HeaderKnown
<1>10. ASSUME NEW j \in 1..2 PROVE all[j] = stream[P + j]
  <2>1. CASE j <= h
    BY <1>7, <1>8, <2>1
  <2>2. CASE ~ (j <= h)
    <3>1. j - h \in 1..n /\ j - h \in 1..b /\ P + h + (j - h) = P + j
      BY <1>3, <2>2
    <3>2. buf[j - h] = stream[P + h + (j - h)]
      BY <1>8, <3>1
    <3>3. QED
      BY <1>6, <1>7, <2>2, <3>1, <3>2
  <2>3. QED
    BY <2>1, <2>2
<1>11. cursize' = stream[P + 1] * Base + stream[P + 2]
  BY <1>5, <1>10 DEF SizeOf
<1>12. /\ Len(buf') = b - n
       /\ \A j \in 1..(b - n) : buf'[j] = stream[P + 2 + j]
  <2>1. ASSUME NEW j \in 1..(b - n) PROVE buf'[j] = stream[P + 2 + j]
    <3>1. n + j \in 1..b /\ P + h + (n + j) = P + 2 + j
      BY <1>3
    <3>2. buf[n + j] = stream[P + h + (n + j)]
      BY <1>8, <3>1
    <3>3. QED
      BY <1>5, <1>6, <3>1, <3>2
  <2>2. QED
    BY <1>5, <1>6, <2>1
<1>13. Len(msgbuf') = 0
  <2>1. 2 \in 0..Len(all)
    BY <1>7
  <2>2. Len(Rest(all, 2)) = Len(all) - 2
    BY <1>7, <2>1, CutChunk
  <2>3. QED
    BY <1>5, <1>7, <2>2
<1>14. CASE r < Len(sent)
  <2>1. r + 1 \in 1..Len(sent)
    BY <1>14, ReaderFacts
  <2>2. cursize' = Len(sent[r + 1]) /\ Len(sent[r + 1]) <= PackSize
    BY <1>9, <1>11, <2>1 DEF StreamInv, InStream
  <2>3. Len(sent[r + 1]) \in Nat /\ PackSize \in Nat
    BY <2>1, FramingAssumption DEF TypeOK
  <2>4. at' = "body"
    BY <1>5, <2>2, <2>3 DEF TooLarge
  <2>5. HeaderKnown' /\ HeldFrom' = P + 2
    <3>1. HeaderKnown'
      BY <2>4 DEF HeaderKnown
    <3>2. Start(Len(received) + 1)' = P
      BY <1>1, <1>2, <1>9 DEF Start, peerVars
    <3>3. QED
      BY <3>1, <3>2 DEF HeldFrom, HdrLen
  <2>6. taken' = HeldFrom' + Len(msgbuf') + Len(buf')
    <3>1. P + h + b = P + 2 + 0 + (b - n)
      BY <1>3
    <3>2. QED
      BY <1>1, <1>8, <1>12, <1>13, <2>5, <3>1
  <2>7. \A j \in 1..Len(buf') : buf'[j] = stream'[HeldFrom' + Len(msgbuf') + j]
    <3>1. P + 2 + 0 = P + 2
      OBVIOUS
    <3>2. QED
      BY <1>1, <1>12, <1>13, <2>5, <3>1 DEF peerVars
  <2>8. \A j \in 1..Len(msgbuf') : msgbuf'[j] = stream'[HeldFrom' + j]
    BY <1>13
  <2>9. Len(received') < Len(sent') /\ cursize' = Len(sent'[Len(received') + 1])
    BY <1>1, <1>2, <1>14, <2>2 DEF peerVars
  <2>10. taken' <= Len(stream')
    BY <1>1, <1>8 DEF peerVars
  <2>11. QED
    BY <2>4, <2>6, <2>7, <2>8, <2>9, <2>10 DEF ReaderInv
<1>15. CASE r = Len(sent)
  <2>1. bad /\ cursize' > PackSize
    <3>1. P + 2 <= Len(stream)
      BY <1>3, <1>8
    <3>2. Len(stream) # P
      BY <1>8, <3>1
    <3>3. QED
      BY <1>9, <1>11, <1>15, <3>2 DEF StreamInv
  <2>2. at' = "closed"
    BY <1>5, <2>1 DEF TooLarge
  <2>3. taken' <= Len(stream')
    BY <1>1, <1>8 DEF peerVars
  <2>4. QED
    BY <2>2, <2>3 DEF ReaderInv
<1>16. QED
  BY <1>2, <1>14, <1>15, ReaderFacts DEF ReceivedAsSent

\* What is delivered is the next message, and what is left begins the one after.
LEMMA DeliverInv ==
  ASSUME DeliveryInv, Deliver
  PROVE  ReaderInv' /\ ReceivedAsSent'
<1> USE DEF DeliveryInv, FramingInv
<1>1. /\ msgbuf \in Seq(Byte) /\ buf \in Seq(Byte) /\ sent \in Seq(Seq(Byte))
      /\ received \in Seq(Seq(Byte)) /\ at = "body" /\ UNCHANGED <<peerVars, taken>>
      /\ Len(buf) + Len(msgbuf) >= cursize /\ Len(msgbuf) <= cursize
  BY ReaderFacts DEF Deliver, PartBody, TypeOK, RoomLeft
<1>2. PICK P \in Nat, b \in Nat, h \in Nat, r \in Nat, c \in Nat, l \in Nat :
        /\ P = HeldFrom /\ b = Len(buf) /\ h = Len(msgbuf) /\ r = Len(received)
        /\ c = cursize /\ l = Len(sent)
  BY ReaderFacts
<1>3. PICK n \in Nat : n = c - h /\ n \in 0..b /\ h + n = c
  <2>1. h <= c /\ b + h >= c
    BY <1>1, <1>2
  <2>2. c - h \in Nat /\ c - h \in 0..b /\ h + (c - h) = c
    BY <2>1
  <2>3. QED
    BY <2>2
<1> DEFINE body == msgbuf \o FirstOf(buf, n)
<1>4. /\ received' = Append(received, body) /\ buf' = Rest(buf, n)
      /\ msgbuf' = <<>> /\ cursize' = 0 /\ at' = "cut"
  BY <1>2, <1>3 DEF Deliver
<1>5. /\ FirstOf(buf, n) \in Seq(Byte) /\ Len(FirstOf(buf, n)) = n
      /\ Len(Rest(buf, n)) = b - n
      /\ \A j \in 1..n : FirstOf(buf, n)[j] = buf[j]
      /\ \A j \in 1..(b - n) : Rest(buf, n)[j] = buf[n + j]
  BY <1>1, <1>2, <1>3, CutChunk, CutBytes
<1>6. /\ body \in Seq(Byte) /\ Len(body) = c
      /\ \A j \in 1..c : body[j] = IF j <= h THEN msgbuf[j] ELSE FirstOf(buf, n)[j - h]
  <2>1. /\ body \in Seq(Byte) /\ Len(body) = Len(msgbuf) + Len(FirstOf(buf, n))
        /\ \A j \in 1..(Len(msgbuf) + Len(FirstOf(buf, n))) :
             body[j] = IF j <= Len(msgbuf) THEN msgbuf[j] ELSE FirstOf(buf, n)[j - Len(msgbuf)]
    BY <1>1, <1>5, ConcatProperties
  <2> HIDE DEF body
  <2>2. Len(msgbuf) + Len(FirstOf(buf, n)) = c
    BY <1>2, <1>3, <1>5
  <2>3. QED
    BY <1>2, <2>1, <2>2
<1> HIDE DEF body
<1>7. /\ taken = P + h + b /\ taken <= Len(stream) /\ r < l /\ c = Len(sent[r + 1])
      /\ \A j \in 1..h : msgbuf[j] = stream[P + j]
      /\ \A j \in 1..b : buf[j] = stream[P + h + j]
  BY <1>1, <1>2 DEF ReaderInv, HeaderKnown
<1>8. r + 1 \in 1..l /\ r + 1 \in 1..(l + 1) /\ (r + 1) + 1 = r + 2 /\ r + 1 <= l
  BY <1>7
<1>9. P = Start(r + 1) + 2 /\ Start(r + 2) = P + c
  <2>1. P = Start(r + 1) + 2
    BY <1>1, <1>2 DEF HeldFrom, HeaderKnown, HdrLen
  <2>2. Start((r + 1) + 1) = Start(r + 1) + HdrLen + Len(sent[r + 1])
    BY <1>2, <1>8, StartOf
  <2>3. QED
    BY <1>7, <1>8, <2>1, <2>2 DEF HdrLen
<1>10. ASSUME NEW j \in 1..c PROVE body[j] = sent[r + 1][j]
  <2>1. body[j] = stream[P + j]
    <3>1. CASE j <= h
      BY <1>6, <1>7, <3>1
    <3>2. CASE ~ (j <= h)
      <4>1. j - h \in 1..n /\ j - h \in 1..b /\ P + h + (j - h) = P + j
        BY <1>3, <3>2
      <4>2. buf[j - h] = stream[P + h + (j - h)]
        BY <1>7, <4>1
      <4>3. QED
        BY <1>5, <1>6, <3>2, <4>1, <4>2
    <3>3. QED
      BY <3>1, <3>2
  <2>2. sent[r + 1][j] = stream[Start(r + 1) + HdrLen + j]
    BY <1>2, <1>7, <1>8 DEF StreamInv, InStream
  <2>3. QED
    BY <1>9, <2>1, <2>2 DEF HdrLen
<1>11. body = sent[r + 1]
  <2>1. sent[r + 1] \in Seq(Byte)
    BY <1>1, <1>2, <1>8
  <2>2. QED
    BY <1>6, <1>7, <1>10, <2>1, SeqEqual
<1>12. /\ Len(received') = r + 1 /\ received'[r + 1] = body
       /\ \A i \in 1..r : received'[i] = received[i]
  BY <1>1, <1>2, <1>4, <1>6
<1>13. ReceivedAsSent'
  <2>1. \A i \in 1..(r + 1) : i \in 1..r \/ i = r + 1
    OBVIOUS
  <2>2. \A i \in 1..r : received[i] = sent[i]
    BY <1>2 DEF ReceivedAsSent
  <2>3. sent' = sent
    BY <1>1 DEF peerVars
  <2>4. QED
    BY <1>2, <1>8, <1>11, <1>12, <2>1, <2>2, <2>3 DEF ReceivedAsSent
<1>14. ReaderInv'
  <2>1. ~ HeaderKnown' /\ HeldFrom' = P + c
    <3>1. ~ HeaderKnown'
      BY <1>4 DEF HeaderKnown
    <3>2. Start(r + 2)' = Start(r + 2)
      BY <1>1 DEF Start, peerVars
    <3>3. Start(Len(received) + 1)' = Start(r + 2)
      BY <1>8, <1>12, <3>2 DEF Start
    <3>4. P + c + 0 = P + c
      OBVIOUS
    <3>5. QED
      BY <1>9, <3>1, <3>3, <3>4 DEF HeldFrom
  <2>2. Len(msgbuf') = 0 /\ Len(buf') = b - n
    BY <1>4, <1>5
  <2>3. taken' = HeldFrom' + Len(msgbuf') + Len(buf')
    <3>1. P + h + b = P + c + 0 + (b - n)
      BY <1>3
    <3>2. QED
      BY <1>1, <1>7, <2>1, <2>2, <3>1
  <2>4. \A j \in 1..Len(buf') : buf'[j] = stream'[HeldFrom' + Len(msgbuf') + j]
    <3>1. ASSUME NEW j \in 1..(b - n) PROVE buf'[j] = stream[P + c + j]
      <4>1. n + j \in 1..b /\ P + h + (n + j) = P + c + j
        BY <1>3
      <4>2. buf[n + j] = stream[P + h + (n + j)]
        BY <1>7, <4>1
      <4>3. QED
        BY <1>4, <1>5, <4>1, <4>2
    <3>2. P + c + 0 = P + c
      OBVIOUS
    <3>3. QED
      BY <1>1, <2>1, <2>2, <3>1, <3>2 DEF peerVars
  <2>5. \A j \in 1..Len(msgbuf') : msgbuf'[j] = stream'[HeldFrom' + j]
    BY <2>2
  <2>6. taken' <= Len(stream')
    BY <1>1, <1>7 DEF peerVars
  <2>7. QED
    BY <1>4, <2>1, <2>3, <2>4, <2>5, <2>6 DEF ReaderInv
<1>15. QED
  BY <1>13, <1>14

\* Nothing has been sent or read.
LEMMA DeliveryInit == Init => DeliveryInv
<1> SUFFICES ASSUME Init PROVE DeliveryInv
  OBVIOUS
<1>1. FramingInv
  BY FramingInitInv
<1>2. Len(sent) = 0 /\ Len(received) = 0 /\ Len(stream) = 0 /\ Len(ends) = 0
      /\ Len(buf) = 0 /\ Len(msgbuf) = 0
  BY DEF Init
<1>3. Start(Len(sent) + 1) = 0 /\ Start(Len(received) + 1) = 0
  BY <1>2 DEF Start
<1>4. StreamInv
  BY <1>2, <1>3 DEF StreamInv, Init
<1>5. ~ HeaderKnown /\ HeldFrom = 0
  BY <1>3 DEF HeldFrom, HeaderKnown, Init
<1>6. ReaderInv
  BY <1>2, <1>5 DEF ReaderInv, Init
<1>7. ReceivedAsSent
  BY <1>2 DEF ReceivedAsSent
<1>8. QED
  BY <1>1, <1>4, <1>6, <1>7 DEF DeliveryInv

\* Every step of the peer and of the reader keeps it.
LEMMA DeliveryStep == DeliveryInv /\ [Next]_vars => DeliveryInv'
<1> SUFFICES ASSUME DeliveryInv, [Next]_vars PROVE DeliveryInv'
  OBVIOUS
<1>1. FramingInv'
  BY FramingStepInv DEF DeliveryInv
<1>2. ASSUME NEW m \in Bodies, PeerSends(m) PROVE DeliveryInv'
  BY <1>1, <1>2, PeerSendsInv DEF DeliveryInv
<1>3. ASSUME NEW size \in 0 .. Base * Base - 1, PeerSendsBad(size) PROVE DeliveryInv'
  BY <1>1, <1>3, PeerSendsBadInv DEF DeliveryInv
<1>4. ASSUME NEW k \in 1 .. ReadSize, ReadChunk(k) PROVE DeliveryInv'
  <2>1. UNCHANGED peerVars /\ received' = received
    BY <1>4 DEF ReadChunk
  <2>2. StreamInv' /\ ReceivedAsSent'
    BY <2>1, StreamKept DEF DeliveryInv, ReceivedAsSent, peerVars
  <2>3. QED
    BY <1>1, <1>4, <2>2, ReadChunkInv DEF DeliveryInv
<1>5. ASSUME InBody PROVE DeliveryInv'
  <2>1. /\ UNCHANGED <<peerVars, taken, buf, msgbuf, cursize, received>>
        /\ at = "cut" /\ cursize # 0 /\ at' = "body"
    BY <1>5 DEF InBody
  <2>2. StreamInv' /\ ReceivedAsSent'
    BY <2>1, StreamKept DEF DeliveryInv, ReceivedAsSent, peerVars
  <2>3. HeaderKnown /\ HeaderKnown' /\ HeldFrom' = HeldFrom
    BY <2>1 DEF HeaderKnown, HeldFrom, Start, peerVars
  <2>4. ReaderInv'
    BY <2>1, <2>3 DEF DeliveryInv, ReaderInv, peerVars
  <2>5. QED
    BY <1>1, <2>2, <2>4 DEF DeliveryInv
<1>6. ASSUME KeepHeader \/ KeepBody PROVE DeliveryInv'
  <2>1. UNCHANGED peerVars /\ received' = received
    BY <1>6 DEF KeepHeader, KeepBody
  <2>2. StreamInv' /\ ReceivedAsSent'
    BY <2>1, StreamKept DEF DeliveryInv, ReceivedAsSent, peerVars
  <2>3. QED
    BY <1>1, <1>6, <2>2, KeepInv DEF DeliveryInv
<1>7. ASSUME ReadHeader PROVE DeliveryInv'
  <2>1. UNCHANGED peerVars /\ received' = received
    BY <1>7 DEF ReadHeader
  <2>2. StreamInv' /\ ReceivedAsSent'
    BY <2>1, StreamKept DEF DeliveryInv, ReceivedAsSent, peerVars
  <2>3. QED
    BY <1>1, <1>7, <2>2, ReadHeaderInv DEF DeliveryInv
<1>8. ASSUME Deliver PROVE DeliveryInv'
  <2>1. UNCHANGED peerVars
    BY <1>8 DEF Deliver
  <2>2. StreamInv'
    BY <2>1, StreamKept DEF DeliveryInv
  <2>3. QED
    BY <1>1, <1>8, <2>2, DeliverInv DEF DeliveryInv
<1>9. ASSUME UNCHANGED vars PROVE DeliveryInv'
  <2>1. UNCHANGED peerVars /\ UNCHANGED readerVars
    BY <1>9 DEF vars
  <2>2. StreamInv'
    BY <2>1, StreamKept DEF DeliveryInv
  <2>3. HeaderKnown' = HeaderKnown /\ HeldFrom' = HeldFrom
    BY <2>1 DEF HeaderKnown, HeldFrom, Start, peerVars, readerVars
  <2>4. ReaderInv' /\ ReceivedAsSent'
    BY <2>1, <2>3 DEF DeliveryInv, ReaderInv, ReceivedAsSent, peerVars, readerVars
  <2>5. QED
    BY <1>1, <2>2, <2>4 DEF DeliveryInv
<1>10. QED
  BY <1>2, <1>3, <1>4, <1>5, <1>6, <1>7, <1>8, <1>9 DEF Next, Read, CutMsgPack

\* At every instant.
LEMMA DeliveryInvariant == Spec => []DeliveryInv
<1>1. QED
  BY DeliveryInit, DeliveryStep, PTL DEF Spec

\* However the stream is cut into chunks, OnReceiveData gets the messages that
\* were sent, whole, in order, once each, for any messages and any sizes.
THEOREM FramingReceivedAsSent == Spec => []ReceivedAsSent
<1>1. DeliveryInv => ReceivedAsSent
  BY DEF DeliveryInv
<1>2. QED
  BY <1>1, DeliveryInvariant, PTL

\* When the handler waits for more, no message that was read to its end is
\* still held.
THEOREM FramingNothingHeldBack == Spec => []NothingHeldBack
<1>1. DeliveryInv => NothingHeldBack
  <2> SUFFICES ASSUME DeliveryInv, at = "wait", NEW i \in 1..Len(sent),
                      ends[i] <= taken, ~ (i <= Len(received))
               PROVE  FALSE
    BY DEF NothingHeldBack
  <2> USE DEF DeliveryInv, FramingInv
  <2>1. PICK r \in Nat, h \in Nat, s \in Nat, l \in Nat :
          r = Len(received) /\ h = Len(msgbuf) /\ s = Start(r + 1) /\ l = Len(sent)
    BY ReaderFacts
  <2>2. r + 1 \in 1..l /\ r + 1 <= i
    BY <2>1
  <2>3. /\ ends \in Seq(Nat) /\ Len(ends) = l /\ sent \in Seq(Seq(Byte))
    BY <2>1 DEF TypeOK, StreamInv
  <2>4. PICK e \in Nat, c \in Nat : e = ends[r + 1] /\ c = Len(sent[r + 1])
    BY <2>1, <2>2, <2>3
  <2>5. e = s + 2 + c /\ e <= ends[i]
    BY <2>1, <2>2, <2>4 DEF StreamInv, InStream, HdrLen
  <2>6. e <= taken
    <3>1. i \in 1..Len(ends) /\ ends[i] \in Nat /\ taken \in Nat
      BY <2>1, <2>3, ReaderFacts, SMTT(30)
    <3>2. QED
      BY <2>5, <3>1
  <2>7. taken = HeldFrom + h + 0 /\ Len(buf) = 0
    BY <2>1 DEF ReaderInv
  <2>8. CASE cursize # 0
    <3>1. HeldFrom = s + 2 /\ cursize = c
      BY <2>1, <2>4, <2>8 DEF HeldFrom, HeaderKnown, ReaderInv, HdrLen
    <3>2. h < c
      BY <2>1, <2>8, <3>1 DEF RoomLeft
    <3>3. QED
      BY <2>5, <2>6, <2>7, <3>1, <3>2
  <2>9. CASE cursize = 0
    <3>1. HeldFrom = s + 0
      BY <2>1, <2>9 DEF HeldFrom, HeaderKnown
    <3>2. h < 2
      BY <2>1, <2>9 DEF RoomLeft, HdrLen
    <3>3. QED
      BY <2>5, <2>6, <2>7, <3>1, <3>2
  <2>10. QED
    BY <2>8, <2>9
<1>2. QED
  BY <1>1, DeliveryInvariant, PTL
=============================================================================
