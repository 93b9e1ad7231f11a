----------------------------- MODULE MsgFraming -----------------------------
(***************************************************************************)
(* How TcpStreamSocket cuts the received byte stream into messages:        *)
(* _ReadHandler hands each chunk recv returned to _CutMsgPack, which keeps *)
(* an unfinished header or body in _reader.msgbuffer and _reader.curheader *)
(* until the next chunk.                                                   *)
(*                                                                         *)
(* A byte is a number below Base.  A header is HdrLen = 2 bytes that give  *)
(* the size of the body, high byte first (the time stamp in front of it is *)
(* left out).  What the application does in OnReceiveData, and the threads *)
(* around the handler, are in module TcpSession.                           *)
(***************************************************************************)
EXTENDS Naturals, Sequences

CONSTANTS
  Base,       \* number of byte values
  PackSize,   \* M_SOCKET_PACK_SIZE
  ReadSize,   \* M_SOCKET_READ_SIZE
  Bodies,     \* the messages the peer sends
  MaxSent     \* bound: messages the peer sends

Byte == 0 .. Base - 1
HdrLen == 2

ASSUME FramingAssumption ==
  /\ Base \in Nat \ {0} /\ PackSize \in Nat /\ ReadSize \in Nat \ {0} /\ MaxSent \in Nat
  /\ \A m \in Bodies : m \in Seq(Byte) /\ Len(m) <= PackSize /\ Len(m) < Base * Base

VARIABLES
  sent,      \* the messages the peer sent
  stream,    \* all bytes the peer sent
  ends,      \* where in the stream each message ends
  bad,       \* the peer sent a header that announces too much
  taken,     \* bytes of the stream recv returned
  at,        \* "wait" for a chunk, at the loop's "cut" or "body", or "closed"
  buf,       \* what is left of the chunk (buf, tran_byte)
  msgbuf,    \* what _reader.msgbuffer holds
  cursize,   \* _reader.curheader.size
  received   \* the bodies OnReceiveData was called with

peerVars   == <<sent, stream, ends, bad>>
readerVars == <<taken, at, buf, msgbuf, cursize, received>>
vars == <<peerVars, readerVars>>

TypeOK ==
  /\ sent \in Seq(Seq(Byte)) /\ stream \in Seq(Byte) /\ ends \in Seq(Nat) /\ bad \in BOOLEAN
  /\ taken \in Nat /\ at \in {"wait", "cut", "body", "closed"}
  /\ buf \in Seq(Byte) /\ msgbuf \in Seq(Byte) /\ cursize \in Nat
  /\ received \in Seq(Seq(Byte))

Init ==
  /\ sent = <<>> /\ stream = <<>> /\ ends = <<>> /\ bad = FALSE
  /\ taken = 0 /\ at = "wait" /\ buf = <<>> /\ msgbuf = <<>> /\ cursize = 0
  /\ received = <<>>

-----------------------------------------------------------------------------
\* MessageHeader::h2n and n2h.
Header(size) == <<size \div Base, size % Base>>
SizeOf(hdr)  == hdr[1] * Base + hdr[2]

FirstOf(s, n) == SubSeq(s, 1, n)
Rest(s, n)    == SubSeq(s, n + 1, Len(s))

\* The peer sends a message (TcpBaseSocket::Send) ...
PeerSends(m) ==
  /\ ~bad /\ Len(sent) < MaxSent
  /\ sent' = Append(sent, m)
  /\ stream' = stream \o Header(Len(m)) \o m
  /\ ends' = Append(ends, Len(stream'))
  /\ UNCHANGED <<bad, readerVars>>

\* ... or, not being one of ours, a header that announces too much.
PeerSendsBad(size) ==
  /\ ~bad /\ size > PackSize
  /\ bad' = TRUE
  /\ stream' = stream \o Header(size)
  /\ UNCHANGED <<sent, ends, readerVars>>

\* recv: any part of what is there, up to the size of readbuf.
ReadChunk(k) ==
  /\ at = "wait" /\ taken + k <= Len(stream)
  /\ buf' = SubSeq(stream, taken + 1, taken + k)
  /\ taken' = taken + k
  /\ at' = "cut"
  /\ UNCHANGED <<peerVars, msgbuf, cursize, received>>

\* A header has been read already.
InBody ==
  /\ at = "cut" /\ cursize # 0
  /\ at' = "body"
  /\ UNCHANGED <<peerVars, taken, buf, msgbuf, cursize, received>>

\* The header is not complete yet.
PartHeader == Len(buf) + Len(msgbuf) < HdrLen

KeepHeader ==
  /\ at = "cut" /\ cursize = 0 /\ PartHeader
  /\ msgbuf' = msgbuf \o buf /\ buf' = <<>>
  /\ at' = "wait"
  /\ UNCHANGED <<peerVars, taken, cursize, received>>

\* How much of the chunk the header still needs.
Missing(whole, have) == IF have >= whole THEN 0 ELSE whole - have

TooLargeLate(size) == size > PackSize + 1
TooLarge(size) == size > PackSize

ReadHeader ==
  /\ at = "cut" /\ cursize = 0 /\ ~PartHeader
  /\ LET n   == Missing(HdrLen, Len(msgbuf))
         all == msgbuf \o FirstOf(buf, n)
     IN  /\ buf' = Rest(buf, n)
         /\ msgbuf' = Rest(all, HdrLen)
         /\ cursize' = SizeOf(all)
         /\ at' = IF TooLarge(cursize') THEN "closed" ELSE "body"
  /\ UNCHANGED <<peerVars, taken, received>>

\* The body is not complete yet ...
PartBody == Len(buf) + Len(msgbuf) < cursize

KeepBody ==
  /\ at = "body" /\ PartBody
  /\ msgbuf' = msgbuf \o buf /\ buf' = <<>>
  /\ at' = "wait"
  /\ UNCHANGED <<peerVars, taken, cursize, received>>

\* ... or is: OnReceiveData gets it, and the loop goes on.
DeliverKeepsBuffer ==
  /\ at = "body" /\ ~PartBody
  /\ LET n == cursize - Len(msgbuf)
     IN  /\ received' = Append(received, msgbuf \o FirstOf(buf, n))
         /\ buf' = Rest(buf, n)
         /\ msgbuf' = msgbuf \o FirstOf(buf, n) /\ cursize' = 0
  /\ at' = "cut"
  /\ UNCHANGED <<peerVars, taken>>
DeliverAndReturn ==
  /\ at = "body" /\ ~PartBody
  /\ LET n == cursize - Len(msgbuf)
     IN  received' = Append(received, msgbuf \o FirstOf(buf, n))
  /\ buf' = <<>> /\ msgbuf' = <<>> /\ cursize' = 0
  /\ at' = "wait"
  /\ UNCHANGED <<peerVars, taken>>
Deliver ==
  /\ at = "body" /\ ~PartBody
  /\ LET n == cursize - Len(msgbuf)
     IN  /\ received' = Append(received, msgbuf \o FirstOf(buf, n))
         /\ buf' = Rest(buf, n)
  /\ msgbuf' = <<>> /\ cursize' = 0
  /\ at' = "cut"
  /\ UNCHANGED <<peerVars, taken>>

Read == \E k \in 1..ReadSize : ReadChunk(k)

CutMsgPack == InBody \/ KeepHeader \/ ReadHeader \/ KeepBody \/ Deliver

Next ==
  \/ \E m \in Bodies : PeerSends(m)
  \/ \E size \in 0 .. Base * Base - 1 : PeerSendsBad(size)
  \/ Read
  \/ CutMsgPack

Spec == Init /\ [][Next]_vars

-----------------------------------------------------------------------------
(* Properties *)

\* However the stream is split into chunks, OnReceiveData gets exactly the
\* messages that were sent, whole, in order and once each.
ReceivedAsSent ==
  /\ Len(received) <= Len(sent)
  /\ \A i \in 1..Len(received) : received[i] = sent[i]

\* Nothing complete is held back: when the handler waits for more, every
\* message whose last byte was read has been handed over (a chunk that holds
\* several messages is cut to its end).
NothingHeldBack ==
  at = "wait" => \A i \in 1..Len(sent) : ends[i] <= taken => i <= Len(received)

\* What is missing of a header or body is never negative: the unsigned
\* subtractions of _CutMsgPack (323, 344) cannot wrap round, and a buffer
\* that announces more than PackSize is never collected.
RoomLeft ==
  /\ at \in {"wait", "cut"} =>
       IF cursize = 0 THEN Len(msgbuf) < HdrLen ELSE Len(msgbuf) < cursize
  /\ at = "body" => Len(msgbuf) <= cursize
  /\ at # "closed" => cursize <= PackSize

FramingInv == TypeOK /\ RoomLeft

-----------------------------------------------------------------------------
(* Why what is delivered is what was sent.                                 *)

\* Where message i begins in the stream.
Start(i) == IF i = 1 THEN 0 ELSE ends[i - 1]

\* Message i stands in the stream, its size first, where `ends` says.
InStream(i) ==
  /\ Len(sent[i]) <= PackSize
  /\ ends[i] = Start(i) + HdrLen + Len(sent[i]) /\ ends[i] <= Len(stream)
  /\ stream[Start(i) + 1] * Base + stream[Start(i) + 2] = Len(sent[i])
  /\ \A j \in 1..Len(sent[i]) : stream[Start(i) + HdrLen + j] = sent[i][j]
  /\ \A k \in 1..Len(sent) : i <= k => ends[i] <= ends[k]

\* So does every message, and after the last one there is nothing but a
\* header that announces too much.
StreamInv ==
  /\ Len(ends) = Len(sent)
  /\ \A i \in 1..Len(sent) : InStream(i)
  /\ LET end == Start(Len(sent) + 1)
     IN IF bad THEN /\ Len(stream) = end + HdrLen
                    /\ stream[end + 1] * Base + stream[end + 2] > PackSize
               ELSE Len(stream) = end

\* The header of the message being read is known.
HeaderKnown == at = "body" \/ cursize # 0

\* Where the bytes the reader holds begin in the stream.
HeldFrom == Start(Len(received) + 1) + (IF HeaderKnown THEN HdrLen ELSE 0)

\* The reader holds the bytes between there and what recv returned.
ReaderInv ==
  /\ taken <= Len(stream)
  /\ at = "wait" => buf = <<>>
  /\ at # "closed" =>
       /\ taken = HeldFrom + Len(msgbuf) + Len(buf)
       /\ \A j \in 1..Len(msgbuf) : msgbuf[j] = stream[HeldFrom + j]
       /\ \A j \in 1..Len(buf) : buf[j] = stream[HeldFrom + Len(msgbuf) + j]
       /\ HeaderKnown =>
            Len(received) < Len(sent) /\ cursize = Len(sent[Len(received) + 1])

DeliveryInv == FramingInv /\ StreamInv /\ ReaderInv /\ ReceivedAsSent
=============================================================================
