----------------------------- MODULE HttpSocket -----------------------------
(***************************************************************************)
(* How an HTTP socket turns what it receives into messages.  An HttpSocket *)
(* (kind "svr") gets the requests of some HTTP client; an HttpConnector    *)
(* (kind "cli") gets the responses an HttpSocket of the library builds     *)
(* with HttpSvrSendMsg and sends with SendHttpMsg.  The receiver's         *)
(* _ReadHandler hands each chunk to _CutMsgPack, whose loop parses, calls  *)
(* OnReceiveData and clears the message (HttpMsg has the parser).          *)
(* Closing, errors and threads are those of every session: TcpSession.     *)
(***************************************************************************)
EXTENDS HttpMsg

CONSTANTS
  Kinds,      \* a subset of {"svr", "cli"}
  Requests,   \* what a client may ask: [line, headers, body]
  Phrase,     \* a status phrase, as a sequence of symbols
  Bodies,     \* the bodies a server may answer
  MaxSent,    \* bound: messages sent
  MaxCalls,   \* bound: calls of setters
  MaxReads    \* bound: chunks recv returns

\* A line, and a message whose parts the parser can tell apart: no space in the
\* first two, no CR LF within a line, the length of the body announced.
IsLine(s) == \A i \in 1..Len(s) - 1 : ~ (s[i] = CR /\ s[i + 1] = LF)
Announced(headers) ==
  LET lines == {i \in 1..Len(headers) : headers[i][1].text = "Content-Length"}
  IN  IF lines = {} THEN 0 ELSE headers[Least(lines)][1].length
WellFormed(r) ==
  /\ \A i \in 1..2 : \A j \in 1..Len(r.line[i]) : r.line[i][j] # SP
  /\ IsLine(r.line[3])
  /\ \A i \in 1..Len(r.headers) : r.headers[i] # <<>> /\ IsLine(r.headers[i])
  /\ Len(r.body) = Announced(r.headers)

ASSUME KindsAssumption == Kinds \subseteq {"svr", "cli"}
ASSUME RequestsAssumption ==
  Requests \subseteq [line : [1..3 -> Seq(Symbol)], headers : Seq(Seq(Symbol)),
                      body : Seq(Symbol)]
ASSUME PhraseAssumption == Phrase \in Seq(Symbol) /\ IsLine(Phrase)
ASSUME BodiesAssumption == Bodies \subseteq Seq(Symbol)

VARIABLES
  kind,      \* which of the two the receiver is
  building,  \* the sender's HttpSvrSendMsg
  meant,     \* what its setters were asked for, and whether in the usual order
  calls,     \* calls of setters
  sent,      \* the messages sent, as meant
  stream,    \* all bytes sent
  ends,      \* where in the stream each message ends
  taken,     \* bytes of the stream recv returned
  reads,     \* chunks recv returned
  aligned,   \* every chunk ended where a message ends
  chunk,     \* what _CutMsgPack has left of the chunk (buf, tran_byte)
  httpmsg,   \* _reader.httpmsg
  received   \* what OnReceiveData was called with

senderVars   == <<building, meant, calls, sent, stream, ends>>
receiverVars == <<taken, reads, aligned, chunk, httpmsg, received>>
vars == <<kind, senderVars, receiverVars>>

Nothing == [line |-> <<<<>>, <<>>, <<>>>>, headers |-> <<>>, body |-> <<>>, usual |-> TRUE]

Init ==
  /\ kind \in Kinds
  /\ building = NoMsg /\ meant = Nothing /\ calls = 0
  /\ sent = <<>> /\ stream = <<>> /\ ends = <<>>
  /\ taken = 0 /\ reads = 0 /\ aligned = TRUE
  /\ chunk = <<>> /\ httpmsg = Cleared(kind) /\ received = <<>>

-----------------------------------------------------------------------------
(* The sender. *)

Bytes(r) ==
  r.line[1] \o <<SP>> \o r.line[2] \o <<SP>> \o r.line[3] \o CRLF
    \o FlattenSeq([i \in 1..Len(r.headers) |-> r.headers[i] \o CRLF]) \o CRLF \o r.body

SendBytes(msg, bytes) ==
  /\ sent' = Append(sent, msg)
  /\ stream' = stream \o bytes
  /\ ends' = Append(ends, Len(stream'))

\* A client asks the server.
SendRequest(r) ==
  /\ kind = "svr" /\ Len(sent) < MaxSent
  /\ SendBytes([line |-> r.line, headers |-> r.headers, body |-> r.body,
                usual |-> WellFormed(r)], Bytes(r))
  /\ UNCHANGED <<kind, building, meant, calls, receiverVars>>

Answering == kind = "cli" /\ Len(sent) < MaxSent
Called == Answering /\ calls < MaxCalls /\ calls' = calls + 1

\* SetHttpVersion, SetStatusCode, SetStatusPhrase.
PartText(i) == CASE i = 1 -> <<Word("HTTP/1.1")>> [] i = 2 -> <<Word("404")>> [] i = 3 -> Phrase
SetFirstLine(i) ==
  /\ Called /\ MaySetLine(building, i)
  /\ building' = SetLine(building, i, PartText(i))
  /\ meant' = [meant EXCEPT !.line[i] = PartText(i)]
  /\ UNCHANGED <<kind, sent, stream, ends, receiverVars>>

\* SetLocation and its like; in a response that has its body already the
\* header is accepted all the same, and ends up behind it.
SetOneHeader(what) ==
  /\ Called /\ MaySetHeader(building, what)
  /\ building' = SetHeader(building, what)
  /\ meant' = [meant EXCEPT !.headers = Append(@, <<Word(what)>>),
                            !.usual = @ /\ "BODY" \notin building.set]
  /\ UNCHANGED <<kind, sent, stream, ends, receiverVars>>

\* SetSever, SetDate.
SetServerOrDate(what) ==
  /\ Called /\ MaySetHeader(building, what)
  /\ building' = SetByPointer(building, what)
  /\ meant' = [meant EXCEPT !.headers = Append(@, <<Word(what)>>), !.usual = FALSE]
  /\ UNCHANGED <<kind, sent, stream, ends, receiverVars>>

SetMsgBody(body) ==
  /\ Called /\ MaySetBody(building)
  /\ building' = SetBody(building, body)
  /\ meant' = [meant EXCEPT
       !.line = [i \in 1..3 |-> IF LineField[i] \in building.set THEN @[i]
                                ELSE Default[LineField[i]]],
       !.headers = (IF "Content-Type" \in building.set THEN @ ELSE Append(@, <<Word("Content-Type")>>))
                     \o <<<<LengthLine(Len(body))>>>>,
       !.body = body]
  /\ UNCHANGED <<kind, sent, stream, ends, receiverVars>>

\* HttpSocket::SendHttpMsg sends what is built and starts anew.
SendHttpMsg ==
  /\ Answering /\ building.buffer # <<>>
  /\ SendBytes([meant EXCEPT !.usual = @ /\ "BODY" \in building.set], building.buffer)
  /\ building' = NoMsg
  /\ meant' = Nothing
  /\ UNCHANGED <<kind, calls, receiverVars>>

-----------------------------------------------------------------------------
(* The receiver. *)

\* recv returns some of what is there.
Read(k) ==
  /\ chunk = <<>> /\ reads < MaxReads /\ taken + k <= Len(stream)
  /\ chunk' = SubSeq(stream, taken + 1, taken + k)
  /\ taken' = taken + k /\ reads' = reads + 1
  /\ aligned' = (aligned /\ \E i \in 1..Len(ends) : ends[i] = taken')
  /\ UNCHANGED <<kind, senderVars, httpmsg, received>>

\* One round of _CutMsgPack's loop.  Its condition (copy_len == 0 ||
\* copy_len <= tran_byte) holds whatever Parse consumed, so that every round
\* calls OnReceiveData and clears the message.
CutOneMsg ==
  /\ chunk # <<>>
  /\ LET p == Parse(httpmsg, chunk)
     IN  /\ received' = Append(received, View(p.msg))
         /\ httpmsg' = Cleared(kind)
         /\ chunk' = <<>>
  /\ UNCHANGED <<kind, senderVars, taken, reads, aligned>>
CutMsgPack ==
  /\ chunk # <<>>
  /\ LET p == Parse(httpmsg, chunk)
     IN  /\ received' = Append(received, View(p.msg))
         /\ httpmsg' = Cleared(kind)
         /\ chunk' = p.rest
  /\ UNCHANGED <<kind, senderVars, taken, reads, aligned>>

Next ==
  \/ \E r \in Requests : SendRequest(r)
  \/ \E i \in 1..3 : SetFirstLine(i)
  \/ \E what \in {"Location", "Content-Type"} : SetOneHeader(what)
  \/ SetServerOrDate("Server")
  \/ \E body \in Bodies : SetMsgBody(body)
  \/ SendHttpMsg
  \/ \E k \in 1..Len(stream) - taken : Read(k)
  \/ CutMsgPack

Spec == Init /\ [][Next]_vars

-----------------------------------------------------------------------------
(* Properties *)

\* Parse can be resumed: a chunk parsed in two pieces, cut at any place (in
\* the middle of a CR LF too), gives the message and leaves the rest it gives
\* and leaves when parsed at once.
ParseResumes ==
  \A k \in 1..Len(chunk) - 1 :
    LET first  == Parse(httpmsg, SubSeq(chunk, 1, k))
        second == Parse(first.msg, first.rest \o After(chunk, k))
    IN  second = Parse(httpmsg, chunk)

\* Chunks that end where messages end are cut into exactly those messages, as
\* many as they hold: what the client asked (in well-formed requests), or what
\* the server's setters were told (each called before SetBody, and without
\* SetSever and SetDate).
Usual == \A i \in 1..Len(sent) : sent[i].usual
CutAsSent ==
  aligned /\ Usual /\ chunk = <<>> =>
    /\ \A i \in 1..Len(received) :
         received[i] = [line |-> sent[i].line, headers |-> sent[i].headers,
                        body |-> sent[i].body]
    /\ \A i \in 1..Len(sent) : (i <= Len(received)) = (ends[i] <= taken)

=============================================================================
