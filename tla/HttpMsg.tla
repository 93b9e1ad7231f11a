------------------------------ MODULE HttpMsg ------------------------------
(***************************************************************************)
(* The HTTP messages of netio/httpmsg.hpp as operators: the resumable      *)
(* parser of HttpSvrRecvMsg and HttpCliRecvMsg and the writer              *)
(* HttpSvrSendMsg.                                                         *)
(*                                                                         *)
(* A byte string is a sequence of symbols: SP, CR and LF for the bytes the *)
(* parser looks for, and one symbol for each piece of text between them.   *)
(* A line "Content-Length: n" is one symbol that carries its number.       *)
(* Positions in _buffer (strpos) are kept as numbers of symbols, as in the *)
(* code.                                                                   *)
(***************************************************************************)
EXTENDS Integers, Sequences, FiniteSets, SequencesExt

CONSTANT Texts   \* the pieces of text

ASSUME TextsAssumption ==
  {"SP", "CR", "LF", "pointer", "HTTP/1.1", "200", "404", "OK", "Location",
   "Content-Type", "Content-Length", "Server"} \subseteq Texts

Symbol == [text : Texts, length : Nat]
Word(text) == [text |-> text, length |-> 0]

SP == Word("SP")
CR == Word("CR")
LF == Word("LF")
CRLF == <<CR, LF>>

\* The header line "Content-Length: n", and the line SetSever starts and ends
\* with: the bytes of a pointer, for Write((void*)"...") writes its argument.
LengthLine(n) == [text |-> "Content-Length", length |-> n]
Pointer == Word("pointer")

\* The three parts of the first line and their E_PARSE_ flags.
SvrParts == <<"METHOD", "URL", "VER">>
CliParts == <<"VER", "STATUS_CODE", "STATUS_PHRASE">>
Parts(kind) == IF kind = "svr" THEN SvrParts ELSE CliParts

Pos(b, e) == [beg |-> b, end |-> e]

Cleared(kind) ==
  [kind |-> kind, buffer |-> <<>>, flag |-> Parts(kind)[1], assist |-> FALSE,
   line |-> [i \in 1..3 |-> Pos(0, 0)], header |-> Pos(0, 0),
   header2 |-> Pos(0, 0), vec |-> <<>>, body |-> Pos(0, 0), bodysize |-> -1]

-----------------------------------------------------------------------------
(* The parser.  An operator takes the message and what is left of the chunk  *)
(* and gives [msg, rest]; what it consumed has moved to msg.buffer.          *)

Least(S) == CHOOSE x \in S : \A y \in S : x <= y

Write(m, s, n) == [m EXCEPT !.buffer = @ \o SubSeq(s, 1, n)]
After(s, n) == SubSeq(s, n + 1, Len(s))

\* _Parse1, _Parse2: symbols up to and with the first hit, all without one.
UpTo(hits, s) ==
  IF hits = {} THEN [hit |-> FALSE, len |-> Len(s)]
  ELSE [hit |-> TRUE, len |-> Least(hits)]

Parse1(s, chr) == UpTo({i \in 1..Len(s) : s[i] = chr}, s)

\* The end of a line, whose CR may have been the last symbol of the chunk before.
ParseCRLF(m, s) ==
  UpTo({i \in 1..Len(s) : s[i] = LF /\ (IF i = 1 THEN m.assist ELSE s[i - 1] = CR)}, s)

\* What an unfinished line leaves in _assistflag.
AssistKept(m) == m
Assist(m) == [m EXCEPT !.assist = m.buffer[Len(m.buffer)] = CR]

\* The first two parts of the first line end with a space ...
EndPart(i, w) ==
  LET pos == Len(w.buffer)
  IN  [w EXCEPT !.line[i] = Pos(@.beg, pos - 1), !.line[i + 1] = Pos(pos, @.end),
                !.flag = Parts(w.kind)[i + 1]]

ParsePart(i, m, s) ==
  LET p == Parse1(s, SP)
      w == Write(m, s, p.len)
  IN  [msg |-> IF p.hit THEN EndPart(i, w) ELSE w, rest |-> After(s, p.len)]

\* ... and the last one with CR LF.
EndFirstLine(w) ==
  LET pos == Len(w.buffer)
  IN  [w EXCEPT !.line[3] = Pos(@.beg, pos - 2), !.flag = "HEAD", !.assist = FALSE,
                !.header = Pos(pos, @.end), !.header2 = Pos(pos, @.end)]

ParsePart3(m, s) ==
  LET p == ParseCRLF(m, s)
      w == Write(m, s, p.len)
  IN  [msg |-> IF p.hit THEN EndFirstLine(w) ELSE Assist(w), rest |-> After(s, p.len)]

\* _ParseHead: one header line; the empty one is the last.
EndHeader(w) ==
  LET pos  == Len(w.buffer)
      line == Pos(w.header2.beg, pos)
      last == line.beg + 2 = line.end
  IN  [w EXCEPT !.assist = FALSE, !.header = Pos(@.beg, pos), !.vec = Append(@, line),
                !.header2 = IF last THEN line ELSE Pos(pos, 0),
                !.flag = IF last THEN "BODY" ELSE "HEAD"]

ParseHead(m, s) ==
  LET p == ParseCRLF(m, s)
      w == Write(m, s, p.len)
  IN  [msg |-> IF p.hit THEN EndHeader(w) ELSE Assist(w), rest |-> After(s, p.len)]

\* _CheckContentLen: the first Content-Length line, 0 without one.
\* (The code reads at most ten digits, with atoi; here the size is a number.)
CheckContentLen(m) ==
  LET first(i) == m.buffer[m.vec[i].beg + 1]
      lines == {i \in 1..Len(m.vec) : first(i).text = "Content-Length"}
  IN  IF lines = {} THEN 0 ELSE first(Least(lines)).length

\* _ParseBody, whose first call fixes the size of the body and where it begins.
SizeBody(m) ==
  IF m.bodysize # -1 THEN m
  ELSE LET size == CheckContentLen(m)
       IN  [m EXCEPT !.bodysize = size,
                     !.body = IF size = 0 THEN @ ELSE Pos(Len(m.buffer), @.end)]

EndBody(w) ==
  [w EXCEPT !.flag = "OVER",
            !.body = IF w.bodysize = 0 THEN @ ELSE Pos(@.beg, Len(w.buffer))]

ParseBody(m, s) ==
  LET b    == SizeBody(m)
      need == IF b.bodysize = 0 THEN 0 ELSE b.bodysize - (Len(b.buffer) - b.body.beg)
      p    == [hit |-> need <= Len(s), len |-> IF need <= Len(s) THEN need ELSE Len(s)]
      w    == Write(b, s, p.len)
  IN  [msg |-> IF p.hit THEN EndBody(w) ELSE w, rest |-> After(s, p.len)]

\* Each of these calls the next one with what is left; Parse starts with the
\* one _flag names.  A round consumes something or is the last, so that as many
\* rounds as there are symbols, and one, are enough.
ParseRound(x) ==
  LET m == x.msg
      s == x.rest
  IN  IF s = <<>> \/ m.flag = "OVER" THEN x
      ELSE CASE m.flag = Parts(m.kind)[1] -> ParsePart(1, m, s)
             [] m.flag = Parts(m.kind)[2] -> ParsePart(2, m, s)
             [] m.flag = Parts(m.kind)[3] -> ParsePart3(m, s)
             [] m.flag = "HEAD" -> ParseHead(m, s)
             [] m.flag = "BODY" -> ParseBody(m, s)

Parse(m, s) ==
  LET round[n \in Nat] ==
        IF n = 0 THEN [msg |-> m, rest |-> s] ELSE ParseRound(round[n - 1])
  IN  round[Len(s) + 1]

-----------------------------------------------------------------------------
(* What the application reads of the message. *)

Text(m, p) == SubSeq(m.buffer, p.beg + 1, p.end)

\* GetMethod, GetUrl, GetVersion / GetVersion, GetStatusCode, GetStatusPhrase.
GetPart(m, i) == IF m.line[i].end = 0 THEN <<>> ELSE Text(m, m.line[i])

\* NextHeader until it gives nothing: each line without its CR LF.
Headers(m) ==
  LET line(i) == SubSeq(m.buffer, m.vec[i].beg + 1, m.vec[i].end - 2)
      empty == {i \in 1..Len(m.vec) : line(i) = <<>>}
  IN  [i \in 1..(IF empty = {} THEN Len(m.vec) ELSE Least(empty) - 1) |-> line(i)]

GetBody(m) == IF m.body.end = 0 THEN <<>> ELSE Text(m, m.body)

View(m) ==
  [line |-> [i \in 1..3 |-> GetPart(m, i)], headers |-> Headers(m), body |-> GetBody(m)]

-----------------------------------------------------------------------------
(* HttpSvrSendMsg: the bytes written so far and the flags of what was set.   *)

NoMsg == [buffer |-> <<>>, set |-> {}]

Put(b, what, s) == [buffer |-> b.buffer \o s, set |-> b.set \cup {what}]

\* The setters of the first line, which must be called in this order ...
LineField == <<"VER", "STATUS_CODE", "STATUS_PHRASE">>
MaySetLine(b, i) ==
  /\ LineField[i] \notin b.set
  /\ \A j \in 1..i - 1 : LineField[j] \in b.set
SetLine(b, i, text) ==
  Put(b, LineField[i], text \o (IF i = 3 THEN CRLF ELSE <<SP>>))

LineSet(b) == \A i \in 1..3 : LineField[i] \in b.set

\* ... those of a header (SetLocation, SetContentEncode, SetContentType,
\* SetContentLanguage), after it ...
MaySetHeader(b, what) == what \notin b.set /\ LineSet(b)
SetHeader(b, what) == Put(b, what, <<Word(what)>> \o CRLF)

\* ... SetSever and SetDate, which write the addresses of their literals ...
SetByPointer(b, what) == Put(b, what, <<Pointer, Word(what), Pointer>>)

\* ... and SetBody, which fills in what is missing before it.
MaySetBody(b) == "BODY" \notin b.set
Default ==
  [VER |-> <<Word("HTTP/1.1")>>, STATUS_CODE |-> <<Word("200")>>, STATUS_PHRASE |-> <<Word("OK")>>]
FillLine(b, i) ==
  IF LineField[i] \in b.set THEN b ELSE SetLine(b, i, Default[LineField[i]])
SetBody(b, body) ==
  LET line == FillLine(FillLine(FillLine(b, 1), 2), 3)
      type == IF "Content-Type" \in b.set THEN line ELSE SetHeader(line, "Content-Type")
  IN  Put(type, "BODY", <<LengthLine(Len(body))>> \o CRLF \o CRLF \o body)
=============================================================================
