------------------------- MODULE Connections_proofs -------------------------
(***************************************************************************)
(* Proofs about the life of connections: how they come about (Establish)   *)
(* and how the silent ones are ended (HeartBeat).                          *)
(*                                                                         *)
(* Establish is taken with any number of connectors, of which any may      *)
(* wait in Connect, any backlog, any number of session objects larger than *)
(* that of the connectors, and any number of failing accepts.              *)
(* EstablishInv is inductive.  The steps of the listener, of the kernel    *)
(* and of the connectors are taken one by one for each part of it; what a  *)
(* close does to a connector is proved once, of the record (ClosedKeeps).  *)
(* That a new session exists whenever one is made is a counting argument:  *)
(* every session in use has a connection of its own (SomeUnused).          *)
(*                                                                         *)
(* The heart beat closes the silent, all of them and nobody else, for any  *)
(* number of connections and buckets and any times; and the connectors     *)
(* whose servers answer are not among the silent.  The argument is about   *)
(* ages.  An entry's age follows that of what was received last by at most *)
(* a second (SilenceInv, HeardInv) except while something received waits   *)
(* to be noted, which takes a sweep, or two.                               *)
(***************************************************************************)
EXTENDS Establish, HeartBeat, FiniteSetTheorems, SequenceTheorems, TLAPS

-----------------------------------------------------------------------------
(* The connectors.                                                         *)

Links == {"none", "trying", "up", "refused", "reset"}

\* IoAccess::Close on a connector that was opened keeps what is said of it,
\* whatever its connection becomes.
LEMMA ClosedKeeps ==
  ASSUME NEW c \in ConnectorType, NEW n \in BOOLEAN, NEW t, NEW l, NEW m,
         ConnectorInv(c, t, l), c.fd # "none"
  PROVE  /\ Closed(c, n) \in ConnectorType
         /\ Closed(c, n).fd # "none"
         /\ ConnectorInv(Closed(c, n), t, m)
<1>1. CASE c.fd # "open" \/ c.closing
  BY <1>1 DEF Closed, ConnectorInv
<1>2. CASE c.fd = "open" /\ ~c.closing /\ c.block
  <2>1. Closed(c, n) = [c EXCEPT !.fd = "closed", !.block = FALSE, !.connecting = FALSE]
    BY <1>2 DEF Closed
  <2>2. Closed(c, n) \in ConnectorType
    BY <2>1 DEF ConnectorType
  <2>3. QED
    BY <1>2, <2>1, <2>2 DEF ConnectorInv, ConnectorType
<1>3. CASE c.fd = "open" /\ ~c.closing /\ ~c.block
  <2> DEFINE r == IF c.given THEN c.requests + 1 ELSE c.requests
  <2>1. Closed(c, n) = [c EXCEPT !.closing = TRUE, !.notify = n, !.requests = r]
    BY <1>3 DEF Closed
  <2>2. c.requests = 0 /\ r \in 0..1
    BY <1>3 DEF ConnectorInv, ConnectorType
  <2> HIDE DEF r
  <2>3. Closed(c, n) \in ConnectorType
    <3>1. r \in 0..2
      BY <2>2
    <3>2. CASE n = TRUE
      BY <2>1, <3>1, <3>2 DEF ConnectorType
    <3>3. CASE n = FALSE
      BY <2>1, <3>1, <3>3 DEF ConnectorType
    <3>4. QED
      BY <3>2, <3>3
  <2>4. QED
    BY <1>3, <2>1, <2>2, <2>3 DEF ConnectorInv, ConnectorType
<1>4. QED
  BY <1>1, <1>2, <1>3 DEF ConnectorType

\* So does the destruction of a connector that nobody holds.
LEMMA ReleasedKeeps ==
  ASSUME NEW c \in ConnectorType, NEW t, NEW l, NEW m,
         ConnectorInv(c, t, l), c.fd # "none"
  PROVE  /\ Released(c) \in ConnectorType
         /\ Released(c).fd # "none"
         /\ ConnectorInv(Released(c), t, m)
<1>1. CASE Released(c) = c
  BY <1>1 DEF ConnectorInv
<1>2. CASE Released(c) = Closed(c, FALSE)
  BY <1>2, ClosedKeeps
<1>3. QED
  BY <1>1, <1>2 DEF Released

\* So does _Close.
LEMMA SessionClosedKeeps ==
  ASSUME NEW c \in ConnectorType, NEW t, NEW l, NEW m,
         ConnectorInv(c, t, l), c.fd # "none"
  PROVE  /\ SessionClosed(c) \in ConnectorType
         /\ SessionClosed(c).fd # "none"
         /\ ConnectorInv(SessionClosed(c), t, m)
<1>1. CASE c.flag = "CLOSE"
  BY <1>1 DEF SessionClosed, ConnectorInv
<1>2. CASE c.flag # "CLOSE"
  <2>1. PICK b \in ConnectorType : b = [c EXCEPT !.flag = "CLOSE"]
    BY DEF ConnectorType, Flags
  <2>2. ConnectorInv(b, t, l) /\ b.fd # "none"
    BY <2>1 DEF ConnectorInv, ConnectorType
  <2>3. SessionClosed(c) = Closed(b, TRUE)
    BY <1>2, <2>1 DEF SessionClosed
  <2>4. QED
    BY <2>2, <2>3, ClosedKeeps
<1>3. QED
  BY <1>1, <1>2

\* Notices in order are sequences of notices.
LEMMA InOrderType ==
  ASSUME NEW t \in InOrder
  PROVE  t \in Seq({"connected", "failed", "disconnected"})
<1> DEFINE N == {"connected", "failed", "disconnected"}
<1>1. <<>> \in Seq(N)
  OBVIOUS
<1>2. \A a \in N : <<a>> \in Seq(N)
  OBVIOUS
<1>3. \A a, b \in N : <<a, b>> \in Seq(N)
  OBVIOUS
<1>4. "connected" \in N /\ "failed" \in N /\ "disconnected" \in N
  OBVIOUS
<1> HIDE DEF N
<1>5. t \in Seq(N)
  BY <1>1, <1>2, <1>3, <1>4 DEF InOrder, Closing
<1>6. QED
  BY <1>5 DEF N

\* What is appended to a sequence of one makes it a sequence of two.
LEMMA AppendToOne ==
  ASSUME NEW S, NEW a \in S, NEW b \in S
  PROVE  Append(<<a>>, b) = <<a, b>>
<1> DEFINE s == Append(<<a>>, b)
<1>1. /\ s \in Seq(S) /\ Len(s) = 2 /\ s[1] = a /\ s[2] = b
  <2>1. <<a>> \in Seq(S) /\ Len(<<a>>) = 1 /\ <<a>>[1] = a
    OBVIOUS
  <2>2. QED
    BY <2>1, AppendProperties
<1> HIDE DEF s
<1>2. /\ <<a, b>> \in Seq(S) /\ Len(<<a, b>>) = 2 /\ <<a, b>>[1] = a /\ <<a, b>>[2] = b
  OBVIOUS
<1>3. \A i \in 1..2 : s[i] = <<a, b>>[i]
  BY <1>1, <1>2
<1>4. s = <<a, b>>
  BY <1>1, <1>2, <1>3, SeqEqual
<1>5. QED
  BY <1>4 DEF s

\* The end is the last that is told.
LEMMA ToldOfEnd ==
  ASSUME NEW t \in InOrder, t \notin Closing
  PROVE  Append(t, "disconnected") \in Closing
<1>1. CASE t = <<>>
  <2>1. Append(<<>>, "disconnected") = <<"disconnected">>
    OBVIOUS
  <2>2. QED
    BY <1>1, <2>1 DEF Closing
<1>2. CASE t = <<"connected">>
  <2>1. "connected" \in {"connected", "disconnected"} /\ "disconnected" \in {"connected", "disconnected"}
    OBVIOUS
  <2>2. Append(<<"connected">>, "disconnected") = <<"connected", "disconnected">>
    BY ONLY <2>1, AppendToOne
  <2>3. QED
    BY <1>2, <2>2 DEF Closing
<1>3. CASE t = <<"failed">>
  <2>1. "failed" \in {"failed", "disconnected"} /\ "disconnected" \in {"failed", "disconnected"}
    OBVIOUS
  <2>2. Append(<<"failed">>, "disconnected") = <<"failed", "disconnected">>
    BY ONLY <2>1, AppendToOne
  <2>3. QED
    BY <1>3, <2>2 DEF Closing
<1>4. QED
  BY <1>1, <1>2, <1>3 DEF InOrder

\* What a step may do to the connections without making one.
LinksMove ==
  \A d \in Dials :
    \/ link'[d] = link[d]
    \/ link[d] \in {"none", "trying"} /\ link'[d] \in {"trying", "refused"}
    \/ link'[d] = "reset"

ConnectorsKept ==
  /\ DialTypeOK'
  /\ \A d \in Dials : ConnectorInv(dial'[d], told'[d], link'[d])
  /\ LinksMove

\* It is enough to look at the connector that takes the step.
LEMMA OneChanges ==
  ASSUME DialTypeOK, \A d \in Dials : ConnectorInv(dial[d], told[d], link[d]),
         NEW d \in Dials, NEW c \in ConnectorType, NEW t, NEW l \in Links,
         dial' = [dial EXCEPT ![d] = c],
         told' = [told EXCEPT ![d] = t],
         link' = [link EXCEPT ![d] = l],
         ConnectorInv(c, t, l),
         \/ l = link[d] \/ l = "reset"
         \/ link[d] = "none" /\ l \in {"trying", "refused"}
  PROVE  ConnectorsKept
<1>1. t \in Seq({"connected", "failed", "disconnected"})
  BY InOrderType DEF ConnectorInv
<1>2. DialTypeOK'
  BY <1>1 DEF DialTypeOK, Links
<1>3. /\ dial'[d] = c /\ told'[d] = t /\ link'[d] = l
      /\ \A e \in Dials \ {d} : dial'[e] = dial[e] /\ told'[e] = told[e] /\ link'[e] = link[e]
  BY DEF DialTypeOK
<1>4. \A e \in Dials : ConnectorInv(dial'[e], told'[e], link'[e])
  <2>1. TAKE e \in Dials
  <2>2. CASE e = d
    BY <1>3, <2>2
  <2>3. CASE e # d
    <3>1. ConnectorInv(dial[e], told[e], link[e])
      OBVIOUS
    <3>2. QED
      BY <1>3, <2>3, <3>1
  <2>4. QED
    BY <2>2, <2>3
<1>5. LinksMove
  BY <1>3 DEF LinksMove
<1>6. QED
  BY <1>2, <1>4, <1>5 DEF ConnectorsKept

\* What _DoClose leaves of a connector that has one request.
Ended(c) ==
  [c EXCEPT !.fd = "closed", !.closing = FALSE, !.connecting = FALSE, !.reading = FALSE,
            !.armed = FALSE, !.block = FALSE, !.requests = 0]

LEMMA EndedKeeps ==
  ASSUME NEW c \in ConnectorType
  PROVE  /\ Ended(c) \in ConnectorType
         /\ \A t \in InOrder : \A l : c.place = "idle" => ConnectorInv(Ended(c), t, l)
<1>1. Ended(c) \in ConnectorType
  <2>1. \A a \in ConnectorType : [a EXCEPT !.fd = "closed"] \in ConnectorType
    BY DEF ConnectorType
  <2>2. \A a \in ConnectorType : [a EXCEPT !.closing = FALSE, !.connecting = FALSE] \in ConnectorType
    BY ZenonT(30) DEF ConnectorType
  <2>3. \A a \in ConnectorType : [a EXCEPT !.reading = FALSE, !.armed = FALSE] \in ConnectorType
    BY ZenonT(30) DEF ConnectorType
  <2>4. \A a \in ConnectorType : [a EXCEPT !.block = FALSE] \in ConnectorType
    BY DEF ConnectorType
  <2>5. \A a \in ConnectorType : [a EXCEPT !.requests = 0] \in ConnectorType
    BY DEF ConnectorType
  <2>6. PICK a \in ConnectorType : a = [c EXCEPT !.fd = "closed"]
    BY <2>1
  <2>7. PICK b \in ConnectorType : b = [a EXCEPT !.closing = FALSE, !.connecting = FALSE]
    BY <2>2
  <2>8. PICK e \in ConnectorType : e = [b EXCEPT !.reading = FALSE, !.armed = FALSE]
    BY <2>3
  <2>9. PICK f \in ConnectorType : f = [e EXCEPT !.block = FALSE]
    BY <2>4
  <2>10. Ended(c) = [f EXCEPT !.requests = 0]
    BY <2>6, <2>7, <2>8, <2>9 DEF Ended, ConnectorType
  <2>11. QED
    BY <2>5, <2>10
<1>2. /\ Ended(c).fd = "closed" /\ ~Ended(c).closing /\ ~Ended(c).armed
      /\ Ended(c).requests = 0 /\ Ended(c).place = c.place
  BY DEF Ended, ConnectorType
<1>3. QED
  BY <1>1, <1>2 DEF ConnectorInv

\* Every step of a connector keeps what is said of it.
LEMMA StepConnector ==
  ASSUME DialTypeOK, \A e \in Dials : ConnectorInv(dial[e], told[e], link[e]),
         up \in BOOLEAN, NEW d \in Dials, DialLoop(d) \/ WaitingCall(d) \/ Calls(d)
  PROVE  ConnectorsKept
<1> DEFINE old == dial[d]
<1>1. /\ old \in ConnectorType /\ ConnectorInv(old, told[d], link[d]) /\ link[d] \in Links
      /\ told = [told EXCEPT ![d] = told[d]] /\ link = [link EXCEPT ![d] = link[d]]
  BY DEF DialTypeOK, Links
<1> DEFINE hung == IF link[d] \in {"trying", "up"} THEN "reset" ELSE link[d]
<1>2. hung \in Links /\ (Hung(d) => link' = [link EXCEPT ![d] = hung])
      /\ (hung = link[d] \/ hung = "reset")
  BY <1>1 DEF Links, Hung, DialTypeOK
\* A step that only changes the record of d, to c.
<1>3. ASSUME NEW c \in ConnectorType, ConnectorInv(c, told[d], link[d]),
             dial' = [dial EXCEPT ![d] = c], UNCHANGED <<told, link>>
      PROVE  ConnectorsKept
  BY <1>1, <1>3, OneChanges
\* A step that may close the descriptor of d, by which the peer sees it hung up.
<1>4. ASSUME NEW c \in ConnectorType, \A l \in Links : ConnectorInv(c, told[d], l),
             dial' = [dial EXCEPT ![d] = c], UNCHANGED told, Hung(d) \/ UNCHANGED link
      PROVE  ConnectorsKept
  <2>1. CASE UNCHANGED link
    BY <1>1, <1>3, <1>4, <2>1
  <2>2. CASE Hung(d)
    BY <1>1, <1>2, <1>4, <2>2, OneChanges
  <2>3. QED
    BY <1>4, <2>1, <2>2
<1> HIDE DEF old, hung
\* A connector whose application has an answer, or waits for one, was opened.
<1>5. old.call \in {"waiting", "done", "true", "false"} => old.fd # "none"
  BY <1>1 DEF ConnectorInv
<1>6. CASE CompleteConnect(d)
  <2> DEFINE c == [old EXCEPT !.armed = FALSE, !.connecting = FALSE, !.place = "result"]
  <2>1. dial' = [dial EXCEPT ![d] = c] /\ UNCHANGED <<told, link>> /\ old.armed
    BY <1>6 DEF CompleteConnect, DialTypeOK, ConnectorType, old
  <2>2. c \in ConnectorType /\ ConnectorInv(c, told[d], link[d])
    BY <1>1, <2>1, ZenonT(30) DEF ConnectorType, ConnectorInv
  <2>3. QED
    BY <1>3, <2>1, <2>2
<1>7. CASE ConnectResult(d)
  <2>1. PICK error \in BOOLEAN : error = (link[d] # "up")
    OBVIOUS
  <2> DEFINE c == [old EXCEPT !.error = error, !.oper = FALSE, !.place = "handle"]
  <2>2. dial' = [dial EXCEPT ![d] = c] /\ UNCHANGED <<told, link>> /\ old.place = "result"
    BY <1>7, <2>1 DEF ConnectResult, DialTypeOK, ConnectorType, old
  <2>3. c \in ConnectorType /\ ConnectorInv(c, told[d], link[d])
    BY <1>1, <2>2 DEF ConnectorType, ConnectorInv
  <2>4. QED
    BY <1>3, <2>2, <2>3
<1>8. CASE ConnectFailed(d)
  <2>1. PICK keep \in BOOLEAN :
          LET c == [dial[d] EXCEPT !.place = "idle", !.error = FALSE, !.kept = @ \/ keep]
          IN  dial' = [dial EXCEPT ![d] = Released(c)]
    BY <1>8 DEF ConnectFailed
  <2>2. PICK kept \in BOOLEAN : kept = (old.kept \/ keep)
    BY <1>1 DEF ConnectorType
  <2>3. /\ old.place = "handle" /\ UNCHANGED link
        /\ told' = [told EXCEPT ![d] = Append(told[d], "failed")]
    BY <1>8 DEF ConnectFailed, Tell, old, DialTypeOK
  <2>4. told[d] = <<>> /\ Append(<<>>, "failed") = <<"failed">> /\ old.fd # "none"
    BY <1>1, <2>3 DEF ConnectorInv
  <2>5. PICK b \in ConnectorType : b = [old EXCEPT !.place = "idle", !.error = FALSE, !.kept = kept]
    BY <1>1, <2>2 DEF ConnectorType
  <2>6. ConnectorInv(b, <<"failed">>, link[d]) /\ b.fd # "none"
    BY <1>1, <2>3, <2>4, <2>5 DEF ConnectorType, ConnectorInv, InOrder, Closing
  <2>7. /\ Released(b) \in ConnectorType
        /\ ConnectorInv(Released(b), <<"failed">>, link[d])
    BY <2>6, ReleasedKeeps
  <2>8. dial' = [dial EXCEPT ![d] = Released(b)]
    BY <2>1, <2>2, <2>5 DEF old
  <2>9. told' = [told EXCEPT ![d] = <<"failed">>] /\ link' = [link EXCEPT ![d] = link[d]]
    BY <1>1, <2>3, <2>4
  <2>10. QED
    BY <1>1, <2>7, <2>8, <2>9, OneChanges
<1>9. CASE ConnectMute(d)
  <2>1. PICK b \in ConnectorType : b = [old EXCEPT !.place = "idle"]
    BY <1>1 DEF ConnectorType
  <2>2. dial' = [dial EXCEPT ![d] = Released(b)] /\ UNCHANGED <<told, link>> /\ old.place = "handle"
    BY <1>9, <2>1 DEF ConnectMute, DialTypeOK, old
  <2>3. ConnectorInv(b, told[d], link[d]) /\ b.fd # "none"
    BY <1>1, <2>1, <2>2 DEF ConnectorType, ConnectorInv
  <2>4. Released(b) \in ConnectorType /\ ConnectorInv(Released(b), told[d], link[d])
    BY <2>3, ReleasedKeeps
  <2>5. QED
    BY <1>3, <2>2, <2>4
<1>10. CASE ConnectStart(d)
  <2> DEFINE c == [old EXCEPT !.flag = "START", !.place = "tell"]
  <2>1. dial' = [dial EXCEPT ![d] = c] /\ UNCHANGED <<told, link>> /\ old.place = "handle"
    BY <1>10 DEF ConnectStart, DialTypeOK, ConnectorType, old
  <2>2. c \in ConnectorType /\ ConnectorInv(c, told[d], link[d])
    BY <1>1, <2>1 DEF ConnectorType, ConnectorInv, Flags
  <2>3. QED
    BY <1>3, <2>1, <2>2
<1>11. CASE ConnectTell(d)
  <2>1. PICK keep \in BOOLEAN :
          LET c == [dial[d] EXCEPT !.place = "read", !.kept = @ \/ keep]
          IN  dial' \in {[dial EXCEPT ![d] = c], [dial EXCEPT ![d] = SessionClosed(c)]}
    BY <1>11 DEF ConnectTell
  <2>2. PICK kept \in BOOLEAN : kept = (old.kept \/ keep)
    BY <1>1 DEF ConnectorType
  <2>3. /\ old.place = "tell" /\ UNCHANGED link
        /\ told' = [told EXCEPT ![d] = Append(told[d], "connected")]
    BY <1>11 DEF ConnectTell, Tell, old, DialTypeOK
  <2>4. told[d] = <<>> /\ Append(<<>>, "connected") = <<"connected">> /\ old.fd # "none"
    BY <1>1, <2>3 DEF ConnectorInv
  <2>5. PICK b \in ConnectorType : b = [old EXCEPT !.place = "read", !.kept = kept]
    BY <1>1, <2>2 DEF ConnectorType
  <2>6. ConnectorInv(b, <<"connected">>, link[d]) /\ b.fd # "none"
    BY <1>1, <2>3, <2>4, <2>5 DEF ConnectorType, ConnectorInv, InOrder, Closing
  <2>7. /\ SessionClosed(b) \in ConnectorType
        /\ ConnectorInv(SessionClosed(b), <<"connected">>, link[d])
    BY <2>6, SessionClosedKeeps
  <2>8. dial' = [dial EXCEPT ![d] = b] \/ dial' = [dial EXCEPT ![d] = SessionClosed(b)]
    BY <2>1, <2>2, <2>5 DEF old
  <2>9. told' = [told EXCEPT ![d] = <<"connected">>] /\ link' = [link EXCEPT ![d] = link[d]]
    BY <1>1, <2>3, <2>4
  <2>10. QED
    BY <1>1, <2>6, <2>7, <2>8, <2>9, OneChanges
<1>12. CASE ConnectRead(d)
  <2> DEFINE c == [old EXCEPT !.place = "idle", !.reading = TRUE]
  <2>1. dial' = [dial EXCEPT ![d] = c] /\ UNCHANGED <<told, link>> /\ old.place = "read"
    BY <1>12 DEF ConnectRead, DialTypeOK, ConnectorType, old
  <2>2. c \in ConnectorType /\ ConnectorInv(c, told[d], link[d])
    BY <1>1, <2>1 DEF ConnectorType, ConnectorInv
  <2>3. QED
    BY <1>3, <2>1, <2>2
<1>13. CASE ReadEnds(d)
  <2>1. PICK b \in ConnectorType : b = [old EXCEPT !.reading = FALSE]
    BY <1>1 DEF ConnectorType
  <2>2. /\ dial' = [dial EXCEPT ![d] = Released(SessionClosed(b))]
        /\ UNCHANGED <<told, link>> /\ link[d] = "reset"
    BY <1>13, <2>1 DEF ReadEnds, DialTypeOK, old
  <2>3. ConnectorInv(b, told[d], link[d]) /\ b.fd # "none"
    BY <1>1, <2>1, <2>2 DEF ConnectorType, ConnectorInv
  <2>4. PICK e \in ConnectorType :
          e = SessionClosed(b) /\ e.fd # "none" /\ ConnectorInv(e, told[d], link[d])
    BY <2>3, SessionClosedKeeps
  <2>5. Released(e) \in ConnectorType /\ ConnectorInv(Released(e), told[d], link[d])
    BY <2>4, ReleasedKeeps
  <2>6. QED
    BY <1>3, <2>2, <2>4, <2>5
<1>14. CASE DoClose(d)
  <2> DEFINE c == Ended(old)
  <2>1. old.place = "idle" /\ old.requests > 0 /\ link' = [link EXCEPT ![d] = hung]
    BY <1>14, <1>2 DEF DoClose, old
  <2>2. told[d] \in InOrder /\ told[d] \notin Closing /\ old.requests = 1
    BY <1>1, <2>1 DEF ConnectorInv
  <2>3. c \in ConnectorType /\ dial' = [dial EXCEPT ![d] = c]
    <3>1. c \in ConnectorType
      BY <1>1, EndedKeeps
    <3>2. old.requests - 1 = 0
      BY <2>2
    <3>3. dial' = [dial EXCEPT ![d] = c]
      BY <1>14, <1>1, <3>2 DEF DoClose, DialTypeOK, ConnectorType, Ended, old
    <3>4. QED
      BY <3>1, <3>3
  <2>4. ASSUME NEW t \in InOrder PROVE ConnectorInv(c, t, hung)
    BY <1>1, <2>1, <2>2, <2>4, EndedKeeps
  <2>5. CASE old.notify
    <3>1. told' = [told EXCEPT ![d] = Append(told[d], "disconnected")]
      BY <1>14, <2>5 DEF DoClose, Tell, old, DialTypeOK
    <3>2. Append(told[d], "disconnected") \in InOrder
      BY <2>2, ToldOfEnd DEF InOrder
    <3>3. QED
      BY <1>2, <2>1, <2>3, <2>4, <3>1, <3>2, OneChanges
  <2>6. CASE ~old.notify
    <3>1. told' = [told EXCEPT ![d] = told[d]]
      BY <1>14, <1>1, <2>6 DEF DoClose, old
    <3>2. QED
      BY <1>2, <2>1, <2>2, <2>3, <2>4, <3>1, OneChanges
  <2>7. QED
    BY <2>5, <2>6
<1>15. CASE ConnectGivesUp(d)
  <2>1. PICK b \in ConnectorType :
          b = Closed(old, FALSE) /\ b.fd # "none" /\ \A l \in Links : ConnectorInv(b, told[d], l)
    BY <1>1, <1>5, <1>15, ClosedKeeps DEF ConnectGivesUp, old
  <2> DEFINE c == [b EXCEPT !.call = "false"]
  <2>2. dial' = [dial EXCEPT ![d] = c] /\ UNCHANGED told /\ Hung(d)
    BY <1>15, <2>1 DEF ConnectGivesUp, DialTypeOK, old
  <2>3. c \in ConnectorType /\ \A l \in Links : ConnectorInv(c, told[d], l)
    BY <2>1, ZenonT(30) DEF ConnectorType, ConnectorInv
  <2>4. QED
    BY <1>4, <2>2, <2>3
<1>16. CASE ConnectRefused(d)
  <2> DEFINE c == [old EXCEPT !.connecting = FALSE, !.call = "false"]
  <2>1. dial' = [dial EXCEPT ![d] = c] /\ UNCHANGED <<told, link>> /\ old.call = "waiting"
    BY <1>16 DEF ConnectRefused, DialTypeOK, ConnectorType, old
  <2>2. c \in ConnectorType /\ ConnectorInv(c, told[d], link[d])
    BY <1>1, <1>5, <2>1 DEF ConnectorType, ConnectorInv
  <2>3. QED
    BY <1>3, <2>1, <2>2
<1>17. CASE ConnectDone(d)
  <2> DEFINE c == [old EXCEPT !.connecting = FALSE, !.call = "done"]
  <2>1. dial' = [dial EXCEPT ![d] = c] /\ UNCHANGED <<told, link>> /\ old.call = "waiting"
    BY <1>17 DEF ConnectDone, DialTypeOK, ConnectorType, old
  <2>2. c \in ConnectorType /\ ConnectorInv(c, told[d], link[d])
    BY <1>1, <1>5, <2>1 DEF ConnectorType, ConnectorInv
  <2>3. QED
    BY <1>3, <2>1, <2>2
<1>18. CASE ConnectReturns(d, up)
  <2>1. PICK reads \in BOOLEAN, b \in BOOLEAN : reads = (link[d] = "up" /\ up) /\ b = (link[d] # "up")
    OBVIOUS
  <2>2. PICK w \in {"true", "false"} : w = IF reads THEN "true" ELSE "false"
    OBVIOUS
  <2> DEFINE c == [old EXCEPT !.flag = "START", !.given = reads, !.reading = reads, !.block = b,
                              !.call = w]
  <2>3. /\ dial' = [dial EXCEPT ![d] = c] /\ UNCHANGED <<told, link>>
        /\ old.block /\ old.fd = "open"
    BY <1>18, <2>1, <2>2 DEF ConnectReturns, DialTypeOK, ConnectorType, old
  <2>4. c \in ConnectorType
    <3>1. \A a \in ConnectorType : [a EXCEPT !.flag = "START", !.given = reads] \in ConnectorType
      BY DEF ConnectorType, Flags
    <3>2. \A a \in ConnectorType : [a EXCEPT !.reading = reads, !.block = b] \in ConnectorType
      BY DEF ConnectorType
    <3>3. \A a \in ConnectorType : [a EXCEPT !.call = w] \in ConnectorType
      BY DEF ConnectorType
    <3>4. PICK g : g = [old EXCEPT !.flag = "START", !.given = reads]
      OBVIOUS
    <3>5. PICK h : h = [g EXCEPT !.reading = reads, !.block = b]
      OBVIOUS
    <3>6. g \in ConnectorType /\ h \in ConnectorType /\ [h EXCEPT !.call = w] \in ConnectorType
      BY <1>1, <3>1, <3>2, <3>3, <3>4, <3>5
    <3>7. c = [h EXCEPT !.call = w]
      BY <3>4, <3>5
    <3>8. QED
      BY <3>6, <3>7
  <2>5. ConnectorInv(c, told[d], link[d])
    <3>1. /\ c.fd = old.fd /\ c.block = b /\ c.closing = old.closing /\ c.armed = old.armed
          /\ c.place = old.place /\ c.requests = old.requests /\ c.call = w
      BY <1>1 DEF ConnectorType
    <3>2. ~old.armed /\ old.place = "idle" /\ ~old.closing
      BY <1>1, <2>3 DEF ConnectorInv
    <3>3. QED
      BY <1>1, <2>3, <3>1, <3>2 DEF ConnectorInv
  <2>6. QED
    BY <1>3, <2>3, <2>4, <2>5
<1>19. CASE HttpConnectReturns(d)
  <2> DEFINE c == [old EXCEPT !.call = "true"]
  <2>1. dial' = [dial EXCEPT ![d] = c] /\ UNCHANGED <<told, link>> /\ old.fd = "open"
    BY <1>19 DEF HttpConnectReturns, DialTypeOK, ConnectorType, old
  <2>2. c \in ConnectorType /\ ConnectorInv(c, told[d], link[d])
    BY <1>1, <2>1 DEF ConnectorType, ConnectorInv
  <2>3. QED
    BY <1>3, <2>1, <2>2
<1>20. CASE AsyncConnectBy(d, TRUE, up) \/ ConnectOne(d, up)
  <2>1. PICK kept \in BOOLEAN : AsyncConnectBy(d, kept, up)
    BY <1>20 DEF ConnectOne
  <2>2. PICK starts \in BOOLEAN :
          /\ link' = [link EXCEPT ![d] = IF starts THEN "trying" ELSE "refused"]
          /\ dial' = [dial EXCEPT ![d] = Released([AsyncConnect(dial[d], starts, up) EXCEPT !.kept = kept])]
    BY <2>1 DEF AsyncConnectBy, DialTypeOK
  <2>3. old.fd = "none" /\ told' = [told EXCEPT ![d] = told[d]]
    BY <1>1, <2>1 DEF AsyncConnectBy, old
  <2>4. /\ old.block /\ told[d] = <<>> /\ link[d] = "none" /\ ~old.armed /\ old.place = "idle"
        /\ ~old.closing /\ old.requests = 0
    BY <1>1, <2>3 DEF ConnectorInv, ConnectorType
  <2>5. PICK posted \in BOOLEAN : posted = (starts /\ up)
    OBVIOUS
  <2>6. PICK a \in ConnectorType : a = [old EXCEPT !.fd = "open", !.block = FALSE, !.call = "done"]
    BY <1>1 DEF ConnectorType
  <2>7. PICK b \in ConnectorType :
          b = [a EXCEPT !.connecting = posted, !.oper = posted, !.given = posted,
                        !.armed = posted, !.kept = kept]
    BY ZenonT(30) DEF ConnectorType
  <2>8. [AsyncConnect(old, starts, up) EXCEPT !.kept = kept] = b
    BY <1>1, <2>5, <2>6, <2>7 DEF AsyncConnect, ConnectorType
  <2>9. dial' = [dial EXCEPT ![d] = Released(b)]
    BY <2>2, <2>8 DEF old
  <2> DEFINE l == IF starts THEN "trying" ELSE "refused"
  <2>10. l \in {"trying", "refused"} /\ l \in Links
    BY DEF Links
  <2> HIDE DEF l
  <2>11. ConnectorInv(b, told[d], l) /\ b.fd # "none"
    BY <1>1, <2>4, <2>6, <2>7 DEF ConnectorType, ConnectorInv, InOrder, Closing
  <2>12. Released(b) \in ConnectorType /\ ConnectorInv(Released(b), told[d], l)
    BY <2>11, ReleasedKeeps
  <2>13. link' = [link EXCEPT ![d] = l]
    BY <2>2 DEF l
  <2>14. QED
    BY <2>3, <2>4, <2>9, <2>10, <2>12, <2>13, OneChanges
<1>21. CASE Connect(d)
  <2>1. PICK starts \in BOOLEAN :
          /\ link' = [link EXCEPT ![d] = IF starts THEN "trying" ELSE "refused"]
          /\ dial' = [dial EXCEPT ![d].fd = "open", ![d].connecting = starts,
                                  ![d].call = IF starts THEN "waiting" ELSE "false"]
    BY <1>21 DEF Connect
  <2> DEFINE c == [old EXCEPT !.fd = "open", !.connecting = starts,
                              !.call = IF starts THEN "waiting" ELSE "false"]
  <2> DEFINE l == IF starts THEN "trying" ELSE "refused"
  <2>2. dial' = [dial EXCEPT ![d] = c] /\ link' = [link EXCEPT ![d] = l]
    BY <2>1 DEF DialTypeOK, ConnectorType, old
  <2>3. old.fd = "none" /\ told' = [told EXCEPT ![d] = told[d]] /\ link[d] = "none"
    BY <1>1, <1>21 DEF Connect, ConnectorInv, old
  <2>4. c \in ConnectorType /\ ConnectorInv(c, told[d], l)
    BY <1>1, <2>3 DEF ConnectorType, ConnectorInv, InOrder, Closing
  <2>5. l \in Links /\ l \in {"trying", "refused"}
    BY DEF Links
  <2> HIDE DEF c, l
  <2>6. QED
    BY <2>2, <2>3, <2>4, <2>5, OneChanges
<1>22. CASE Close(d)
  <2>1. /\ dial' = [dial EXCEPT ![d] = SessionClosed(old)] /\ UNCHANGED told
        /\ Hung(d) \/ UNCHANGED link
    BY <1>22 DEF Close, DialTypeOK, old
  <2>2. /\ SessionClosed(old) \in ConnectorType
        /\ \A l \in Links : ConnectorInv(SessionClosed(old), told[d], l)
    BY <1>1, <1>5, <1>22, SessionClosedKeeps DEF Close, old
  <2>3. QED
    BY <1>4, <2>1, <2>2
<1>23. CASE Drop(d)
  <2>1. PICK b \in ConnectorType : b = [old EXCEPT !.kept = FALSE]
    BY <1>1 DEF ConnectorType
  <2>2. /\ dial' = [dial EXCEPT ![d] = Released(b)] /\ UNCHANGED told
        /\ Hung(d) \/ UNCHANGED link
    BY <1>23, <2>1 DEF Drop, DialTypeOK, old
  <2>3. ConnectorInv(b, told[d], link[d]) /\ b.fd # "none"
    BY <1>1, <1>5, <1>23, <2>1 DEF ConnectorType, ConnectorInv, Drop, old
  <2>4. /\ Released(b) \in ConnectorType
        /\ \A l \in Links : ConnectorInv(Released(b), told[d], l)
    BY <2>3, ReleasedKeeps
  <2>5. QED
    BY <1>4, <2>2, <2>4
<1>24. QED
  BY <1>6, <1>7, <1>8, <1>9, <1>10, <1>11, <1>12, <1>13, <1>14, <1>15, <1>16, <1>17, <1>18, <1>19, <1>20, <1>21, <1>22, <1>23 DEF DialLoop, WaitingCall, Calls

-----------------------------------------------------------------------------
(* The queue and the sessions.                                             *)

\* RemoveAt takes one element out of a sequence.
LEMMA RemoveAtProperties ==
  ASSUME NEW S, NEW s \in Seq(S), NEW i \in 1..Len(s)
  PROVE  /\ RemoveAt(s, i) \in Seq(S)
         /\ Len(RemoveAt(s, i)) = Len(s) - 1
         /\ \A j \in 1..Len(s) - 1 : RemoveAt(s, i)[j] = IF j < i THEN s[j] ELSE s[j + 1]
<1> DEFINE a == SubSeq(s, 1, i - 1)
           b == SubSeq(s, i + 1, Len(s))
<1>1. Len(s) \in Nat /\ i \in Int /\ 1 <= i /\ i <= Len(s)
  OBVIOUS
<1>2. /\ a \in Seq(S) /\ Len(a) = i - 1
      /\ \A j \in 1..i - 1 : a[j] = s[j]
  <2>1. \A j \in 1..i - 1 : s[j] \in S
    OBVIOUS
  <2>2. /\ a \in Seq(S)
        /\ Len(a) = IF 1 <= i - 1 THEN (i - 1) - 1 + 1 ELSE 0
        /\ \A j \in 1..(i - 1) - 1 + 1 : a[j] = s[1 + j - 1]
    BY <1>1, <2>1, SubSeqProperties
  <2> HIDE DEF a
  <2>3. QED
    BY <1>1, <2>2
<1>3. /\ b \in Seq(S) /\ Len(b) = Len(s) - i
      /\ \A j \in 1..Len(s) - i : b[j] = s[i + j]
  <2>1. \A j \in i + 1..Len(s) : s[j] \in S
    OBVIOUS
  <2>2. /\ b \in Seq(S)
        /\ Len(b) = IF i + 1 <= Len(s) THEN Len(s) - (i + 1) + 1 ELSE 0
        /\ \A j \in 1..Len(s) - (i + 1) + 1 : b[j] = s[i + 1 + j - 1]
    BY <1>1, <2>1, SubSeqProperties
  <2> HIDE DEF b
  <2>3. QED
    BY <1>1, <2>2
<1>4. RemoveAt(s, i) = a \o b
  BY DEF RemoveAt
<1> HIDE DEF a, b
<1>5. /\ a \o b \in Seq(S)
      /\ Len(a \o b) = Len(a) + Len(b)
      /\ \A j \in 1..Len(a) + Len(b) : (a \o b)[j] = IF j <= Len(a) THEN a[j] ELSE b[j - Len(a)]
  BY <1>2, <1>3, ConcatProperties
<1>6. PICK r :
        /\ r = RemoveAt(s, i) /\ r \in Seq(S) /\ Len(r) = Len(a) + Len(b)
        /\ \A j \in 1..Len(a) + Len(b) : r[j] = IF j <= Len(a) THEN a[j] ELSE b[j - Len(a)]
  BY <1>4, <1>5
<1>7. /\ Len(a) + Len(b) = Len(s) - 1
      /\ \A j \in 1..Len(s) - 1 : r[j] = IF j <= i - 1 THEN a[j] ELSE b[j - (i - 1)]
  <2>1. Len(a) + Len(b) = Len(s) - 1
    BY <1>1, <1>2, <1>3
  <2>2. QED
    BY <1>2, <1>6, <2>1
<1>8. ASSUME NEW j \in 1..Len(s) - 1
      PROVE  r[j] = IF j < i THEN s[j] ELSE s[j + 1]
  <2>1. CASE j < i
    <3>1. j \in 1..i - 1 /\ j <= i - 1
      BY <1>1, <2>1
    <3>2. QED
      BY <1>2, <1>7, <2>1, <3>1
  <2>2. CASE j >= i
    <3>1. j - (i - 1) \in 1..Len(s) - i /\ i + (j - (i - 1)) = j + 1 /\ ~(j <= i - 1)
      BY <1>1, <2>2
    <3>2. QED
      BY <1>1, <1>3, <1>7, <2>2, <3>1
  <2>3. QED
    BY <1>1, <2>1, <2>2
<1>9. QED
  BY <1>6, <1>7, <1>8

\* As long as no session is new there is one that is not in use: those in use
\* have a connection each, and there are more of them than connections.
LEMMA SomeUnused ==
  ASSUME AcceptorTypeOK, PlacedInv,
         \A s \in Sessions : session[s].state # "new",
         \A s \in Sessions : session[s].state = "started" => session[s].peer # NoPeer
  PROVE  NewSession \in Sessions /\ session[NewSession].state = "none"
<1>1. Unused # {}
  <2>1. SUFFICES ASSUME Unused = {} PROVE FALSE
    OBVIOUS
  <2> DEFINE f == [s \in Sessions |-> session[s].peer]
  <2>2. \A s \in Sessions : session[s].peer \in Dials
    BY <2>1, BacklogAssumption DEF Unused, AcceptorTypeOK
  <2>3. f \in [Sessions -> Dials]
    BY <2>2
  <2> HIDE DEF f
  <2>4. PICK s \in Sessions, t \in Sessions : s # t /\ f[s] = f[t]
    BY <2>3, SessionsAssumption, FS_PigeonHole
  <2>5. session[s].peer = session[t].peer /\ session[s].peer # NoPeer
    BY <2>2, <2>4, AcceptorAssumption, BacklogAssumption DEF f
  <2>6. QED
    BY <2>4, <2>5 DEF PlacedInv
<1>2. NewSession \in Unused
  BY <1>1 DEF NewSession
<1>3. QED
  BY <1>2 DEF Unused

\* A step that moves no connection, in the queue or in a session, keeps them
\* in their places.
LEMMA PlacedStays ==
  ASSUME PlacedInv, waiting' = waiting, LinksMove,
         \A s \in Sessions : session'[s].peer = session[s].peer
  PROVE  PlacedInv'
<1>1. \A d \in Dials : (Queued(d)' <=> Queued(d)) /\ (Served(d)' <=> Served(d))
  BY DEF Queued, Served
<1>2. \A d \in Dials : Queued(d) \/ Served(d) => link'[d] \in {"up", "reset"}
  BY DEF PlacedInv, LinksMove
<1>3. \A d \in Dials : link'[d] = "up" => Queued(d) \/ Served(d)
  BY DEF PlacedInv, LinksMove
<1>4. \A d \in Dials : ~(Queued(d) /\ Served(d))
  BY DEF PlacedInv
<1>5. /\ \A i, j \in 1..Len(waiting') : waiting'[i] = waiting'[j] => i = j
      /\ \A s, t \in Sessions :
           session'[s].peer = session'[t].peer /\ session'[s].peer # NoPeer => s = t
  BY DEF PlacedInv
<1>6. QED
  BY <1>1, <1>2, <1>3, <1>4, <1>5 DEF PlacedInv

\* So does one that only takes connections away which have ended.
LEMMA PlacedShrinks ==
  ASSUME PlacedInv,
         \A d \in Dials : link'[d] = link[d] \/ link'[d] = "reset",
         \A i, j \in 1..Len(waiting') : waiting'[i] = waiting'[j] => i = j,
         \A d \in Dials : Queued(d)' => Queued(d),
         \A s \in Sessions : session'[s].peer \in {session[s].peer, NoPeer},
         \A d \in Dials : link'[d] = "up" =>
           /\ Queued(d) => Queued(d)'
           /\ \A s \in Sessions : session[s].peer = d => session'[s].peer = d
  PROVE  PlacedInv'
<1>1. \A d \in Dials : Served(d)' => Served(d)
  BY AcceptorAssumption, BacklogAssumption DEF Served
<1>2. \A d \in Dials : link'[d] = "up" /\ Served(d) => Served(d)'
  BY DEF Served
<1>3. \A s, t \in Sessions :
        session'[s].peer = session'[t].peer /\ session'[s].peer # NoPeer => s = t
  BY DEF PlacedInv
<1>4. \A d \in Dials :
        /\ ~(Queued(d)' /\ Served(d)')
        /\ Queued(d)' \/ Served(d)' => link'[d] \in {"up", "reset"}
        /\ link'[d] = "up" => Queued(d)' \/ Served(d)'
  BY <1>1, <1>2 DEF PlacedInv
<1>5. QED
  BY <1>3, <1>4 DEF PlacedInv
-----------------------------------------------------------------------------
(* The listener.                                                           *)

AcceptorInv == AcceptorTypeOK /\ ListenerInv /\ PlacedInv

\* A step that leaves queue, sessions and connections alone.
LEMMA QuietStep ==
  ASSUME AcceptorInv, UNCHANGED <<waiting, session, link>>,
         up' \in BOOLEAN, faults' \in 0..MaxFaults, LsnTypeOK', ListenerInv'
  PROVE  AcceptorInv'
<1>1. AcceptorTypeOK'
  BY DEF AcceptorInv, AcceptorTypeOK
<1>2. LinksMove /\ \A s \in Sessions : session'[s].peer = session[s].peer
  BY DEF LinksMove
<1>3. PlacedInv'
  BY <1>2, PlacedStays DEF AcceptorInv
<1>4. QED
  BY <1>1, <1>3 DEF AcceptorInv

LEMMA StepStartService ==
  ASSUME AcceptorInv, StartService, UNCHANGED link
  PROVE  AcceptorInv'
<1>1. LsnTypeOK' /\ ListenerInv' /\ faults' \in 0..MaxFaults
  BY DEF AcceptorInv, AcceptorTypeOK, LsnTypeOK, ListenerInv, StartService
<1>2. QED
  BY <1>1, QuietStep DEF StartService

LEMMA StepOpenListener ==
  ASSUME AcceptorInv, OpenListener \/ ListenFails, UNCHANGED link
  PROVE  AcceptorInv'
<1>1. LsnTypeOK' /\ ListenerInv'
  BY DEF AcceptorInv, AcceptorTypeOK, LsnTypeOK, ListenerInv, OpenListener, ListenFails
<1>2. QED
  BY <1>1, QuietStep DEF AcceptorInv, AcceptorTypeOK, OpenListener, ListenFails

LEMMA StepCompleteAccept ==
  ASSUME AcceptorInv, CompleteAccept, UNCHANGED link
  PROVE  AcceptorInv'
<1>1. LsnTypeOK' /\ ListenerInv'
  BY DEF AcceptorInv, AcceptorTypeOK, LsnTypeOK, ListenerInv, CompleteAccept
<1>2. QED
  BY <1>1, QuietStep DEF AcceptorInv, AcceptorTypeOK, CompleteAccept

\* What the handler finds.
LEMMA HandingOver ==
  ASSUME LsnTypeOK, NEW e \in BOOLEAN, Handing(e)
  PROVE  /\ LsnTypeOK'
         /\ lsn'.oper = NoSession /\ lsn'.client = lsn.oper /\ lsn'.place = "handle"
         /\ lsn'.error = e /\ lsn'.fd = lsn.fd /\ lsn'.posted = lsn.posted
         /\ lsn'.bound = lsn.bound /\ lsn'.armed = lsn.armed
         /\ lsn'.closing = lsn.closing /\ lsn'.request = lsn.request
<1>1. LsnTypeOK'
  <2>1. CASE e = TRUE
    BY <2>1 DEF LsnTypeOK, Handing
  <2>2. CASE e = FALSE
    BY <2>2 DEF LsnTypeOK, Handing
  <2>3. QED
    BY <2>1, <2>2
<1>2. QED
  BY <1>1 DEF LsnTypeOK, Handing

LEMMA StepAcceptFails ==
  ASSUME AcceptorInv, AcceptFails, UNCHANGED link
  PROVE  AcceptorInv'
<1>1. PICK e \in BOOLEAN : Handing(e) /\ lsn.place = "accept"
  BY DEF AcceptFails
<1>2. /\ LsnTypeOK'
      /\ lsn'.oper = NoSession /\ lsn'.client = lsn.oper /\ lsn'.place = "handle"
      /\ lsn'.error = e /\ lsn'.fd = lsn.fd /\ lsn'.posted = lsn.posted
      /\ lsn'.bound = lsn.bound /\ lsn'.armed = lsn.armed
      /\ lsn'.closing = lsn.closing /\ lsn'.request = lsn.request
  BY <1>1, HandingOver DEF AcceptorInv, AcceptorTypeOK
<1>3. ListenerInv'
  <2>1. session' = session
    BY DEF AcceptFails
  <2>2. QED
    BY <1>1, <1>2, <2>1 DEF AcceptorInv, ListenerInv
<1>4. faults' \in 0..MaxFaults
  <2>1. faults \in 0..MaxFaults /\ MaxFaults \in Nat
    BY AcceptorAssumption DEF AcceptorInv, AcceptorTypeOK
  <2>2. faults' = faults \/ (faults < MaxFaults /\ faults' = faults + 1)
    BY DEF AcceptFails
  <2>3. QED
    BY <2>1, <2>2
<1>5. up' \in BOOLEAN /\ UNCHANGED <<waiting, session>>
  BY DEF AcceptorInv, AcceptorTypeOK, AcceptFails
<1>6. QED
  BY <1>2, <1>3, <1>4, <1>5, QuietStep

\* A step that only makes a session, or none, moves no connection.
LEMMA MadeSession ==
  ASSUME AcceptorInv, NewSession \in Sessions, session[NewSession].state = "none",
         session' = Made(NewSession)
  PROVE  /\ session' \in [Sessions -> [peer : {NoPeer} \cup Peers,
                                       state : {"none", "new", "started"}]]
         /\ session'[NewSession] = [peer |-> NoPeer, state |-> "new"]
         /\ \A s \in Sessions : session'[s].peer = session[s].peer
         /\ \A s \in Sessions \ {NewSession} : session'[s] = session[s]
<1>1. session \in [Sessions -> [peer : {NoPeer} \cup Peers,
                                state : {"none", "new", "started"}]]
  BY DEF AcceptorInv, AcceptorTypeOK
<1>2. session[NewSession].peer = NoPeer
  BY DEF AcceptorInv, ListenerInv
<1> DEFINE new == [session[NewSession] EXCEPT !.state = "new"]
<1>3. session' = [session EXCEPT ![NewSession] = new]
  BY <1>1 DEF Made
<1>4. new = [peer |-> NoPeer, state |-> "new"]
  BY <1>1, <1>2
<1> HIDE DEF new
<1>5. session'[NewSession] = new /\ \A s \in Sessions \ {NewSession} : session'[s] = session[s]
  BY <1>1, <1>3
<1>6. QED
  BY <1>1, <1>2, <1>3, <1>4, <1>5

LEMMA StepListenOne ==
  ASSUME AcceptorInv, ListenOne, UNCHANGED link
  PROVE  AcceptorInv'
<1>1. /\ lsn.fd = "made" /\ lsn.place = "idle" /\ lsn.oper = NoSession
      /\ ~lsn.armed /\ ~lsn.bound /\ ~lsn.closing /\ ~lsn.request
  BY DEF AcceptorInv, ListenerInv, ListenOne, AcceptorTypeOK, LsnTypeOK
<1>2. NewSession \in Sessions /\ session[NewSession].state = "none"
  <2>1. \A s \in Sessions : session[s].state # "new"
    BY <1>1, AcceptorAssumption DEF AcceptorInv, ListenerInv
  <2>2. \A s \in Sessions : session[s].state = "started" => session[s].peer # NoPeer
    BY DEF AcceptorInv, ListenerInv
  <2>3. QED
    BY <2>1, <2>2, SomeUnused DEF AcceptorInv
<1> DEFINE l == AsyncAccept([lsn EXCEPT !.fd = "open"], NewSession, FALSE)
<1>3. CASE up
  <2>1. l = [lsn EXCEPT !.fd = "open", !.armed = TRUE, !.posted = TRUE, !.bound = TRUE,
                        !.oper = NewSession]
    BY <1>1, <1>3 DEF AsyncAccept, AcceptorInv, AcceptorTypeOK, LsnTypeOK
  <2>2. lsn' = l /\ session' = Made(NewSession)
    <3>1. l.posted
      BY <2>1 DEF AcceptorInv, AcceptorTypeOK, LsnTypeOK
    <3>2. QED
      BY <3>1 DEF ListenOne
  <2> HIDE DEF l
  <2>3. LsnTypeOK'
    BY <1>2, <2>1, <2>2 DEF AcceptorInv, AcceptorTypeOK, LsnTypeOK
  <2>4. /\ lsn'.fd = "open" /\ lsn'.armed /\ lsn'.posted /\ lsn'.bound
        /\ lsn'.oper = NewSession /\ lsn'.place = "idle" /\ ~lsn'.closing /\ ~lsn'.request
    BY <1>1, <2>1, <2>2 DEF AcceptorInv, AcceptorTypeOK, LsnTypeOK
  <2>5. ListenerInv'
    BY <1>1, <1>2, <2>2, <2>4, MadeSession, AcceptorAssumption DEF AcceptorInv, ListenerInv
  <2>6. PlacedInv'
    BY <1>2, <2>2, MadeSession, PlacedStays DEF AcceptorInv, ListenOne, LinksMove
  <2>7. AcceptorTypeOK'
    BY <1>2, <2>2, <2>3, MadeSession DEF AcceptorInv, AcceptorTypeOK, ListenOne
  <2>8. QED
    BY <2>5, <2>6, <2>7 DEF AcceptorInv
<1>4. CASE ~up
  <2>1. l = [lsn EXCEPT !.fd = "open", !.armed = FALSE, !.posted = FALSE, !.bound = FALSE,
                        !.oper = NoSession]
    BY <1>1, <1>4 DEF AsyncAccept, AcceptorInv, AcceptorTypeOK, LsnTypeOK
  <2>2. /\ session' = session
        /\ lsn' = [l EXCEPT !.closing = TRUE, !.request = FALSE]
    <3>1. ~l.posted /\ l.fd = "open" /\ ~l.closing
      BY <1>1, <2>1 DEF AcceptorInv, AcceptorTypeOK, LsnTypeOK
    <3>2. QED
      BY <3>1 DEF ListenOne, Destroyed
  <2> HIDE DEF l
  <2>3. LsnTypeOK'
    BY <2>1, <2>2 DEF AcceptorInv, AcceptorTypeOK, LsnTypeOK
  <2>4. /\ lsn'.fd = "open" /\ ~lsn'.armed /\ lsn'.oper = NoSession /\ lsn'.place = "idle"
        /\ ~lsn'.posted
    BY <1>1, <2>1, <2>2 DEF AcceptorInv, AcceptorTypeOK, LsnTypeOK
  <2>5. ListenerInv'
    BY <1>1, <2>2, <2>4, AcceptorAssumption DEF AcceptorInv, ListenerInv
  <2>6. QED
    BY <2>2, <2>3, <2>5, QuietStep DEF AcceptorInv, AcceptorTypeOK, ListenOne
<1>5. QED
  BY <1>3, <1>4

LEMMA StepPostNext ==
  ASSUME AcceptorInv, PostNext, UNCHANGED link
  PROVE  AcceptorInv'
<1>1. /\ lsn.fd = "open" /\ lsn.place = "post" /\ lsn.oper = NoSession
      /\ lsn.armed /\ lsn.bound /\ ~lsn.closing /\ ~lsn.request
  BY DEF AcceptorInv, ListenerInv, PostNext, AcceptorTypeOK, LsnTypeOK
<1>2. NewSession \in Sessions /\ session[NewSession].state = "none"
  <2>1. \A s \in Sessions : session[s].state # "new"
    BY <1>1, AcceptorAssumption DEF AcceptorInv, ListenerInv
  <2>2. \A s \in Sessions : session[s].state = "started" => session[s].peer # NoPeer
    BY DEF AcceptorInv, ListenerInv
  <2>3. QED
    BY <2>1, <2>2, SomeUnused DEF AcceptorInv
<1> DEFINE p == [lsn EXCEPT !.place = "idle", !.client = NoSession]
           l == [AsyncAccept(p, NewSession, lsn.error) EXCEPT !.error = FALSE]
<1>3. CASE ~lsn.error
  <2>1. l = [lsn EXCEPT !.place = "idle", !.client = NoSession, !.posted = TRUE,
                        !.oper = NewSession, !.error = FALSE]
    BY <1>1, <1>3 DEF AsyncAccept, AcceptorInv, AcceptorTypeOK, LsnTypeOK
  <2>2. lsn' = l /\ session' = Made(NewSession)
    <3>1. l.posted
      BY <2>1 DEF AcceptorInv, AcceptorTypeOK, LsnTypeOK
    <3>2. QED
      BY <3>1 DEF PostNext
  <2> HIDE DEF l
  <2>3. LsnTypeOK'
    BY <1>2, <2>1, <2>2 DEF AcceptorInv, AcceptorTypeOK, LsnTypeOK
  <2>4. /\ lsn'.fd = "open" /\ lsn'.armed /\ lsn'.posted /\ lsn'.bound
        /\ lsn'.oper = NewSession /\ lsn'.place = "idle" /\ ~lsn'.closing /\ ~lsn'.request
    BY <1>1, <2>1, <2>2 DEF AcceptorInv, AcceptorTypeOK, LsnTypeOK
  <2>5. ListenerInv'
    BY <1>1, <1>2, <2>2, <2>4, MadeSession, AcceptorAssumption DEF AcceptorInv, ListenerInv
  <2>6. PlacedInv'
    BY <1>2, <2>2, MadeSession, PlacedStays DEF AcceptorInv, PostNext, LinksMove
  <2>7. AcceptorTypeOK'
    BY <1>2, <2>2, <2>3, MadeSession DEF AcceptorInv, AcceptorTypeOK, PostNext
  <2>8. QED
    BY <2>5, <2>6, <2>7 DEF AcceptorInv
<1>4. CASE lsn.error
  <2>1. l = [lsn EXCEPT !.place = "idle", !.client = NoSession, !.posted = FALSE, !.bound = FALSE,
                        !.oper = NoSession, !.error = FALSE]
    BY <1>1, <1>4 DEF AsyncAccept, AcceptorInv, AcceptorTypeOK, LsnTypeOK
  <2>2. /\ session' = session
        /\ lsn' = [l EXCEPT !.closing = TRUE, !.request = TRUE]
    <3>1. ~l.posted /\ l.fd = "open" /\ ~l.closing
      BY <1>1, <2>1 DEF AcceptorInv, AcceptorTypeOK, LsnTypeOK
    <3>2. QED
      BY <3>1 DEF PostNext, Destroyed
  <2> HIDE DEF l
  <2>3. LsnTypeOK'
    BY <2>1, <2>2 DEF AcceptorInv, AcceptorTypeOK, LsnTypeOK
  <2>4. /\ lsn'.fd = "open" /\ lsn'.request /\ lsn'.oper = NoSession /\ lsn'.place = "idle"
        /\ ~lsn'.posted
    BY <1>1, <2>1, <2>2 DEF AcceptorInv, AcceptorTypeOK, LsnTypeOK
  <2>5. ListenerInv'
    BY <1>1, <2>2, <2>4, AcceptorAssumption DEF AcceptorInv, ListenerInv
  <2>6. QED
    BY <2>2, <2>3, <2>5, QuietStep DEF AcceptorInv, AcceptorTypeOK, PostNext
<1>5. QED
  BY <1>3, <1>4

\* _DoClose of the listener: those who waited are reset.
LEMMA StepCloseListening ==
  ASSUME AcceptorInv, CloseListening
  PROVE  AcceptorInv' /\ \A d \in Dials : link'[d] \in {link[d], "reset"}
<1>1. LsnTypeOK' /\ ListenerInv'
  BY AcceptorAssumption DEF AcceptorInv, AcceptorTypeOK, LsnTypeOK, ListenerInv, CloseListening, CloseListener
<1>2. AcceptorTypeOK'
  BY <1>1 DEF AcceptorInv, AcceptorTypeOK, CloseListening, CloseListener
<1>3. \A d \in Dials : link'[d] = IF d \in ToSet(waiting) THEN "reset" ELSE link[d]
  BY DEF CloseListening
<1>4. waiting \in Seq(Dials) /\ waiting' = <<>> /\ session' = session
  BY BacklogAssumption DEF AcceptorInv, AcceptorTypeOK, CloseListening, CloseListener
<1>5. \A d \in Dials : link'[d] = "up" => ~Queued(d)
  BY <1>3, <1>4 DEF Queued, ToSet
<1>6. Len(waiting') = 0
  BY <1>4
<1>7. PlacedInv'
  <2>1. \A d \in Dials : ~Queued(d)'
    BY <1>6 DEF Queued
  <2>2. \A i, j \in 1..Len(waiting') : waiting'[i] = waiting'[j] => i = j
    BY <1>6
  <2>3. \A s \in Sessions : session'[s].peer = session[s].peer
    BY <1>4
  <2>4. \A d \in Dials : link'[d] = link[d] \/ link'[d] = "reset"
    BY <1>3
  <2>5. QED
    BY <1>5, <2>1, <2>2, <2>3, <2>4, PlacedShrinks DEF AcceptorInv
<1>8. QED
  BY <1>1, <1>2, <1>3, <1>7 DEF AcceptorInv

\* accept() hands the oldest connection over: it leaves the queue for the
\* session the operation names.
LEMMA StepTakeConnection ==
  ASSUME AcceptorInv, TakeConnection, UNCHANGED link
  PROVE  AcceptorInv'
<1> DEFINE o == lsn.oper
           h == Head(waiting)
<1>1. /\ o \in Sessions /\ session[o] = [peer |-> NoPeer, state |-> "new"]
      /\ lsn.place = "accept"
  BY DEF AcceptorInv, AcceptorTypeOK, LsnTypeOK, ListenerInv, TakeConnection
<1>2. /\ lsn.armed /\ ~lsn.request
      /\ lsn.fd = "open" /\ lsn.bound /\ ~lsn.closing
  BY <1>1 DEF AcceptorInv, ListenerInv
<1>3. /\ LsnTypeOK'
      /\ lsn'.oper = NoSession /\ lsn'.client = o /\ lsn'.place = "handle"
      /\ lsn'.error = FALSE /\ lsn'.fd = lsn.fd /\ lsn'.posted = lsn.posted
      /\ lsn'.bound = lsn.bound /\ lsn'.armed = lsn.armed
      /\ lsn'.closing = lsn.closing /\ lsn'.request = lsn.request
  BY HandingOver DEF AcceptorInv, AcceptorTypeOK, TakeConnection
<1>4. waiting \in Seq(Dials) /\ waiting # <<>>
  BY BacklogAssumption DEF AcceptorInv, AcceptorTypeOK, TakeConnection
<1>5. /\ h \in Dials /\ waiting' \in Seq(Dials) /\ Len(waiting') = Len(waiting) - 1
      /\ \A i \in 1..Len(waiting') : waiting'[i] = waiting[i + 1]
  BY <1>4, HeadTailProperties DEF TakeConnection
<1>6. Len(waiting) \in Nat \ {0} /\ h = waiting[1]
  BY <1>4, EmptySeq
<1>7. /\ session' \in [Sessions -> [peer : {NoPeer} \cup Peers, state : {"none", "new", "started"}]]
      /\ session'[o] = [peer |-> h, state |-> "new"]
      /\ \A s \in Sessions \ {o} : session'[s] = session[s]
  <2>1. session' = [session EXCEPT ![o].peer = h]
    BY DEF TakeConnection
  <2> HIDE DEF o, h
  <2>2. QED
    BY <1>1, <1>5, <2>1, BacklogAssumption DEF AcceptorInv, AcceptorTypeOK
<1> HIDE DEF o, h
<1>8. AcceptorTypeOK'
  BY <1>3, <1>5, <1>7, BacklogAssumption DEF AcceptorInv, AcceptorTypeOK, TakeConnection
<1>9. ListenerInv'
  <2>1. h # NoPeer
    BY <1>5, AcceptorAssumption, BacklogAssumption
  <2>2. o # NoSession
    BY <1>1, AcceptorAssumption
  <2>3. \A s \in Sessions \ {o} : session[s].state # "new"
    BY <1>1 DEF AcceptorInv, ListenerInv, o
  <2>4. \A s \in Sessions :
          /\ session'[s].state = "new" => s = o
          /\ session'[s].state = "none" => session'[s].peer = NoPeer
          /\ session'[s].state = "started" => session'[s].peer # NoPeer
    BY <1>7, <2>3 DEF AcceptorInv, ListenerInv
  <2>5. QED
    BY <1>1, <1>2, <1>3, <1>7, <2>1, <2>2, <2>4 DEF ListenerInv
<1>10. PlacedInv'
  <2>1. Queued(h) /\ ~Served(h)
    <3>1. Queued(h)
      BY <1>6 DEF Queued
    <3>2. QED
      BY <1>5, <3>1 DEF AcceptorInv, PlacedInv
  <2>2. \A i, j \in 1..Len(waiting') : waiting'[i] = waiting'[j] => i = j
    <3>1. TAKE i, j \in 1..Len(waiting')
    <3>2. HAVE waiting'[i] = waiting'[j]
    <3>3. i + 1 \in 1..Len(waiting) /\ j + 1 \in 1..Len(waiting)
      BY <1>5, <1>6
    <3>4. i + 1 = j + 1
      BY <1>5, <3>2, <3>3 DEF AcceptorInv, PlacedInv
    <3>5. QED
      BY <3>4
  <2>3. \A d \in Dials : Queued(d)' <=> Queued(d) /\ d # h
    <3>1. TAKE d \in Dials
    <3>2. ASSUME Queued(d)' PROVE Queued(d) /\ d # h
      <4>1. PICK i \in 1..Len(waiting') : waiting'[i] = d
        BY <3>2 DEF Queued
      <4>2. i + 1 \in 1..Len(waiting) /\ 1 \in 1..Len(waiting) /\ i + 1 # 1 /\ waiting[i + 1] = d
        BY <1>5, <1>6, <4>1
      <4>3. QED
        BY <1>6, <4>2 DEF Queued, AcceptorInv, PlacedInv
    <3>3. ASSUME Queued(d), d # h PROVE Queued(d)'
      <4>1. PICK i \in 1..Len(waiting) : waiting[i] = d
        BY <3>3 DEF Queued
      <4>2. i # 1
        BY <1>6, <3>3, <4>1
      <4>3. i - 1 \in 1..Len(waiting') /\ (i - 1) + 1 = i
        BY <1>5, <1>6, <4>2
      <4>4. waiting'[i - 1] = d
        BY <1>5, <4>1, <4>3
      <4>5. QED
        BY <4>3, <4>4 DEF Queued
    <3>4. QED
      BY <3>2, <3>3
  <2>4. \A s, t \in Sessions :
          session'[s].peer = session'[t].peer /\ session'[s].peer # NoPeer => s = t
    BY <1>1, <1>7, <1>5, <2>1 DEF AcceptorInv, PlacedInv, Served
  <2>5. \A d \in Dials : Served(d)' <=> Served(d) \/ d = h
    <3>1. NoPeer \notin Dials
      BY AcceptorAssumption, BacklogAssumption
    <3>2. QED
      BY <1>1, <1>7, <3>1 DEF Served
  <2>6. link' = link
    OBVIOUS
  <2>7. \A d \in Dials :
          /\ ~(Queued(d)' /\ Served(d)')
          /\ Queued(d)' \/ Served(d)' => link'[d] \in {"up", "reset"}
          /\ link'[d] = "up" => Queued(d)' \/ Served(d)'
    BY <2>1, <2>3, <2>5, <2>6 DEF AcceptorInv, PlacedInv
  <2>8. QED
    BY <2>2, <2>4, <2>7 DEF PlacedInv
<1>11. QED
  BY <1>8, <1>9, <1>10 DEF AcceptorInv

\* The handler starts the session when its connection stands; else the
\* session goes.
LEMMA StepAcceptHandler ==
  ASSUME AcceptorInv, AcceptHandler(Alive), UNCHANGED link
  PROVE  AcceptorInv'
<1> DEFINE c == lsn.client
           old == session[c]
<1>1. /\ lsn.place = "handle" /\ c \in Sessions /\ old.state = "new"
      /\ lsn.oper = NoSession /\ lsn.armed /\ ~lsn.request
      /\ lsn.error => old.peer = NoPeer
  BY DEF AcceptorInv, AcceptorTypeOK, LsnTypeOK, ListenerInv, AcceptHandler
<1>2. LsnTypeOK'
  BY DEF AcceptorInv, AcceptorTypeOK, LsnTypeOK, AcceptHandler
<1>3. /\ lsn'.place = "post" /\ lsn'.oper = lsn.oper /\ lsn'.fd = lsn.fd
      /\ lsn'.armed = lsn.armed /\ lsn'.bound = lsn.bound /\ lsn'.closing = lsn.closing
      /\ lsn'.request = lsn.request
  BY DEF AcceptorInv, AcceptorTypeOK, LsnTypeOK, AcceptHandler
<1> DEFINE starts == ~lsn.error /\ old.peer \in Alive
<1> HIDE DEF c
<1>4. session' = [session EXCEPT ![c] = IF starts THEN [old EXCEPT !.state = "started"] ELSE NoObject]
  BY DEF AcceptHandler, c
<1>5. session \in [Sessions -> [peer : {NoPeer} \cup Peers, state : {"none", "new", "started"}]]
  BY DEF AcceptorInv, AcceptorTypeOK
<1>6. old \in [peer : {NoPeer} \cup Peers, state : {"none", "new", "started"}]
  BY <1>1, <1>5
<1> HIDE DEF old
<1>7. /\ session' \in [Sessions -> [peer : {NoPeer} \cup Peers, state : {"none", "new", "started"}]]
      /\ session'[c].peer = IF starts THEN old.peer ELSE NoPeer
      /\ session'[c].state = IF starts THEN "started" ELSE "none"
      /\ \A s \in Sessions \ {c} : session'[s] = session[s]
  BY <1>1, <1>4, <1>5, <1>6 DEF NoObject
<1>8. starts => old.peer \in Dials /\ old.peer # NoPeer
  BY AcceptorAssumption, BacklogAssumption DEF Alive
<1>9. AcceptorTypeOK'
  BY <1>2, <1>7 DEF AcceptorInv, AcceptorTypeOK, AcceptHandler
<1>10. ListenerInv'
  <2>1. \A s \in Sessions \ {c} : session[s].state # "new"
    BY <1>1, AcceptorAssumption DEF AcceptorInv, ListenerInv, c
  <2>2. \A s \in Sessions :
          /\ session'[s].state # "new"
          /\ session'[s].state = "none" => session'[s].peer = NoPeer
          /\ session'[s].state = "started" => session'[s].peer # NoPeer
    BY <1>7, <1>8, <2>1 DEF AcceptorInv, ListenerInv
  <2>3. QED
    BY <1>1, <1>3, <2>2 DEF AcceptorInv, ListenerInv
<1>11. PlacedInv'
  <2>1. waiting' = waiting /\ link' = link
    BY DEF AcceptHandler
  <2>2. \A s \in Sessions : session'[s].peer \in {session[s].peer, NoPeer}
    BY <1>7 DEF old
  <2>3. ASSUME NEW d \in Dials, link[d] = "up", NEW s \in Sessions, session[s].peer = d
        PROVE  session'[s].peer = d
    <3>1. d # NoPeer /\ d \in Alive
      BY <2>3, AcceptorAssumption, BacklogAssumption DEF Alive
    <3>2. CASE s = c
      <4>1. starts
        BY <1>1, <2>3, <3>1, <3>2 DEF old
      <4>2. QED
        BY <1>7, <2>3, <3>2, <4>1 DEF old
    <3>3. CASE s # c
      BY <1>7, <2>3, <3>3
    <3>4. QED
      BY <3>2, <3>3
  <2>4. \A d \in Dials : Queued(d)' <=> Queued(d)
    BY <2>1 DEF Queued
  <2>5. \A i, j \in 1..Len(waiting') : waiting'[i] = waiting'[j] => i = j
    BY <2>1 DEF AcceptorInv, PlacedInv
  <2>6. QED
    BY <2>1, <2>2, <2>3, <2>4, <2>5, PlacedShrinks DEF AcceptorInv
<1>12. QED
  BY <1>9, <1>10, <1>11 DEF AcceptorInv

-----------------------------------------------------------------------------
(* The kernel.                                                             *)

\* A connector has no connection before it is opened; else nothing that is
\* said of it depends on its connection.
LEMMA LinkChanges ==
  ASSUME DialTypeOK, \A e \in Dials : ConnectorInv(dial[e], told[e], link[e]),
         NEW d \in Dials, NEW l \in Links, link[d] # "none",
         link' = [link EXCEPT ![d] = l], UNCHANGED <<dial, told>>
  PROVE  DialTypeOK' /\ \A e \in Dials : ConnectorInv(dial'[e], told'[e], link'[e])
<1>1. DialTypeOK'
  BY DEF DialTypeOK, Links
<1>2. link'[d] = l /\ \A e \in Dials \ {d} : link'[e] = link[e]
  BY DEF DialTypeOK
<1>3. ASSUME NEW e \in Dials PROVE ConnectorInv(dial[e], told[e], link'[e])
  <2>1. ConnectorInv(dial[e], told[e], link[e])
    OBVIOUS
  <2>2. CASE e = d
    BY <2>1, <2>2 DEF ConnectorInv
  <2>3. CASE e # d
    BY <1>2, <2>1, <2>3
  <2>4. QED
    BY <2>2, <2>3
<1>4. QED
  BY <1>1, <1>3

\* The kernel makes a connection and queues it.
LEMMA StepEstablishes ==
  ASSUME AcceptorInv, DialTypeOK, NEW d \in Dials, Establishes(d)
  PROVE  AcceptorInv'
<1>1. waiting \in Seq(Dials) /\ Len(waiting) \in Nat
  BY BacklogAssumption DEF AcceptorInv, AcceptorTypeOK
<1> DEFINE n == Len(waiting)
<1>2. /\ waiting' \in Seq(Dials) /\ Len(waiting') = n + 1
      /\ \A i \in 1..n : waiting'[i] = waiting[i]
      /\ waiting'[n + 1] = d
  BY <1>1, AppendProperties DEF Establishes
<1>3. ~Queued(d) /\ ~Served(d)
  BY DEF AcceptorInv, PlacedInv, Establishes
<1>4. AcceptorTypeOK'
  BY <1>2, BacklogAssumption DEF AcceptorInv, AcceptorTypeOK, LsnTypeOK, Establishes
<1>5. ListenerInv'
  BY DEF AcceptorInv, ListenerInv, Establishes
<1>6. /\ link'[d] = "up" /\ \A e \in Dials \ {d} : link'[e] = link[e]
      /\ session' = session
  BY DEF DialTypeOK, Establishes
<1>7. \A e \in Dials : Queued(e)' <=> Queued(e) \/ e = d
  <2>1. TAKE e \in Dials
  <2>2. ASSUME Queued(e)' PROVE Queued(e) \/ e = d
    <3>1. PICK i \in 1..n + 1 : waiting'[i] = e
      BY <1>2, <2>2 DEF Queued
    <3>2. CASE i = n + 1
      BY <1>2, <3>1, <3>2
    <3>3. CASE i # n + 1
      BY <1>1, <1>2, <3>1, <3>3 DEF Queued
    <3>4. QED
      BY <3>2, <3>3
  <2>3. ASSUME Queued(e) PROVE Queued(e)'
    <3>1. PICK i \in 1..n : waiting[i] = e
      BY <2>3 DEF Queued
    <3>2. i \in 1..Len(waiting') /\ waiting'[i] = e
      BY <1>1, <1>2, <3>1
    <3>3. QED
      BY <3>2 DEF Queued
  <2>4. Queued(d)'
    BY <1>1, <1>2 DEF Queued
  <2>5. QED
    BY <2>2, <2>3, <2>4
<1>8. \A e \in Dials : Served(e)' <=> Served(e)
  BY <1>6 DEF Served
<1>9. \A i, j \in 1..Len(waiting') : waiting'[i] = waiting'[j] => i = j
  <2>1. \A i \in 1..n : waiting[i] # d
    BY <1>3 DEF Queued
  <2>2. \A i, j \in 1..n : waiting[i] = waiting[j] => i = j
    BY DEF AcceptorInv, PlacedInv
  <2>3. \A i \in 1..Len(waiting') : i \in 1..n \/ i = n + 1
    BY <1>1, <1>2
  <2>4. QED
    BY <1>2, <2>1, <2>2, <2>3
<1>10. \A s, t \in Sessions :
         session'[s].peer = session'[t].peer /\ session'[s].peer # NoPeer => s = t
  BY <1>6 DEF AcceptorInv, PlacedInv
<1>11. \A e \in Dials :
         /\ ~(Queued(e)' /\ Served(e)')
         /\ Queued(e)' \/ Served(e)' => link'[e] \in {"up", "reset"}
         /\ link'[e] = "up" => Queued(e)' \/ Served(e)'
  BY <1>3, <1>6, <1>7, <1>8 DEF AcceptorInv, PlacedInv
<1>12. PlacedInv'
  BY <1>9, <1>10, <1>11 DEF PlacedInv
<1>13. QED
  BY <1>4, <1>5, <1>12 DEF AcceptorInv

\* A connection breaks: it may leave the queue, and its session goes.
LEMMA StepBreaks ==
  ASSUME AcceptorInv, DialTypeOK, NEW d \in Dials, Breaks(d)
  PROVE  AcceptorInv'
<1>1. waiting \in Seq(Dials) /\ Len(waiting) \in Nat
  BY BacklogAssumption DEF AcceptorInv, AcceptorTypeOK
<1>2. /\ waiting' \in Seq(Dials)
      /\ \A i, j \in 1..Len(waiting') : waiting'[i] = waiting'[j] => i = j
      /\ \A e \in Dials : Queued(e)' => Queued(e)
      /\ \A e \in Dials \ {d} : Queued(e) => Queued(e)'
  <2>1. \A i, j \in 1..Len(waiting) : waiting[i] = waiting[j] => i = j
    BY DEF AcceptorInv, PlacedInv
  <2>2. CASE waiting' = waiting
    BY <1>1, <2>1, <2>2 DEF Queued
  <2>3. ASSUME NEW i \in 1..Len(waiting), waiting[i] = d, waiting' = RemoveAt(waiting, i)
        PROVE  /\ waiting' \in Seq(Dials)
               /\ \A p, q \in 1..Len(waiting') : waiting'[p] = waiting'[q] => p = q
               /\ \A e \in Dials : Queued(e)' => Queued(e)
               /\ \A e \in Dials \ {d} : Queued(e) => Queued(e)'
    <3>1. /\ waiting' \in Seq(Dials) /\ Len(waiting') = Len(waiting) - 1
          /\ \A j \in 1..Len(waiting) - 1 : waiting'[j] = IF j < i THEN waiting[j] ELSE waiting[j + 1]
      BY <1>1, <2>3, RemoveAtProperties
    <3> DEFINE old(j) == IF j < i THEN j ELSE j + 1
    <3>2. \A j \in 1..Len(waiting') : old(j) \in 1..Len(waiting) /\ waiting'[j] = waiting[old(j)]
      BY <1>1, <3>1
    <3>3. \A j, k \in 1..Len(waiting') : old(j) = old(k) => j = k
      BY <1>1, <3>1
    <3>4. \A j \in 1..Len(waiting) \ {i} : \E k \in 1..Len(waiting') : old(k) = j
      <4>1. TAKE j \in 1..Len(waiting) \ {i}
      <4>2. CASE j < i
        BY <1>1, <3>1, <4>2
      <4>3. CASE j > i
        <5>1. j - 1 \in 1..Len(waiting') /\ old(j - 1) = j
          BY <1>1, <3>1, <4>3
        <5>2. QED
          BY <5>1
      <4>4. QED
        BY <4>2, <4>3
    <3> HIDE DEF old
    <3>5. \A j, k \in 1..Len(waiting') : waiting'[j] = waiting'[k] => j = k
      BY <2>1, <3>2, <3>3
    <3>6. \A e \in Dials : Queued(e)' => Queued(e)
      BY <3>2 DEF Queued
    <3>7. \A e \in Dials \ {d} : Queued(e) => Queued(e)'
      BY <2>3, <3>2, <3>4 DEF Queued
    <3>8. QED
      BY <3>1, <3>5, <3>6, <3>7
  <2>4. QED
    BY <2>2, <2>3 DEF Breaks
<1>3. \A s \in Sessions : session'[s] = IF session[s] = [peer |-> d, state |-> "started"]
                                          THEN NoObject ELSE session[s]
  BY DEF Breaks
<1>4. session' \in [Sessions -> [peer : {NoPeer} \cup Peers, state : {"none", "new", "started"}]]
  BY DEF AcceptorInv, AcceptorTypeOK, Breaks, NoObject
<1>5. AcceptorTypeOK'
  BY <1>2, <1>4, BacklogAssumption DEF AcceptorInv, AcceptorTypeOK, LsnTypeOK, Breaks
<1>6. ListenerInv'
  <2>1. \A s \in Sessions : session[s].state = "new" => session'[s] = session[s]
    BY <1>3
  <2>2. \A s \in Sessions :
          /\ session'[s].state = "new" => session[s].state = "new"
          /\ session'[s].state = "none" => session'[s].peer = NoPeer
          /\ session'[s].state = "started" => session'[s].peer # NoPeer
    BY <1>3 DEF NoObject, AcceptorInv, ListenerInv
  <2>3. lsn' = lsn /\ lsn.oper \in {NoSession} \cup Sessions /\ lsn.client \in {NoSession} \cup Sessions
    BY DEF Breaks, AcceptorInv, AcceptorTypeOK, LsnTypeOK
  <2>4. QED
    BY <2>1, <2>2, <2>3 DEF AcceptorInv, ListenerInv
<1>7. link'[d] = "reset" /\ \A e \in Dials \ {d} : link'[e] = link[e]
  BY DEF DialTypeOK, Breaks
<1>8. \A s \in Sessions :
        /\ session'[s].peer \in {session[s].peer, NoPeer}
        /\ session[s].peer # d => session'[s].peer = session[s].peer
  BY <1>3 DEF NoObject
<1>9. PlacedInv'
  BY <1>2, <1>7, <1>8, PlacedShrinks DEF AcceptorInv
<1>10. QED
  BY <1>5, <1>6, <1>9 DEF AcceptorInv

-----------------------------------------------------------------------------
(* The invariant.                                                          *)

LEMMA InitInv == Init => EstablishInv
<1> SUFFICES ASSUME Init PROVE EstablishInv
  OBVIOUS
<1> USE DEF Init, AcceptorInit, ConnectorInit
<1>1. AcceptorTypeOK
  <2>1. up \in BOOLEAN /\ LsnTypeOK
    BY DEF LsnTypeOK
  <2>2. waiting \in Seq(Peers)
    BY EmptySeq
  <2>3. session \in [Sessions -> [peer : {NoPeer} \cup Peers, state : {"none", "new", "started"}]]
    BY DEF NoObject
  <2>4. faults \in 0..MaxFaults
    BY AcceptorAssumption
  <2>5. QED
    BY <2>1, <2>2, <2>3, <2>4 DEF AcceptorTypeOK
<1>2. DialTypeOK
  BY DEF DialTypeOK, ConnectorType, NewConnector, Flags
<1>3. ListenerInv
  BY AcceptorAssumption DEF ListenerInv, NoObject
<1>4. PlacedInv
  <2>1. Len(waiting) = 0
    OBVIOUS
  <2>2. \A s \in Sessions : session[s].peer = NoPeer
    BY DEF NoObject
  <2>3. \A d \in Dials : ~Queued(d) /\ ~Served(d) /\ link[d] = "none"
    BY <2>1, <2>2, AcceptorAssumption, BacklogAssumption DEF Queued, Served
  <2>4. \A i, j \in 1..Len(waiting) : waiting[i] = waiting[j] => i = j
    BY <2>1
  <2>5. QED
    BY <2>2, <2>3, <2>4 DEF PlacedInv
<1>5. \A d \in Dials : ConnectorInv(dial[d], told[d], link[d])
  <2>1. TAKE d \in Dials
  <2>2. dial[d] = NewConnector /\ told[d] = <<>> /\ link[d] = "none"
    OBVIOUS
  <2>3. QED
    BY <2>2 DEF ConnectorInv, NewConnector, InOrder, Closing
<1>6. QED
  BY <1>1, <1>2, <1>3, <1>4, <1>5 DEF EstablishInv, TypeOK

LEMMA NextInv == EstablishInv /\ [Next]_vars => EstablishInv'
<1> SUFFICES ASSUME EstablishInv, [Next]_vars PROVE EstablishInv'
  OBVIOUS
<1>1. /\ AcceptorInv /\ DialTypeOK
      /\ \A d \in Dials : ConnectorInv(dial[d], told[d], link[d])
  BY DEF EstablishInv, TypeOK, AcceptorInv
<1>2. SUFFICES /\ AcceptorInv' /\ DialTypeOK'
               /\ \A d \in Dials : ConnectorInv(dial'[d], told'[d], link'[d])
  BY DEF EstablishInv, TypeOK, AcceptorInv
\* What is said of the connectors stays when nothing of theirs changes.
<1>3. ASSUME UNCHANGED connectorVars
      PROVE  DialTypeOK' /\ \A d \in Dials : ConnectorInv(dial'[d], told'[d], link'[d])
  BY <1>1, <1>3 DEF connectorVars, DialTypeOK
<1>4. CASE (StartService \/ OpenListener \/ ListenFails \/ ListenOne) /\ UNCHANGED connectorVars
  <2>1. UNCHANGED link
    BY <1>4 DEF connectorVars
  <2>2. AcceptorInv'
    BY <1>1, <1>4, <2>1, StepStartService, StepOpenListener, StepListenOne
  <2>3. QED
    BY <1>3, <1>4, <2>2
<1>5. CASE /\ CompleteAccept \/ TakeConnection \/ AcceptFails \/ AcceptHandlers
           /\ UNCHANGED connectorVars
  <2>1. UNCHANGED link
    BY <1>5 DEF connectorVars
  <2>2. AcceptorInv'
    BY <1>1, <1>5, <2>1, StepCompleteAccept, StepTakeConnection, StepAcceptFails,
       StepAcceptHandler, StepPostNext DEF AcceptHandlers
  <2>3. QED
    BY <1>3, <1>5, <2>2
<1>6. CASE CloseListening
  <2>1. AcceptorInv' /\ \A d \in Dials : link'[d] \in {link[d], "reset"}
    BY <1>1, <1>6, StepCloseListening
  <2>2. UNCHANGED <<dial, told>>
    BY <1>6 DEF CloseListening
  <2>3. \A d \in Dials : link[d] = "none" => link'[d] = "none"
    <3>1. TAKE d \in Dials
    <3>2. HAVE link[d] = "none"
    <3>3. d \notin ToSet(waiting)
      <4>1. ~Queued(d)
        BY <1>1, <3>2 DEF AcceptorInv, PlacedInv
      <4>2. waiting \in Seq(Dials)
        BY <1>1, BacklogAssumption DEF AcceptorInv, AcceptorTypeOK
      <4>3. QED
        BY <4>1, <4>2 DEF Queued, ToSet
    <3>4. QED
      BY <1>6, <3>2, <3>3 DEF CloseListening
  <2>4. DialTypeOK'
    <3>1. link' \in [Dials -> {"none", "trying", "up", "refused", "reset"}]
      BY <1>1, <1>6 DEF DialTypeOK, CloseListening
    <3>2. QED
      BY <1>1, <2>2, <3>1 DEF DialTypeOK
  <2>5. \A d \in Dials : ConnectorInv(dial'[d], told'[d], link'[d])
    BY <1>1, <2>2, <2>3 DEF ConnectorInv
  <2>6. QED
    BY <2>1, <2>4, <2>5
<1>7. CASE \E d \in Dials : DialLoop(d) \/ WaitingCall(d) \/ Calls(d)
  <2>1. PICK d \in Dials : DialLoop(d) \/ WaitingCall(d) \/ Calls(d)
    BY <1>7
  <2>2. up \in BOOLEAN
    BY <1>1 DEF AcceptorInv, AcceptorTypeOK
  <2>3. ConnectorsKept
    BY <1>1, <2>1, <2>2, StepConnector
  <2>4. UNCHANGED acceptorVars
    BY <2>1 DEF DialLoop, WaitingCall, Calls
  <2>5. AcceptorTypeOK' /\ ListenerInv'
    BY <1>1, <2>4 DEF acceptorVars, AcceptorInv, AcceptorTypeOK, LsnTypeOK, ListenerInv
  <2>6. PlacedInv'
    BY <1>1, <2>3, <2>4, PlacedStays DEF acceptorVars, AcceptorInv, ConnectorsKept
  <2>7. QED
    BY <2>3, <2>5, <2>6 DEF ConnectorsKept, AcceptorInv
<1>8. CASE \E d \in Dials : Network(d) \/ Breaks(d)
  <2>1. PICK d \in Dials : Establishes(d) \/ Refuses(d) \/ Breaks(d)
    BY <1>8 DEF Network
  <2>2. PICK l \in Links : l # "none" /\ link[d] # "none" /\ link' = [link EXCEPT ![d] = l]
                           /\ (Refuses(d) => link[d] = "trying" /\ l = "refused")
    BY <2>1 DEF Establishes, Refuses, Breaks, Links
  <2>3. UNCHANGED <<dial, told>>
    BY <2>1 DEF Establishes, Refuses, Breaks
  <2>4. DialTypeOK' /\ \A e \in Dials : ConnectorInv(dial'[e], told'[e], link'[e])
    BY <1>1, <2>2, <2>3, LinkChanges
  <2>5. CASE Refuses(d)
    <3>1. UNCHANGED acceptorVars
      BY <2>5 DEF Refuses
    <3>2. LinksMove
      BY <1>1, <2>2, <2>5 DEF LinksMove, DialTypeOK
    <3>3. AcceptorTypeOK' /\ ListenerInv'
      BY <1>1, <3>1 DEF acceptorVars, AcceptorInv, AcceptorTypeOK, LsnTypeOK, ListenerInv
    <3>4. PlacedInv'
      BY <1>1, <3>1, <3>2, PlacedStays DEF acceptorVars, AcceptorInv
    <3>5. QED
      BY <2>4, <3>3, <3>4 DEF AcceptorInv
  <2>6. CASE Establishes(d) \/ Breaks(d)
    BY <1>1, <2>4, <2>6, StepEstablishes, StepBreaks
  <2>7. QED
    BY <2>1, <2>5, <2>6
<1>9. CASE UNCHANGED vars
  <2>1. UNCHANGED acceptorVars /\ UNCHANGED connectorVars
    BY <1>9 DEF vars
  <2>2. AcceptorTypeOK' /\ ListenerInv'
    BY <1>1, <2>1 DEF acceptorVars, AcceptorInv, AcceptorTypeOK, LsnTypeOK, ListenerInv
  <2>3. PlacedInv'
    BY <1>1, <2>1, PlacedStays DEF acceptorVars, connectorVars, AcceptorInv, LinksMove
  <2>4. QED
    BY <1>3, <2>1, <2>2, <2>3 DEF AcceptorInv
<1>10. QED
  BY <1>4, <1>5, <1>6, <1>7, <1>8, <1>9 DEF Next, AcceptLoop

\* For any number of connectors and sessions EstablishInv holds in every
\* state: the states of the listener between its steps, one place for every
\* connection, and what a connector that ends can still do.
THEOREM EstablishInvariant == Spec => []EstablishInv
<1>1. QED
  BY InitInv, NextInv, PTL DEF Spec

\* Every connection that stands waits once or has exactly one session, for
\* any number of connectors: AcceptOperation::Complete never stores a
\* descriptor where another one is.
THEOREM EstablishOneSessionEach == Spec => []OneSessionEach
<1>1. EstablishInv => OneSessionEach
  <2> SUFFICES ASSUME EstablishInv, NEW d \in Dials, link[d] = "up"
               PROVE  Cardinality({i \in 1..Len(waiting) : waiting[i] = d})
                        + Cardinality(Holders(d)) = 1
    BY DEF OneSessionEach
  <2> DEFINE places == {i \in 1..Len(waiting) : waiting[i] = d}
  <2>1. /\ \A i, j \in 1..Len(waiting) : waiting[i] = waiting[j] => i = j
        /\ \A s, t \in Sessions :
             session[s].peer = session[t].peer /\ session[s].peer # NoPeer => s = t
        /\ Queued(d) \/ Served(d)
        /\ ~(Queued(d) /\ Served(d))
    BY DEF EstablishInv, PlacedInv
  <2>2. d # NoPeer
    BY AcceptorAssumption, BacklogAssumption
  <2>3. CASE Queued(d)
    <3>1. PICK i \in 1..Len(waiting) : waiting[i] = d
      BY <2>3 DEF Queued
    <3>2. places = {i}
      BY <2>1, <3>1
    <3>3. Holders(d) = {}
      BY <2>1, <2>3 DEF Served, Holders
    <3> HIDE DEF places
    <3>4. Cardinality(places) = 1
      BY <3>2, FS_Singleton
    <3>5. Cardinality(Holders(d)) = 0
      BY <3>3, FS_EmptySet
    <3>6. Cardinality(places) + Cardinality(Holders(d)) = 1
      BY <3>4, <3>5
    <3>7. QED
      BY <3>6 DEF places
  <2>4. CASE Served(d)
    <3>1. PICK s \in Sessions : session[s].peer = d
      BY <2>4 DEF Served
    <3>2. Holders(d) = {s}
      BY <2>1, <2>2, <3>1 DEF Holders
    <3>3. places = {}
      BY <2>1, <2>4 DEF Queued
    <3> HIDE DEF places
    <3>4. Cardinality(places) = 0
      BY <3>3, FS_EmptySet
    <3>5. Cardinality(Holders(d)) = 1
      BY <3>2, FS_Singleton
    <3>6. Cardinality(places) + Cardinality(Holders(d)) = 1
      BY <3>4, <3>5
    <3>7. QED
      BY <3>6 DEF places
  <2>5. QED
    BY <2>1, <2>3, <2>4
<1>2. QED
  BY <1>1, EstablishInvariant, PTL

\* The listener always has an operation with a fresh session when epoll may
\* report it, whatever failed before.
THEOREM EstablishListenerArmed == Spec => []ListenerArmed
<1>1. EstablishInv => ListenerArmed
  <2> SUFFICES ASSUME EstablishInv, lsn.place = "idle", lsn.armed, ~lsn.request
               PROVE  /\ lsn.posted /\ lsn.oper # NoSession
                      /\ session[lsn.oper].peer = NoPeer
    BY DEF ListenerArmed
  <2>1. lsn.posted /\ lsn.oper # NoSession
    BY DEF EstablishInv, ListenerInv
  <2>2. session[lsn.oper] = [peer |-> NoPeer, state |-> "new"]
    BY <2>1 DEF EstablishInv, ListenerInv
  <2>3. QED
    BY <2>1, <2>2
<1>2. QED
  BY <1>1, EstablishInvariant, PTL

\* A connector's application is told of the connection or its failure at most
\* once, of the end at most once, and of nothing after the end, however its
\* calls of Close fall between the steps of the loop.
THEOREM EstablishNoticesInOrder == Spec => []NoticesInOrder
<1>1. EstablishInv => NoticesInOrder
  BY DEF EstablishInv, ConnectorInv, NoticesInOrder
<1>2. QED
  BY <1>1, EstablishInvariant, PTL

-----------------------------------------------------------------------------
(* The heart beat.                                                         *)

USE BeatAssumption

\* A new thread, with nothing to watch, keeps all of it.
LEMMA HeartInitInv == HeartInit => HeartInv /\ AnswerInv
<1> SUFFICES ASSUME HeartInit PROVE HeartInv /\ AnswerInv
  OBVIOUS
<1> USE DEF HeartInit, None, Watch
<1>1. HeartTypeOK
  <2>1. sweep \in [place : {"off", "test", "swap", "judge"}, lag : 0..1, idx : 0..(Buckets - 1)]
    BY SMT
  <2>2. QED
    BY <2>1 DEF HeartTypeOK
<1>2. EntryInv
  BY DEF EntryInv, In
<1>3. SilenceInv /\ HeardInv /\ OnlySilentClosed /\ AnswerInv
  BY DEF SilenceInv, HeardInv, OnlySilentClosed, AnswerInv
<1>4. QED
  BY <1>1, <1>2, <1>3 DEF HeartInv

\* The numbers a judgment compares.
LEMMA BucketsInRange ==
  ASSUME HeartTypeOK, NEW w \in Watch
  PROVE  /\ BucketOf[w] \in Int /\ 0 <= BucketOf[w] /\ BucketOf[w] <= Buckets - 1
         /\ sweep.idx \in Int /\ sweep.lag \in {0, 1}
         /\ info[w] \in Nat \cup {None} /\ quiet[w] \in Nat
  BY DEF HeartTypeOK

\* A step has typed values.
LEMMA StepHeartTypeOK == HeartTypeOK /\ [HeartNext]_heartVars => HeartTypeOK'
<1> SUFFICES ASSUME HeartTypeOK, [HeartNext]_heartVars PROVE HeartTypeOK'
  OBVIOUS
<1> USE DEF HeartTypeOK, listVars, None
<1>1. CASE Start
  BY <1>1 DEF Start
<1>2. CASE Stop
  BY <1>2 DEF Stop
<1>3. CASE Leave
  BY <1>3 DEF Leave
<1>4. ASSUME NEW w \in Watch, OnConnected(w) PROVE HeartTypeOK'
  BY <1>4 DEF OnConnected
<1>5. ASSUME NEW w \in Watch, OnReceiveData(w) PROVE HeartTypeOK'
  BY <1>5 DEF OnReceiveData, Heard
<1>6. ASSUME NEW w \in Watch, Ends(w) PROVE HeartTypeOK'
  BY <1>6 DEF Ends
<1>7. ASSUME NEW c \in Conns, AckKeepAlive(c) PROVE HeartTypeOK'
  BY <1>7 DEF AckKeepAlive, Heard, Watch
<1>8. CASE BeginSweep
  BY <1>8 DEF BeginSweep
<1>9. CASE Swap
  BY <1>9 DEF Swap
<1>10. CASE Judge
  <2>1. sweep' \in [place : {"off", "test", "swap", "judge"}, lag : 0..1, idx : 0..(Buckets - 1)]
    <3>1. sweep' = IF sweep.idx + 1 < Buckets
                     THEN [sweep EXCEPT !.place = "swap", !.idx = sweep.idx + 1]
                     ELSE [sweep EXCEPT !.place = "test", !.idx = 0]
      BY <1>10 DEF Judge
    <3>2. 0 \in 0..(Buckets - 1)
          /\ (sweep.idx + 1 < Buckets => sweep.idx + 1 \in 0..(Buckets - 1))
      OBVIOUS
    <3>3. QED
      BY <3>1, <3>2
  <2>2. info' \in [Watch -> Nat \cup {None}] /\ sent' \in [Conns -> Nat \cup {None}]
    BY <1>10 DEF Judge
  <2>3. state' \in [Watch -> {"new", "open", "closed", "beaten", "left"}]
        /\ asked' \in [Conns -> Nat \cup {None}]
    BY <1>10 DEF Judge, Beaten
  <2>4. QED
    BY <1>10, <2>1, <2>2, <2>3 DEF Judge
<1>11. CASE Tick
  BY <1>11 DEF Tick, Aged
<1>12. CASE UNCHANGED heartVars
  BY <1>12 DEF heartVars
<1>13. QED
  BY <1>1, <1>2, <1>3, <1>4, <1>5, <1>6, <1>7, <1>8, <1>9, <1>10, <1>11, <1>12 DEF HeartNext

-----------------------------------------------------------------------------
(* What a judgment does to one connection.                                 *)

LEMMA JudgeEffect ==
  ASSUME HeartTypeOK, EntryInv, Judge, NEW w \in Watch
  PROVE  LET gone == BucketOf[w] = sweep.idx /\ Expired(w)
         IN  /\ w \in tmp.fresh => ~gone /\ info'[w] = sweep.lag
             /\ gone => info'[w] = None /\ (state[w] = "open" => state'[w] = "beaten")
             /\ w \notin tmp.fresh /\ ~gone =>
                  info'[w] = IF w \in tmp.data /\ info[w] # None THEN sweep.lag ELSE info[w]
             /\ ~gone \/ state[w] # "open" => state'[w] = state[w]
             /\ BucketOf[w] = sweep.idx /\ info[w] # None =>
                  (gone <=> info[w] - sweep.lag > Beat)
             /\ info[w] = None => ~gone
<1> DEFINE mine == In(sweep.idx)
           gone == {v \in mine : Expired(v)}
<1>1. /\ state' = [v \in Watch |-> IF v \in gone THEN Beaten(v) ELSE state[v]]
      /\ info' = [v \in Watch |->
                    CASE v \in tmp.fresh -> sweep.lag
                      [] v \in gone \ tmp.fresh -> None
                      [] v \in tmp.data \ (tmp.fresh \cup gone) /\ info[v] # None -> sweep.lag
                      [] OTHER -> info[v]]
  BY DEF Judge
<1>2. w \in gone <=> BucketOf[w] = sweep.idx /\ Expired(w)
  BY DEF In
<1>3. w \in tmp.fresh => info[w] = None /\ w \notin gone
  BY DEF EntryInv, Expired, Older
<1>4. info'[w] = IF w \in tmp.fresh THEN sweep.lag
                 ELSE IF w \in gone THEN None
                 ELSE IF w \in tmp.data /\ info[w] # None THEN sweep.lag ELSE info[w]
  BY <1>1
<1>5. state'[w] = IF w \in gone THEN Beaten(w) ELSE state[w]
  BY <1>1
<1> HIDE DEF gone, mine
<1>6. QED
  BY <1>2, <1>3, <1>4, <1>5 DEF Beaten, Expired, Older

\* After it the bucket counts as judged, and no other is nearer to its turn.
LEMMA JudgeMovesOn ==
  ASSUME HeartTypeOK, Judge, NEW w \in Watch
  PROVE  /\ sweep'.lag = sweep.lag /\ sweep'.place \in {"swap", "test"}
         /\ ToSwap(w)' <=> ToSwap(w)
         /\ Judged(w)' <=> BucketOf[w] <= sweep.idx
<1>1. sweep' = IF sweep.idx + 1 < Buckets
                 THEN [sweep EXCEPT !.place = "swap", !.idx = sweep.idx + 1]
                 ELSE [sweep EXCEPT !.place = "test", !.idx = 0]
  BY DEF Judge
<1>2. BucketOf' = BucketOf /\ sweep.place = "judge"
  BY DEF Judge
<1>3. CASE sweep.idx + 1 < Buckets
  <2>1. sweep'.place = "swap" /\ sweep'.idx = sweep.idx + 1 /\ sweep'.lag = sweep.lag
    BY <1>1, <1>3 DEF HeartTypeOK
  <2>2. QED
    BY <1>2, <2>1, BucketsInRange DEF ToSwap, Judged
<1>4. CASE ~(sweep.idx + 1 < Buckets)
  <2>1. sweep'.place = "test" /\ sweep'.idx = 0 /\ sweep'.lag = sweep.lag
    BY <1>1, <1>4 DEF HeartTypeOK
  <2>2. BucketOf[w] <= sweep.idx
    BY <1>4, BucketsInRange
  <2>3. QED
    BY <1>2, <2>1, <2>2, BucketsInRange DEF ToSwap, Judged
<1>5. QED
  BY <1>3, <1>4

\* A connection that is open afterwards was not found too old; if something
\* of it waited in the thread's lists, it is noted.
LEMMA JudgeOpen ==
  ASSUME HeartTypeOK, EntryInv, Judge, NEW w \in Watch, state'[w] = "open"
  PROVE  /\ state[w] = "open"
         /\ BucketOf[w] = sweep.idx /\ info[w] # None => info[w] - sweep.lag <= Beat
         /\ info'[w] = IF w \in tmp.fresh \/ (w \in tmp.data /\ info[w] # None)
                         THEN sweep.lag ELSE info[w]
         /\ w \in tmp.fresh \cup tmp.data => BucketOf[w] = sweep.idx
         /\ w \notin tmp'.fresh /\ w \notin tmp'.data
         /\ fresh' = fresh /\ data' = data /\ quiet' = quiet /\ hushed' = hushed
         /\ info[w] # None \/ w \in fresh \cup tmp.fresh
         /\ w \in fresh \cup tmp.fresh => info[w] = None
<1>1. tmp' = [fresh |-> {}, data |-> {}] /\ fresh' = fresh /\ data' = data
      /\ quiet' = quiet /\ hushed' = hushed
  BY DEF Judge
<1>2. /\ w \in tmp.fresh \cup tmp.data => BucketOf[w] = sweep.idx
      /\ w \in fresh \cup tmp.fresh => info[w] = None
      /\ state[w] = "open" => info[w] # None \/ w \in fresh \cup tmp.fresh
  BY DEF EntryInv, In
<1>3. state[w] = "open"
  BY JudgeEffect
<1>4. ~(BucketOf[w] = sweep.idx /\ Expired(w))
  BY <1>3, JudgeEffect
<1>5. /\ BucketOf[w] = sweep.idx /\ info[w] # None => ~(info[w] - sweep.lag > Beat)
      /\ w \in tmp.fresh => info'[w] = sweep.lag
      /\ w \notin tmp.fresh =>
           info'[w] = IF w \in tmp.data /\ info[w] # None THEN sweep.lag ELSE info[w]
  BY <1>4, JudgeEffect
<1>6. info[w] # None => (~(info[w] - sweep.lag > Beat) <=> info[w] - sweep.lag <= Beat)
  BY BucketsInRange DEF None
<1>7. QED
  BY <1>1, <1>2, <1>3, <1>5, <1>6

-----------------------------------------------------------------------------
(* The steps.                                                              *)

\* A connection is new to the thread or has an entry, and never both.
LEMMA StepEntryInv ==
  ASSUME HeartTypeOK, EntryInv, [HeartNext]_heartVars
  PROVE  EntryInv'
<1> USE DEF HeartTypeOK, None
<1>1. CASE Start
  BY <1>1, BucketsInRange
    DEF Start, EntryInv, In, listVars
<1>2. CASE Stop
  BY <1>2, BucketsInRange
    DEF Stop, EntryInv, In, listVars
<1>3. CASE Leave
  BY <1>3, BucketsInRange
    DEF Leave, EntryInv, In
<1>4. ASSUME NEW w \in Watch, OnConnected(w) PROVE EntryInv'
  BY <1>4, BucketsInRange
    DEF OnConnected, EntryInv, In
<1>5. ASSUME NEW w \in Watch, OnReceiveData(w) PROVE EntryInv'
  BY <1>5, BucketsInRange
    DEF OnReceiveData, EntryInv, In, Heard
<1>6. ASSUME NEW w \in Watch, Ends(w) PROVE EntryInv'
  BY <1>6, BucketsInRange
    DEF Ends, EntryInv, In, listVars
<1>7. ASSUME NEW c \in Conns, AckKeepAlive(c) PROVE EntryInv'
  BY <1>7, BucketsInRange
    DEF AckKeepAlive, EntryInv, In, Heard, Watch
<1>8. CASE BeginSweep
  BY <1>8, BucketsInRange
    DEF BeginSweep, EntryInv, In, listVars
<1>9. CASE Swap
  BY <1>9, BucketsInRange
    DEF Swap, EntryInv, In
<1>10. CASE Judge
  <2>1. /\ tmp' = [fresh |-> {}, data |-> {}] /\ sweep'.place \in {"swap", "test"}
        /\ fresh' = fresh /\ data' = data /\ quiet' = quiet /\ startflag' = startflag
    BY <1>10, JudgeMovesOn DEF Judge
  <2>2. ASSUME NEW w \in Watch
        PROVE  /\ state'[w] = "open" => info'[w] # None \/ w \in fresh'
               /\ state'[w] = "new" => state[w] = "new" /\ info'[w] = None
               /\ w \in fresh' => info'[w] = None /\ state'[w] # "new"
    <3>1. state[w] # "open" => state'[w] = state[w]
      BY <1>10, JudgeEffect
    <3>2. state'[w] \in {state[w], "beaten"}
      BY <1>10, JudgeEffect
    <3>3. w \in tmp.fresh => w \notin fresh /\ info[w] = None /\ state[w] # "new"
      BY DEF EntryInv
    <3>4. CASE w \in tmp.fresh
      BY <1>10, <2>1, <3>2, <3>3, <3>4, JudgeEffect
    <3>5. CASE w \notin tmp.fresh
      BY <1>10, <2>1, <3>1, <3>2, <3>5, JudgeEffect DEF EntryInv
    <3>6. QED
      BY <3>4, <3>5
  <2>3. QED
    BY <2>1, <2>2 DEF EntryInv
<1>11. CASE Tick
  BY <1>11, BucketsInRange
    DEF Tick, EntryInv, In, Aged
<1>12. CASE UNCHANGED heartVars
  BY <1>12 DEF heartVars, EntryInv, In
<1>13. QED
  BY <1>1, <1>2, <1>3, <1>4, <1>5, <1>6, <1>7, <1>8, <1>9, <1>10, <1>11, <1>12
    DEF HeartNext

\* An entry's age is not much less than that of what was received last.
LEMMA StepSilenceInv ==
  ASSUME HeartTypeOK, EntryInv, SilenceInv, [HeartNext]_heartVars
  PROVE  SilenceInv'
<1> USE DEF HeartTypeOK, None
<1>1. CASE Start
  BY <1>1, BucketsInRange
    DEF Start, SilenceInv, EntryInv, In, Allow, ToSwap, Judged, listVars
<1>2. CASE Stop
  BY <1>2, BucketsInRange
    DEF Stop, SilenceInv, EntryInv, In, Allow, ToSwap, Judged, listVars
<1>3. CASE Leave
  BY <1>3, BucketsInRange
    DEF Leave, SilenceInv, EntryInv, In, Allow, ToSwap, Judged
<1>4. ASSUME NEW w \in Watch, OnConnected(w) PROVE SilenceInv'
  BY <1>4, BucketsInRange
    DEF OnConnected, SilenceInv, EntryInv, In, Allow, ToSwap, Judged
<1>5. ASSUME NEW w \in Watch, OnReceiveData(w) PROVE SilenceInv'
  BY <1>5, BucketsInRange
    DEF OnReceiveData, SilenceInv, EntryInv, In, Allow, ToSwap, Judged, Heard
<1>6. ASSUME NEW w \in Watch, Ends(w) PROVE SilenceInv'
  BY <1>6, BucketsInRange
    DEF Ends, SilenceInv, EntryInv, In, Allow, ToSwap, Judged, listVars
<1>7. ASSUME NEW c \in Conns, AckKeepAlive(c) PROVE SilenceInv'
  BY <1>7, BucketsInRange
    DEF AckKeepAlive, SilenceInv, EntryInv, In, Allow, ToSwap, Judged, Heard, Watch
<1>8. CASE BeginSweep
  BY <1>8, BucketsInRange
    DEF BeginSweep, SilenceInv, EntryInv, In, Allow, ToSwap, Judged, listVars
<1>9. CASE Swap
  BY <1>9, BucketsInRange
    DEF Swap, SilenceInv, EntryInv, In, Allow, ToSwap, Judged
<1>10. CASE Judge
  <2> SUFFICES ASSUME NEW w \in Watch, state'[w] = "open"
               PROVE  /\ w \in fresh' \cup data' => quiet'[w] <= Allow(0, 1, ToSwap(w))'
                      /\ w \in tmp'.fresh \cup tmp'.data => quiet'[w] <= 1 + sweep'.lag
                      /\ info'[w] # None => /\ quiet'[w] <= info'[w] + 1
                                            /\ info'[w] <= Allow(Beat + 1, Beat, Judged(w))'
    BY DEF SilenceInv
  <2>1. /\ state[w] = "open" /\ fresh' = fresh /\ data' = data /\ quiet' = quiet
        /\ w \notin tmp'.fresh /\ w \notin tmp'.data
        /\ sweep'.lag = sweep.lag /\ (ToSwap(w)' <=> ToSwap(w))
    BY <1>10, JudgeOpen, JudgeMovesOn
  <2>2. w \in fresh' \cup data' => quiet'[w] <= Allow(0, 1, ToSwap(w))'
    BY <2>1 DEF SilenceInv, Allow
  <2>3. CASE w \in tmp.fresh \/ (w \in tmp.data /\ info[w] # None)
    <3>1. info'[w] = sweep.lag /\ quiet[w] <= 1 + sweep.lag
      BY <1>10, <2>1, <2>3, JudgeOpen DEF SilenceInv
    <3>2. QED
      BY <2>1, <2>2, <3>1, BucketsInRange DEF Allow
  <2>4. CASE ~(w \in tmp.fresh \/ (w \in tmp.data /\ info[w] # None))
    <3>1. info'[w] = info[w]
      BY <1>10, <2>4, JudgeOpen
    <3>2. info[w] # None => info[w] <= (IF BucketOf[w] <= sweep.idx THEN Beat ELSE Beat + 1) + sweep.lag
      <4>1. BucketOf[w] = sweep.idx /\ info[w] # None => info[w] - sweep.lag <= Beat
        BY <1>10, JudgeOpen
      <4>2. info[w] # None => info[w] <= Allow(Beat + 1, Beat, Judged(w))
        BY <2>1 DEF SilenceInv
      <4>3. BucketOf[w] < sweep.idx <=> Judged(w)
        BY <1>10 DEF Judge, Judged
      <4>4. QED
        BY <4>1, <4>2, <4>3, BucketsInRange DEF Allow
    <3>3. Judged(w)' <=> BucketOf[w] <= sweep.idx
      BY <1>10, JudgeMovesOn
    <3>4. info[w] # None => quiet[w] <= info[w] + 1
      BY <2>1 DEF SilenceInv
    <3>5. QED
      BY <2>1, <2>2, <3>1, <3>2, <3>3, <3>4 DEF Allow
  <2>5. QED
    BY <2>3, <2>4
<1>11. CASE Tick
  BY <1>11, BucketsInRange
    DEF Tick, SilenceInv, EntryInv, In, Allow, ToSwap, Judged, Aged
<1>12. CASE UNCHANGED heartVars
  BY <1>12 DEF heartVars, SilenceInv, EntryInv, In, Allow, ToSwap, Judged
<1>13. QED
  BY <1>1, <1>2, <1>3, <1>4, <1>5, <1>6, <1>7, <1>8, <1>9, <1>10, <1>11, <1>12
    DEF HeartNext

\* An entry that expires although something came since: it came after a silence.
LEMMA StepHeardInv ==
  ASSUME HeartTypeOK, EntryInv, HeardInv, [HeartNext]_heartVars
  PROVE  HeardInv'
<1> USE DEF HeartTypeOK, None
<1>1. CASE Start
  BY <1>1, BucketsInRange
    DEF Start, HeardInv, EntryInv, In, Allow, ToSwap, LongSilence, Slack, listVars
<1>2. CASE Stop
  BY <1>2, BucketsInRange
    DEF Stop, HeardInv, EntryInv, In, Allow, ToSwap, LongSilence, Slack, listVars
<1>3. CASE Leave
  BY <1>3, BucketsInRange
    DEF Leave, HeardInv, EntryInv, In, Allow, ToSwap, LongSilence, Slack
<1>4. ASSUME NEW w \in Watch, OnConnected(w) PROVE HeardInv'
  BY <1>4, BucketsInRange
    DEF OnConnected, HeardInv, EntryInv, In, Allow, ToSwap, LongSilence, Slack
<1>5. ASSUME NEW w \in Watch, OnReceiveData(w) PROVE HeardInv'
  BY <1>5, BucketsInRange
    DEF OnReceiveData, HeardInv, EntryInv, In, Allow, ToSwap, LongSilence, Slack, Heard
<1>6. ASSUME NEW w \in Watch, Ends(w) PROVE HeardInv'
  BY <1>6, BucketsInRange
    DEF Ends, HeardInv, EntryInv, In, Allow, ToSwap, LongSilence, Slack, listVars
<1>7. ASSUME NEW c \in Conns, AckKeepAlive(c) PROVE HeardInv'
  BY <1>7, BucketsInRange
    DEF AckKeepAlive, HeardInv, EntryInv, In, Allow, ToSwap, LongSilence, Slack, Heard, Watch
<1>8. CASE BeginSweep
  BY <1>8, BucketsInRange
    DEF BeginSweep, HeardInv, EntryInv, In, Allow, ToSwap, LongSilence, Slack, listVars
<1>9. CASE Swap
  BY <1>9, BucketsInRange
    DEF Swap, HeardInv, EntryInv, In, Allow, ToSwap, LongSilence, Slack
<1>10. CASE Judge
  <2> SUFFICES ASSUME NEW w \in Watch, state'[w] = "open"
               PROVE  /\ info'[w] # None /\ w \notin data' \cup tmp'.data => info'[w] <= quiet'[w] + 1
                      /\ w \notin hushed' /\ w \in data' \cup tmp'.data => Beat >= 2
                      /\ w \notin hushed' /\ info'[w] # None /\ w \in tmp'.data =>
                           info'[w] <= Beat + sweep'.lag
                      /\ w \notin hushed' /\ info'[w] # None /\ w \in data' \ tmp'.data =>
                           info'[w] <= Allow(Beat - 1, Beat, ToSwap(w))'
    BY DEF HeardInv
  <2>1. /\ state[w] = "open" /\ data' = data /\ quiet' = quiet /\ hushed' = hushed
        /\ w \notin tmp'.data
        /\ sweep'.lag = sweep.lag /\ (ToSwap(w)' <=> ToSwap(w))
    BY <1>10, JudgeOpen, JudgeMovesOn
  <2>2. w \notin hushed /\ w \in data => Beat >= 2
    BY <2>1 DEF HeardInv
  <2>3. CASE w \in tmp.fresh \/ (w \in tmp.data /\ info[w] # None)
    <3>1. info'[w] = sweep.lag
      BY <1>10, <2>3, JudgeOpen
    <3>2. QED
      BY <2>1, <2>2, <3>1, BucketsInRange DEF Allow
  <2>4. CASE ~(w \in tmp.fresh \/ (w \in tmp.data /\ info[w] # None))
    <3>1. info'[w] = info[w]
      BY <1>10, <2>4, JudgeOpen
    <3>2. QED
      BY <2>1, <2>2, <2>4, <3>1 DEF HeardInv, Allow
  <2>5. QED
    BY <2>3, <2>4
<1>11. CASE Tick
  BY <1>11, BucketsInRange
    DEF Tick, HeardInv, EntryInv, In, Allow, ToSwap, LongSilence, Slack, Aged
<1>12. CASE UNCHANGED heartVars
  BY <1>12 DEF heartVars, HeardInv, EntryInv, In, Allow, ToSwap, LongSilence, Slack
<1>13. QED
  BY <1>1, <1>2, <1>3, <1>4, <1>5, <1>6, <1>7, <1>8, <1>9, <1>10, <1>11, <1>12
    DEF HeartNext

\* Whom a judgment closes was silent for long, or had been.
LEMMA StepOnlySilent ==
  ASSUME HeartTypeOK, EntryInv, HeardInv, OnlySilentClosed, [HeartNext]_heartVars
  PROVE  OnlySilentClosed'
<1> SUFFICES ASSUME NEW w \in Watch, state'[w] = "beaten"
             PROVE  w \in hushed' \/ quiet'[w] >= LongSilence
  BY DEF OnlySilentClosed
<1> USE DEF HeartTypeOK
<1>1. CASE state[w] = "beaten"
  <2>1. w \in hushed \/ quiet[w] >= LongSilence
    BY <1>1 DEF OnlySilentClosed
  <2>2. hushed \subseteq hushed' /\ quiet'[w] = quiet[w]
    <3> USE <1>1
    <3>1. ASSUME NEW v \in Watch, OnReceiveData(v) \/ AckKeepAlive(v)
          PROVE  hushed \subseteq hushed' /\ quiet'[w] = quiet[w]
      BY <3>1 DEF OnReceiveData, AckKeepAlive, Heard
    <3>2. CASE Tick
      BY <3>2 DEF Tick
    <3>3. QED
      BY <3>1, <3>2 DEF HeartNext, heartVars, Watch, Start, Stop, Leave, OnConnected, Ends, BeginSweep, Swap, Judge
  <2>3. QED
    BY <2>1, <2>2
<1>2. CASE state[w] # "beaten"
  <2>1. Judge
    BY <1>2 DEF HeartNext, heartVars, Watch, Start, Stop, Leave, OnConnected, OnReceiveData, AckKeepAlive,
                Ends, BeginSweep, Swap, Tick
  <2>2. state[w] = "open" /\ BucketOf[w] = sweep.idx /\ info[w] # None /\ info[w] - sweep.lag > Beat
    <3>1. state'[w] # state[w]
      BY <1>2
    <3>2. BucketOf[w] = sweep.idx /\ Expired(w)
      BY <2>1, <3>1, JudgeEffect
    <3>3. info[w] # None /\ info[w] - sweep.lag > Beat
      BY <3>2 DEF Expired, Older
    <3>4. state[w] = "open"
      BY <2>1, <3>1, JudgeEffect
    <3>5. QED
      BY <3>2, <3>3, <3>4
  <2>3. sweep.place = "judge" /\ hushed' = hushed /\ quiet' = quiet
    BY <2>1 DEF Judge
  <2>4. CASE w \in hushed
    BY <2>3, <2>4
  <2>5. CASE w \notin hushed
    <3>1. w \notin data \cup tmp.data
      BY <2>2, <2>3, <2>5, BucketsInRange DEF HeardInv, Allow, ToSwap
    <3>2. info[w] <= quiet[w] + 1
      BY <2>2, <3>1 DEF HeardInv
    <3>3. QED
      BY <2>2, <2>3, <3>2, BucketsInRange DEF LongSilence, Slack, None
  <2>6. QED
    BY <2>4, <2>5
<1>3. QED
  BY <1>1, <1>2

-----------------------------------------------------------------------------
(* Connectors that are answered.                                           *)

\* What a judgment asks, and when.
LEMMA JudgeAsks ==
  ASSUME HeartTypeOK, Judge, NEW c \in Conns, state[c] = "open"
  PROVE  LET talks == BucketOf[c] = sweep.idx /\ Talks(c)
             gone  == BucketOf[c] = sweep.idx /\ Expired(c)
         IN  /\ sent'[c] = IF c \in tmp.fresh \/ talks THEN sweep.lag
                           ELSE IF gone THEN None ELSE sent[c]
             /\ asked'[c] = IF talks /\ asked[c] = None THEN 0 ELSE asked[c]
             /\ talks => info[c] # None /\ sent[c] # None
             /\ BucketOf[c] = sweep.idx /\ info[c] # None /\ ~gone /\ ~talks
                  => sent[c] - sweep.lag <= Idle \/ sent[c] = None
<1> DEFINE mine == In(sweep.idx)
           gone == {w \in mine : Expired(w)}
           talk == {d \in mine \cap Conns : Talks(d)}
<1>1. /\ sent' = [d \in Conns |-> CASE d \in tmp.fresh \cup talk -> sweep.lag
                                    [] d \in gone \ tmp.fresh -> None
                                    [] OTHER -> sent[d]]
      /\ asked' = [d \in Conns |-> IF d \in talk /\ state[d] = "open" /\ asked[d] = None
                                      THEN 0 ELSE asked[d]]
  BY DEF Judge
<1>2. /\ c \in gone <=> BucketOf[c] = sweep.idx /\ Expired(c)
      /\ c \in talk <=> BucketOf[c] = sweep.idx /\ Talks(c)
      /\ Talks(c) => ~Expired(c)
  BY DEF In, Watch, Talks
<1> HIDE DEF gone, mine, talk
<1>3. sent'[c] = IF c \in tmp.fresh \cup talk THEN sweep.lag
                 ELSE IF c \in gone THEN None ELSE sent[c]
  BY <1>1, <1>2
<1>4. asked'[c] = IF c \in talk /\ asked[c] = None THEN 0 ELSE asked[c]
  BY <1>1
<1>5. Talks(c) => info[c] # None /\ sent[c] # None
  BY DEF Talks, Older
<1>6. info[c] # None /\ ~Expired(c) /\ ~Talks(c) => sent[c] - sweep.lag <= Idle \/ sent[c] = None
  BY DEF Talks, Older, HeartTypeOK, None
<1>7. QED
  BY <1>2, <1>3, <1>4, <1>5, <1>6

\* A judgment never finds the entry of an answered connector too old.
LEMMA AnsweredNotExpired ==
  ASSUME AnswersInTime, HeartTypeOK, AnswerInv, sweep.place = "judge",
         NEW c \in Conns, state[c] = "open", BucketOf[c] = sweep.idx
  PROVE  ~Expired(c)
<1>1. info[c] # None => info[c] <= AnswerAge + 1 + sweep.lag
  BY BucketsInRange DEF AnswerInv, AnswerAge, Allow, ToSwap, Watch, None, HeartTypeOK
<1>2. QED
  BY <1>1, BucketsInRange DEF AnswersInTime, AnswerAge, Expired, Older, Watch, None

\* Questions and answers keep their times.
LEMMA StepAnswerInv ==
  ASSUME AnswersInTime, HeartTypeOK, EntryInv, AnswerInv, [HeartNext]_heartVars
  PROVE  AnswerInv'
<1> USE DEF HeartTypeOK, None, AnswersInTime
<1>1. CASE Start
  BY <1>1, BucketsInRange
    DEF Start, AnswerInv, EntryInv, In, Allow, ToSwap, Judged, AnswerAge, Watch, listVars
<1>2. CASE Stop
  BY <1>2, BucketsInRange
    DEF Stop, AnswerInv, EntryInv, In, Allow, ToSwap, Judged, AnswerAge, Watch, listVars
<1>3. CASE Leave
  BY <1>3, BucketsInRange
    DEF Leave, AnswerInv, EntryInv, In, Allow, ToSwap, Judged, AnswerAge, Watch
<1>4. ASSUME NEW w \in Watch, OnConnected(w) PROVE AnswerInv'
  BY <1>4, BucketsInRange
    DEF OnConnected, AnswerInv, EntryInv, In, Allow, ToSwap, Judged, AnswerAge, Watch
<1>5. ASSUME NEW w \in Watch, OnReceiveData(w) PROVE AnswerInv'
  BY <1>5, BucketsInRange
    DEF OnReceiveData, AnswerInv, EntryInv, In, Allow, ToSwap, Judged, AnswerAge, Watch, Heard
<1>6. ASSUME NEW w \in Watch, Ends(w) PROVE AnswerInv'
  BY <1>6, BucketsInRange
    DEF Ends, AnswerInv, EntryInv, In, Allow, ToSwap, Judged, AnswerAge, Watch, listVars
<1>7. ASSUME NEW c \in Conns, AckKeepAlive(c) PROVE AnswerInv'
  BY <1>7, BucketsInRange
    DEF AckKeepAlive, AnswerInv, EntryInv, In, Allow, ToSwap, Judged, AnswerAge, Watch, Heard, Watch
<1>8. CASE BeginSweep
  BY <1>8, BucketsInRange
    DEF BeginSweep, AnswerInv, EntryInv, In, Allow, ToSwap, Judged, AnswerAge, Watch, listVars
<1>9. CASE Swap
  BY <1>9, BucketsInRange
    DEF Swap, AnswerInv, EntryInv, In, Allow, ToSwap, Judged, AnswerAge, Watch
<1>10. CASE Judge
  <2> SUFFICES ASSUME NEW c \in Conns, state'[c] = "open"
               PROVE  /\ asked'[c] <= Delay
                      /\ info'[c] # None =>
                           /\ sweep'.lag <= sent'[c] /\ sent'[c] <= Allow(Idle + 1, Idle, Judged(c))'
                           /\ c \notin data' \cup tmp'.data =>
                                info'[c] <= IF asked'[c] = None THEN sent'[c]
                                            ELSE Idle + 2 + asked'[c]
                           /\ c \in tmp'.data => info'[c] <= AnswerAge + 1 + sweep'.lag
                           /\ c \in data' \ tmp'.data =>
                                info'[c] <= Allow(AnswerAge, AnswerAge + 1, ToSwap(c))'
    <3>1. \A c \in Conns : state'[c] = "new" => state[c] = "new" /\ asked'[c] = asked[c]
      <4>1. \A c \in Conns : state'[c] = "new" => state[c] = "new"
        BY <1>10 DEF Judge, Beaten, Watch
      <4>2. \A c \in Conns : state[c] # "open" => asked'[c] = asked[c]
        BY <1>10 DEF Judge
      <4>3. QED
        BY <4>1, <4>2
    <3>2. QED
      BY <3>1 DEF AnswerInv
  <2>0. c \in Watch
    BY DEF Watch
  <2>1. /\ state[c] = "open" /\ data' = data /\ c \notin tmp'.data
        /\ sweep'.lag = sweep.lag /\ (ToSwap(c)' <=> ToSwap(c))
        /\ Judged(c)' <=> BucketOf[c] <= sweep.idx
        /\ c \in tmp.fresh \cup tmp.data => BucketOf[c] = sweep.idx
        /\ info[c] = None <=> c \in fresh \cup tmp.fresh
    BY <1>10, <2>0, JudgeOpen, JudgeMovesOn
  <2>2. info'[c] = IF c \in tmp.fresh \/ (c \in tmp.data /\ info[c] # None)
                     THEN sweep.lag ELSE info[c]
    BY <1>10, <2>0, JudgeOpen
  <2>3. BucketOf[c] = sweep.idx => ~Expired(c)
    BY <1>10, <2>1, AnsweredNotExpired DEF Judge
  <2>4. PICK talks \in BOOLEAN :
           /\ sent'[c] = IF c \in tmp.fresh \/ talks THEN sweep.lag ELSE sent[c]
           /\ asked'[c] = IF talks /\ asked[c] = None THEN 0 ELSE asked[c]
           /\ talks => info[c] # None
           /\ BucketOf[c] = sweep.idx /\ info[c] # None /\ ~talks
                => sent[c] - sweep.lag <= Idle \/ sent[c] = None
    BY <1>10, <2>1, <2>3, JudgeAsks
  <2>5. asked'[c] <= Delay
    BY <2>1, <2>4 DEF AnswerInv
  <2>6. /\ sent[c] \in Nat \cup {None} /\ asked[c] \in Nat \cup {None}
        /\ Judged(c) <=> BucketOf[c] < sweep.idx
    BY <1>10 DEF Judge, Judged
  <2>7. CASE c \in tmp.fresh
    BY <2>1, <2>2, <2>4, <2>5, <2>6, <2>7, <2>0, BucketsInRange DEF Allow, AnswerAge
  <2>8. CASE c \notin tmp.fresh /\ info[c] # None
    <3>1. /\ sweep.lag <= sent[c]
          /\ sent[c] <= (IF BucketOf[c] < sweep.idx THEN Idle ELSE Idle + 1) + sweep.lag
      BY <2>1, <2>6, <2>8 DEF AnswerInv, Allow
    <3>2. sweep.lag <= sent'[c] /\ sent'[c] <= Allow(Idle + 1, Idle, Judged(c))'
      BY <2>0, <2>1, <2>4, <2>6, <2>8, <3>1, BucketsInRange DEF Allow
    <3>3. CASE c \in tmp.data
      BY <2>0, <2>1, <2>2, <2>4, <2>5, <2>6, <2>8, <3>2, <3>3, BucketsInRange DEF Allow, AnswerAge
    <3>4. CASE c \notin tmp.data
      <4>1. info'[c] = info[c]
        BY <2>2, <2>8, <3>4
      <4>2. c \in data => info[c] <= Allow(AnswerAge, AnswerAge + 1, ToSwap(c))
        BY <2>1, <2>8, <3>4 DEF AnswerInv
      <4>3. c \notin data => info[c] <= IF asked[c] = None THEN sent[c] ELSE Idle + 2 + asked[c]
        BY <2>1, <2>8, <3>4 DEF AnswerInv
      <4>4. c \notin data =>
              info[c] <= IF asked'[c] = None THEN sent'[c] ELSE Idle + 2 + asked'[c]
        BY <2>0, <2>4, <2>6, <2>8, <3>1, <3>4, <4>3, BucketsInRange
      <4>5. QED
        BY <2>1, <2>5, <3>2, <4>1, <4>2, <4>4 DEF Allow
    <3>5. QED
      BY <3>3, <3>4
  <2>9. CASE c \notin tmp.fresh /\ info[c] = None
    BY <2>2, <2>5, <2>9
  <2>10. QED
    BY <2>7, <2>8, <2>9
<1>11. CASE Tick
  BY <1>11, BucketsInRange
    DEF Tick, AnswerInv, EntryInv, In, Allow, ToSwap, Judged, AnswerAge, Watch, Aged
<1>12. CASE UNCHANGED heartVars
  BY <1>12 DEF heartVars, AnswerInv, EntryInv, In, Allow, ToSwap, Judged, AnswerAge, Watch
<1>13. QED
  BY <1>1, <1>2, <1>3, <1>4, <1>5, <1>6, <1>7, <1>8, <1>9, <1>10, <1>11, <1>12
    DEF HeartNext

\* No step closes an answered connector.
LEMMA StepAnswered ==
  ASSUME AnswersInTime, HeartTypeOK, EntryInv, AnswerInv, AnsweredStaysOpen, [HeartNext]_heartVars
  PROVE  AnsweredStaysOpen'
<1> SUFFICES ASSUME NEW c \in Conns, state'[c] = "beaten" PROVE FALSE
  BY DEF AnsweredStaysOpen
<1>1. state[c] # "beaten" /\ c \in Watch
  BY DEF AnsweredStaysOpen, Watch
<1>2. Judge
  BY <1>1 DEF HeartTypeOK, HeartNext, heartVars, Watch, Start, Stop, Leave, OnConnected, OnReceiveData, AckKeepAlive,
              Ends, BeginSweep, Swap, Tick
<1>3. state[c] = "open" /\ BucketOf[c] = sweep.idx /\ Expired(c)
  BY <1>1, <1>2, JudgeEffect
<1>4. QED
  BY <1>2, <1>3, AnsweredNotExpired DEF Judge

-----------------------------------------------------------------------------
(* The theorems.                                                           *)

\* Every step preserves what the properties rest on.
LEMMA HeartStepInv == HeartInv /\ [HeartNext]_heartVars => HeartInv'
  BY StepHeartTypeOK, StepEntryInv, StepSilenceInv, StepHeardInv, StepOnlySilent DEF HeartInv

\* The thread's lists, entries and times keep their types for any number of
\* connections and buckets.
THEOREM HeartInvariant == HeartSpec => []HeartInv
<1>1. HeartInit => HeartInv
  BY HeartInitInv
<1>2. QED
  BY <1>1, HeartStepInv, PTL DEF HeartSpec

\* Only the silent are closed.
THEOREM HeartOnlySilentClosed == HeartSpec => []OnlySilentClosed
<1>1. HeartInv => OnlySilentClosed
  BY DEF HeartInv
<1>2. QED
  BY <1>1, HeartInvariant, PTL

\* No connection that is watched stays open through a long silence.
THEOREM HeartSilentIsClosed == HeartSpec => []SilentIsClosed
<1>1. HeartInv => SilentIsClosed
  <2> SUFFICES ASSUME HeartInv, NEW w \in Watch, state[w] = "open", startflag
               PROVE  quiet[w] <= Beat + 1 + Slack
    BY DEF SilentIsClosed
  <2> USE DEF HeartInv
  <2>1. info[w] # None \/ w \in fresh \cup tmp.fresh
    BY DEF EntryInv
  <2>2. CASE info[w] # None
    BY <2>2, BucketsInRange DEF SilenceInv, Allow, Slack, None
  <2>3. CASE w \in fresh \cup tmp.fresh
    BY <2>3, BucketsInRange DEF SilenceInv, Allow, Slack, None
  <2>4. QED
    BY <2>1, <2>2, <2>3
<1>2. QED
  BY <1>1, HeartInvariant, PTL

\* A connector whose server answers in time is never closed.
THEOREM HeartAnsweredStaysOpen ==
  ASSUME AnswersInTime
  PROVE  HeartSpec => []AnsweredStaysOpen
<1> DEFINE Inv == HeartInv /\ AnswerInv /\ AnsweredStaysOpen
<1>1. HeartInit => Inv
  BY HeartInitInv DEF HeartInit, AnsweredStaysOpen, Watch
<1>2. Inv /\ [HeartNext]_heartVars => Inv'
  BY AnswersInTime, HeartStepInv, StepAnswerInv, StepAnswered DEF HeartInv
<1>3. Inv => AnsweredStaysOpen
  OBVIOUS
<1> HIDE DEF Inv
<1>4. QED
  BY <1>1, <1>2, <1>3, PTL DEF HeartSpec

=============================================================================
