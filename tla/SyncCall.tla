------------------------------ MODULE SyncCall ------------------------------
(***************************************************************************)
(* The synchronous remote call: ScClient::_Sync over a SyncConnector, and  *)
(* ScServer::OnReceiveData on the other side.                              *)
(*                                                                         *)
(* A call makes up to two attempts; one that fails closes the connection,  *)
(* so that the next opens another.  The server may still deal with the     *)
(* request of a connection the client has given up.  How a message is put  *)
(* on the wire and cut from it is in MsgFraming; a request or a reply      *)
(* travels here as one piece, or is lost with its connection.              *)
(***************************************************************************)
EXTENDS Integers, Sequences, FiniteSets

CONSTANTS
  Clients,    \* the ScClient objects, each used by one thread
  MaxCalls,   \* bound: calls a client makes
  MaxConns    \* bound: connections a client opens

ASSUME BoundsAssumption == MaxCalls \in Nat /\ MaxConns \in Nat

VARIABLES
  \* the server
  listening,  \* ScServer::Register has listened ...
  handler,    \* ... and has stored the handler
  wire,       \* requests on their way to the server or unread there
  replies,    \* replies the client has not read
  dealt,      \* per client and call: times a dealer was run for it
  \* each client
  pc,         \* where its thread is: "idle" or in a step of _Sync
  conn,       \* the number of its open connection, 0 when _socket is null
  conns,      \* connections it opened so far
  packidx,    \* _packidx
  cnt,        \* attempts the call has left behind
  code,       \* code
  results     \* what its calls returned: the code, whose reply it gave

serverVars == <<listening, handler, wire, replies, dealt>>
clientVars == <<pc, conn, conns, packidx, cnt, code, results>>
vars == <<serverVars, clientVars>>

Init ==
  /\ listening = FALSE /\ handler = FALSE /\ wire = {} /\ replies = {}
  /\ dealt = [c \in Clients |-> [n \in 1..MaxCalls |-> 0]]
  /\ pc = [c \in Clients |-> "idle"]
  /\ conn = [c \in Clients |-> 0] /\ conns = [c \in Clients |-> 0]
  /\ packidx = [c \in Clients |-> 0] /\ cnt = [c \in Clients |-> 0]
  /\ code = [c \in Clients |-> 0]
  /\ results = [c \in Clients |-> <<>>]

\* The call client c is making.
Call(c) == Len(results[c]) + 1

-----------------------------------------------------------------------------
(* The server. *)

\* Register listens first and stores the handler then.
Listen ==
  /\ ~listening /\ listening' = TRUE
  /\ UNCHANGED <<handler, wire, replies, dealt, clientVars>>

StoreHandler ==
  /\ listening /\ ~handler /\ handler' = TRUE
  /\ UNCHANGED <<listening, wire, replies, dealt, clientVars>>

Reply(r) ==
  replies' = IF conn[r.client] = r.conn THEN replies \cup {r} ELSE replies

\* OnReceiveData runs the dealer and answers, one-way calls too ...
Deal(r) ==
  /\ handler /\ r \in wire
  /\ wire' = wire \ {r}
  /\ dealt' = [dealt EXCEPT ![r.client][r.call] = @ + 1]
  /\ Reply(r)
  /\ UNCHANGED <<listening, handler, clientVars>>

\* ... and without a handler does neither.
IgnoreAnswers(r) ==
  /\ ~handler /\ r \in wire
  /\ wire' = wire \ {r}
  /\ Reply(r)
  /\ UNCHANGED <<listening, handler, dealt, clientVars>>
Ignore(r) ==
  /\ ~handler /\ r \in wire
  /\ wire' = wire \ {r}
  /\ UNCHANGED <<listening, handler, replies, dealt, clientVars>>

\* A request is lost with its connection.
Lose(r) ==
  /\ r \in wire
  /\ wire' = wire \ {r}
  /\ UNCHANGED <<listening, handler, replies, dealt, clientVars>>

-----------------------------------------------------------------------------
(* The client. *)

\* ScClient::Close: what the connection still brings is not read any more.
Unread(c) == {r \in replies : r.client = c}
CloseSocket(c) ==
  /\ conn' = [conn EXCEPT ![c] = 0]
  /\ replies' = replies \ Unread(c)

Opens(c) ==
  /\ listening /\ conns[c] < MaxConns
  /\ conns' = [conns EXCEPT ![c] = @ + 1]
  /\ conn' = [conn EXCEPT ![c] = conns'[c]]

\* The application's own Connect and Close, between calls.
Connect(c) ==
  /\ pc[c] = "idle" /\ conn[c] = 0 /\ Opens(c)
  /\ UNCHANGED <<serverVars, pc, packidx, cnt, code, results>>

Close(c) ==
  /\ pc[c] = "idle" /\ conn[c] # 0 /\ CloseSocket(c)
  /\ UNCHANGED <<listening, handler, wire, dealt, pc, conns, packidx, cnt, code, results>>

\* SyncCall is called.
Start(c) ==
  /\ pc[c] = "idle" /\ Call(c) <= MaxCalls
  /\ pc' = [pc EXCEPT ![c] = "attempt"]
  /\ cnt' = [cnt EXCEPT ![c] = 0] /\ code' = [code EXCEPT ![c] = 0]
  /\ UNCHANGED <<serverVars, conn, conns, packidx, results>>

Return(c, res, whose) ==
  /\ results' = [results EXCEPT ![c] = Append(@, [code |-> res, reply |-> whose])]
  /\ pc' = [pc EXCEPT ![c] = "idle"]

Attempts == 2

\* An attempt that has a connection goes on, one without opens it first ...
Connected(c) ==
  /\ pc[c] = "attempt" /\ cnt[c] < Attempts /\ conn[c] # 0
  /\ pc' = [pc EXCEPT ![c] = "send"]
  /\ UNCHANGED <<serverVars, conn, conns, packidx, cnt, code, results>>

Reconnect(c) ==
  /\ pc[c] = "attempt" /\ cnt[c] < Attempts /\ conn[c] = 0 /\ Opens(c)
  /\ pc' = [pc EXCEPT ![c] = "send"]
  /\ UNCHANGED <<serverVars, packidx, cnt, code, results>>

\* ... which may fail (refused, unreachable, timed out).
ReconnectFails(c) ==
  /\ pc[c] = "attempt" /\ cnt[c] < Attempts /\ conn[c] = 0
  /\ cnt' = [cnt EXCEPT ![c] = @ + 1] /\ code' = [code EXCEPT ![c] = -2]
  /\ UNCHANGED <<serverVars, pc, conn, conns, packidx, results>>

\* What SendSome may return on a blocking socket that one thread uses: the
\* system's send decides.
SendSome(c) == IF conn[c] = 0 THEN {"bad descriptor"} ELSE {"sent", "failed"}

\* _FillRequest gives the request the next number; Send writes it ...
Send(c) ==
  /\ pc[c] = "send" /\ "sent" \in SendSome(c)
  /\ packidx' = [packidx EXCEPT ![c] = @ + 1]
  /\ wire' = wire \cup {[client |-> c, conn |-> conn[c], idx |-> packidx'[c], call |-> Call(c)]}
  /\ pc' = [pc EXCEPT ![c] = "recv"]
  /\ UNCHANGED <<listening, handler, replies, dealt, conn, conns, cnt, code, results>>

\* What an attempt does when it fails.
KeepConnection(c) ==
  /\ UNCHANGED <<conn, replies>>
  /\ cnt' = [cnt EXCEPT ![c] = @ + 1] /\ code' = [code EXCEPT ![c] = -3]
  /\ pc' = [pc EXCEPT ![c] = "attempt"]
Fail(c) ==
  /\ CloseSocket(c)
  /\ cnt' = [cnt EXCEPT ![c] = @ + 1] /\ code' = [code EXCEPT ![c] = -3]
  /\ pc' = [pc EXCEPT ![c] = "attempt"]

\* ... or fails, and the server never has the whole of it.
SendFails(c) ==
  /\ pc[c] = "send" /\ SendSome(c) \ {"sent"} # {}
  /\ packidx' = [packidx EXCEPT ![c] = @ + 1]
  /\ Fail(c)
  /\ UNCHANGED <<listening, handler, wire, dealt, conns, results>>

\* What RecvSome may read; or it fails, at any time.
RecvSome(c) == IF conn[c] = 0 THEN {} ELSE Unread(c)

\* Recv has a reply; _CheckReply accepts the one to this attempt only.
CheckReply(c, r) == r.idx = packidx[c]

Recv(c, r) ==
  /\ pc[c] = "recv" /\ r \in RecvSome(c)
  /\ IF CheckReply(c, r)
     THEN /\ replies' = replies \ {r}
          /\ Return(c, 0, r.call)
          /\ UNCHANGED <<conn, cnt, code>>
     ELSE /\ Fail(c)
          /\ UNCHANGED results
  /\ UNCHANGED <<listening, handler, wire, dealt, conns, packidx>>

\* Recv returns null: the time SetTimeOut gave is over, or the connection broke;
\* either way the attempt's code is -3.
RecvFails(c) ==
  /\ pc[c] = "recv"
  /\ Fail(c)
  /\ UNCHANGED <<listening, handler, wire, dealt, conns, packidx, results>>

\* No attempt is left.
GiveUp(c) ==
  /\ pc[c] = "attempt" /\ cnt[c] = Attempts
  /\ Return(c, code[c], 0)
  /\ UNCHANGED <<serverVars, conn, conns, packidx, cnt, code>>

Client(c) ==
  \/ Connect(c) \/ Close(c) \/ Start(c)
  \/ Connected(c) \/ Reconnect(c) \/ ReconnectFails(c)
  \/ Send(c) \/ SendFails(c)
  \/ \E r \in replies : Recv(c, r)
  \/ RecvFails(c)
  \/ GiveUp(c)

Server ==
  \/ Listen \/ StoreHandler
  \/ \E r \in wire : Deal(r) \/ Ignore(r) \/ Lose(r)

Next == Server \/ \E c \in Clients : Client(c)

Spec == Init /\ [][Next]_vars

-----------------------------------------------------------------------------
(* Properties *)

Message == [client : Clients, conn : Nat \ {0}, idx : Nat, call : 1..MaxCalls]

TypeOK ==
  /\ listening \in BOOLEAN /\ handler \in BOOLEAN
  /\ wire \subseteq Message /\ replies \subseteq Message
  /\ dealt \in [Clients -> [1..MaxCalls -> Nat]]
  /\ pc \in [Clients -> {"idle", "attempt", "send", "recv"}]
  /\ conn \in [Clients -> Nat] /\ conns \in [Clients -> Nat]
  /\ packidx \in [Clients -> Nat] /\ cnt \in [Clients -> 0..Attempts]
  /\ code \in [Clients -> {0, -2, -3}]
  /\ results \in [Clients -> Seq([code : {0, -2, -3}, reply : 0..MaxCalls])]

\* A call that returns 0 was dealt with, and the reply it hands out is the
\* reply to this very call, whatever earlier attempts and calls left behind.
OkMeansDealt ==
  \A c \in Clients : \A n \in 1..Len(results[c]) :
    results[c][n].code = 0 => dealt[c][n] >= 1 /\ results[c][n].reply = n

\* A connection carries one request at a time: what is unanswered or unread
\* on the open one belongs to the attempt that waits for it.
OneOutstanding ==
  \A r \in wire \cup replies :
    r.conn = conn[r.client] => pc[r.client] = "recv" /\ r.idx = packidx[r.client]

-----------------------------------------------------------------------------
(* What makes these hold.                                                  *)

InTransit == wire \cup replies

\* A connection's number is used once, and a reply that can still be read
\* came over the connection that is open now.
ConnInv ==
  /\ \A c \in Clients : conn[c] <= conns[c]
  /\ \A r \in InTransit : r.conn <= conns[r.client]
  /\ \A r \in replies : r.conn = conn[r.client]

\* A number stands for one request, which is on its way to the server or
\* answered, and not both.
NumberInv ==
  /\ wire \cap replies = {}
  /\ \A r \in InTransit : r.idx <= packidx[r.client]
  /\ \A r, s \in InTransit : r.client = s.client /\ r.idx = s.idx => r = s

\* The number of the attempt that waits belongs to the call that makes it,
\* and only what was dealt with is answered.
CallInv ==
  /\ \A r \in InTransit :
       pc[r.client] = "recv" /\ r.idx = packidx[r.client] => r.call = Call(r.client)
  /\ \A r \in replies : dealt[r.client][r.call] >= 1

\* A call makes two attempts at most, and has a code of theirs to return.
AttemptInv ==
  \A c \in Clients :
    /\ Len(results[c]) <= MaxCalls
    /\ pc[c] # "idle" => Call(c) <= MaxCalls
    /\ pc[c] \in {"send", "recv"} => cnt[c] < Attempts
    /\ cnt[c] > 0 => code[c] # 0

SyncInv ==
  /\ TypeOK /\ ConnInv /\ NumberInv /\ CallInv /\ AttemptInv
  /\ OneOutstanding /\ OkMeansDealt
=============================================================================
