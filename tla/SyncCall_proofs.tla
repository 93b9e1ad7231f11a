-------------------------- MODULE SyncCall_proofs ---------------------------
(***************************************************************************)
(* Proofs about the blocking calls, for any number of clients, calls and   *)
(* connections: a connection carries one request at a time, and a call     *)
(* that returns 0 was dealt with and has its own reply.                    *)
(***************************************************************************)
EXTENDS SyncCall, TLAPS

\* What a message in transit is made of.
LEMMA InTransitTypes ==
  ASSUME TypeOK, NEW r \in InTransit
  PROVE  /\ r.client \in Clients /\ r.call \in 1..MaxCalls
         /\ r.conn \in Nat \ {0} /\ r.idx \in Nat
         /\ conn[r.client] \in Nat /\ conns[r.client] \in Nat /\ packidx[r.client] \in Nat
<1>1. r \in Message
  BY DEF TypeOK, InTransit
<1>2. r.client \in Clients
  BY <1>1 DEF Message
<1>3. QED
  BY <1>1, <1>2 DEF Message, TypeOK

\* The invariant holds before anything was called.
LEMMA SyncInitInv == Init => SyncInv
<1> SUFFICES ASSUME Init PROVE SyncInv
  OBVIOUS
<1>1. TypeOK
  <2>1. results \in [Clients -> Seq([code : {0, -2, -3}, reply : 0..MaxCalls])]
    BY DEF Init
  <2>2. cnt \in [Clients -> 0..Attempts] /\ code \in [Clients -> {0, -2, -3}]
    BY DEF Init, Attempts
  <2>3. QED
    BY <2>1, <2>2 DEF Init, TypeOK
<1>2. ConnInv /\ NumberInv /\ CallInv /\ OneOutstanding /\ OkMeansDealt
  BY DEF Init, InTransit, ConnInv, NumberInv, CallInv, OneOutstanding, OkMeansDealt
<1>3. AttemptInv
  BY BoundsAssumption DEF Init, AttemptInv
<1>4. QED
  BY <1>1, <1>2, <1>3 DEF SyncInv

-----------------------------------------------------------------------------
(* The server.                                                             *)

\* Dealing with a request turns it into a reply, if it can still be read.
LEMMA SyncDeal ==
  ASSUME SyncInv, NEW r \in wire, Deal(r)
  PROVE  SyncInv'
<1> USE DEF SyncInv
<1>1. /\ r \in Message /\ wire' = wire \ {r}
      /\ \/ replies' = replies
         \/ conn[r.client] = r.conn /\ replies' = replies \cup {r}
      /\ UNCHANGED <<listening, handler, clientVars>>
  BY DEF Deal, Reply, TypeOK
<1>2. r.client \in Clients /\ r.call \in 1..MaxCalls
  BY <1>1 DEF Message
<1>3. /\ dealt' \in [Clients -> [1..MaxCalls -> Nat]]
      /\ dealt'[r.client][r.call] >= 1
      /\ \A c \in Clients, n \in 1..MaxCalls : dealt'[c][n] >= dealt[c][n]
  <2>2. dealt[r.client] \in [1..MaxCalls -> Nat] /\ dealt[r.client][r.call] \in Nat
    BY <1>2 DEF TypeOK
  <2> DEFINE n0 == dealt[r.client][r.call] + 1
             mine == [dealt[r.client] EXCEPT ![r.call] = n0]
  <2>3. /\ mine \in [1..MaxCalls -> Nat] /\ mine[r.call] >= 1
        /\ \A n \in 1..MaxCalls : mine[n] >= dealt[r.client][n]
    <3>1. n0 \in Nat /\ n0 >= 1
      BY <2>2
    <3> HIDE DEF n0
    <3>2. mine \in [1..MaxCalls -> Nat] /\ mine[r.call] = n0
      BY <1>2, <2>2, <3>1
    <3>3. ASSUME NEW n \in 1..MaxCalls PROVE mine[n] >= dealt[r.client][n]
      <4>1. dealt[r.client][n] \in Nat
        BY <2>2
      <4>2. CASE n = r.call
        BY <4>1, <4>2, <3>2 DEF n0
      <4>3. CASE n # r.call
        BY <4>1, <4>3, <2>2
      <4>4. QED
        BY <4>2, <4>3
    <3>4. QED
      BY <3>1, <3>2, <3>3
  <2>4. dealt' = [dealt EXCEPT ![r.client] = mine]
    BY DEF Deal
  <2> HIDE DEF mine
  <2>5. dealt' \in [Clients -> [1..MaxCalls -> Nat]] /\ dealt'[r.client] = mine
    BY <1>2, <2>3, <2>4 DEF TypeOK
  <2>6. ASSUME NEW c \in Clients, NEW n \in 1..MaxCalls
        PROVE  dealt'[c][n] >= dealt[c][n]
    <3>1. CASE c = r.client
      BY <3>1, <2>3, <2>5
    <3>2. CASE c # r.client
      <4>1. dealt'[c] = dealt[c] /\ dealt[c][n] \in Nat
        BY <3>2, <2>4 DEF TypeOK
      <4>2. QED
        BY <4>1
    <3>3. QED
      BY <3>1, <3>2
  <2>7. QED
    BY <2>3, <2>5, <2>6
<1>4. TypeOK'
  BY <1>1, <1>3 DEF TypeOK, clientVars
<1>5. ConnInv'
  BY <1>1 DEF ConnInv, InTransit, clientVars
<1>6. NumberInv'
  BY <1>1 DEF NumberInv, InTransit, clientVars
<1>7. CallInv' /\ AttemptInv'
  <2>1. \A s \in replies' : dealt'[s.client][s.call] >= 1
    <3>1. SUFFICES ASSUME NEW s \in replies, s # r PROVE dealt'[s.client][s.call] >= 1
      BY <1>1, <1>3
    <3>2. s.client \in Clients /\ s.call \in 1..MaxCalls
      BY DEF TypeOK, Message
    <3>3. dealt[s.client][s.call] >= 1
      BY DEF CallInv
    <3>4. dealt[s.client][s.call] \in Nat /\ dealt'[s.client][s.call] \in Nat
      BY <1>3, <3>2 DEF TypeOK
    <3>5. QED
      BY <1>3, <3>2, <3>3, <3>4
  <2>2. QED
    BY <1>1, <2>1 DEF CallInv, AttemptInv, InTransit, clientVars, Call
<1>8. OneOutstanding'
  BY <1>1 DEF OneOutstanding, clientVars
<1>9. OkMeansDealt'
  <2> SUFFICES ASSUME NEW c \in Clients, NEW n \in 1..Len(results[c]), results[c][n].code = 0
               PROVE  dealt'[c][n] >= 1 /\ results[c][n].reply = n
    BY <1>1 DEF OkMeansDealt, clientVars
  <2>1. dealt[c][n] >= 1 /\ results[c][n].reply = n
    BY DEF OkMeansDealt
  <2>2. results[c] \in Seq([code : {0, -2, -3}, reply : 0..MaxCalls]) /\ Len(results[c]) <= MaxCalls
    BY DEF TypeOK, AttemptInv
  <2>3. n \in 1..MaxCalls
    BY <2>1, <2>2, BoundsAssumption DEF AttemptInv, TypeOK
  <2>4. dealt[c][n] \in Nat /\ dealt'[c][n] \in Nat
    BY <1>3, <2>3 DEF TypeOK
  <2>5. QED
    BY <1>3, <2>1, <2>3, <2>4
<1>10. QED
  BY <1>4, <1>5, <1>6, <1>7, <1>8, <1>9

\* A request that is ignored or lost is gone.
LEMMA SyncDropped ==
  ASSUME SyncInv, NEW r \in wire, Ignore(r) \/ Lose(r)
  PROVE  SyncInv'
<1>1. wire' = wire \ {r} /\ UNCHANGED <<listening, handler, replies, dealt, clientVars>>
  BY DEF Ignore, Lose
<1>2. TypeOK' /\ OkMeansDealt'
  BY <1>1 DEF SyncInv, TypeOK, OkMeansDealt, clientVars
<1>3. ConnInv' /\ NumberInv' /\ CallInv' /\ AttemptInv' /\ OneOutstanding'
  BY <1>1 DEF SyncInv, ConnInv, NumberInv, CallInv, AttemptInv, OneOutstanding,
              InTransit, Call, clientVars
<1>4. QED
  BY <1>2, <1>3 DEF SyncInv

\* Register changes nothing else.
LEMMA SyncListens ==
  ASSUME SyncInv, Listen \/ StoreHandler
  PROVE  SyncInv'
<1>1. /\ UNCHANGED <<wire, replies, dealt, clientVars>>
      /\ listening' \in BOOLEAN /\ handler' \in BOOLEAN
  BY DEF Listen, StoreHandler, SyncInv, TypeOK
<1>2. TypeOK' /\ OkMeansDealt'
  BY <1>1 DEF SyncInv, TypeOK, OkMeansDealt, clientVars
<1>3. ConnInv' /\ NumberInv' /\ CallInv' /\ AttemptInv' /\ OneOutstanding'
  BY <1>1 DEF SyncInv, ConnInv, NumberInv, CallInv, AttemptInv, OneOutstanding,
              InTransit, Call, clientVars
<1>4. QED
  BY <1>2, <1>3 DEF SyncInv

-----------------------------------------------------------------------------
(* A client.                                                               *)

\* Nothing has come over a connection that is new.
LEMMA SyncOpens ==
  ASSUME SyncInv, NEW c \in Clients, Connect(c) \/ Reconnect(c)
  PROVE  SyncInv'
<1> USE DEF SyncInv
<1>0. conns \in [Clients -> Nat] /\ conn \in [Clients -> Nat] /\ conns[c] + 1 \in Nat
  BY DEF TypeOK
<1>1. /\ conn[c] = 0 /\ pc[c] # "recv"
      /\ conns' = [conns EXCEPT ![c] = @ + 1]
      /\ conn' = [conn EXCEPT ![c] = conns[c] + 1]
      /\ pc' = pc \/ (pc[c] = "attempt" /\ pc' = [pc EXCEPT ![c] = "send"])
      /\ UNCHANGED <<serverVars, packidx, cnt, code, results>>
  <2>1. /\ conns' = [conns EXCEPT ![c] = conns[c] + 1]
        /\ conn' = [conn EXCEPT ![c] = conns'[c]]
    BY DEF Connect, Reconnect, Opens
  <2>2. conns'[c] = conns[c] + 1
    BY <1>0, <2>1
  <2>3. /\ conn[c] = 0 /\ pc[c] # "recv"
        /\ pc' = pc \/ (pc[c] = "attempt" /\ pc' = [pc EXCEPT ![c] = "send"])
        /\ UNCHANGED <<serverVars, packidx, cnt, code, results>>
    <3>1. CASE Connect(c)
      BY <3>1 DEF Connect
    <3>2. CASE Reconnect(c)
      BY <3>2 DEF Reconnect
    <3>3. QED
      BY <3>1, <3>2
  <2>4. QED
    BY <2>1, <2>2, <2>3
<1>2. TypeOK'
  <2>1. conns' \in [Clients -> Nat] /\ conn' \in [Clients -> Nat]
    BY <1>0, <1>1
  <2>2. pc' \in [Clients -> {"idle", "attempt", "send", "recv"}]
    BY <1>1 DEF TypeOK
  <2>3. QED
    BY <1>1, <2>1, <2>2 DEF TypeOK, serverVars
<1>3. ConnInv'
  <2>1. \A d \in Clients : conn[d] \in Nat /\ conns[d] \in Nat
    BY DEF TypeOK
  <2>2. \A r \in InTransit : r.client \in Clients /\ r.conn \in Nat \ {0}
    BY DEF TypeOK, InTransit, Message
  <2>3. \A r \in replies : r.client # c
    BY <1>1, <2>2 DEF ConnInv, InTransit
  <2>4. QED
    BY <1>1, <1>2, <2>1, <2>2, <2>3 DEF ConnInv, InTransit, TypeOK, serverVars
<1>4. NumberInv' /\ OkMeansDealt'
  BY <1>1 DEF NumberInv, OkMeansDealt, InTransit, serverVars
<1>5. AttemptInv'
  <2>1. pc[c] = "attempt" /\ pc' = [pc EXCEPT ![c] = "send"] => cnt[c] < Attempts
    BY DEF Connect, Reconnect
  <2>2. QED
    BY <1>1, <2>1 DEF AttemptInv, Call, TypeOK
<1>6. \A r \in InTransit : pc'[r.client] = "recv" <=> pc[r.client] = "recv"
  BY <1>1, InTransitTypes DEF TypeOK
<1>7. CallInv'
  BY <1>1, <1>6 DEF CallInv, InTransit, Call, serverVars
<1>8. OneOutstanding'
  <2> SUFFICES ASSUME NEW r \in InTransit, r.conn = conn'[r.client]
               PROVE  pc'[r.client] = "recv" /\ r.idx = packidx[r.client]
    BY <1>1 DEF OneOutstanding, InTransit, serverVars
  <2>1. r.client \in Clients /\ r.conn \in Nat /\ conns[r.client] \in Nat
    BY InTransitTypes
  <2>2. r.conn <= conns[r.client]
    BY DEF ConnInv
  <2>3. r.client # c
    BY <1>1, <2>1, <2>2 DEF TypeOK
  <2>4. r.conn = conn[r.client]
    BY <1>1, <2>1, <2>3 DEF TypeOK
  <2>5. QED
    BY <1>6, <2>4 DEF OneOutstanding, InTransit
<1>9. QED
  BY <1>2, <1>3, <1>4, <1>5, <1>7, <1>8

\* Closing the connection leaves nothing to be read on it.
LEMMA SyncCloses ==
  ASSUME SyncInv, NEW c \in Clients, CloseSocket(c), UNCHANGED <<wire, conns>>,
         packidx' \in [Clients -> Nat],
         \A d \in Clients : packidx[d] <= packidx'[d],
         \A d \in Clients \ {c} : pc'[d] = pc[d] /\ packidx'[d] = packidx[d]
  PROVE  ConnInv' /\ NumberInv' /\ OneOutstanding'
<1> USE DEF SyncInv
<1>1. /\ conn' = [conn EXCEPT ![c] = 0]
      /\ replies' = {r \in replies : r.client # c}
  BY DEF CloseSocket, Unread
<1>2. \A r \in InTransit : /\ r.client \in Clients /\ r.conn \in Nat \ {0}
                           /\ r.idx \in Nat /\ packidx[r.client] \in Nat
  BY InTransitTypes
<1>3. InTransit' \subseteq InTransit
  BY <1>1 DEF InTransit
<1>4. ConnInv'
  <2>1. \A d \in Clients : conn[d] \in Nat /\ conns[d] \in Nat
    BY DEF TypeOK
  <2>2. QED
    BY <1>1, <1>2, <1>3, <2>1 DEF ConnInv, TypeOK, InTransit
<1>5. NumberInv'
  <2>1. \A r \in InTransit' : r.idx <= packidx'[r.client]
    <3> SUFFICES ASSUME NEW r \in InTransit PROVE r.idx <= packidx'[r.client]
      BY <1>3
    <3>1. r.idx <= packidx[r.client]
      BY DEF NumberInv
    <3>2. r.client \in Clients /\ r.idx \in Nat /\ packidx[r.client] \in Nat
      BY <1>2
    <3>3. packidx[r.client] <= packidx'[r.client] /\ packidx'[r.client] \in Nat
      BY <3>2
    <3>4. QED
      BY <3>1, <3>2, <3>3
  <2>2. QED
    BY <1>1, <1>3, <2>1 DEF NumberInv
<1>6. OneOutstanding'
  <2> SUFFICES ASSUME NEW r \in InTransit, r.conn = conn'[r.client]
               PROVE  pc'[r.client] = "recv" /\ r.idx = packidx'[r.client]
    BY <1>3 DEF OneOutstanding, InTransit
  <2>1. r.client \in Clients \ {c}
    BY <1>1, <1>2 DEF TypeOK
  <2>2. r.conn = conn[r.client]
    BY <1>1, <2>1 DEF TypeOK
  <2>3. QED
    BY <2>1, <2>2 DEF OneOutstanding, InTransit
<1>7. QED
  BY <1>4, <1>5, <1>6

\* Close by the application.
LEMMA SyncClose ==
  ASSUME SyncInv, NEW c \in Clients, Close(c)
  PROVE  SyncInv'
<1> USE DEF SyncInv
<1>1. /\ CloseSocket(c)
      /\ UNCHANGED <<listening, handler, wire, dealt, pc, conns, packidx, cnt, code, results>>
  BY DEF Close
<1>2. ConnInv' /\ NumberInv' /\ OneOutstanding'
  <2>1. \A d \in Clients : packidx[d] \in Nat /\ packidx[d] <= packidx[d]
    BY DEF TypeOK
  <2>2. QED
    BY <1>1, <2>1, SyncCloses DEF TypeOK
<1>3. conn' = [conn EXCEPT ![c] = 0] /\ replies' \subseteq replies
  BY <1>1 DEF CloseSocket
<1>4. TypeOK' /\ OkMeansDealt'
  BY <1>1, <1>3 DEF TypeOK, OkMeansDealt
<1>5. CallInv' /\ AttemptInv'
  BY <1>1, <1>3 DEF CallInv, AttemptInv, InTransit, Call
<1>6. QED
  BY <1>2, <1>4, <1>5

\* An attempt that fails closes the connection it used.
LEMMA SyncFail ==
  ASSUME SyncInv, NEW c \in Clients, pc[c] \in {"send", "recv"}, Fail(c),
         packidx' = packidx \/ packidx' = [packidx EXCEPT ![c] = @ + 1],
         UNCHANGED <<listening, handler, wire, dealt, conns, results>>
  PROVE  SyncInv'
<1> USE DEF SyncInv
<1>1. /\ CloseSocket(c)
      /\ conn' = [conn EXCEPT ![c] = 0] /\ replies' \subseteq replies
      /\ cnt' = [cnt EXCEPT ![c] = @ + 1] /\ code' = [code EXCEPT ![c] = -3]
      /\ pc' = [pc EXCEPT ![c] = "attempt"]
  BY DEF Fail, CloseSocket
<1>2. packidx' \in [Clients -> Nat] /\ \A d \in Clients : packidx[d] <= packidx'[d]
  <2>1. packidx \in [Clients -> Nat] /\ packidx[c] + 1 \in Nat
    BY DEF TypeOK
  <2>2. CASE packidx' = packidx
    BY <2>1, <2>2
  <2>3. CASE packidx' = [packidx EXCEPT ![c] = @ + 1]
    BY <2>1, <2>3
  <2>4. QED
    BY <2>2, <2>3
<1>3. TypeOK'
  <2>1. cnt[c] < Attempts
    BY DEF AttemptInv
  <2>2. cnt' \in [Clients -> 0..Attempts]
    <3>1. cnt \in [Clients -> 0..Attempts]
      BY DEF TypeOK
    <3>2. cnt[c] + 1 \in 0..Attempts
      <4>1. cnt[c] \in 0..Attempts
        BY <3>1
      <4>2. QED
        BY <2>1, <4>1 DEF Attempts
    <3>3. QED
      BY <1>1, <3>1, <3>2
  <2>3. QED
    BY <1>1, <1>2, <2>2 DEF TypeOK
<1>4. ConnInv' /\ NumberInv' /\ OneOutstanding'
  <2>1. \A d \in Clients \ {c} : pc'[d] = pc[d] /\ packidx'[d] = packidx[d]
    BY <1>1 DEF TypeOK
  <2>2. QED
    BY <1>1, <1>2, <2>1, SyncCloses
<1>5. CallInv'
  <2>1. \A r \in InTransit' :
          pc'[r.client] = "recv" /\ r.idx = packidx'[r.client] => r.call = Call(r.client)'
    <3> SUFFICES ASSUME NEW r \in InTransit, pc'[r.client] = "recv", r.idx = packidx'[r.client]
                 PROVE  r.call = Call(r.client)
      BY <1>1 DEF InTransit, Call
    <3>1. r.client \in Clients
      BY InTransitTypes
    <3>2. r.client # c
      BY <1>1, <3>1 DEF TypeOK
    <3>3. pc[r.client] = "recv" /\ r.idx = packidx[r.client]
      BY <1>1, <3>1, <3>2 DEF TypeOK
    <3>4. QED
      BY <3>3 DEF CallInv
  <2>2. \A r \in replies' : dealt'[r.client][r.call] >= 1
    BY <1>1 DEF CallInv
  <2>3. QED
    BY <2>1, <2>2 DEF CallInv
<1>6. AttemptInv'
  <2> SUFFICES ASSUME NEW d \in Clients
               PROVE  /\ Len(results[d]) <= MaxCalls
                      /\ pc'[d] # "idle" => Call(d) <= MaxCalls
                      /\ pc'[d] \in {"send", "recv"} => cnt'[d] < Attempts
                      /\ cnt'[d] > 0 => code'[d] # 0
    BY DEF AttemptInv, Call
  <2>1. CASE d = c
    BY <1>1, <2>1 DEF AttemptInv, TypeOK
  <2>2. CASE d # c
    <3>1. pc'[d] = pc[d] /\ cnt'[d] = cnt[d] /\ code'[d] = code[d]
      BY <1>1, <2>2 DEF TypeOK
    <3>2. QED
      BY <3>1 DEF AttemptInv
  <2>3. QED
    BY <2>1, <2>2
<1>7. OkMeansDealt'
  BY DEF OkMeansDealt
<1>8. QED
  BY <1>3, <1>4, <1>5, <1>6, <1>7

\* A call begins.
LEMMA SyncStart ==
  ASSUME SyncInv, NEW c \in Clients, Start(c)
  PROVE  SyncInv'
<1> USE DEF SyncInv
<1>1. /\ pc[c] = "idle" /\ Call(c) <= MaxCalls
      /\ pc' = [pc EXCEPT ![c] = "attempt"]
      /\ cnt' = [cnt EXCEPT ![c] = 0] /\ code' = [code EXCEPT ![c] = 0]
      /\ UNCHANGED <<serverVars, conn, conns, packidx, results>>
  BY DEF Start
<1>2. TypeOK'
  <2>1. pc' \in [Clients -> {"idle", "attempt", "send", "recv"}]
    BY <1>1 DEF TypeOK
  <2>2. cnt' \in [Clients -> 0..Attempts]
    BY <1>1 DEF TypeOK, Attempts
  <2>3. code' \in [Clients -> {0, -2, -3}]
    BY <1>1 DEF TypeOK
  <2>4. QED
    BY <1>1, <2>1, <2>2, <2>3 DEF TypeOK, serverVars
<1>3. \A r \in InTransit : pc'[r.client] = "recv" <=> pc[r.client] = "recv"
  BY <1>1, InTransitTypes DEF TypeOK
<1>4. ConnInv' /\ NumberInv' /\ OkMeansDealt'
  BY <1>1 DEF ConnInv, NumberInv, OkMeansDealt, InTransit, serverVars
<1>5. CallInv' /\ OneOutstanding'
  BY <1>1, <1>3 DEF CallInv, OneOutstanding, InTransit, Call, serverVars
<1>6. AttemptInv'
  BY <1>1 DEF AttemptInv, Call, TypeOK
<1>7. QED
  BY <1>2, <1>4, <1>5, <1>6

\* An attempt that has its connection goes on.
LEMMA SyncConnected ==
  ASSUME SyncInv, NEW c \in Clients, Connected(c)
  PROVE  SyncInv'
<1> USE DEF SyncInv
<1>1. /\ pc[c] = "attempt" /\ cnt[c] < Attempts
      /\ pc' = [pc EXCEPT ![c] = "send"]
      /\ UNCHANGED <<serverVars, conn, conns, packidx, cnt, code, results>>
  BY DEF Connected
<1>2. TypeOK'
  BY <1>1 DEF TypeOK, serverVars
<1>3. \A r \in InTransit : pc'[r.client] = "recv" <=> pc[r.client] = "recv"
  BY <1>1, InTransitTypes DEF TypeOK
<1>4. ConnInv' /\ NumberInv' /\ OkMeansDealt'
  BY <1>1 DEF ConnInv, NumberInv, OkMeansDealt, InTransit, serverVars
<1>5. CallInv' /\ OneOutstanding'
  BY <1>1, <1>3 DEF CallInv, OneOutstanding, InTransit, Call, serverVars
<1>6. AttemptInv'
  BY <1>1 DEF AttemptInv, Call, TypeOK
<1>7. QED
  BY <1>2, <1>4, <1>5, <1>6

\* An attempt that cannot connect leaves its code.
LEMMA SyncReconnectFails ==
  ASSUME SyncInv, NEW c \in Clients, ReconnectFails(c)
  PROVE  SyncInv'
<1> USE DEF SyncInv
<1>1. /\ pc[c] = "attempt" /\ cnt[c] < Attempts
      /\ cnt' = [cnt EXCEPT ![c] = @ + 1] /\ code' = [code EXCEPT ![c] = -2]
      /\ UNCHANGED <<serverVars, pc, conn, conns, packidx, results>>
  BY DEF ReconnectFails
<1>2. cnt \in [Clients -> 0..Attempts] /\ cnt[c] \in 0..Attempts
  BY DEF TypeOK
<1>3. cnt[c] + 1 \in 0..Attempts
  BY <1>1, <1>2 DEF Attempts
<1>4. TypeOK'
  <2>1. cnt' \in [Clients -> 0..Attempts]
    BY <1>1, <1>2, <1>3
  <2>2. code' \in [Clients -> {0, -2, -3}]
    BY <1>1 DEF TypeOK
  <2>3. QED
    BY <1>1, <2>1, <2>2 DEF TypeOK, serverVars
<1>5. ConnInv' /\ NumberInv' /\ OkMeansDealt'
  BY <1>1 DEF ConnInv, NumberInv, OkMeansDealt, InTransit, serverVars
<1>6. CallInv' /\ OneOutstanding'
  BY <1>1 DEF CallInv, OneOutstanding, InTransit, Call, serverVars
<1>7. AttemptInv'
  BY <1>1 DEF AttemptInv, Call, TypeOK
<1>8. QED
  BY <1>4, <1>5, <1>6, <1>7

\* The request has a number and a connection no other in transit has.
LEMMA SyncSend ==
  ASSUME SyncInv, NEW c \in Clients, Send(c)
  PROVE  SyncInv'
<1> USE DEF SyncInv
<1> DEFINE q == [client |-> c, conn |-> conn[c], idx |-> packidx[c] + 1, call |-> Call(c)]
<1>1. /\ conn \in [Clients -> Nat] /\ conns \in [Clients -> Nat]
      /\ packidx \in [Clients -> Nat] /\ packidx[c] + 1 \in Nat
      /\ Len(results[c]) \in Nat
  BY DEF TypeOK
<1>2. /\ pc[c] = "send" /\ conn[c] # 0
      /\ pc' = [pc EXCEPT ![c] = "recv"]
      /\ packidx' = [packidx EXCEPT ![c] = packidx[c] + 1]
      /\ UNCHANGED <<listening, handler, replies, dealt, conn, conns, cnt, code, results>>
  BY DEF Send, SendSome
<1>3. wire' = wire \cup {q}
  BY <1>1, <1>2 DEF Send
<1>4. q \in Message
  <2>1. Call(c) \in 1..MaxCalls
    BY <1>1, <1>2, BoundsAssumption DEF AttemptInv, Call
  <2>2. QED
    BY <1>1, <1>2, <2>1 DEF Message
<1>5. q.client = c /\ q.conn = conn[c] /\ q.idx = packidx[c] + 1 /\ q.call = Call(c)
  OBVIOUS
<1> HIDE DEF q
<1>6. InTransit' = InTransit \cup {q}
  BY <1>2, <1>3 DEF InTransit
<1>7. TypeOK'
  <2>1. packidx' \in [Clients -> Nat]
    BY <1>1, <1>2
  <2>2. pc' \in [Clients -> {"idle", "attempt", "send", "recv"}]
    BY <1>2 DEF TypeOK
  <2>3. QED
    BY <1>2, <1>3, <1>4, <2>1, <2>2 DEF TypeOK
<1>8. \A r \in InTransit : r.client = c => r.idx <= packidx[c] /\ r.idx < q.idx
  BY <1>1, <1>5, InTransitTypes DEF NumberInv
<1>9. ConnInv'
  BY <1>2, <1>5, <1>6 DEF ConnInv
<1>10. NumberInv'
  <2>1. q \notin InTransit
    BY <1>1, <1>5, <1>8
  <2>2. \A r \in InTransit' : r.idx <= packidx'[r.client]
    <3>1. q.idx <= packidx'[q.client]
      BY <1>1, <1>2, <1>5
    <3>2. ASSUME NEW r \in InTransit PROVE r.idx <= packidx'[r.client]
      <4>1. r.client \in Clients /\ r.idx \in Nat /\ r.idx <= packidx[r.client]
        BY InTransitTypes DEF NumberInv
      <4>2. CASE r.client = c
        BY <1>1, <1>2, <4>1, <4>2
      <4>3. CASE r.client # c
        BY <1>1, <1>2, <4>1, <4>3
      <4>4. QED
        BY <4>2, <4>3
    <3>3. QED
      BY <1>6, <3>1, <3>2
  <2>3. \A r, s \in InTransit' : r.client = s.client /\ r.idx = s.idx => r = s
    <3>1. \A r \in InTransit : r.client = c => r.idx # q.idx
      BY <1>1, <1>5, <1>8, InTransitTypes
    <3>2. QED
      BY <1>5, <1>6, <3>1 DEF NumberInv
  <2>4. wire' \cap replies' = {}
    BY <1>2, <1>3, <2>1 DEF NumberInv, InTransit
  <2>5. QED
    BY <2>2, <2>3, <2>4 DEF NumberInv
<1>11. ASSUME NEW r \in InTransit', r # q
       PROVE  \/ r.client = c /\ r.idx # packidx'[c]
              \/ /\ r.client \in Clients \ {c}
                 /\ pc'[r.client] = pc[r.client] /\ packidx'[r.client] = packidx[r.client]
  <2>1. r \in InTransit /\ r.client \in Clients /\ r.idx \in Nat
    BY <1>6, <1>11, InTransitTypes
  <2>2. CASE r.client = c
    BY <1>1, <1>2, <1>5, <1>8, <2>1, <2>2
  <2>3. CASE r.client # c
    BY <1>1, <1>2, <2>1, <2>3 DEF TypeOK
  <2>4. QED
    BY <2>2, <2>3
<1>12. CallInv'
  <2>1. ASSUME NEW r \in InTransit', pc'[r.client] = "recv", r.idx = packidx'[r.client]
        PROVE  r.call = Call(r.client)'
    <3>1. CASE r = q
      BY <1>2, <1>5, <3>1 DEF Call
    <3>2. CASE r # q
      BY <1>2, <1>6, <1>11, <2>1, <3>2 DEF CallInv, Call
    <3>3. QED
      BY <3>1, <3>2
  <2>2. QED
    BY <1>2, <2>1 DEF CallInv
<1>13. OneOutstanding'
  <2> SUFFICES ASSUME NEW r \in InTransit', r.conn = conn'[r.client]
               PROVE  pc'[r.client] = "recv" /\ r.idx = packidx'[r.client]
    BY DEF OneOutstanding, InTransit
  <2>1. CASE r = q
    BY <1>1, <1>2, <1>5, <2>1 DEF TypeOK
  <2>2. CASE r # q
    <3>1. r \in InTransit /\ r.conn = conn[r.client]
      BY <1>2, <1>6, <2>2
    <3>2. pc[r.client] = "recv" /\ r.idx = packidx[r.client]
      BY <3>1 DEF OneOutstanding, InTransit
    <3>3. r.client # c
      BY <1>2, <3>2
    <3>4. QED
      BY <1>11, <2>2, <3>2, <3>3
  <2>3. QED
    BY <2>1, <2>2
<1>14. AttemptInv'
  BY <1>2 DEF AttemptInv, Call, TypeOK
<1>15. OkMeansDealt'
  BY <1>2 DEF OkMeansDealt
<1>16. QED
  BY <1>7, <1>9, <1>10, <1>12, <1>13, <1>14, <1>15

\* A send that fails has used a number up, and no request.
LEMMA SyncSendFails ==
  ASSUME SyncInv, NEW c \in Clients, SendFails(c)
  PROVE  SyncInv'
BY SyncFail DEF SendFails

\* A reply is the answer to the attempt that waits, and to nothing else.
LEMMA SyncRecv ==
  ASSUME SyncInv, NEW c \in Clients, NEW r \in replies, Recv(c, r)
  PROVE  SyncInv'
<1> USE DEF SyncInv
<1>1. CASE ~CheckReply(c, r)
  <2>1. Fail(c) /\ pc[c] = "recv"
    BY <1>1 DEF Recv
  <2>2. UNCHANGED <<listening, handler, wire, dealt, conns, packidx, results>>
    BY <1>1 DEF Recv
  <2>3. QED
    BY <2>1, <2>2, SyncFail
<1>2. CASE CheckReply(c, r)
  <2> DEFINE res == [code |-> 0, reply |-> r.call]
  <2>1. /\ pc[c] = "recv" /\ r.client = c /\ r.idx = packidx[c]
        /\ replies' = replies \ {r}
        /\ results' = [results EXCEPT ![c] = Append(results[c], res)]
        /\ pc' = [pc EXCEPT ![c] = "idle"]
        /\ UNCHANGED <<listening, handler, wire, dealt, conn, conns, packidx, cnt, code>>
    BY <1>2 DEF Recv, CheckReply, Return, RecvSome, Unread
  <2>2. r \in InTransit /\ InTransit' = InTransit \ {r}
    BY <2>1 DEF InTransit, NumberInv
  <2>3. r.call = Call(c) /\ dealt[c][r.call] >= 1 /\ r.call \in 1..MaxCalls
    BY <2>1, <2>2, InTransitTypes DEF CallInv
  <2> DEFINE Result == [code : {0, -2, -3}, reply : 0..MaxCalls]
  <2>4. /\ results \in [Clients -> Seq(Result)] /\ results[c] \in Seq(Result)
        /\ res \in Result
    <3>1. results \in [Clients -> Seq(Result)]
      BY DEF TypeOK
    <3>2. results[c] \in Seq(Result)
      <4> HIDE DEF Result
      <4>1. QED
        BY <3>1
    <3>3. r.call \in 0..MaxCalls
      BY <2>3
    <3>4. QED
      BY <3>1, <3>2, <3>3
  <2>5. /\ results' \in [Clients -> Seq(Result)]
        /\ results'[c] = Append(results[c], res)
        /\ \A d \in Clients \ {c} : results'[d] = results[d] /\ pc'[d] = pc[d]
    <3> HIDE DEF Result, res
    <3>1. Append(results[c], res) \in Seq(Result)
      BY <2>4
    <3>2. QED
      BY <2>1, <2>4, <3>1 DEF TypeOK
  <2>6. TypeOK'
    <3>1. pc' \in [Clients -> {"idle", "attempt", "send", "recv"}]
      BY <2>1 DEF TypeOK
    <3>2. QED
      BY <2>1, <2>5, <3>1 DEF TypeOK
  <2> HIDE DEF Result
  <2>7. ConnInv' /\ NumberInv'
    BY <2>1, <2>2 DEF ConnInv, NumberInv
  <2>8. ASSUME NEW s \in InTransit'
        PROVE  \/ s.client = c /\ pc'[c] = "idle" /\ s.conn # conn[c]
               \/ /\ s.client \in Clients \ {c}
                  /\ pc'[s.client] = pc[s.client]
                  /\ Call(s.client)' = Call(s.client)
    <3>1. s \in InTransit /\ s # r /\ s.client \in Clients
      BY <2>2, InTransitTypes
    <3>2. CASE s.client = c
      <4>1. s.idx # r.idx
        BY <2>1, <2>2, <3>1, <3>2 DEF NumberInv
      <4>2. s.conn # conn[c]
        BY <2>1, <3>1, <3>2, <4>1 DEF OneOutstanding, InTransit
      <4>3. pc'[c] = "idle"
        BY <2>1 DEF TypeOK
      <4>4. QED
        BY <3>2, <4>2, <4>3
    <3>3. CASE s.client # c
      BY <2>5, <3>1, <3>3 DEF Call
    <3>4. QED
      BY <3>2, <3>3
  <2>9. CallInv'
    <3>1. \A s \in InTransit' : s \in InTransit
      BY <2>2
    <3>2. QED
      BY <2>1, <2>8, <3>1 DEF CallInv
  <2>10. OneOutstanding'
    <3>1. \A s \in InTransit' : s \in InTransit
      BY <2>2
    <3>2. QED
      BY <2>1, <2>8, <3>1 DEF OneOutstanding, InTransit
  <2>11. Len(results'[c]) = Call(c) /\ Call(c) <= MaxCalls
    BY <2>1, <2>4, <2>5 DEF Call, AttemptInv
  <2>12. AttemptInv'
    <3> SUFFICES ASSUME NEW d \in Clients
                 PROVE  /\ Len(results'[d]) <= MaxCalls
                        /\ pc'[d] # "idle" => Call(d)' <= MaxCalls
                        /\ pc'[d] \in {"send", "recv"} => cnt[d] < Attempts
                        /\ cnt[d] > 0 => code[d] # 0
      BY <2>1 DEF AttemptInv
    <3>1. CASE d = c
      BY <2>1, <2>11, <3>1 DEF AttemptInv, TypeOK
    <3>2. CASE d # c
      BY <2>5, <3>2 DEF AttemptInv, Call
    <3>3. QED
      BY <3>1, <3>2
  <2>13. OkMeansDealt'
    <3> SUFFICES ASSUME NEW d \in Clients, NEW n \in 1..Len(results'[d]), results'[d][n].code = 0
                 PROVE  dealt[d][n] >= 1 /\ results'[d][n].reply = n
      BY <2>1 DEF OkMeansDealt
    <3>1. CASE d # c
      BY <2>5, <3>1 DEF OkMeansDealt
    <3>2. CASE d = c /\ n = Call(c)
      <4>1. results'[c][Call(c)] = res
        BY <2>4, <2>5 DEF Call
      <4>2. QED
        BY <2>3, <3>2, <4>1
    <3>3. CASE d = c /\ n # Call(c)
      <4>1. n \in 1..Len(results[c]) /\ results'[c][n] = results[c][n]
        BY <2>4, <2>5, <2>11, <3>3 DEF Call
      <4>2. QED
        BY <3>3, <4>1 DEF OkMeansDealt
    <3>4. QED
      BY <3>1, <3>2, <3>3
  <2>14. QED
    BY <2>6, <2>7, <2>9, <2>10, <2>12, <2>13
<1>3. QED
  BY <1>1, <1>2

\* A reply that does not come in time, or at all.
LEMMA SyncRecvFails ==
  ASSUME SyncInv, NEW c \in Clients, RecvFails(c)
  PROVE  SyncInv'
BY SyncFail DEF RecvFails

\* A call that gives up does not return 0.
LEMMA SyncGiveUp ==
  ASSUME SyncInv, NEW c \in Clients, GiveUp(c)
  PROVE  SyncInv'
<1> USE DEF SyncInv
<1> DEFINE res == [code |-> code[c], reply |-> 0]
           Result == [code : {0, -2, -3}, reply : 0..MaxCalls]
<1>1. /\ pc[c] = "attempt" /\ cnt[c] = Attempts
      /\ results' = [results EXCEPT ![c] = Append(results[c], res)]
      /\ pc' = [pc EXCEPT ![c] = "idle"]
      /\ UNCHANGED <<serverVars, conn, conns, packidx, cnt, code>>
  BY DEF GiveUp, Return
<1>2. code[c] # 0
  BY <1>1 DEF AttemptInv, Attempts
<1>3. /\ results \in [Clients -> Seq(Result)] /\ results[c] \in Seq(Result)
      /\ res \in Result
  <2>1. results \in [Clients -> Seq(Result)]
    BY DEF TypeOK
  <2>2. results[c] \in Seq(Result)
    <3> HIDE DEF Result
    <3>1. QED
      BY <2>1
  <2>3. code[c] \in {0, -2, -3} /\ 0 \in 0..MaxCalls
    BY BoundsAssumption DEF TypeOK
  <2>4. QED
    BY <2>1, <2>2, <2>3
<1>4. /\ results' \in [Clients -> Seq(Result)]
      /\ results'[c] = Append(results[c], res)
      /\ \A d \in Clients \ {c} : results'[d] = results[d] /\ pc'[d] = pc[d]
  <2> HIDE DEF Result, res
  <2>1. Append(results[c], res) \in Seq(Result)
    BY <1>3
  <2>2. QED
    BY <1>1, <1>3, <2>1 DEF TypeOK
<1>5. TypeOK'
  <2>1. pc' \in [Clients -> {"idle", "attempt", "send", "recv"}]
    BY <1>1 DEF TypeOK
  <2>2. QED
    BY <1>1, <1>4, <2>1 DEF TypeOK, serverVars
<1> HIDE DEF Result
<1>6. ConnInv' /\ NumberInv'
  BY <1>1 DEF ConnInv, NumberInv, InTransit, serverVars
<1>7. \A r \in InTransit :
        /\ pc'[r.client] = "recv" <=> pc[r.client] = "recv"
        /\ pc[r.client] = "recv" => Call(r.client)' = Call(r.client)
  BY <1>1, <1>4, InTransitTypes DEF Call, TypeOK
<1>8. CallInv' /\ OneOutstanding'
  BY <1>1, <1>7 DEF CallInv, OneOutstanding, InTransit, serverVars
<1>9. Len(results'[c]) = Call(c) /\ Call(c) <= MaxCalls
  BY <1>1, <1>3, <1>4 DEF Call, AttemptInv
<1>10. AttemptInv'
  <2> SUFFICES ASSUME NEW d \in Clients
               PROVE  /\ Len(results'[d]) <= MaxCalls
                      /\ pc'[d] # "idle" => Call(d)' <= MaxCalls
                      /\ pc'[d] \in {"send", "recv"} => cnt[d] < Attempts
                      /\ cnt[d] > 0 => code[d] # 0
    BY <1>1 DEF AttemptInv
  <2>1. CASE d = c
    BY <1>1, <1>9, <2>1 DEF AttemptInv, TypeOK
  <2>2. CASE d # c
    BY <1>4, <2>2 DEF AttemptInv, Call
  <2>3. QED
    BY <2>1, <2>2
<1>11. OkMeansDealt'
  <2> SUFFICES ASSUME NEW d \in Clients, NEW n \in 1..Len(results'[d]), results'[d][n].code = 0
               PROVE  dealt[d][n] >= 1 /\ results'[d][n].reply = n
    BY <1>1 DEF OkMeansDealt, serverVars
  <2>1. CASE d # c
    BY <1>4, <2>1 DEF OkMeansDealt
  <2>2. CASE d = c /\ n = Call(c)
    <3>1. results'[c][Call(c)] = res
      BY <1>3, <1>4 DEF Call
    <3>2. QED
      BY <1>2, <2>2, <3>1
  <2>3. CASE d = c /\ n # Call(c)
    <3>1. n \in 1..Len(results[c]) /\ results'[c][n] = results[c][n]
      BY <1>3, <1>4, <1>9, <2>3 DEF Call
    <3>2. QED
      BY <2>3, <3>1 DEF OkMeansDealt
  <2>4. QED
    BY <2>1, <2>2, <2>3
<1>12. QED
  BY <1>5, <1>6, <1>8, <1>10, <1>11

-----------------------------------------------------------------------------
(* The theorems.                                                           *)

\* Every step of the server or of a client keeps the invariant.
LEMMA SyncStep == SyncInv /\ [Next]_vars => SyncInv'
<1> SUFFICES ASSUME SyncInv, [Next]_vars PROVE SyncInv'
  OBVIOUS
<1>1. CASE Server
  BY <1>1, SyncListens, SyncDeal, SyncDropped DEF Server
<1>2. ASSUME NEW c \in Clients, Client(c)
      PROVE  SyncInv'
  <2>1. CASE Connect(c) \/ Reconnect(c)
    BY <2>1, SyncOpens
  <2>2. CASE Close(c)
    BY <2>2, SyncClose
  <2>3. CASE Start(c)
    BY <2>3, SyncStart
  <2>4. CASE Connected(c)
    BY <2>4, SyncConnected
  <2>5. CASE ReconnectFails(c)
    BY <2>5, SyncReconnectFails
  <2>6. CASE Send(c)
    BY <2>6, SyncSend
  <2>7. CASE SendFails(c)
    BY <2>7, SyncSendFails
  <2>8. CASE \E r \in replies : Recv(c, r)
    BY <2>8, SyncRecv
  <2>9. CASE RecvFails(c)
    BY <2>9, SyncRecvFails
  <2>10. CASE GiveUp(c)
    BY <2>10, SyncGiveUp
  <2>11. QED
    BY <1>2, <2>1, <2>2, <2>3, <2>4, <2>5, <2>6, <2>7, <2>8, <2>9, <2>10 DEF Client
<1>3. CASE UNCHANGED vars
  <2>1. UNCHANGED <<listening, handler, wire, replies, dealt>>
    BY <1>3 DEF vars, serverVars
  <2>2. UNCHANGED <<pc, conn, conns, packidx, cnt, code, results>>
    BY <1>3 DEF vars, clientVars
  <2>3. TypeOK' /\ OkMeansDealt'
    BY <2>1, <2>2 DEF SyncInv, TypeOK, OkMeansDealt
  <2>4. ConnInv' /\ NumberInv' /\ CallInv' /\ AttemptInv' /\ OneOutstanding'
    BY <2>1, <2>2 DEF SyncInv, ConnInv, NumberInv, CallInv, AttemptInv, OneOutstanding,
                      InTransit, Call
  <2>5. QED
    BY <2>3, <2>4 DEF SyncInv
<1>4. QED
  BY <1>1, <1>2, <1>3 DEF Next

\* The state of a call is what _Sync keeps: two attempts at most, a code of
\* theirs, a result for each call made.
THEOREM SyncTypeCorrect == Spec => []TypeOK
<1>1. SyncInv => TypeOK
  BY DEF SyncInv
<1>2. QED
  BY SyncInitInv, SyncStep, <1>1, PTL DEF Spec

\* A connection carries one request at a time: _Sync closes the connection of
\* an attempt that failed, so that nothing left on the open one is of another.
THEOREM SyncOneOutstanding == Spec => []OneOutstanding
<1>1. SyncInv => OneOutstanding
  BY DEF SyncInv
<1>2. QED
  BY SyncInitInv, SyncStep, <1>1, PTL DEF Spec

\* A call that returns 0 was dealt with by the server, and the reply SyncCall
\* hands out is the reply to it.
THEOREM SyncOkMeansDealt == Spec => []OkMeansDealt
<1>1. SyncInv => OkMeansDealt
  BY DEF SyncInv
<1>2. QED
  BY SyncInitInv, SyncStep, <1>1, PTL DEF Spec
=============================================================================
