-------------------------- MODULE IoService_proofs --------------------------
(***************************************************************************)
(* The close requests of the reactor threads, for any number of threads,   *)
(* sockets and descriptor numbers: a socket is queued once, served once    *)
(* and in no queue when it is closed.                                      *)
(***************************************************************************)
EXTENDS IoService, FiniteSetTheorems, TLAPS

IoInv == CloseTypeOK /\ CloseInv

\* Nothing is queued at first.
LEMMA IoInitInv == Init => IoInv
<1> SUFFICES ASSUME Init PROVE IoInv
  OBVIOUS
<1>1. CloseTypeOK
  BY DEF Init, CloseTypeOK, SockStates
<1>2. CloseInv
  BY DEF Init, CloseInv, DistinctIn
<1>3. QED
  BY <1>1, <1>2 DEF IoInv

\* A socket that is in one place at most has one request at most.
LEMMA RequestsOfOnePlace == IoInv => OneRequest
<1> SUFFICES ASSUME IoInv, NEW s \in Sockets
             PROVE  /\ Cardinality(Requests(s)) <= IF sock[s] = "closing" THEN 1 ELSE 0
                    /\ told[s] <= 1 /\ (told[s] = 1 => sock[s] = "closed")
  BY DEF OneRequest
<1>1. told[s] <= 1 /\ (told[s] = 1 => sock[s] = "closed")
  BY DEF IoInv, CloseInv
<1>2. ASSUME NEW x \in Requests(s)
      PROVE  \E t \in Threads :
               \/ \E i \in 1..Len(closereqs[t]) : x = <<"queue", t, i>> /\ closereqs[t][i] = s
               \/ \E i \in 1..Len(closing[t]) : x = <<"list", t, i>> /\ closing[t][i] = s
  BY DEF Requests
<1>3. CASE Requests(s) = {}
  <2>1. Cardinality(Requests(s)) = 0
    BY <1>3, FS_EmptySet
  <2>2. QED
    BY <1>1, <2>1
<1>4. CASE Requests(s) # {}
  <2>1. PICK x \in Requests(s) : TRUE
    BY <1>4
  <2>2. sock[s] = "closing"
    BY <1>2, <2>1 DEF IoInv, CloseInv
  <2>3. ASSUME NEW y \in Requests(s) PROVE y = x
    <3>1. PICK t \in Threads :
               \/ \E i \in 1..Len(closereqs[t]) : x = <<"queue", t, i>> /\ closereqs[t][i] = s
               \/ \E i \in 1..Len(closing[t]) : x = <<"list", t, i>> /\ closing[t][i] = s
      BY <1>2, <2>1
    <3>2. PICK u \in Threads :
               \/ \E i \in 1..Len(closereqs[u]) : y = <<"queue", u, i>> /\ closereqs[u][i] = s
               \/ \E i \in 1..Len(closing[u]) : y = <<"list", u, i>> /\ closing[u][i] = s
      BY <1>2
    <3>3. QED
      BY <3>1, <3>2 DEF IoInv, CloseInv, DistinctIn
  <2>4. Requests(s) = {x}
    BY <2>1, <2>3
  <2>5. Cardinality(Requests(s)) = 1
    BY <2>4, FS_Singleton
  <2>6. QED
    BY <1>1, <2>2, <2>5
<1>5. QED
  BY <1>3, <1>4

-----------------------------------------------------------------------------
(* The steps.                                                              *)

\* A step that leaves the queues alone, and the sockets in them.
LEMMA QueuesUntouched ==
  ASSUME IoInv, UNCHANGED <<closereqs, closing, told>>,
         \/ sock' = sock
         \/ \E s \in Sockets, x \in SockStates :
              sock[s] \notin {"closing", "closed"} /\ sock' = [sock EXCEPT ![s] = x]
  PROVE  IoInv'
<1> USE DEF IoInv
<1>1. CloseTypeOK'
  BY DEF CloseTypeOK
<1>2. \A s \in Sockets : sock[s] \in {"closing", "closed"} => sock'[s] = sock[s]
  BY DEF CloseTypeOK
<1>3. \A t \in Threads : /\ \A i \in 1..Len(closereqs[t]) : closereqs[t][i] \in Sockets
                         /\ \A i \in 1..Len(closing[t]) : closing[t][i] \in Sockets
  BY DEF CloseTypeOK
<1>4. CloseInv'
  BY <1>2, <1>3 DEF CloseInv, DistinctIn
<1>5. QED
  BY <1>1, <1>4

\* _DoClose takes the whole queue over.
LEMMA IoTakeRequests ==
  ASSUME IoInv, NEW t \in Threads, TakeRequests(t)
  PROVE  IoInv'
<1> USE DEF IoInv
<1>1. /\ closing' = [closing EXCEPT ![t] = closereqs[t]]
      /\ closereqs' = [closereqs EXCEPT ![t] = <<>>]
      /\ UNCHANGED <<sock, told>>
  BY DEF TakeRequests, sockVars
<1>2. CloseTypeOK'
  <2>1. closereqs[t] \in Seq(Sockets) /\ <<>> \in Seq(Sockets)
    BY DEF CloseTypeOK
  <2>2. QED
    BY <1>1, <2>1 DEF CloseTypeOK
<1>3. /\ closing'[t] = closereqs[t] /\ closereqs'[t] = <<>>
      /\ \A u \in Threads \ {t} : closing'[u] = closing[u] /\ closereqs'[u] = closereqs[u]
  BY <1>1 DEF CloseTypeOK
<1>4. CloseInv'
  <2>1. DistinctIn(closereqs)'
    BY <1>3 DEF CloseInv, DistinctIn
  <2>2. DistinctIn(closing)'
    <3> SUFFICES ASSUME NEW u \in Threads, NEW v \in Threads,
                        NEW i \in 1..Len(closing'[u]), NEW j \in 1..Len(closing'[v]),
                        closing'[u][i] = closing'[v][j]
                 PROVE  u = v /\ i = j
      BY DEF DistinctIn
    <3>1. CASE u = t /\ v = t
      BY <1>3, <3>1 DEF CloseInv, DistinctIn
    <3>2. CASE u = t /\ v # t
      BY <1>3, <3>2 DEF CloseInv
    <3>3. CASE u # t /\ v = t
      BY <1>3, <3>3 DEF CloseInv
    <3>4. CASE u # t /\ v # t
      BY <1>3, <3>4 DEF CloseInv, DistinctIn
    <3>5. QED
      BY <3>1, <3>2, <3>3, <3>4
  <2>3. ASSUME NEW u \in Threads, NEW v \in Threads,
               NEW i \in 1..Len(closereqs'[u]), NEW j \in 1..Len(closing'[v])
        PROVE  closereqs'[u][i] # closing'[v][j]
    <3>1. u # t
      BY <1>3
    <3>2. CASE v = t
      BY <1>3, <3>1, <3>2 DEF CloseInv, DistinctIn
    <3>3. CASE v # t
      BY <1>3, <3>1, <3>3 DEF CloseInv
    <3>4. QED
      BY <3>2, <3>3
  <2>4. ASSUME NEW u \in Threads, NEW i \in 1..Len(closereqs'[u])
        PROVE  sock'[closereqs'[u][i]] = "closing"
    <3>1. u # t
      BY <1>3
    <3>2. QED
      BY <1>1, <1>3, <3>1 DEF CloseInv
  <2>5. ASSUME NEW u \in Threads, NEW i \in 1..Len(closing'[u])
        PROVE  sock'[closing'[u][i]] = "closing"
    BY <1>1, <1>3 DEF CloseInv
  <2>6. QED
    BY <1>1, <2>1, <2>2, <2>3, <2>4, <2>5 DEF CloseInv
<1>5. QED
  BY <1>2, <1>4

\* The first socket of the list is closed; it is in no other place.
LEMMA IoServeClose ==
  ASSUME IoInv, NEW t \in Threads, ServeClose(t)
  PROVE  IoInv'
<1> USE DEF IoInv
<1> DEFINE s == Head(closing[t])
<1>1. /\ closing[t] # <<>>
      /\ sock' = [sock EXCEPT ![s] = "closed"]
      /\ told' = [told EXCEPT ![s] = told[s] + 1]
      /\ closing' = [closing EXCEPT ![t] = Tail(closing[t])]
      /\ UNCHANGED closereqs
  BY DEF ServeClose
<1>2. closing[t] \in Seq(Sockets)
  BY DEF CloseTypeOK
<1>3. /\ s \in Sockets /\ s = closing[t][1] /\ 1 \in 1..Len(closing[t])
      /\ Tail(closing[t]) \in Seq(Sockets)
      /\ Len(Tail(closing[t])) = Len(closing[t]) - 1
      /\ \A i \in 1..Len(Tail(closing[t])) : Tail(closing[t])[i] = closing[t][i + 1]
  BY <1>1, <1>2
<1>4. sock[s] = "closing"
  BY <1>3 DEF CloseInv
<1> HIDE DEF s
<1>5. told[s] \in Nat /\ told[s] = 0
  BY <1>3, <1>4 DEF CloseInv, CloseTypeOK
<1>6. CloseTypeOK'
  <2>1. closing' \in [Threads -> Seq(Sockets)]
    BY <1>1, <1>3 DEF CloseTypeOK
  <2>2. sock' \in [Sockets -> SockStates]
    BY <1>1 DEF CloseTypeOK, SockStates
  <2>3. told' \in [Sockets -> Nat]
    <3>1. told[s] + 1 \in Nat /\ told \in [Sockets -> Nat]
      BY <1>5 DEF CloseTypeOK
    <3>2. QED
      BY <1>1, <3>1
  <2>4. QED
    BY <1>1, <2>1, <2>2, <2>3 DEF CloseTypeOK
<1>7. /\ closing'[t] = Tail(closing[t])
      /\ \A u \in Threads \ {t} : closing'[u] = closing[u]
      /\ \A r \in Sockets \ {s} : sock'[r] = sock[r] /\ told'[r] = told[r]
      /\ sock'[s] = "closed" /\ told'[s] = 1
  BY <1>1, <1>3, <1>5 DEF CloseTypeOK
\* What is on a list afterwards was on it before, and was not the first of t's.
<1>8. ASSUME NEW u \in Threads, NEW i \in 1..Len(closing'[u])
      PROVE  LET j == IF u = t THEN i + 1 ELSE i
             IN  /\ j \in 1..Len(closing[u]) /\ closing'[u][i] = closing[u][j]
                 /\ ~(u = t /\ j = 1)
  <2>1. CASE u = t
    <3>1. i \in 1..Len(Tail(closing[t])) /\ closing'[u][i] = Tail(closing[t])[i]
      BY <1>7, <2>1
    <3>2. i + 1 \in 1..Len(closing[t]) /\ Len(closing[t]) \in Nat /\ i + 1 # 1
      BY <1>2, <1>3, <3>1
    <3>3. closing'[u][i] = closing[t][i + 1]
      BY <1>3, <3>1
    <3>4. QED
      BY <2>1, <3>2, <3>3
  <2>2. CASE u # t
    BY <1>7, <2>2
  <2>3. QED
    BY <2>1, <2>2
<1>9. CloseInv'
  <2>1. DistinctIn(closereqs)'
    BY <1>1 DEF CloseInv, DistinctIn
  <2>2. DistinctIn(closing)'
    <3> SUFFICES ASSUME NEW u \in Threads, NEW v \in Threads,
                        NEW i \in 1..Len(closing'[u]), NEW j \in 1..Len(closing'[v]),
                        closing'[u][i] = closing'[v][j]
                 PROVE  u = v /\ i = j
      BY DEF DistinctIn
    <3>1. PICK k \in 1..Len(closing[u]) : closing'[u][i] = closing[u][k]
                                          /\ k = IF u = t THEN i + 1 ELSE i
      BY <1>8
    <3>2. PICK l \in 1..Len(closing[v]) : closing'[v][j] = closing[v][l]
                                          /\ l = IF v = t THEN j + 1 ELSE j
      BY <1>8
    <3>3. closing[u][k] = closing[v][l] /\ DistinctIn(closing)
      BY <3>1, <3>2 DEF CloseInv
    <3>4. u = v /\ k = l
      BY <3>3 DEF DistinctIn
    <3>5. QED
      BY <3>1, <3>2, <3>4
  <2>3. \A u, v \in Threads : \A i \in 1..Len(closereqs'[u]), j \in 1..Len(closing'[v]) :
          closereqs'[u][i] # closing'[v][j]
    BY <1>1, <1>8 DEF CloseInv
  <2>4. ASSUME NEW u \in Threads, NEW i \in 1..Len(closereqs'[u])
        PROVE  sock'[closereqs'[u][i]] = "closing"
    <3>1. closereqs[u][i] # s /\ sock[closereqs[u][i]] = "closing" /\ closereqs[u][i] \in Sockets
      BY <1>1, <1>3 DEF CloseInv, CloseTypeOK
    <3>2. QED
      BY <1>1, <1>7, <3>1
  <2>5. ASSUME NEW u \in Threads, NEW i \in 1..Len(closing'[u])
        PROVE  sock'[closing'[u][i]] = "closing"
    <3>1. PICK j \in 1..Len(closing[u]) : closing'[u][i] = closing[u][j] /\ ~(u = t /\ j = 1)
      BY <1>8
    <3>2. closing[u][j] # s /\ sock[closing[u][j]] = "closing" /\ closing[u][j] \in Sockets
      BY <1>3, <3>1 DEF CloseInv, DistinctIn, CloseTypeOK
    <3>3. QED
      BY <1>7, <3>1, <3>2
  <2>6. \A r \in Sockets : told'[r] <= 1 /\ (told'[r] = 1 => sock'[r] = "closed")
    BY <1>7 DEF CloseInv
  <2>7. QED
    BY <2>1, <2>2, <2>3, <2>4, <2>5, <2>6 DEF CloseInv
<1>10. QED
  BY <1>6, <1>9

\* _ReleaseIoImpl deletes what is queued.
LEMMA IoReleaseQueue ==
  ASSUME IoInv, NEW t \in Threads, ReleaseQueue(t)
  PROVE  IoInv'
<1> USE DEF IoInv
<1>1. /\ closereqs' = [closereqs EXCEPT ![t] = <<>>]
      /\ UNCHANGED <<closing, sock, told>>
  BY DEF ReleaseQueue, sockVars
<1>2. CloseTypeOK'
  BY <1>1 DEF CloseTypeOK
<1>3. closereqs'[t] = <<>> /\ \A u \in Threads \ {t} : closereqs'[u] = closereqs[u]
  BY <1>1 DEF CloseTypeOK
<1>4. \A u \in Threads : \A i \in 1..Len(closereqs'[u]) :
        closereqs'[u] = closereqs[u]
  BY <1>3
<1>5. CloseInv'
  BY <1>1, <1>4 DEF CloseInv, DistinctIn
<1>6. QED
  BY <1>2, <1>5

\* A request is queued for a socket that has none.
LEMMA IoQueueClose ==
  ASSUME IoInv, NEW s \in Sockets, QueueClose(s)
  PROVE  IoInv'
<1> USE DEF IoInv
<1> DEFINE q == target[s]
<1>1. /\ sock[s] = "asked" /\ sock' = [sock EXCEPT ![s] = "closing"]
      /\ closereqs' = [closereqs EXCEPT ![q] = Append(closereqs[q], s)]
      /\ UNCHANGED <<closing, told>>
  BY DEF QueueClose
<1> HIDE DEF q
<1>2. /\ \A u \in Threads \ {q} : closereqs'[u] = closereqs[u]
      /\ q \in Threads => closereqs'[q] = Append(closereqs[q], s)
      /\ sock'[s] = "closing" /\ \A r \in Sockets \ {s} : sock'[r] = sock[r]
  BY <1>1 DEF CloseTypeOK
<1>3. CloseTypeOK'
  <2>1. closereqs' \in [Threads -> Seq(Sockets)]
    <3>1. CASE q \in Threads
      <4>1. closereqs[q] \in Seq(Sockets)
        BY <3>1 DEF CloseTypeOK
      <4>2. Append(closereqs[q], s) \in Seq(Sockets)
        BY <4>1
      <4>3. QED
        BY <1>1, <3>1, <4>2 DEF CloseTypeOK
    <3>2. CASE q \notin Threads
      BY <1>1, <3>2 DEF CloseTypeOK
    <3>3. QED
      BY <3>1, <3>2
  <2>2. sock' \in [Sockets -> SockStates]
    BY <1>1 DEF CloseTypeOK, SockStates
  <2>3. QED
    BY <1>1, <2>1, <2>2 DEF CloseTypeOK
\* A place of a queue is one it had before, or the new one, which holds s.
<1>4. ASSUME NEW u \in Threads, NEW i \in 1..Len(closereqs'[u])
      PROVE  \/ i \in 1..Len(closereqs[u]) /\ closereqs'[u][i] = closereqs[u][i]
             \/ u = q /\ i = Len(closereqs[u]) + 1 /\ closereqs'[u][i] = s
  <2>1. closereqs[u] \in Seq(Sockets)
    BY DEF CloseTypeOK
  <2>2. CASE u = q
    BY <1>2, <2>1, <2>2
  <2>3. CASE u # q
    BY <1>2, <2>3
  <2>4. QED
    BY <2>2, <2>3
<1>5. /\ \A u \in Threads : \A i \in 1..Len(closereqs[u]) :
           closereqs[u][i] \in Sockets \ {s} /\ sock[closereqs[u][i]] = "closing"
      /\ \A u \in Threads : \A i \in 1..Len(closing[u]) :
           closing[u][i] \in Sockets \ {s} /\ sock[closing[u][i]] = "closing"
  BY <1>1 DEF CloseInv, CloseTypeOK
<1>6. CloseInv'
  <2>1. DistinctIn(closereqs)'
    <3> SUFFICES ASSUME NEW u \in Threads, NEW v \in Threads,
                        NEW i \in 1..Len(closereqs'[u]), NEW j \in 1..Len(closereqs'[v]),
                        closereqs'[u][i] = closereqs'[v][j]
                 PROVE  u = v /\ i = j
      BY DEF DistinctIn
    <3>1. CASE closereqs'[u][i] = s
      <4>1. u = q /\ i = Len(closereqs[u]) + 1
        BY <1>4, <1>5, <3>1
      <4>2. v = q /\ j = Len(closereqs[v]) + 1
        <5>1. closereqs'[v][j] = s
          BY <3>1
        <5>2. QED
          BY <1>4, <1>5, <5>1
      <4>3. QED
        BY <4>1, <4>2
    <3>2. CASE closereqs'[u][i] # s
      BY <1>4, <3>2 DEF CloseInv, DistinctIn
    <3>3. QED
      BY <3>1, <3>2
  <2>2. DistinctIn(closing)'
    BY <1>1 DEF CloseInv, DistinctIn
  <2>3. \A u, v \in Threads : \A i \in 1..Len(closereqs'[u]), j \in 1..Len(closing'[v]) :
          closereqs'[u][i] # closing'[v][j]
    BY <1>1, <1>4, <1>5 DEF CloseInv
  <2>4. \A u \in Threads : \A i \in 1..Len(closereqs'[u]) : sock'[closereqs'[u][i]] = "closing"
    BY <1>2, <1>4, <1>5
  <2>5. \A u \in Threads : \A i \in 1..Len(closing'[u]) : sock'[closing'[u][i]] = "closing"
    BY <1>1, <1>2, <1>5
  <2>6. \A r \in Sockets : told'[r] <= 1 /\ (told'[r] = 1 => sock'[r] = "closed")
    BY <1>1, <1>2 DEF CloseInv
  <2>7. QED
    BY <2>1, <2>2, <2>3, <2>4, <2>5, <2>6 DEF CloseInv
<1>7. QED
  BY <1>3, <1>6

-----------------------------------------------------------------------------
(* The theorem.                                                            *)

\* Every step keeps the invariant.
LEMMA IoStep == IoInv /\ [Next]_vars => IoInv'
<1> SUFFICES ASSUME IoInv, [Next]_vars PROVE IoInv'
  OBVIOUS
<1>1. CASE UNCHANGED <<closereqs, closing, told, sock>>
  BY <1>1, QueuesUntouched
<1>2. ASSUME NEW T \in SUBSET Threads, Start(T) PROVE IoInv'
  BY <1>1, <1>2 DEF Start, sockVars
<1>3. CASE Stop \/ Main
  BY <1>1, <1>3 DEF Stop, Main, StartReturns, StopReturns, sockVars, loopVars
<1>4. ASSUME NEW t \in Threads, Loop(t) PROVE IoInv'
  <2>1. CASE CreateIoImpl(t) \/ AllServed(t) \/ PollOnce(t) \/ Unlist(t)
    BY <1>1, <2>1 DEF CreateIoImpl, AllServed, PollOnce, Unlist, sockVars
  <2>2. QED
    BY <1>4, <2>1, IoTakeRequests, IoServeClose, IoReleaseQueue DEF Loop
<1>5. ASSUME NEW s \in Sockets,
             Assign(s) \/ EpollCtl(s) \/ CloseAtOnce(s) \/ CloseAsk(s)
      PROVE  IoInv'
  <2>1. UNCHANGED <<closereqs, closing, told>>
    BY <1>5 DEF Assign, EpollCtl, CloseAtOnce, CloseAsk, loopVars
  <2>2. sock[s] \notin {"closing", "closed"}
    BY <1>5 DEF Assign, EpollCtl, CloseAtOnce, CloseAsk, Closable
  <2>3. \E x \in SockStates : sock' = [sock EXCEPT ![s] = x]
    BY <1>5 DEF Assign, EpollCtl, CloseAtOnce, CloseAsk, SockStates
  <2>4. QED
    BY <2>1, <2>2, <2>3, QueuesUntouched
<1>6. CASE UNCHANGED vars
  BY <1>1, <1>6 DEF vars, loopVars, sockVars
<1>7. QED
  BY <1>2, <1>3, <1>4, <1>5, <1>6, IoQueueClose DEF Next, Call

\* A socket is in one close queue at most, once, and in none when it is closed:
\* _DoClose never closes a descriptor number a second time.
THEOREM IoOneRequest == Spec => []OneRequest
BY IoInitInv, IoStep, RequestsOfOnePlace, PTL DEF Spec
=============================================================================
