------------------------- MODULE TcpSession_proofs -------------------------
(***************************************************************************)
(* Proofs about the reactor's side of a socket (EpollSocket), for any      *)
(* number of threads that keep its protocol (SockNext), and about          *)
(* TcpSession, for any number of application threads, any messages, any    *)
(* buffer sizes and any SndBuf.                                            *)
(*                                                                         *)
(* SessionInv is inductive.  One lemma per part of it takes the steps of   *)
(* the session one by one; SessionStepInv puts them together.  The part    *)
(* about the socket (SockInv) is not proved again: StepKeepsProtocol shows *)
(* that every step of the session is one the reactor's protocol allows,    *)
(* and SockStepInv does the rest.                                          *)
(*                                                                         *)
(* That the session implements module Session is proved from the same      *)
(* invariant and NoticeInv: the stream is never compared byte by byte,     *)
(* since StreamIntact, before and after a step, leaves only one value for  *)
(* what is unsent (SameContinuation).                                      *)
(***************************************************************************)
EXTENDS TcpSession, SequenceTheorems, FiniteSetTheorems, TLAPS

-----------------------------------------------------------------------------
(* The socket.                                                             *)

\* A pair of a thread and a direction is never the free mutex.
LEMMA HeldIsTaken ==
  ASSUME NEW t \in Threads, NEW d \in Dirs
  PROVE  /\ <<t, d>> # NoThread
         /\ <<t, d>>[2] = d
BY NoThreadAssumption DEF Dirs

\* The invariant holds of a fresh socket.
LEMMA SockInitInv == SockInit => SockInv
<1> SUFFICES ASSUME SockInit PROVE SockInv
  OBVIOUS
<1> USE DEF SockInit
<1>1. op = [d \in Dirs |-> "clear"] /\ op \in [Dirs -> {"clear", "loaded", "fired"}]
  OBVIOUS
<1>2. SockTypeOK
  BY <1>1 DEF SockTypeOK, Dirs
<1>3. QED
  BY <1>2 DEF SockInv, InterestAgrees, AttachedIsNonblocking, PostingInv, PostedInv, RequestInv

\* Every step that keeps the reactor's protocol preserves it.
LEMMA SockStepInv == SockInv /\ [SockNext]_sockVars => SockInv'
<1> SUFFICES ASSUME SockInv, [SockNext]_sockVars
             PROVE  SockInv'
  OBVIOUS
<1> USE DEF SockInv, SockTypeOK, InterestAgrees, AttachedIsNonblocking,
            PostingInv, PostedInv, RequestInv
<1>1. ASSUME NEW d \in Dirs, StartOp(d) PROVE SockInv'
  BY <1>1 DEF StartOp, Load
<1>2. ASSUME NEW t \in Threads, NEW d \in Dirs, PostOp(t, d) PROVE SockInv'
  BY <1>2, HeldIsTaken DEF PostOp, PostBegin, Postable
<1>3. ASSUME NEW d \in Dirs, RejectOp(d) PROVE SockInv'
  BY <1>3 DEF RejectOp, PostReject
<1>4. ASSUME NEW t \in Threads, NEW d \in Dirs, PostEnd(t, d) PROVE SockInv'
  BY <1>4, HeldIsTaken DEF PostEnd, Interest
<1>5. ASSUME NEW t \in Threads, NEW d \in Dirs, PostRefuse(t, d) PROVE SockInv'
  BY <1>5, HeldIsTaken DEF PostRefuse, Interest
<1>6. ASSUME NEW d \in Dirs, FireOp(d) PROVE SockInv'
  BY <1>6 DEF FireOp, Fire
<1>7. ASSUME NEW d \in Dirs, FinishOp(d) PROVE SockInv'
  BY <1>7 DEF FinishOp, Unload
<1>8. CASE SocketClose
  <2>0. /\ core = NoThread /\ UNCHANGED <<attached, optype, op, core>>
    BY <1>8 DEF SocketClose
  <2>1. CASE fd = "closed" \/ closing
    <3>1. UNCHANGED sockVars
      BY <1>8, <2>1 DEF SocketClose, sockVars
    <3>2. QED
      BY <3>1 DEF sockVars
  <2>2. CASE fd = "open" /\ ~closing /\ block
    <3>1. FdGone /\ closeq' = closeq
      BY <1>8, <2>2 DEF SocketClose
    <3>2. QED
      BY <2>0, <2>2, <3>1 DEF FdGone
  <2>3. CASE fd = "open" /\ ~closing /\ ~block
    <3>1. /\ closing' = TRUE /\ UNCHANGED <<fd, block, posted, mask>>
          /\ closeq' = IF attached THEN closeq + 1 ELSE closeq
      BY <1>8, <2>3 DEF SocketClose
    <3>2. QED
      BY <2>0, <2>3, <3>1
  <2>4. QED
    BY <2>1, <2>2, <2>3
<1>9. CASE ReapSocket
  <2>1. /\ closeq = 1 /\ closeq' = 0 /\ core = NoThread
        /\ UNCHANGED <<attached, optype, op, core>>
    BY <1>9 DEF ReapSocket, DoClose
  <2>2. FdGone
    BY <1>9 DEF ReapSocket, DoClose
  <2>3. SockTypeOK'
    BY <2>1, <2>2 DEF FdGone
  <2>4. PostingInv' /\ PostedInv' /\ RequestInv'
    BY <2>1, <2>2 DEF FdGone
  <2>5. InterestAgrees' /\ AttachedIsNonblocking'
    BY <2>1, <2>2 DEF FdGone
  <2>6. QED
    BY <2>3, <2>4, <2>5
<1>10. CASE UNCHANGED sockVars
  BY <1>10 DEF sockVars
<1>11. QED
  BY <1>1, <1>2, <1>3, <1>4, <1>5, <1>6, <1>7, <1>8, <1>9, <1>10 DEF SockNext

\* The invariant, for every behaviour of callers that keep the protocol.
LEMMA SockInvariant == SockSpec => []SockInv
<1>1. QED
  BY SockInitInv, SockStepInv, PTL DEF SockSpec

\* The state of a socket is always well-formed.
THEOREM SocketTyped == SockSpec => []SockTypeOK
<1>1. SockInv => SockTypeOK
  BY DEF SockInv
<1>2. QED
  BY <1>1, SockInvariant, PTL

\* Flags, _type and the epoll mask agree whenever the mutex is free, for any
\* number of threads that post, complete and close.
THEOREM SocketInterestAgrees == SockSpec => []InterestAgrees
<1>1. SockInv => InterestAgrees
  BY DEF SockInv
<1>2. QED
  BY <1>1, SockInvariant, PTL

\* What the reactor finds in _type without the mutex is always loaded.
THEOREM SocketTypeLoaded == SockSpec => []TypeImpliesLoaded
<1>1. SockInv => TypeImpliesLoaded
  BY DEF SockInv, TypeImpliesLoaded, InterestAgrees, PostingInv, PostedInv
<1>2. QED
  BY <1>1, SockInvariant, PTL

\* No descriptor of an epoll set is in block mode, and a socket is asked to
\* be closed at most once, while it is open.
THEOREM SocketCloseSafe == SockSpec => [](AttachedIsNonblocking /\ OneCloseRequest)
<1>1. SockInv => AttachedIsNonblocking /\ OneCloseRequest
  BY DEF SockInv, RequestInv, OneCloseRequest
<1>2. QED
  BY <1>1, SockInvariant, PTL

-----------------------------------------------------------------------------
(* Sequences.                                                              *)

\* What Buffer::CutData leaves, and that nothing gets lost by cutting.
LEMMA CutProperties ==
  ASSUME NEW s \in Seq(Units), NEW n \in 0..Len(s)
  PROVE  /\ Cut(s, n) \in Seq(Units)
         /\ Len(Cut(s, n)) = Len(s) - n
         /\ SubSeq(s, 1, n) \in Seq(Units)
         /\ SubSeq(s, 1, n) \o Cut(s, n) = s
         /\ n = 0 => Cut(s, n) = s
<1>1. /\ \A i \in n + 1 .. Len(s) : s[i] \in Units
      /\ \A i \in 1 .. n : s[i] \in Units
  OBVIOUS
<1>2. Cut(s, n) \in Seq(Units) /\ Len(Cut(s, n)) = Len(s) - n
  BY <1>1, SubSeqProperties DEF Cut
<1>3. SubSeq(s, 1, n) \in Seq(Units)
  BY <1>1, SubSeqProperties
<1>4. SubSeq(s, 1, Len(s)) = s
  BY SubSeqFull
<1>5. SubSeq(s, 1, n) \o Cut(s, n) = s
  <2>1. 1 \in 1 .. Len(s) + 1 /\ n \in 1 - 1 .. Len(s) /\ Len(s) \in n .. Len(s)
    OBVIOUS
  <2>2. SubSeq(s, 1, n) \o SubSeq(s, n + 1, Len(s)) = SubSeq(s, 1, Len(s))
    BY <2>1, ConcatAdjacentSubSeq
  <2>3. QED
    BY <2>2, <1>4 DEF Cut
<1>6. n = 0 => Cut(s, n) = s
  BY <1>4 DEF Cut
<1>7. QED
  BY <1>2, <1>3, <1>5, <1>6

\* Swapping the buffers when the front one is empty keeps their content.
LEMMA SwapKeepsContent ==
  ASSUME NEW b1 \in Seq(Units), NEW b2 \in Seq(Units)
  PROVE  /\ Front(b1, b2) \in Seq(Units) /\ Back(b1, b2) \in Seq(Units)
         /\ Front(b1, b2) \o Back(b1, b2) = b1 \o b2
<1>1. CASE b1 = <<>>
  BY <1>1, ConcatEmptySeq DEF Front, Back
<1>2. CASE b1 # <<>>
  BY <1>2 DEF Front, Back
<1>3. QED
  BY <1>1, <1>2

\* Of an empty buffer nothing is cut.
LEMMA NothingToCut == Cut(<<>>, 0) = <<>> /\ Cut(<<>>, 0) \o <<>> = <<>>
<1>1. <<>> \in Seq(Units) /\ 0 \in 0..Len(<<>>)
  OBVIOUS
<1>2. Cut(<<>>, 0) = <<>>
  BY <1>1, CutProperties
<1>3. <<>> \o <<>> = <<>>
  BY <1>1, ConcatEmptySeq
<1>4. QED
  BY <1>2, <1>3

\* A message that joins the back buffer joins the end of the stream.
LEMMA JoinsTheEnd ==
  ASSUME wire \in Seq(Units), buf2 \in Seq(Units),
         NEW c \in Seq(Units), NEW m \in Seq(Units)
  PROVE  (wire \o (c \o buf2)) \o m = wire \o (c \o (buf2 \o m))
<1>1. ASSUME NEW d \in Seq(Units)
      PROVE  (wire \o d) \o m = wire \o (d \o m)
  <2>1. wire \in Seq(Units) /\ d \in Seq(Units) /\ m \in Seq(Units)
    OBVIOUS
  <2>2. QED
    BY ONLY <2>1, ConcatAssociative
<1>2. (wire \o (c \o buf2)) \o m = wire \o ((c \o buf2) \o m)
  <2>1. c \o buf2 \in Seq(Units)
    BY ConcatProperties
  <2>2. QED
    BY ONLY <1>1, <2>1, Zenon
<1>3. (c \o buf2) \o m = c \o (buf2 \o m)
  BY ConcatAssociative
<1>4. QED
  BY <1>2, <1>3

\* What a send moves to the wire is what it takes off the front buffer.
LEMMA MovesBetween ==
  ASSUME wire \in Seq(Units), buf2 \in Seq(Units),
         NEW h \in Seq(Units), NEW c \in Seq(Units)
  PROVE  (wire \o h) \o (c \o buf2) = wire \o ((h \o c) \o buf2)
<1>1. \A d \in Seq(Units) : (wire \o h) \o d = wire \o (h \o d)
  BY ConcatAssociative
<1>2. (wire \o h) \o (c \o buf2) = wire \o (h \o (c \o buf2))
  <2>1. c \o buf2 \in Seq(Units)
    BY ConcatProperties
  <2>2. QED
    BY ONLY <1>1, <2>1, Zenon
<1>3. (h \o c) \o buf2 = h \o (c \o buf2)
  BY ConcatAssociative
<1>4. QED
  BY <1>2, <1>3

\* A send that takes n units off the front buffer keeps the whole stream.
LEMMA MovesToWire ==
  ASSUME wire \in Seq(Units), buf1 \in Seq(Units), buf2 \in Seq(Units),
         NEW n \in 1..Len(buf1)
  PROVE  (wire \o SubSeq(buf1, 1, n)) \o (Cut(buf1, n) \o buf2) = wire \o (buf1 \o buf2)
<1>1. /\ SubSeq(buf1, 1, n) \in Seq(Units) /\ Cut(buf1, n) \in Seq(Units)
      /\ SubSeq(buf1, 1, n) \o Cut(buf1, n) = buf1
  BY CutProperties
<1>2. (wire \o SubSeq(buf1, 1, n)) \o (Cut(buf1, n) \o buf2)
        = wire \o ((SubSeq(buf1, 1, n) \o Cut(buf1, n)) \o buf2)
  BY <1>1, MovesBetween
<1>3. QED
  BY <1>1, <1>2

-----------------------------------------------------------------------------
(* The reactor protocol.                                                   *)

\* Every step of the session takes a step its protocol with the reactor
\* allows, or leaves the socket alone.
LEMMA StepKeepsProtocol ==
  ASSUME SessionInv, [Next]_vars
  PROVE  [SockNext]_sockVars
<1> USE ThreadsAssumption DEF SessionInv, SockInv
<1>1. ASSUME NEW t \in Threads, NEW m \in Msgs, Send(t, m) PROVE [SockNext]_sockVars
    BY <1>1 DEF Send, Enqueue, TrySend, SockNext, StartOp, Dirs, WriteInv, LockInv,
       Posting, HoldsWriter, InFlight, sockVars
<1>2. ASSUME NEW t \in Threads, Close(t) PROVE [SockNext]_sockVars
    BY <1>2 DEF Close, sockVars
<1>3. ASSUME NEW t \in Threads, FinishClose(t) PROVE [SockNext]_sockVars
    BY <1>3 DEF FinishClose, SockNext, Dirs, sockVars
<1>4. ASSUME NEW t \in Threads, PostClose(t) PROVE [SockNext]_sockVars
    BY <1>4 DEF PostClose, sockVars
<1>5. ASSUME NEW t \in Threads, WritePost(t) PROVE [SockNext]_sockVars
    BY <1>5 DEF WritePost, Postable, SockNext, PostOp, RejectOp, Dirs, WriteInv,
       sockVars
<1>6. ASSUME NEW t \in Threads, WriteArmed(t) PROVE [SockNext]_sockVars
    BY <1>6 DEF WriteArmed, SockNext, Dirs, sockVars
<1>7. ASSUME NEW t \in Threads, WriteRefused(t) PROVE [SockNext]_sockVars
    BY <1>7 DEF WriteRefused, SockNext, Dirs, sockVars
<1>8. ASSUME NEW t \in Threads, WriteStarted(t) PROVE [SockNext]_sockVars
    BY <1>8 DEF WriteStarted, GoTo, sockVars
<1>9. ASSUME NEW t \in Threads, ReadPost(t) PROVE [SockNext]_sockVars
    BY <1>9 DEF ReadPost, Postable, SockNext, PostOp, RejectOp, Dirs, ReadInv, PlaceInv,
       AccHasRead, IoHasRead, LockInv, sockVars
<1>10. ASSUME NEW t \in Threads, ReadArmed(t) PROVE [SockNext]_sockVars
    BY <1>10 DEF ReadArmed, SockNext, Dirs, sockVars
<1>11. ASSUME NEW t \in Threads, ReadRefused(t) PROVE [SockNext]_sockVars
    BY <1>11 DEF ReadRefused, SockNext, Dirs, sockVars
<1>12. ASSUME FirstRecv PROVE [SockNext]_sockVars
    BY <1>12 DEF FirstRecv, In, SockNext, StartOp, Dirs, ReadInv, AccHasRead, sockVars
<1>13. ASSUME CloseSocket PROVE [SockNext]_sockVars
    BY <1>13 DEF CloseSocket, In, SockNext, ReapSocket, NoneFired, Dirs, ReadInv,
       WriteInv, sockVars
<1>14. ASSUME FireRead PROVE [SockNext]_sockVars
    BY <1>14 DEF FireRead, In, SockNext, FireOp, NoneFired, Dirs, ReadInv, WriteInv,
       PostedInv, sockVars
<1>15. ASSUME Recv PROVE [SockNext]_sockVars
    BY <1>15 DEF Recv, In, SockNext, FinishOp, Dirs, ReadInv, sockVars
<1>16. ASSUME Rearm PROVE [SockNext]_sockVars
    BY <1>16 DEF Rearm, In, SockNext, StartOp, Dirs, ReadInv, IoHasRead, sockVars
<1>17. ASSUME FireWrite PROVE [SockNext]_sockVars
    BY <1>17 DEF FireWrite, In, SockNext, FireOp, NoneFired, Dirs, ReadInv, WriteInv,
       PostedInv, sockVars
<1>18. ASSUME SendSome PROVE [SockNext]_sockVars
    BY <1>18 DEF SendSome, In, SockNext, FinishOp, Dirs, WriteInv, sockVars
<1>19. ASSUME WriteHandler PROVE [SockNext]_sockVars
    BY <1>19 DEF WriteHandler, TrySend, In, SockNext, StartOp, Dirs, WriteInv, sockVars
<1>20. ASSUME InitThrows \/ Connected \/ ConnectedReturns \/ NothingToClose \/ CloseHandler \/ Wait \/ CheckRead \/ CheckWrite \/ ReadHandler \/ Deliver \/ ReceiveReturns \/ BadHeader PROVE [SockNext]_sockVars
    BY <1>20 DEF sockVars, InitThrows, Connected, ConnectedReturns, NothingToClose,
       CloseHandler, Wait, CheckRead, CheckWrite, ReadHandler, Deliver, ReceiveReturns,
       BadHeader, MoveTo, In
<1>21. ASSUME PeerStep PROVE [SockNext]_sockVars
    BY <1>21 DEF sockVars, PeerStep, PeerSends, PeerCloses, PeerResets, PeerReads
<1>22. CASE UNCHANGED vars
  BY <1>22 DEF vars, sockVars
<1>23. QED
  BY <1>1, <1>2, <1>3, <1>4, <1>5, <1>6, <1>7, <1>8, <1>9, <1>10, <1>11, <1>12, <1>13,
     <1>14, <1>15, <1>16, <1>17, <1>18, <1>19, <1>20, <1>21, <1>22 DEF Next, Step,
     AccStep, IoStep

-----------------------------------------------------------------------------
(* The mutexes, and where the threads are.                                 *)

\* The mutexes are held where LockInv says.
LEMMA StepLockInv ==
  ASSUME SessionInv, [Next]_vars
  PROVE  LockInv'
<1> USE ThreadsAssumption, NoThreadAssumption
<1> USE DEF SessionInv, TypeOK, SockTypeOK, LockInv, HoldsWriter, Dirs
<1>1. ASSUME NEW t \in Threads, NEW m \in Msgs, Send(t, m) PROVE LockInv'
    BY <1>1, SMTT(30) DEF Send, Enqueue, TrySend, Load, GoTo, MayCall, sockVars, writerVars,
       threadVars, kernelVars, historyVars
<1>2. ASSUME NEW t \in Threads, Close(t) PROVE LockInv'
    BY <1>2 DEF Close, CloseLocked, CloseNow, GoTo, MayCall, sockVars, writerVars,
       threadVars, kernelVars, historyVars
<1>3. ASSUME NEW t \in Threads, FinishClose(t) PROVE LockInv'
    BY <1>3 DEF FinishClose, SocketClose, FdGone, GoTo, sockVars, writerVars,
       threadVars, kernelVars, historyVars
<1>4. ASSUME NEW t \in Threads, PostClose(t) PROVE LockInv'
    BY <1>4 DEF PostClose, CloseLocked, CloseNow, GoTo, sockVars, writerVars,
       threadVars, kernelVars, historyVars
<1>5. ASSUME NEW t \in Threads, WritePost(t) PROVE LockInv'
    BY <1>5 DEF WritePost, PostBegin, PostReject, Postable, CloseNow, GoTo, sockVars,
       writerVars, threadVars, kernelVars, historyVars
<1>6. ASSUME NEW t \in Threads, WriteArmed(t) PROVE LockInv'
    BY <1>6 DEF WriteArmed, PostEnd, Interest, GoTo, sockVars, writerVars, threadVars,
       kernelVars, historyVars
<1>7. ASSUME NEW t \in Threads, WriteRefused(t) PROVE LockInv'
    BY <1>7, SMTT(30) DEF WriteRefused, PostRefuse, Interest, CloseNow, GoTo, sockVars,
       writerVars, threadVars, kernelVars, historyVars
<1>8. ASSUME NEW t \in Threads, WriteStarted(t) PROVE LockInv'
    BY <1>8 DEF WriteStarted, GoTo, sockVars, writerVars, threadVars, kernelVars,
       historyVars
<1>9. ASSUME NEW t \in Threads, ReadPost(t) PROVE LockInv'
  <2>1. pc[t] = "rpost" /\ core = NoThread /\ wlock' = wlock
    BY <1>9 DEF ReadPost, PostBegin, PostReject, writerVars
  <2>2. \/ pc' = [pc EXCEPT ![t] = "rarm"] /\ core' = <<t, "R">>
        \/ pc' = [pc EXCEPT ![t] = "pclose"] /\ core' = NoThread
    BY <1>9 DEF ReadPost, PostBegin, PostReject, GoTo
  <2>3. \A u \in Threads : pc[u] \notin {"warm", "rarm"}
    BY <2>1, HeldIsTaken
  <2>4. \A u \in Threads : pc'[u] \in HoldsWriter <=> wlock' = u
    BY <2>1, <2>2
  <2>5. \A u \in Threads : /\ pc'[u] = "warm" <=> core' = <<u, "W">>
                           /\ pc'[u] = "rarm" <=> core' = <<u, "R">>
    BY <2>2, <2>3, HeldIsTaken
  <2>6. QED
    BY <2>4, <2>5
<1>10. ASSUME NEW t \in Threads, ReadArmed(t) PROVE LockInv'
  <2>1. core = <<t, "R">> /\ core' = NoThread /\ wlock' = wlock /\ pc[t] = "rarm"
    BY <1>10 DEF ReadArmed, PostEnd, writerVars
  <2>2. \E p \in {"run", "pclose"} : pc' = [pc EXCEPT ![t] = p]
    BY <1>10 DEF ReadArmed, GoTo
  <2>3. \A u \in Threads : u # t => pc[u] \notin {"warm", "rarm"}
    BY <2>1
  <2>4. \A u \in Threads : pc'[u] \notin {"warm", "rarm"}
    BY <2>2, <2>3, <2>1
  <2>5. \A u \in Threads : pc'[u] \in HoldsWriter <=> wlock' = u
    BY <2>1, <2>2
  <2>6. \A u \in Threads : core' # <<u, "W">> /\ core' # <<u, "R">>
    BY <2>1, HeldIsTaken
  <2>7. QED
    BY <2>4, <2>5, <2>6
<1>11. ASSUME NEW t \in Threads, ReadRefused(t) PROVE LockInv'
  <2>1. core = <<t, "R">> /\ core' = NoThread /\ wlock' = wlock /\ pc[t] = "rarm"
    BY <1>11 DEF ReadRefused, PostRefuse, writerVars
  <2>2. \E p \in {"run", "pclose"} : pc' = [pc EXCEPT ![t] = p]
    BY <1>11 DEF ReadRefused, GoTo
  <2>3. \A u \in Threads : u # t => pc[u] \notin {"warm", "rarm"}
    BY <2>1
  <2>4. \A u \in Threads : pc'[u] \notin {"warm", "rarm"}
    BY <2>2, <2>3, <2>1
  <2>5. \A u \in Threads : pc'[u] \in HoldsWriter <=> wlock' = u
    BY <2>1, <2>2
  <2>6. \A u \in Threads : core' # <<u, "W">> /\ core' # <<u, "R">>
    BY <2>1, HeldIsTaken
  <2>7. QED
    BY <2>4, <2>5, <2>6
<1>12. ASSUME FirstRecv PROVE LockInv'
    BY <1>12 DEF FirstRecv, Load, GoTo, MoveTo, In, sockVars, writerVars, threadVars,
       kernelVars, historyVars
<1>13. ASSUME ReadHandler PROVE LockInv'
    BY <1>13 DEF ReadHandler, GoTo, MoveTo, In, sockVars, writerVars, threadVars,
       kernelVars, historyVars
<1>14. ASSUME BadHeader PROVE LockInv'
    BY <1>14 DEF BadHeader, GoTo, MoveTo, In, sockVars, writerVars, threadVars,
       kernelVars, historyVars
<1>15. ASSUME Rearm PROVE LockInv'
    BY <1>15 DEF Rearm, Load, GoTo, MoveTo, In, sockVars, writerVars, threadVars,
       kernelVars, historyVars
<1>16. ASSUME WriteHandler PROVE LockInv'
    BY <1>16 DEF WriteHandler, TrySend, Load, MoveTo, MoreToSend, KeepOpen, CloseNow,
       GoTo, In, sockVars, writerVars, threadVars, kernelVars, historyVars
<1>17. ASSUME InitThrows \/ Connected \/ ConnectedReturns \/ NothingToClose \/ CloseHandler \/ CloseSocket \/ Wait \/ CheckRead \/ CheckWrite \/ Deliver \/ ReceiveReturns \/ FireRead \/ FireWrite \/ Recv \/ SendSome PROVE LockInv'
  <2>1. UNCHANGED <<core, pc, wlock>>
    BY <1>17 DEF InitThrows, Connected, ConnectedReturns, NothingToClose, CloseHandler,
       CloseSocket, DoClose, Wait, CheckRead, CheckWrite, Deliver, ReceiveReturns,
       FireRead, FireWrite, Fire, Recv, SendSome, Unload, sockVars, writerVars
  <2>2. QED
    BY <2>1
<1>18. ASSUME PeerStep PROVE LockInv'
    BY <1>18 DEF sockVars, writerVars, threadVars, kernelVars, historyVars, PeerStep,
       PeerSends, PeerCloses, PeerResets, PeerReads
<1>19. CASE UNCHANGED vars
  BY <1>19 DEF vars, sockVars, writerVars, threadVars, kernelVars, historyVars
<1>20. QED
  BY <1>1, <1>2, <1>3, <1>4, <1>5, <1>6, <1>7, <1>8, <1>9, <1>10, <1>11, <1>12, <1>13,
     <1>14, <1>15, <1>16, <1>17, <1>18, <1>19 DEF Next, Step, AccStep, IoStep

\* The threads are where PlaceInv says.
LEMMA StepPlaceInv ==
  ASSUME SessionInv, [Next]_vars
  PROVE  PlaceInv'
<1> USE ThreadsAssumption
<1> USE DEF SessionInv, TypeOK, SockTypeOK, PlaceInv, Posting, HoldsWriter
<1>1. ASSUME NEW t \in Threads, NEW m \in Msgs, Send(t, m) PROVE PlaceInv'
    BY <1>1 DEF Send, Enqueue, TrySend, Load, GoTo, MayCall, sockVars, writerVars,
       threadVars, kernelVars, historyVars
<1>2. ASSUME NEW t \in Threads, Close(t) PROVE PlaceInv'
    BY <1>2 DEF Close, CloseLocked, CloseNow, GoTo, MayCall, sockVars, writerVars,
       threadVars, kernelVars, historyVars
<1>3. ASSUME NEW t \in Threads, FinishClose(t) PROVE PlaceInv'
    BY <1>3 DEF FinishClose, SocketClose, FdGone, GoTo, SockInv, AttachedIsNonblocking,
       sockVars, writerVars, threadVars, kernelVars, historyVars
<1>4. ASSUME NEW t \in Threads, PostClose(t) PROVE PlaceInv'
    BY <1>4 DEF PostClose, CloseLocked, CloseNow, GoTo, sockVars, writerVars,
       threadVars, kernelVars, historyVars
<1>5. ASSUME NEW t \in Threads, WritePost(t) PROVE PlaceInv'
    BY <1>5 DEF WritePost, PostBegin, PostReject, Postable, CloseNow, GoTo, sockVars,
       writerVars, threadVars, kernelVars, historyVars
<1>6. ASSUME NEW t \in Threads, WriteArmed(t) PROVE PlaceInv'
    BY <1>6 DEF WriteArmed, PostEnd, Interest, GoTo, sockVars, writerVars, threadVars,
       kernelVars, historyVars
<1>7. ASSUME NEW t \in Threads, WriteRefused(t) PROVE PlaceInv'
    BY <1>7 DEF WriteRefused, PostRefuse, Interest, CloseNow, GoTo, sockVars,
       writerVars, threadVars, kernelVars, historyVars
<1>8. ASSUME NEW t \in Threads, WriteStarted(t) PROVE PlaceInv'
    BY <1>8 DEF WriteStarted, GoTo, sockVars, writerVars, threadVars, kernelVars,
       historyVars
<1>9. ASSUME NEW t \in Threads, ReadPost(t) PROVE PlaceInv'
    BY <1>9 DEF ReadPost, PostBegin, PostReject, Postable, GoTo, sockVars, writerVars,
       threadVars, kernelVars, historyVars
<1>10. ASSUME NEW t \in Threads, ReadArmed(t) PROVE PlaceInv'
    BY <1>10 DEF ReadArmed, PostEnd, Interest, GoTo, sockVars, writerVars, threadVars,
       kernelVars, historyVars
<1>11. ASSUME NEW t \in Threads, ReadRefused(t) PROVE PlaceInv'
    BY <1>11 DEF ReadRefused, PostRefuse, Interest, GoTo, sockVars, writerVars,
       threadVars, kernelVars, historyVars
<1>12. ASSUME InitThrows PROVE PlaceInv'
    BY <1>12 DEF InitThrows, MoveTo, In, sockVars, writerVars, threadVars, kernelVars,
       historyVars
<1>13. ASSUME Connected PROVE PlaceInv'
    BY <1>13 DEF Connected, MoveTo, In, Called, sockVars, writerVars, threadVars,
       kernelVars, historyVars
<1>14. ASSUME ConnectedReturns PROVE PlaceInv'
    BY <1>14 DEF ConnectedReturns, MoveTo, In, sockVars, writerVars, threadVars,
       kernelVars, historyVars
<1>15. ASSUME FirstRecv PROVE PlaceInv'
    BY <1>15 DEF FirstRecv, Load, GoTo, MoveTo, In, sockVars, writerVars, threadVars,
       kernelVars, historyVars
<1>16. ASSUME NothingToClose PROVE PlaceInv'
    BY <1>16 DEF NothingToClose, MoveTo, In, sockVars, writerVars, threadVars,
       kernelVars, historyVars
<1>17. ASSUME CloseSocket PROVE PlaceInv'
    BY <1>17 DEF CloseSocket, DoClose, FdGone, MoveTo, In, SockInv, RequestInv,
       sockVars, writerVars, threadVars, kernelVars, historyVars
<1>18. ASSUME CloseHandler PROVE PlaceInv'
    BY <1>18 DEF CloseHandler, Called, MoveTo, In, sockVars, writerVars, threadVars,
       kernelVars, historyVars
<1>19. ASSUME Wait PROVE PlaceInv'
    BY <1>19 DEF Wait, MoveTo, In, Pending, sockVars, writerVars, threadVars,
       kernelVars, historyVars
<1>20. ASSUME CheckRead PROVE PlaceInv'
    BY <1>20 DEF CheckRead, MoveTo, In, sockVars, writerVars, threadVars, kernelVars,
       historyVars
<1>21. ASSUME CheckWrite PROVE PlaceInv'
    BY <1>21 DEF CheckWrite, MoveTo, In, sockVars, writerVars, threadVars, kernelVars,
       historyVars
<1>22. ASSUME FireRead PROVE PlaceInv'
    BY <1>22 DEF FireRead, Fire, MoveTo, In, sockVars, writerVars, threadVars,
       kernelVars, historyVars
<1>23. ASSUME Recv PROVE PlaceInv'
    BY <1>23 DEF Recv, Unload, MoveTo, In, sockVars, writerVars, threadVars, kernelVars,
       historyVars
<1>24. ASSUME ReadHandler PROVE PlaceInv'
    BY <1>24 DEF ReadHandler, GoTo, MoveTo, In, sockVars, writerVars, threadVars,
       kernelVars, historyVars
<1>25. ASSUME Deliver PROVE PlaceInv'
    BY <1>25 DEF Deliver, Called, MoveTo, In, sockVars, writerVars, threadVars,
       kernelVars, historyVars
<1>26. ASSUME ReceiveReturns PROVE PlaceInv'
    BY <1>26 DEF ReceiveReturns, MoveTo, In, sockVars, writerVars, threadVars,
       kernelVars, historyVars
<1>27. ASSUME BadHeader PROVE PlaceInv'
    BY <1>27 DEF BadHeader, GoTo, MoveTo, In, sockVars, writerVars, threadVars,
       kernelVars, historyVars
<1>28. ASSUME Rearm PROVE PlaceInv'
    BY <1>28 DEF Rearm, Load, GoTo, MoveTo, In, sockVars, writerVars, threadVars,
       kernelVars, historyVars
<1>29. ASSUME FireWrite PROVE PlaceInv'
    BY <1>29 DEF FireWrite, Fire, MoveTo, In, sockVars, writerVars, threadVars,
       kernelVars, historyVars
<1>30. ASSUME SendSome PROVE PlaceInv'
    BY <1>30 DEF SendSome, Unload, MoveTo, In, sockVars, writerVars, threadVars,
       kernelVars, historyVars
<1>31. ASSUME WriteHandler PROVE PlaceInv'
  <2>1. /\ at[Io] = "wrote" /\ pc[Io] = "run"
        /\ at' = [at EXCEPT ![Io] = "close"]
    BY <1>31 DEF WriteHandler, In, MoveTo
  <2>2. \E p \in {"run", "wpost", "sclose"} : pc' = [pc EXCEPT ![Io] = p]
    <3>1. pc = [pc EXCEPT ![Io] = "run"]
      BY <2>1
    <3>2. QED
      BY <1>31, <3>1 DEF WriteHandler, TrySend, CloseNow, GoTo
  <2>3. QED
    BY <2>1, <2>2
<1>32. ASSUME PeerStep PROVE PlaceInv'
    BY <1>32, SMTT(30) DEF sockVars, writerVars, threadVars, kernelVars, historyVars, PeerStep,
       PeerSends, PeerCloses, PeerResets, PeerReads
<1>33. CASE UNCHANGED vars
  BY <1>33 DEF vars, sockVars, writerVars, threadVars, kernelVars, historyVars
<1>34. QED
  BY <1>1, <1>2, <1>3, <1>4, <1>5, <1>6, <1>7, <1>8, <1>9, <1>10, <1>11, <1>12, <1>13,
     <1>14, <1>15, <1>16, <1>17, <1>18, <1>19, <1>20, <1>21, <1>22, <1>23, <1>24, <1>25,
     <1>26, <1>27, <1>28, <1>29, <1>30, <1>31, <1>32, <1>33 DEF Next, Step, AccStep,
     IoStep

-----------------------------------------------------------------------------
(* The two operations.                                                     *)

\* The read operation is where ReadInv says.
LEMMA StepReadInv ==
  ASSUME SessionInv, [Next]_vars
  PROVE  ReadInv'
<1> USE ThreadsAssumption
<1> USE DEF SessionInv, TypeOK, SockTypeOK, ReadInv, AccHasRead, IoHasRead, Dirs
<1>1. ASSUME NEW t \in Threads, NEW m \in Msgs, Send(t, m) PROVE ReadInv'
    BY <1>1 DEF Send, Enqueue, TrySend, Load, GoTo, MayCall, PlaceInv, sockVars,
       writerVars, threadVars, kernelVars, historyVars
<1>2. ASSUME NEW t \in Threads, Close(t) PROVE ReadInv'
    BY <1>2 DEF Close, CloseLocked, CloseNow, GoTo, MayCall, PlaceInv, sockVars,
       writerVars, threadVars, kernelVars, historyVars
<1>3. ASSUME NEW t \in Threads, FinishClose(t) PROVE ReadInv'
  <2>1. /\ pc[t] = "sclose" /\ pc' = [pc EXCEPT ![t] = "run"]
        /\ UNCHANGED <<at, op, attached, writing, flag>>
    BY <1>3 DEF FinishClose, SocketClose, GoTo
  <2>2. posted' = posted \/ (~attached /\ posted' = {})
    BY <1>3 DEF FinishClose, SocketClose, FdGone, SockInv, AttachedIsNonblocking
  <2>3. at[Io] \in {"rlock", "wlock"} => attached
    BY DEF PlaceInv
  <2>4. \A u \in Threads : pc[u] # "warm"
    BY <1>3, HeldIsTaken DEF FinishClose, SocketClose, LockInv
  <2>5. QED
    BY <2>1, <2>2, <2>3, <2>4
<1>4. ASSUME NEW t \in Threads, PostClose(t) PROVE ReadInv'
    BY <1>4 DEF PostClose, CloseLocked, CloseNow, GoTo, PlaceInv, sockVars, writerVars,
       threadVars, kernelVars, historyVars
<1>5. ASSUME NEW t \in Threads, WritePost(t) PROVE ReadInv'
    BY <1>5 DEF WritePost, PostBegin, PostReject, Postable, CloseNow, GoTo, PlaceInv,
       sockVars, writerVars, threadVars, kernelVars, historyVars
<1>6. ASSUME NEW t \in Threads, WriteArmed(t) PROVE ReadInv'
    BY <1>6 DEF WriteArmed, PostEnd, Interest, GoTo, PlaceInv, sockVars, writerVars,
       threadVars, kernelVars, historyVars
<1>7. ASSUME NEW t \in Threads, WriteRefused(t) PROVE ReadInv'
    BY <1>7 DEF WriteRefused, PostRefuse, Interest, CloseNow, GoTo, PlaceInv, sockVars,
       writerVars, threadVars, kernelVars, historyVars
<1>8. ASSUME NEW t \in Threads, WriteStarted(t) PROVE ReadInv'
    BY <1>8 DEF WriteStarted, GoTo, PlaceInv, sockVars, writerVars, threadVars,
       kernelVars, historyVars
<1>9. ASSUME NEW t \in Threads, ReadPost(t) PROVE ReadInv'
    BY <1>9 DEF ReadPost, PostBegin, PostReject, Postable, GoTo, PlaceInv, sockVars,
       writerVars, threadVars, kernelVars, historyVars
<1>10. ASSUME NEW t \in Threads, ReadArmed(t) PROVE ReadInv'
    BY <1>10 DEF ReadArmed, PostEnd, Interest, GoTo, PlaceInv, sockVars, writerVars,
       threadVars, kernelVars, historyVars
<1>11. ASSUME NEW t \in Threads, ReadRefused(t) PROVE ReadInv'
    BY <1>11 DEF ReadRefused, PostRefuse, Interest, GoTo, PlaceInv, sockVars,
       writerVars, threadVars, kernelVars, historyVars
<1>12. ASSUME InitThrows PROVE ReadInv'
    BY <1>12 DEF InitThrows, MoveTo, In, PlaceInv, sockVars, writerVars, threadVars,
       kernelVars, historyVars
<1>13. ASSUME Connected PROVE ReadInv'
    BY <1>13 DEF Connected, MoveTo, In, Called, PlaceInv, sockVars, writerVars,
       threadVars, kernelVars, historyVars
<1>14. ASSUME ConnectedReturns PROVE ReadInv'
    BY <1>14 DEF ConnectedReturns, MoveTo, In, PlaceInv, sockVars, writerVars,
       threadVars, kernelVars, historyVars
<1>15. ASSUME FirstRecv PROVE ReadInv'
    BY <1>15 DEF FirstRecv, Load, GoTo, MoveTo, In, PlaceInv, sockVars, writerVars,
       threadVars, kernelVars, historyVars
<1>16. ASSUME NothingToClose PROVE ReadInv'
    BY <1>16 DEF NothingToClose, MoveTo, In, PlaceInv, sockVars, writerVars, threadVars,
       kernelVars, historyVars
<1>17. ASSUME CloseSocket PROVE ReadInv'
    BY <1>17 DEF CloseSocket, DoClose, FdGone, MoveTo, In, PlaceInv, sockVars,
       writerVars, threadVars, kernelVars, historyVars
<1>18. ASSUME CloseHandler PROVE ReadInv'
    BY <1>18 DEF CloseHandler, Called, MoveTo, In, PlaceInv, sockVars, writerVars,
       threadVars, kernelVars, historyVars
<1>19. ASSUME Wait PROVE ReadInv'
  <2>1. \E l \in {"close", "rchk"} : at' = [at EXCEPT ![Io] = l]
    BY <1>19 DEF Wait, MoveTo
  <2>2. UNCHANGED <<pc, op, posted>>
    BY <1>19 DEF Wait, sockVars
  <2>3. at[Io] = "wait"
    BY <1>19 DEF Wait, In
  <2>4. QED
    BY <2>1, <2>2, <2>3
<1>20. ASSUME CheckRead PROVE ReadInv'
    BY <1>20 DEF CheckRead, MoveTo, In, PlaceInv, SockInv, InterestAgrees, PostingInv,
       sockVars, writerVars, threadVars, kernelVars, historyVars
<1>21. ASSUME CheckWrite PROVE ReadInv'
    BY <1>21 DEF CheckWrite, MoveTo, In, PlaceInv, sockVars, writerVars, threadVars,
       kernelVars, historyVars
<1>22. ASSUME FireRead PROVE ReadInv'
    BY <1>22 DEF FireRead, Fire, MoveTo, In, PlaceInv, sockVars, writerVars, threadVars,
       kernelVars, historyVars
<1>23. ASSUME Recv PROVE ReadInv'
    BY <1>23 DEF Recv, Unload, MoveTo, In, PlaceInv, sockVars, writerVars, threadVars,
       kernelVars, historyVars
<1>24. ASSUME ReadHandler PROVE ReadInv'
    BY <1>24 DEF ReadHandler, GoTo, MoveTo, In, PlaceInv, sockVars, writerVars,
       threadVars, kernelVars, historyVars
<1>25. ASSUME Deliver PROVE ReadInv'
    BY <1>25 DEF Deliver, Called, MoveTo, In, PlaceInv, sockVars, writerVars,
       threadVars, kernelVars, historyVars
<1>26. ASSUME ReceiveReturns PROVE ReadInv'
    BY <1>26 DEF ReceiveReturns, MoveTo, In, PlaceInv, sockVars, writerVars, threadVars,
       kernelVars, historyVars
<1>27. ASSUME BadHeader PROVE ReadInv'
    BY <1>27 DEF BadHeader, GoTo, MoveTo, In, PlaceInv, sockVars, writerVars,
       threadVars, kernelVars, historyVars
<1>28. ASSUME Rearm PROVE ReadInv'
    BY <1>28 DEF Rearm, Load, GoTo, MoveTo, In, PlaceInv, sockVars, writerVars,
       threadVars, kernelVars, historyVars
<1>29. ASSUME FireWrite PROVE ReadInv'
    BY <1>29 DEF FireWrite, Fire, MoveTo, In, PlaceInv, sockVars, writerVars,
       threadVars, kernelVars, historyVars
<1>30. ASSUME SendSome PROVE ReadInv'
    BY <1>30 DEF SendSome, Unload, MoveTo, In, PlaceInv, sockVars, writerVars,
       threadVars, kernelVars, historyVars
<1>31. ASSUME WriteHandler PROVE ReadInv'
  <2>1. /\ at[Io] = "wrote" /\ pc[Io] = "run" /\ at' = [at EXCEPT ![Io] = "close"]
        /\ UNCHANGED posted /\ op'["R"] = op["R"]
    BY <1>31 DEF WriteHandler, TrySend, Load, MoveTo, In, sockVars
  <2>2. \E p \in {"run", "wpost", "sclose"} : pc' = [pc EXCEPT ![Io] = p]
    BY <1>31, <2>1 DEF WriteHandler, TrySend, CloseNow, GoTo
  <2>3. QED
    BY <2>1, <2>2
<1>32. ASSUME PeerStep PROVE ReadInv'
    BY <1>32 DEF PlaceInv, sockVars, writerVars, threadVars, kernelVars, historyVars,
       PeerStep, PeerSends, PeerCloses, PeerResets, PeerReads
<1>33. CASE UNCHANGED vars
  BY <1>33 DEF vars, sockVars, writerVars, threadVars, kernelVars, historyVars, PlaceInv
<1>34. QED
  BY <1>1, <1>2, <1>3, <1>4, <1>5, <1>6, <1>7, <1>8, <1>9, <1>10, <1>11, <1>12, <1>13,
     <1>14, <1>15, <1>16, <1>17, <1>18, <1>19, <1>20, <1>21, <1>22, <1>23, <1>24, <1>25,
     <1>26, <1>27, <1>28, <1>29, <1>30, <1>31, <1>32, <1>33 DEF Next, Step, AccStep,
     IoStep

\* The write operation is where WriteInv says.
LEMMA StepWriteInv ==
  ASSUME SessionInv, [Next]_vars
  PROVE  WriteInv'
<1> USE ThreadsAssumption
<1> USE DEF SessionInv, TypeOK, SockTypeOK, WriteInv, InFlight, Posting, Dirs
<1>1. ASSUME NEW t \in Threads, NEW m \in Msgs, Send(t, m) PROVE WriteInv'
  <2>1. /\ pc[t] = "run" /\ wlock = NoThread /\ flag = "START"
        /\ UNCHANGED <<flag, writing, at, posted>>
    BY <1>1 DEF Send, MayCall, Enqueue, TrySend, Load, sockVars
  <2>2. \A u \in Threads : pc[u] \notin HoldsWriter
    BY <2>1 DEF LockInv
  <2>3. CASE writing
    <3>1. UNCHANGED <<pc, op>>
      BY <1>1, <2>3 DEF Send, Enqueue, sockVars
    <3>2. QED
      BY <2>1, <3>1
  <2>4. CASE ~writing
    <3>1. op' = [op EXCEPT !["W"] = "loaded"] /\ pc' = [pc EXCEPT ![t] = "wpost"]
      BY <1>1, <2>4 DEF Send, Enqueue, TrySend, Load, GoTo
    <3>2. op["W"] = "clear" /\ at[Io] # "wrote" /\ "W" \notin posted
      BY <2>2, <2>4 DEF HoldsWriter, SockInv, PostedInv
    <3>3. QED
      BY <2>1, <2>2, <3>1, <3>2 DEF HoldsWriter
  <2>5. QED
    BY <2>3, <2>4
<1>2. ASSUME NEW t \in Threads, Close(t) PROVE WriteInv'
    BY <1>2 DEF Close, CloseLocked, CloseNow, GoTo, MayCall, PlaceInv, LockInv,
       HoldsWriter, sockVars, writerVars, threadVars, kernelVars, historyVars
<1>3. ASSUME NEW t \in Threads, FinishClose(t) PROVE WriteInv'
  <2>1. /\ pc[t] = "sclose" /\ pc' = [pc EXCEPT ![t] = "run"]
        /\ UNCHANGED <<at, op, attached, writing, flag>>
    BY <1>3 DEF FinishClose, SocketClose, GoTo
  <2>2. posted' = posted \/ (~attached /\ posted' = {})
    BY <1>3 DEF FinishClose, SocketClose, FdGone, SockInv, AttachedIsNonblocking
  <2>3. at[Io] \in {"rlock", "wlock"} => attached
    BY DEF PlaceInv
  <2>4. \A u \in Threads : pc[u] # "warm"
    BY <1>3, HeldIsTaken DEF FinishClose, SocketClose, LockInv
  <2>5. QED
    BY <2>1, <2>2, <2>3, <2>4
<1>4. ASSUME NEW t \in Threads, PostClose(t) PROVE WriteInv'
    BY <1>4 DEF PostClose, CloseLocked, CloseNow, GoTo, PlaceInv, LockInv, HoldsWriter,
       sockVars, writerVars, threadVars, kernelVars, historyVars
<1>5. ASSUME NEW t \in Threads, WritePost(t) PROVE WriteInv'
  <2>1. /\ pc[t] = "wpost" /\ op["W"] = "loaded" /\ "W" \notin posted
        /\ ~writing /\ flag # "CLOSE" /\ UNCHANGED <<at, writing>>
    BY <1>5 DEF WritePost
  <2>2. \A u \in Threads : u # t => pc[u] \notin HoldsWriter
    BY <2>1 DEF LockInv, HoldsWriter
  <2>3. CASE Postable("W")
    <3>1. /\ pc' = [pc EXCEPT ![t] = "warm"] /\ posted' = posted \cup {"W"}
          /\ UNCHANGED <<flag, op>>
      BY <1>5, <2>3 DEF WritePost, PostBegin, GoTo
    <3>2. QED
      BY <2>1, <2>2, <3>1 DEF HoldsWriter
  <2>4. CASE ~Postable("W")
    <3>1. /\ pc' = [pc EXCEPT ![t] = "sclose"] /\ op' = [op EXCEPT !["W"] = "clear"]
          /\ flag' = "CLOSE" /\ UNCHANGED posted
      BY <1>5, <2>1, <2>4 DEF WritePost, PostReject, CloseNow, GoTo
    <3>2. QED
      BY <2>1, <2>2, <3>1 DEF HoldsWriter
  <2>5. QED
    BY <2>3, <2>4
<1>6. ASSUME NEW t \in Threads, WriteArmed(t) PROVE WriteInv'
    BY <1>6 DEF WriteArmed, PostEnd, Interest, GoTo, PlaceInv, LockInv, HoldsWriter,
       sockVars, writerVars, threadVars, kernelVars, historyVars
<1>7. ASSUME NEW t \in Threads, WriteRefused(t) PROVE WriteInv'
    BY <1>7 DEF WriteRefused, PostRefuse, Interest, CloseNow, GoTo, PlaceInv, LockInv,
       HoldsWriter, sockVars, writerVars, threadVars, kernelVars, historyVars
<1>8. ASSUME NEW t \in Threads, WriteStarted(t) PROVE WriteInv'
    BY <1>8 DEF WriteStarted, GoTo, PlaceInv, LockInv, HoldsWriter, sockVars,
       writerVars, threadVars, kernelVars, historyVars
<1>9. ASSUME NEW t \in Threads, ReadPost(t) PROVE WriteInv'
    BY <1>9 DEF ReadPost, PostBegin, PostReject, Postable, GoTo, PlaceInv, LockInv,
       HoldsWriter, sockVars, writerVars, threadVars, kernelVars, historyVars
<1>10. ASSUME NEW t \in Threads, ReadArmed(t) PROVE WriteInv'
    BY <1>10 DEF ReadArmed, PostEnd, Interest, GoTo, PlaceInv, LockInv, HoldsWriter,
       sockVars, writerVars, threadVars, kernelVars, historyVars
<1>11. ASSUME NEW t \in Threads, ReadRefused(t) PROVE WriteInv'
    BY <1>11 DEF ReadRefused, PostRefuse, Interest, GoTo, PlaceInv, LockInv,
       HoldsWriter, sockVars, writerVars, threadVars, kernelVars, historyVars
<1>12. ASSUME InitThrows PROVE WriteInv'
    BY <1>12 DEF InitThrows, MoveTo, In, PlaceInv, LockInv, HoldsWriter, sockVars,
       writerVars, threadVars, kernelVars, historyVars
<1>13. ASSUME Connected PROVE WriteInv'
    BY <1>13 DEF Connected, MoveTo, In, Called, PlaceInv, LockInv, HoldsWriter,
       sockVars, writerVars, threadVars, kernelVars, historyVars
<1>14. ASSUME ConnectedReturns PROVE WriteInv'
    BY <1>14 DEF ConnectedReturns, MoveTo, In, PlaceInv, LockInv, HoldsWriter, sockVars,
       writerVars, threadVars, kernelVars, historyVars
<1>15. ASSUME FirstRecv PROVE WriteInv'
    BY <1>15 DEF FirstRecv, Load, GoTo, MoveTo, In, PlaceInv, LockInv, HoldsWriter,
       sockVars, writerVars, threadVars, kernelVars, historyVars
<1>16. ASSUME NothingToClose PROVE WriteInv'
    BY <1>16 DEF NothingToClose, MoveTo, In, PlaceInv, LockInv, HoldsWriter, sockVars,
       writerVars, threadVars, kernelVars, historyVars
<1>17. ASSUME CloseSocket PROVE WriteInv'
  <2>1. /\ at[Io] = "close" /\ at' = [at EXCEPT ![Io] = "disc"]
        /\ posted' = {} /\ core = NoThread /\ UNCHANGED <<pc, op, writing, flag>>
    BY <1>17 DEF CloseSocket, DoClose, FdGone, MoveTo, In, writerVars
  <2>2. \A u \in Threads : pc[u] # "warm"
    BY <2>1, HeldIsTaken DEF LockInv
  <2>3. QED
    BY <2>1, <2>2
<1>18. ASSUME CloseHandler PROVE WriteInv'
    BY <1>18 DEF CloseHandler, Called, MoveTo, In, PlaceInv, LockInv, HoldsWriter,
       sockVars, writerVars, threadVars, kernelVars, historyVars
<1>19. ASSUME Wait PROVE WriteInv'
    BY <1>19 DEF Wait, MoveTo, In, Pending, PlaceInv, LockInv, HoldsWriter, sockVars,
       writerVars, threadVars, kernelVars, historyVars
<1>20. ASSUME CheckRead PROVE WriteInv'
    BY <1>20 DEF CheckRead, MoveTo, In, PlaceInv, LockInv, HoldsWriter, sockVars,
       writerVars, threadVars, kernelVars, historyVars
<1>21. ASSUME CheckWrite PROVE WriteInv'
    BY <1>21 DEF CheckWrite, MoveTo, In, PlaceInv, SockInv, InterestAgrees, PostingInv,
       sockVars, writerVars, threadVars, kernelVars, historyVars
<1>22. ASSUME FireRead PROVE WriteInv'
    BY <1>22 DEF FireRead, Fire, MoveTo, In, PlaceInv, LockInv, HoldsWriter, sockVars,
       writerVars, threadVars, kernelVars, historyVars
<1>23. ASSUME Recv PROVE WriteInv'
    BY <1>23 DEF Recv, Unload, MoveTo, In, PlaceInv, LockInv, HoldsWriter, sockVars,
       writerVars, threadVars, kernelVars, historyVars
<1>24. ASSUME ReadHandler PROVE WriteInv'
    BY <1>24 DEF ReadHandler, GoTo, MoveTo, In, PlaceInv, LockInv, HoldsWriter,
       sockVars, writerVars, threadVars, kernelVars, historyVars
<1>25. ASSUME Deliver PROVE WriteInv'
    BY <1>25 DEF Deliver, Called, MoveTo, In, PlaceInv, LockInv, HoldsWriter, sockVars,
       writerVars, threadVars, kernelVars, historyVars
<1>26. ASSUME ReceiveReturns PROVE WriteInv'
    BY <1>26 DEF ReceiveReturns, MoveTo, In, PlaceInv, LockInv, HoldsWriter, sockVars,
       writerVars, threadVars, kernelVars, historyVars
<1>27. ASSUME BadHeader PROVE WriteInv'
    BY <1>27 DEF BadHeader, GoTo, MoveTo, In, PlaceInv, LockInv, HoldsWriter, sockVars,
       writerVars, threadVars, kernelVars, historyVars
<1>28. ASSUME Rearm PROVE WriteInv'
    BY <1>28 DEF Rearm, Load, GoTo, MoveTo, In, PlaceInv, LockInv, HoldsWriter,
       sockVars, writerVars, threadVars, kernelVars, historyVars
<1>29. ASSUME FireWrite PROVE WriteInv'
  <2>1. /\ at[Io] = "wlock" /\ at' = [at EXCEPT ![Io] = "send"]
        /\ op' = [op EXCEPT !["W"] = "fired"] /\ UNCHANGED <<pc, writing, flag>>
        /\ core = NoThread
    BY <1>29 DEF FireWrite, Fire, MoveTo, In, writerVars
  <2>2. posted' \in SUBSET posted
    BY <1>29 DEF FireWrite, Fire
  <2>3. \A u \in Threads : pc[u] # "warm"
    BY <2>1, HeldIsTaken DEF LockInv
  <2>4. op["W"] = "loaded"
    BY <2>1 DEF SockInv, PostedInv
  <2>5. QED
    BY <2>1, <2>2, <2>3, <2>4
<1>30. ASSUME SendSome PROVE WriteInv'
    BY <1>30 DEF SendSome, Unload, MoveTo, In, PlaceInv, LockInv, HoldsWriter, sockVars,
       writerVars, threadVars, kernelVars, historyVars
<1>31. ASSUME WriteHandler PROVE WriteInv'
  <2>1. /\ at[Io] = "wrote" /\ pc[Io] = "run" /\ at' = [at EXCEPT ![Io] = "close"]
        /\ wlock = NoThread /\ writing' = FALSE /\ UNCHANGED posted
    BY <1>31 DEF WriteHandler, TrySend, Load, MoveTo, In, sockVars
  <2>2. /\ \A u \in Threads : pc[u] \notin Posting
        /\ op["W"] = "clear" /\ writing /\ flag # "CLOSE"
    BY <2>1 DEF LockInv, HoldsWriter
  <2>3. "W" \notin posted
    BY <2>2 DEF SockInv, PostedInv
  <2>4. CASE TrySend(Io, Cut(buf1, sent), buf2) /\ UNCHANGED flag
    <3>1. op' = [op EXCEPT !["W"] = "loaded"] /\ pc' = [pc EXCEPT ![Io] = "wpost"]
      BY <2>4 DEF TrySend, Load, GoTo
    <3>2. QED
      BY <2>1, <2>2, <2>3, <2>4, <3>1
  <2>5. CASE UNCHANGED <<flag, pc, op>>
    BY <2>1, <2>2, <2>3, <2>5
  <2>6. CASE CloseNow(Io) /\ UNCHANGED op
    <3>1. pc' = [pc EXCEPT ![Io] = "sclose"] /\ flag' = "CLOSE"
      BY <2>2, <2>6 DEF CloseNow, GoTo
    <3>2. QED
      BY <2>1, <2>2, <2>3, <2>6, <3>1
  <2>7. QED
    BY <1>31, <2>4, <2>5, <2>6 DEF WriteHandler, sockVars
<1>32. ASSUME PeerStep PROVE WriteInv'
    BY <1>32 DEF PlaceInv, LockInv, HoldsWriter, sockVars, writerVars, threadVars,
       kernelVars, historyVars, PeerStep, PeerSends, PeerCloses, PeerResets, PeerReads
<1>33. CASE UNCHANGED vars
  BY <1>33 DEF vars, sockVars, writerVars, threadVars, kernelVars, historyVars, PlaceInv, LockInv, HoldsWriter
<1>34. QED
  BY <1>1, <1>2, <1>3, <1>4, <1>5, <1>6, <1>7, <1>8, <1>9, <1>10, <1>11, <1>12, <1>13,
     <1>14, <1>15, <1>16, <1>17, <1>18, <1>19, <1>20, <1>21, <1>22, <1>23, <1>24, <1>25,
     <1>26, <1>27, <1>28, <1>29, <1>30, <1>31, <1>32, <1>33 DEF Next, Step, AccStep,
     IoStep

-----------------------------------------------------------------------------
(* Types and data.                                                         *)

\* Buffers, counters and program places keep their types.
LEMMA StepTypeOK ==
  ASSUME SessionInv, [Next]_vars, SockTypeOK'
  PROVE  TypeOK'
<1> USE ThreadsAssumption, SizesAssumption, MsgsAssumption
<1> USE DEF SessionInv, TypeOK
<1>1. ASSUME NEW t \in Threads, NEW m \in Msgs, Send(t, m) PROVE TypeOK'
  <2>1. /\ m \in Seq(Units) /\ accepted' = accepted \o m
        /\ UNCHANGED <<flag, writing, at, ev, got, sent, kernelVars, wire, failed, calls>>
    BY <1>1 DEF Send
  <2>2. CASE writing
    <3>1. buf2' = buf2 \o m /\ UNCHANGED <<sockVars, buf1, wbuf, wlock, pc>>
      BY <1>1, <2>2 DEF Send, Enqueue
    <3>2. buf2' \in Seq(Units) /\ accepted' \in Seq(Units)
      BY <2>1, <3>1, ConcatProperties
    <3>3. QED
      BY <2>1, <3>1, <3>2 DEF kernelVars
  <2>3. CASE ~writing
    <3>1. TrySend(t, buf1, buf2 \o m)
      BY <1>1, <2>3 DEF Send, Enqueue
    <3>2. /\ buf1' \in Seq(Units) /\ buf2' \in Seq(Units) /\ wbuf' \in Seq(Units)
      BY <2>1, <3>1 DEF TrySend, Front, Back
    <3>3. QED
      BY <2>1, <3>1, <3>2 DEF TrySend, GoTo, kernelVars
  <2>4. QED
    BY <2>2, <2>3
<1>2. ASSUME NEW t \in Threads, Close(t) PROVE TypeOK'
    BY <1>2 DEF Close, CloseLocked, CloseNow, GoTo, MayCall, sockVars, writerVars,
       threadVars, kernelVars, historyVars
<1>3. ASSUME NEW t \in Threads, FinishClose(t) PROVE TypeOK'
    BY <1>3 DEF FinishClose, SocketClose, FdGone, GoTo, sockVars, writerVars,
       threadVars, kernelVars, historyVars
<1>4. ASSUME NEW t \in Threads, PostClose(t) PROVE TypeOK'
    BY <1>4 DEF PostClose, CloseLocked, CloseNow, GoTo, sockVars, writerVars,
       threadVars, kernelVars, historyVars
<1>5. ASSUME NEW t \in Threads, WritePost(t) PROVE TypeOK'
    BY <1>5 DEF WritePost, PostBegin, PostReject, Postable, CloseNow, GoTo, sockVars,
       writerVars, threadVars, kernelVars, historyVars
<1>6. ASSUME NEW t \in Threads, WriteArmed(t) PROVE TypeOK'
    BY <1>6 DEF WriteArmed, PostEnd, Interest, GoTo, sockVars, writerVars, threadVars,
       kernelVars, historyVars
<1>7. ASSUME NEW t \in Threads, WriteRefused(t) PROVE TypeOK'
    BY <1>7 DEF WriteRefused, PostRefuse, Interest, CloseNow, GoTo, sockVars,
       writerVars, threadVars, kernelVars, historyVars
<1>8. ASSUME NEW t \in Threads, WriteStarted(t) PROVE TypeOK'
    BY <1>8 DEF WriteStarted, GoTo, sockVars, writerVars, threadVars, kernelVars,
       historyVars
<1>9. ASSUME NEW t \in Threads, ReadPost(t) PROVE TypeOK'
    BY <1>9 DEF ReadPost, PostBegin, PostReject, Postable, GoTo, sockVars, writerVars,
       threadVars, kernelVars, historyVars
<1>10. ASSUME NEW t \in Threads, ReadArmed(t) PROVE TypeOK'
    BY <1>10 DEF ReadArmed, PostEnd, Interest, GoTo, sockVars, writerVars, threadVars,
       kernelVars, historyVars
<1>11. ASSUME NEW t \in Threads, ReadRefused(t) PROVE TypeOK'
    BY <1>11 DEF ReadRefused, PostRefuse, Interest, GoTo, sockVars, writerVars,
       threadVars, kernelVars, historyVars
<1>12. ASSUME InitThrows PROVE TypeOK'
    BY <1>12 DEF InitThrows, MoveTo, In, sockVars, writerVars, threadVars, kernelVars,
       historyVars
<1>13. ASSUME Connected PROVE TypeOK'
    BY <1>13 DEF Connected, MoveTo, In, Called, Callbacks, sockVars, writerVars,
       threadVars, kernelVars, historyVars
<1>14. ASSUME ConnectedReturns PROVE TypeOK'
    BY <1>14 DEF ConnectedReturns, MoveTo, In, sockVars, writerVars, threadVars,
       kernelVars, historyVars
<1>15. ASSUME FirstRecv PROVE TypeOK'
    BY <1>15 DEF FirstRecv, Load, GoTo, MoveTo, In, sockVars, writerVars, threadVars,
       kernelVars, historyVars
<1>16. ASSUME NothingToClose PROVE TypeOK'
    BY <1>16 DEF NothingToClose, MoveTo, In, sockVars, writerVars, threadVars,
       kernelVars, historyVars
<1>17. ASSUME CloseSocket PROVE TypeOK'
    BY <1>17 DEF CloseSocket, DoClose, FdGone, MoveTo, In, sockVars, writerVars,
       threadVars, kernelVars, historyVars
<1>18. ASSUME CloseHandler PROVE TypeOK'
    BY <1>18 DEF CloseHandler, Called, MoveTo, In, Callbacks, sockVars, writerVars,
       threadVars, kernelVars, historyVars
<1>19. ASSUME Wait PROVE TypeOK'
  <2>1. /\ \E l \in {"close", "rchk"} : at' = [at EXCEPT ![Io] = l]
        /\ ev' = Pending
        /\ UNCHANGED <<writerVars, pc, got, sent, kernelVars, historyVars>>
    BY <1>19 DEF Wait, MoveTo
  <2>2. Pending \in SUBSET (Dirs \cup {"ERR"})
    BY DEF Pending, SockTypeOK
  <2>3. QED
    BY <2>1, <2>2 DEF writerVars, kernelVars, historyVars
<1>20. ASSUME CheckRead PROVE TypeOK'
    BY <1>20 DEF CheckRead, MoveTo, In, sockVars, writerVars, threadVars, kernelVars,
       historyVars
<1>21. ASSUME CheckWrite PROVE TypeOK'
    BY <1>21 DEF CheckWrite, MoveTo, In, sockVars, writerVars, threadVars, kernelVars,
       historyVars
<1>22. ASSUME FireRead PROVE TypeOK'
    BY <1>22 DEF FireRead, Fire, MoveTo, In, sockVars, writerVars, threadVars,
       kernelVars, historyVars
<1>23. ASSUME Recv PROVE TypeOK'
    BY <1>23 DEF Recv, Unload, MoveTo, In, sockVars, writerVars, threadVars, kernelVars,
       historyVars
<1>24. ASSUME ReadHandler PROVE TypeOK'
    BY <1>24 DEF ReadHandler, GoTo, MoveTo, In, sockVars, writerVars, threadVars,
       kernelVars, historyVars
<1>25. ASSUME Deliver PROVE TypeOK'
    BY <1>25 DEF Deliver, Called, MoveTo, In, Callbacks, sockVars, writerVars,
       threadVars, kernelVars, historyVars
<1>26. ASSUME ReceiveReturns PROVE TypeOK'
    BY <1>26 DEF ReceiveReturns, MoveTo, In, sockVars, writerVars, threadVars,
       kernelVars, historyVars
<1>27. ASSUME BadHeader PROVE TypeOK'
    BY <1>27 DEF BadHeader, GoTo, MoveTo, In, sockVars, writerVars, threadVars,
       kernelVars, historyVars
<1>28. ASSUME Rearm PROVE TypeOK'
    BY <1>28 DEF Rearm, Load, GoTo, MoveTo, In, sockVars, writerVars, threadVars,
       kernelVars, historyVars
<1>29. ASSUME FireWrite PROVE TypeOK'
    BY <1>29 DEF FireWrite, Fire, MoveTo, In, sockVars, writerVars, threadVars,
       kernelVars, historyVars
<1>30. ASSUME SendSome PROVE TypeOK'
  <2>1. /\ wbuf' = <<>> /\ at' = [at EXCEPT ![Io] = "wrote"]
        /\ UNCHANGED <<flag, writing, buf1, buf2, wlock, pc, ev, got, rx, chunks, peer,
                       accepted, calls>>
    BY <1>30 DEF SendSome, MoveTo
  <2>2. sent' \in Nat /\ sndbuf' \in Nat /\ failed' \in BOOLEAN
    <3>1. CASE UNCHANGED sndbuf /\ sent' = 0 /\ failed' = TRUE
      BY <3>1
    <3>2. ASSUME NEW n \in 1..Len(wbuf), sent' = n, sndbuf' = sndbuf + n, UNCHANGED failed
          PROVE  sent' \in Nat /\ sndbuf' \in Nat /\ failed' \in BOOLEAN
      BY <3>2
    <3>3. QED
      BY <1>30, <3>1, <3>2 DEF SendSome
  <2>3. wire' \in Seq(Units)
    <3>1. CASE wire' = wire
      BY <3>1
    <3>2. ASSUME NEW n \in 1..Len(wbuf), wire' = wire \o SubSeq(wbuf, 1, n)
          PROVE  wire' \in Seq(Units)
      <4>1. SubSeq(wbuf, 1, n) \in Seq(Units)
        BY SubSeqProperties
      <4>2. QED
        BY <3>2, <4>1, ConcatProperties
    <3>3. QED
      BY <1>30, <3>1, <3>2 DEF SendSome
  <2>4. QED
    BY <2>1, <2>2, <2>3
<1>31. ASSUME WriteHandler PROVE TypeOK'
  <2>1. /\ writing' = FALSE /\ sent' = 0 /\ at' = [at EXCEPT ![Io] = "close"]
        /\ UNCHANGED <<ev, got, kernelVars, historyVars>>
    BY <1>31 DEF WriteHandler, MoveTo
  <2>2. Cut(buf1, sent) \in Seq(Units)
    BY CutProperties DEF DataInv
  <2>3. CASE TrySend(Io, Cut(buf1, sent), buf2) /\ UNCHANGED flag
    <3>1. /\ buf1' \in Seq(Units) /\ buf2' \in Seq(Units) /\ wbuf' \in Seq(Units)
      BY <2>2, <2>3 DEF TrySend, Front, Back
    <3>2. QED
      BY <2>1, <2>3, <3>1 DEF TrySend, GoTo, kernelVars, historyVars
  <2>4. CASE /\ buf1' = Cut(buf1, sent) /\ UNCHANGED <<buf2, wbuf>>
             /\ UNCHANGED <<flag, wlock, pc>> \/ CloseNow(Io)
    BY <2>1, <2>2, <2>4 DEF CloseNow, GoTo, kernelVars, historyVars
  <2>5. QED
    BY <1>31, <2>3, <2>4 DEF WriteHandler
<1>32. ASSUME PeerStep PROVE TypeOK'
  <2>1. UNCHANGED <<sockVars, writerVars, threadVars, historyVars>>
    BY <1>32 DEF PeerStep, PeerSends, PeerCloses, PeerResets, PeerReads
  <2>2. rx' \in Nat /\ chunks' \in Nat /\ sndbuf' \in Nat /\ peer' \in {"up", "eof", "reset"}
    BY <1>32 DEF PeerStep, PeerSends, PeerCloses, PeerResets, PeerReads
  <2>3. QED
    BY <2>1, <2>2 DEF sockVars, writerVars, threadVars, historyVars
<1>33. CASE UNCHANGED vars
  BY <1>33 DEF vars, sockVars, writerVars, threadVars, kernelVars, historyVars
<1>34. QED
  BY <1>1, <1>2, <1>3, <1>4, <1>5, <1>6, <1>7, <1>8, <1>9, <1>10, <1>11, <1>12, <1>13,
     <1>14, <1>15, <1>16, <1>17, <1>18, <1>19, <1>20, <1>21, <1>22, <1>23, <1>24, <1>25,
     <1>26, <1>27, <1>28, <1>29, <1>30, <1>31, <1>32, <1>33 DEF Next, Step, AccStep,
     IoStep

\* The accepted units are where DataInv says.
LEMMA StepDataInv ==
  ASSUME SessionInv, [Next]_vars
  PROVE  DataInv'
<1> USE ThreadsAssumption, MsgsAssumption
<1> USE DEF SessionInv, TypeOK, SockTypeOK, DataInv, Dirs
<1>1. ASSUME NEW t \in Threads, NEW m \in Msgs, Send(t, m) PROVE DataInv'
  <2>1. /\ m \in Seq(Units) /\ accepted' = accepted \o m /\ flag = "START"
        /\ pc[t] = "run" /\ wlock = NoThread
        /\ UNCHANGED <<flag, at, sent, wire, failed>>
    BY <1>1 DEF Send, MayCall
  <2>2. \A u \in Threads : pc[u] \notin Posting
    BY <2>1 DEF LockInv, HoldsWriter, Posting
  <2>3. Cut(buf1, sent) \in Seq(Units)
    BY CutProperties
  <2>4. accepted' = wire \o (Cut(buf1, sent) \o (buf2 \o m))
    <3> DEFINE c == Cut(buf1, sent)
    <3>1. accepted = wire \o (c \o buf2)
      BY DEF StreamIntact, Unsent
    <3>2. wire \in Seq(Units) /\ buf2 \in Seq(Units) /\ m \in Seq(Units) /\ c \in Seq(Units)
      BY <2>1, <2>3
    <3> HIDE DEF c
    <3>3. (wire \o (c \o buf2)) \o m = wire \o (c \o (buf2 \o m))
      BY <3>2, JoinsTheEnd
    <3>4. accepted' = wire \o (c \o (buf2 \o m))
      BY <2>1, <3>1, <3>3
    <3>5. QED
      BY <3>4 DEF c
  <2>5. CASE writing
    <3>1. buf2' = buf2 \o m /\ UNCHANGED <<op, buf1, wbuf>>
      BY <1>1, <2>5 DEF Send, Enqueue, sockVars
    <3>2. InFlight
      BY <2>2, <2>5 DEF WriteInv
    <3>3. QED
      BY <2>1, <2>4, <3>1, <3>2 DEF StreamIntact, Unsent, BufferPinned, DrainedBeforeClose, InFlight
  <2>6. CASE ~writing
    <3>1. TrySend(t, buf1, buf2 \o m)
      BY <1>1, <2>6 DEF Send, Enqueue
    <3>2. buf1 = <<>> /\ buf2 = <<>> /\ at[Io] # "wrote" /\ sent = 0
      BY <2>1, <2>2, <2>6 DEF WriteInv, InFlight
    <3>3. buf2 \o m = m /\ m # <<>>
      BY <2>1, <3>2, ConcatEmptySeq
    <3>4. buf1' = m /\ buf2' = <<>> /\ wbuf' = m /\ op'["W"] = "loaded"
      BY <3>1, <3>2, <3>3 DEF TrySend, Front, Back, Load
    <3>5. Cut(buf1, sent) = <<>> /\ Cut(m, 0) = m /\ m \o <<>> = m /\ <<>> \o m = m
      <4>1. Cut(m, 0) = m
        <5>1. 0 \in 0..Len(m)
          BY <2>1
        <5>2. QED
          BY <2>1, <5>1, CutProperties
      <4>2. m \o <<>> = m /\ <<>> \o m = m
        BY <2>1, ConcatEmptySeq
      <4>3. QED
        BY <3>2, <4>1, <4>2, NothingToCut
    <3>6. StreamIntact'
      BY <2>1, <2>4, <3>2, <3>3, <3>4, <3>5 DEF StreamIntact, Unsent
    <3>7. QED
      BY <2>1, <3>2, <3>3, <3>4, <3>6 DEF BufferPinned, DrainedBeforeClose, InFlight
  <2>7. QED
    BY <2>5, <2>6
<1>2. ASSUME NEW t \in Threads, Close(t) PROVE DataInv'
  <2>1. UNCHANGED <<op, writing, buf1, buf2, wbuf, at, sent, accepted, wire, failed>>
    BY <1>2 DEF Close, sockVars, historyVars
  <2>2. wlock = NoThread /\ CloseLocked(t)
    BY <1>2 DEF Close
  <2>3. \A u \in Threads : pc[u] \notin Posting
    BY <2>2 DEF LockInv, HoldsWriter, Posting
  <2>4. CASE UNCHANGED flag
    BY <2>1, <2>4 DEF StreamIntact, Unsent, BufferPinned, DrainedBeforeClose, InFlight
  <2>5. CASE flag # "CLOSE" /\ flag' = "STOP"
    BY <2>1, <2>5 DEF StreamIntact, Unsent, BufferPinned, DrainedBeforeClose, InFlight
  <2>6. CASE flag # "CLOSE" /\ ~writing /\ flag' = "CLOSE"
    <3>1. ~InFlight /\ buf1 = <<>> /\ buf2 = <<>> /\ sent = 0
      BY <2>3, <2>6 DEF WriteInv, InFlight
    <3>2. Unsent = <<>>
      BY <3>1, NothingToCut DEF Unsent
    <3>3. QED
      BY <2>1, <2>6, <3>1, <3>2 DEF StreamIntact, Unsent, BufferPinned, DrainedBeforeClose, InFlight
  <2>7. QED
    BY <2>2, <2>4, <2>5, <2>6 DEF CloseLocked, CloseNow
<1>3. ASSUME NEW t \in Threads, FinishClose(t) PROVE DataInv'
    BY <1>3 DEF FinishClose, SocketClose, FdGone, GoTo, StreamIntact, Unsent,
       BufferPinned, DrainedBeforeClose, InFlight, WriteInv, PlaceInv, sockVars,
       writerVars, threadVars, kernelVars, historyVars
<1>4. ASSUME NEW t \in Threads, PostClose(t) PROVE DataInv'
  <2>1. UNCHANGED <<op, writing, buf1, buf2, wbuf, at, sent, accepted, wire, failed>>
    BY <1>4 DEF PostClose, sockVars, historyVars
  <2>2. wlock = NoThread /\ CloseLocked(t)
    BY <1>4 DEF PostClose
  <2>3. \A u \in Threads : pc[u] \notin Posting
    BY <2>2 DEF LockInv, HoldsWriter, Posting
  <2>4. CASE UNCHANGED flag
    BY <2>1, <2>4 DEF StreamIntact, Unsent, BufferPinned, DrainedBeforeClose, InFlight
  <2>5. CASE flag # "CLOSE" /\ flag' = "STOP"
    BY <2>1, <2>5 DEF StreamIntact, Unsent, BufferPinned, DrainedBeforeClose, InFlight
  <2>6. CASE flag # "CLOSE" /\ ~writing /\ flag' = "CLOSE"
    <3>1. ~InFlight /\ buf1 = <<>> /\ buf2 = <<>> /\ sent = 0
      BY <2>3, <2>6 DEF WriteInv, InFlight
    <3>2. Unsent = <<>>
      BY <3>1, NothingToCut DEF Unsent
    <3>3. QED
      BY <2>1, <2>6, <3>1, <3>2 DEF StreamIntact, Unsent, BufferPinned, DrainedBeforeClose, InFlight
  <2>7. QED
    BY <2>2, <2>4, <2>5, <2>6 DEF CloseLocked, CloseNow
<1>5. ASSUME NEW t \in Threads, WritePost(t) PROVE DataInv'
  <2>1. pc[t] = "wpost" /\ op["W"] = "loaded" /\ flag # "CLOSE" /\ at[Io] # "wrote"
    <3>1. pc[t] = "wpost" /\ pc[t] \in Posting
      BY <1>5 DEF WritePost, Posting
    <3>2. op["W"] = "loaded" /\ flag # "CLOSE"
      BY <3>1 DEF WriteInv
    <3>3. QED
      BY <3>1, <3>2 DEF WriteInv
  <2>2. UNCHANGED <<buf1, buf2, wbuf, at, sent, accepted, wire>>
    BY <1>5 DEF WritePost
  <2>3. UNCHANGED <<op, flag, failed>> \/ (op'["W"] = "clear" /\ flag' = "CLOSE" /\ failed' = TRUE)
    BY <1>5, <2>1 DEF WritePost, PostBegin, PostReject, CloseNow
  <2>4. QED
    BY <2>1, <2>2, <2>3 DEF StreamIntact, Unsent, BufferPinned, DrainedBeforeClose, InFlight
<1>6. ASSUME NEW t \in Threads, WriteArmed(t) PROVE DataInv'
    BY <1>6 DEF WriteArmed, PostEnd, Interest, GoTo, StreamIntact, Unsent, BufferPinned,
       DrainedBeforeClose, InFlight, WriteInv, PlaceInv, sockVars, writerVars,
       threadVars, kernelVars, historyVars
<1>7. ASSUME NEW t \in Threads, WriteRefused(t) PROVE DataInv'
  <2>1. pc[t] = "warm" /\ op["W"] = "loaded" /\ flag # "CLOSE" /\ at[Io] # "wrote"
    BY <1>7 DEF WriteRefused, WriteInv, Posting
  <2>2. UNCHANGED <<buf1, buf2, wbuf, at, sent, accepted, wire>>
    BY <1>7 DEF WriteRefused
  <2>3. op'["W"] = "clear" /\ flag' = "CLOSE" /\ failed' = TRUE
    BY <1>7, <2>1 DEF WriteRefused, PostRefuse, CloseNow
  <2>4. QED
    BY <2>1, <2>2, <2>3 DEF StreamIntact, Unsent, BufferPinned, DrainedBeforeClose, InFlight
<1>8. ASSUME NEW t \in Threads, WriteStarted(t) PROVE DataInv'
    BY <1>8 DEF WriteStarted, GoTo, StreamIntact, Unsent, BufferPinned,
       DrainedBeforeClose, InFlight, WriteInv, PlaceInv, sockVars, writerVars,
       threadVars, kernelVars, historyVars
<1>9. ASSUME NEW t \in Threads, ReadPost(t) PROVE DataInv'
    BY <1>9 DEF ReadPost, PostBegin, PostReject, Postable, GoTo, StreamIntact, Unsent,
       BufferPinned, DrainedBeforeClose, InFlight, WriteInv, PlaceInv, sockVars,
       writerVars, threadVars, kernelVars, historyVars
<1>10. ASSUME NEW t \in Threads, ReadArmed(t) PROVE DataInv'
    BY <1>10 DEF ReadArmed, PostEnd, Interest, GoTo, StreamIntact, Unsent, BufferPinned,
       DrainedBeforeClose, InFlight, WriteInv, PlaceInv, sockVars, writerVars,
       threadVars, kernelVars, historyVars
<1>11. ASSUME NEW t \in Threads, ReadRefused(t) PROVE DataInv'
    BY <1>11 DEF ReadRefused, PostRefuse, Interest, GoTo, StreamIntact, Unsent,
       BufferPinned, DrainedBeforeClose, InFlight, WriteInv, PlaceInv, sockVars,
       writerVars, threadVars, kernelVars, historyVars
<1>12. ASSUME InitThrows PROVE DataInv'
    BY <1>12 DEF InitThrows, MoveTo, In, StreamIntact, Unsent, BufferPinned,
       DrainedBeforeClose, InFlight, WriteInv, PlaceInv, sockVars, writerVars,
       threadVars, kernelVars, historyVars
<1>13. ASSUME Connected PROVE DataInv'
    BY <1>13 DEF Connected, MoveTo, In, Called, StreamIntact, Unsent, BufferPinned,
       DrainedBeforeClose, InFlight, WriteInv, PlaceInv, sockVars, writerVars,
       threadVars, kernelVars, historyVars
<1>14. ASSUME ConnectedReturns PROVE DataInv'
    BY <1>14 DEF ConnectedReturns, MoveTo, In, StreamIntact, Unsent, BufferPinned,
       DrainedBeforeClose, InFlight, WriteInv, PlaceInv, sockVars, writerVars,
       threadVars, kernelVars, historyVars
<1>15. ASSUME FirstRecv PROVE DataInv'
    BY <1>15 DEF FirstRecv, Load, GoTo, MoveTo, In, StreamIntact, Unsent, BufferPinned,
       DrainedBeforeClose, InFlight, WriteInv, PlaceInv, sockVars, writerVars,
       threadVars, kernelVars, historyVars
<1>16. ASSUME NothingToClose PROVE DataInv'
    BY <1>16 DEF NothingToClose, MoveTo, In, StreamIntact, Unsent, BufferPinned,
       DrainedBeforeClose, InFlight, WriteInv, PlaceInv, sockVars, writerVars,
       threadVars, kernelVars, historyVars
<1>17. ASSUME CloseSocket PROVE DataInv'
    BY <1>17 DEF CloseSocket, DoClose, FdGone, MoveTo, In, StreamIntact, Unsent,
       BufferPinned, DrainedBeforeClose, InFlight, WriteInv, PlaceInv, sockVars,
       writerVars, threadVars, kernelVars, historyVars
<1>18. ASSUME CloseHandler PROVE DataInv'
    BY <1>18 DEF CloseHandler, Called, MoveTo, In, StreamIntact, Unsent, BufferPinned,
       DrainedBeforeClose, InFlight, WriteInv, PlaceInv, sockVars, writerVars,
       threadVars, kernelVars, historyVars
<1>19. ASSUME Wait PROVE DataInv'
    BY <1>19 DEF Wait, MoveTo, In, Pending, StreamIntact, Unsent, BufferPinned,
       DrainedBeforeClose, InFlight, WriteInv, PlaceInv, sockVars, writerVars,
       threadVars, kernelVars, historyVars
<1>20. ASSUME CheckRead PROVE DataInv'
    BY <1>20 DEF CheckRead, MoveTo, In, StreamIntact, Unsent, BufferPinned,
       DrainedBeforeClose, InFlight, WriteInv, PlaceInv, sockVars, writerVars,
       threadVars, kernelVars, historyVars
<1>21. ASSUME CheckWrite PROVE DataInv'
    BY <1>21 DEF CheckWrite, MoveTo, In, StreamIntact, Unsent, BufferPinned,
       DrainedBeforeClose, InFlight, WriteInv, PlaceInv, sockVars, writerVars,
       threadVars, kernelVars, historyVars
<1>22. ASSUME FireRead PROVE DataInv'
    BY <1>22 DEF FireRead, Fire, MoveTo, In, StreamIntact, Unsent, BufferPinned,
       DrainedBeforeClose, InFlight, WriteInv, PlaceInv, sockVars, writerVars,
       threadVars, kernelVars, historyVars
<1>23. ASSUME Recv PROVE DataInv'
    BY <1>23 DEF Recv, Unload, MoveTo, In, StreamIntact, Unsent, BufferPinned,
       DrainedBeforeClose, InFlight, WriteInv, PlaceInv, sockVars, writerVars,
       threadVars, kernelVars, historyVars
<1>24. ASSUME ReadHandler PROVE DataInv'
    BY <1>24 DEF ReadHandler, GoTo, MoveTo, In, StreamIntact, Unsent, BufferPinned,
       DrainedBeforeClose, InFlight, WriteInv, PlaceInv, sockVars, writerVars,
       threadVars, kernelVars, historyVars
<1>25. ASSUME Deliver PROVE DataInv'
    BY <1>25 DEF Deliver, Called, MoveTo, In, StreamIntact, Unsent, BufferPinned,
       DrainedBeforeClose, InFlight, WriteInv, PlaceInv, sockVars, writerVars,
       threadVars, kernelVars, historyVars
<1>26. ASSUME ReceiveReturns PROVE DataInv'
    BY <1>26 DEF ReceiveReturns, MoveTo, In, StreamIntact, Unsent, BufferPinned,
       DrainedBeforeClose, InFlight, WriteInv, PlaceInv, sockVars, writerVars,
       threadVars, kernelVars, historyVars
<1>27. ASSUME BadHeader PROVE DataInv'
    BY <1>27 DEF BadHeader, GoTo, MoveTo, In, StreamIntact, Unsent, BufferPinned,
       DrainedBeforeClose, InFlight, WriteInv, PlaceInv, sockVars, writerVars,
       threadVars, kernelVars, historyVars
<1>28. ASSUME Rearm PROVE DataInv'
    BY <1>28 DEF Rearm, Load, GoTo, MoveTo, In, StreamIntact, Unsent, BufferPinned,
       DrainedBeforeClose, InFlight, WriteInv, PlaceInv, sockVars, writerVars,
       threadVars, kernelVars, historyVars
<1>29. ASSUME FireWrite PROVE DataInv'
  <2>1. at[Io] = "wlock" /\ at' = [at EXCEPT ![Io] = "send"] /\ op'["W"] = "fired"
    BY <1>29 DEF FireWrite, Fire, MoveTo, In
  <2>2. UNCHANGED <<flag, buf1, buf2, wbuf, sent, accepted, wire, failed>>
    BY <1>29 DEF FireWrite, writerVars, historyVars
  <2>3. op["W"] = "loaded"
    BY <2>1 DEF WriteInv, SockInv, PostedInv
  <2>4. QED
    BY <2>1, <2>2, <2>3 DEF StreamIntact, Unsent, BufferPinned, DrainedBeforeClose, InFlight
<1>30. ASSUME SendSome PROVE DataInv'
  <2>0. /\ at[Io] = "send" /\ at' = [at EXCEPT ![Io] = "wrote"] /\ op'["W"] = "clear"
        /\ UNCHANGED <<flag, buf1, buf2, accepted>>
    BY <1>30 DEF SendSome, MoveTo, In, Unload
  <2>1. /\ at[Io] = "send" /\ at' = [at EXCEPT ![Io] = "wrote"] /\ sent = 0
        /\ op["W"] = "fired" /\ op'["W"] = "clear"
        /\ wbuf = buf1
        /\ UNCHANGED <<flag, buf1, buf2, accepted>>
    BY <2>0 DEF WriteInv, BufferPinned
  <2>2. CASE sent' = 0 /\ failed' = TRUE /\ UNCHANGED wire
    BY <2>1, <2>2 DEF StreamIntact, Unsent, BufferPinned, DrainedBeforeClose, InFlight
  <2>3. ASSUME NEW n \in 1..Len(wbuf), sent' = n, wire' = wire \o SubSeq(wbuf, 1, n),
               UNCHANGED failed
        PROVE  DataInv'
    <3>1. /\ Cut(buf1, 0) = buf1 /\ Cut(buf1, n) \in Seq(Units) /\ SubSeq(buf1, 1, n) \in Seq(Units)
          /\ SubSeq(buf1, 1, n) \o Cut(buf1, n) = buf1
      BY <2>1, CutProperties
    <3>2. (wire \o SubSeq(buf1, 1, n)) \o (Cut(buf1, n) \o buf2) = wire \o (buf1 \o buf2)
      BY <2>1, MovesToWire
    <3>3. StreamIntact'
      BY <2>1, <2>3, <3>1, <3>2 DEF StreamIntact, Unsent
    <3>4. flag # "CLOSE"
      <4>1. CASE \A u \in Threads : pc[u] \notin Posting
        BY <2>1, <4>1 DEF WriteInv, InFlight
      <4>2. CASE \E u \in Threads : pc[u] \in Posting
        BY <4>2 DEF WriteInv
      <4>3. QED
        BY <4>1, <4>2
    <3>5. QED
      BY <2>1, <2>3, <3>3, <3>4 DEF BufferPinned, DrainedBeforeClose, InFlight
  <2>4. QED
    BY <1>30, <2>2, <2>3 DEF SendSome
<1>31. ASSUME WriteHandler PROVE DataInv'
  <2> DEFINE b1 == Cut(buf1, sent)
  <2>1. /\ at[Io] = "wrote" /\ at' = [at EXCEPT ![Io] = "close"] /\ sent' = 0
        /\ op["W"] = "clear" /\ wlock = NoThread
        /\ UNCHANGED <<accepted, wire, failed>>
    BY <1>31 DEF WriteHandler, MoveTo, In, WriteInv, historyVars
  <2>2. flag # "CLOSE"
    <3>1. \A u \in Threads : pc[u] \notin Posting
      BY <2>1 DEF LockInv, HoldsWriter, Posting
    <3>2. QED
      BY <2>1, <3>1 DEF WriteInv, InFlight
  <2>3. b1 \in Seq(Units)
    BY CutProperties
  <2>4. accepted = wire \o (b1 \o buf2)
    BY DEF StreamIntact, Unsent
  <2>5. CASE TrySend(Io, b1, buf2) /\ Front(b1, buf2) # <<>> /\ UNCHANGED flag
    <3>1. /\ buf1' = Front(b1, buf2) /\ buf2' = Back(b1, buf2) /\ wbuf' = Front(b1, buf2)
          /\ op'["W"] = "loaded"
      BY <2>5 DEF TrySend, Load
    <3>2. Cut(buf1', 0) = buf1'
      BY <2>3, <3>1, SwapKeepsContent, CutProperties
    <3>3. StreamIntact'
      <4>1. buf1' \o buf2' = b1 \o buf2
        BY <2>3, <3>1, SwapKeepsContent
      <4>2. Unsent' = buf1' \o buf2'
        BY <2>1, <3>2 DEF Unsent
      <4>3. QED
        BY <2>1, <2>4, <4>1, <4>2 DEF StreamIntact
    <3>4. QED
      BY <2>1, <2>2, <2>5, <3>1, <3>3 DEF BufferPinned, DrainedBeforeClose, InFlight
  <2>6. CASE /\ buf1' = b1 /\ UNCHANGED <<buf2, wbuf, op>> /\ flag' \in {flag, "CLOSE"}
             /\ failed \/ Front(b1, buf2) = <<>>
             /\ flag' = "CLOSE" \/ Front(b1, buf2) = <<>>
    <3>1. Cut(buf1', 0) = b1
      BY <2>3, <2>6, CutProperties
    <3>2. StreamIntact'
      BY <2>1, <2>4, <2>6, <3>1 DEF StreamIntact, Unsent
    <3>3. CASE Front(b1, buf2) = <<>>
      <4>1. b1 = <<>> /\ buf2 = <<>>
        BY <3>3 DEF Front
      <4>2. Unsent' = <<>>
        BY <2>1, <2>6, <3>1, <4>1, ConcatEmptySeq DEF Unsent
      <4>3. QED
        BY <2>1, <2>6, <3>2, <4>1, <4>2 DEF BufferPinned, DrainedBeforeClose, InFlight
    <3>4. CASE failed /\ flag' = "CLOSE"
      BY <2>1, <2>6, <3>2, <3>4 DEF BufferPinned, DrainedBeforeClose, InFlight
    <3>5. QED
      BY <2>6, <3>3, <3>4
  <2>7. QED
    BY <1>31, <2>1, <2>2, <2>5, <2>6 DEF WriteHandler, MoreToSend, CloseNow, sockVars
<1>32. ASSUME PeerStep PROVE DataInv'
  <2>1. UNCHANGED <<flag, writing, buf1, buf2, wbuf, op, at, sent, accepted, wire, failed>>
    BY <1>32 DEF PeerStep, PeerSends, PeerCloses, PeerResets, PeerReads, sockVars,
       writerVars, threadVars, historyVars
  <2>2. QED
    BY <2>1 DEF StreamIntact, Unsent, BufferPinned, DrainedBeforeClose, InFlight
<1>33. CASE UNCHANGED vars
  BY <1>33 DEF vars, sockVars, writerVars, threadVars, kernelVars, historyVars, StreamIntact, Unsent, BufferPinned, DrainedBeforeClose, InFlight, WriteInv, PlaceInv
<1>34. QED
  BY <1>1, <1>2, <1>3, <1>4, <1>5, <1>6, <1>7, <1>8, <1>9, <1>10, <1>11, <1>12, <1>13,
     <1>14, <1>15, <1>16, <1>17, <1>18, <1>19, <1>20, <1>21, <1>22, <1>23, <1>24, <1>25,
     <1>26, <1>27, <1>28, <1>29, <1>30, <1>31, <1>32, <1>33 DEF Next, Step, AccStep,
     IoStep

-----------------------------------------------------------------------------
(* The invariant and what follows from it.                                 *)

\* The invariant holds of a connection that was just accepted.
LEMMA SessionInitInv == Init => SessionInv
<1> SUFFICES ASSUME Init PROVE SessionInv
  OBVIOUS
<1> USE ThreadsAssumption, NoThreadAssumption DEF Init
<1>1. SockInv
  BY SockInitInv
<1>2. \A t \in Threads : pc[t] = "run"
  OBVIOUS
<1>3. at[Acc] = "accept" /\ at[Io] = "close" /\ \A t \in Apps : at[t] = "app"
  OBVIOUS
<1>4. op = [d \in Dirs |-> "clear"] /\ posted = {} /\ core = NoThread /\ ~attached
  BY DEF SockInit
<1>5. op["R"] = "clear" /\ op["W"] = "clear"
  BY <1>4 DEF Dirs
<1>6. TypeOK
  <2>1. /\ buf1 \in Seq(Units) /\ buf2 \in Seq(Units) /\ wbuf \in Seq(Units)
        /\ accepted \in Seq(Units) /\ wire \in Seq(Units) /\ calls \in Seq(Callbacks)
    OBVIOUS
  <2>2. SockTypeOK
    BY <1>1 DEF SockInv
  <2>3. QED
    BY <2>1, <2>2 DEF TypeOK
<1>7. LockInv
  <2>1. \A t \in Threads : NoThread # t /\ NoThread # <<t, "W">> /\ NoThread # <<t, "R">>
    OBVIOUS
  <2>2. QED
    BY <1>2, <1>4, <2>1 DEF LockInv, HoldsWriter
<1>8. PlaceInv
  BY <1>2, <1>3, <1>4, <1>5 DEF PlaceInv, Posting
<1>9. ReadInv
  BY <1>2, <1>3, <1>4, <1>5 DEF ReadInv, AccHasRead, IoHasRead
<1>10. WriteInv
  BY <1>2, <1>3, <1>4, <1>5 DEF WriteInv, InFlight, Posting
<1>11. DataInv
  <2>1. Unsent = <<>>
    BY NothingToCut DEF Unsent
  <2>2. wire \o Unsent = <<>>
    BY <2>1, NothingToCut
  <2>3. QED
    BY <1>3, <1>5, <2>1, <2>2 DEF DataInv, StreamIntact, BufferPinned, DrainedBeforeClose
<1>12. QED
  BY <1>1, <1>6, <1>7, <1>8, <1>9, <1>10, <1>11 DEF SessionInv

\* Every step preserves it.
LEMMA SessionStepInv == SessionInv /\ [Next]_vars => SessionInv'
<1> SUFFICES ASSUME SessionInv, [Next]_vars PROVE SessionInv'
  OBVIOUS
<1>1. SockInv'
  <2>1. SockInv
    BY DEF SessionInv
  <2>2. QED
    BY <2>1, StepKeepsProtocol, SockStepInv
<1>2. TypeOK'
  BY <1>1, StepTypeOK DEF SockInv
<1>3. LockInv' /\ PlaceInv' /\ ReadInv' /\ WriteInv' /\ DataInv'
  BY StepLockInv, StepPlaceInv, StepReadInv, StepWriteInv, StepDataInv
<1>4. QED
  BY <1>1, <1>2, <1>3 DEF SessionInv

\* The invariant, at every instant.
LEMMA SessionInvariant == Spec => []SessionInv
<1>1. QED
  BY SessionInitInv, SessionStepInv, PTL DEF Spec

\* The state of a session is always well-formed.
THEOREM SessionTyped == Spec => []TypeOK
<1>1. SessionInv => TypeOK
  BY DEF SessionInv
<1>2. QED
  BY <1>1, SessionInvariant, PTL

\* The session is a correct user of the reactor: no operation is loaded over
\* another, posted twice or fired unposted, by any number of threads.  With
\* it, all that is proved of SockSpec holds of the socket of a session.
THEOREM SessionKeepsProtocol == Spec => KeepsReactorProtocol
<1>1. Init => SockInit
  BY DEF Init
<1>2. SessionInv /\ [Next]_vars => [SockNext]_sockVars
  BY StepKeepsProtocol
<1>3. QED
  BY <1>1, <1>2, SessionInvariant, PTL DEF Spec, KeepsReactorProtocol, SockSpec

\* What Send accepted is what went out followed by what the buffers hold,
\* for all messages, any number of senders and any splitting of the writes.
THEOREM SessionStreamIntact == Spec => []StreamIntact
<1>1. SessionInv => StreamIntact
  BY DEF SessionInv, DataInv
<1>2. QED
  BY <1>1, SessionInvariant, PTL

\* The buffer of a posted write is left alone until the write completed.
THEOREM SessionBufferPinned == Spec => []BufferPinned
<1>1. SessionInv => BufferPinned
  BY DEF SessionInv, DataInv
<1>2. QED
  BY <1>1, SessionInvariant, PTL

\* With the writer's lock free, writing says exactly whether a write is
\* under way, and an open session with anything to send has one.
THEOREM SessionWriting == Spec => [](WritingMeansInFlight /\ NothingStranded)
<1>1. SessionInv => WritingMeansInFlight /\ NothingStranded
  <2> SUFFICES ASSUME SessionInv PROVE WritingMeansInFlight /\ NothingStranded
    OBVIOUS
  <2>1. wlock = NoThread => \A t \in Threads : pc[t] \notin Posting
    BY ThreadsAssumption DEF SessionInv, LockInv, HoldsWriter, Posting
  <2>2. wlock = NoThread => (writing <=> InFlight)
    BY <2>1 DEF SessionInv, WriteInv
  <2>3. WritingMeansInFlight
    BY <2>2 DEF WritingMeansInFlight, InFlight
  <2>4. ASSUME ~InFlight, flag # "CLOSE" PROVE Unsent = <<>>
    <3>1. buf1 = <<>> /\ buf2 = <<>> /\ at[Io] # "wrote"
      BY <2>4 DEF SessionInv, DataInv, InFlight
    <3>2. sent = 0
      BY <3>1 DEF SessionInv, DataInv
    <3>3. QED
      BY <3>1, <3>2, NothingToCut DEF Unsent
  <2>5. NothingStranded
    BY <2>2, <2>4 DEF NothingStranded
  <2>6. QED
    BY <2>3, <2>5
<1>2. QED
  BY <1>1, SessionInvariant, PTL

\* A session is closed only when all it accepted was sent or a write failed.
THEOREM SessionDrained == Spec => []DrainedBeforeClose
<1>1. SessionInv => DrainedBeforeClose
  BY DEF SessionInv, DataInv
<1>2. QED
  BY <1>1, SessionInvariant, PTL

\* What the reactor completes, it completes on a descriptor still its own.
THEOREM SessionOpenWhileFired == Spec => []CompletesOpenSocket
<1>1. SessionInv => CompletesOpenSocket
  <2> SUFFICES ASSUME SessionInv, ~NoneFired PROVE fd = "open"
    BY DEF CompletesOpenSocket
  <2>1. at[Io] = "recv" \/ at[Io] = "send"
    BY DEF NoneFired, Dirs, SessionInv, ReadInv, WriteInv
  <2>2. QED
    BY <2>1 DEF SessionInv, PlaceInv
<1>2. QED
  BY <1>1, SessionInvariant, PTL

-----------------------------------------------------------------------------
(* The promise (module Session).                                           *)

\* Nobody is told of a connection before its first operation, and nobody
\* hears of it after OnDisconnected.
LEMMA StepNoticeInv ==
  ASSUME SessionInv, NoticeInv, [Next]_vars
  PROVE  NoticeInv'
<1> USE ThreadsAssumption
<1> USE DEF SessionInv, TypeOK, SockTypeOK, NoticeInv
<1>1. ASSUME NEW t \in Threads, NEW m \in Msgs, Send(t, m) PROVE NoticeInv'
  <2>1. calls # <<>> /\ UNCHANGED <<flag, at, calls>>
    BY <1>1 DEF Send, MayCall
  <2>2. UNCHANGED <<closing, fd>>
    BY <1>1 DEF Send, Enqueue, TrySend, Load, sockVars
  <2>3. \A u \in Threads : pc'[u] = "sclose" => pc[u] = "sclose"
    BY <1>1 DEF Send, Enqueue, TrySend, GoTo
  <2>4. QED
    BY <2>1, <2>2, <2>3
<1>2. ASSUME NEW t \in Threads, Close(t) \/ PostClose(t) PROVE NoticeInv'
  <2>1. calls # <<>>
    BY <1>2 DEF Close, PostClose, MayCall
  <2>2. UNCHANGED <<closing, fd, at, calls>> /\ CloseLocked(t)
    BY <1>2 DEF Close, PostClose, sockVars, historyVars
  <2>3. /\ flag = "CLOSE" => flag' = "CLOSE"
        /\ \A u \in Threads : pc'[u] = "sclose" => pc[u] = "sclose" \/ flag' = "CLOSE"
    BY <2>2 DEF CloseLocked, CloseNow, GoTo
  <2>4. QED
    BY <2>1, <2>2, <2>3
<1>3. ASSUME NEW t \in Threads, FinishClose(t) PROVE NoticeInv'
  <2>1. flag = "CLOSE" /\ calls # <<>> /\ UNCHANGED <<flag, at, calls>>
    BY <1>3 DEF FinishClose, historyVars
  <2>2. fd = "closed" => fd' = "closed"
    BY <1>3 DEF FinishClose, SocketClose, FdGone
  <2>3. QED
    BY <2>1, <2>2
<1>4. ASSUME NEW t \in Threads, WritePost(t) \/ WriteRefused(t) PROVE NoticeInv'
  <2>1. calls # <<>> /\ UNCHANGED <<closing, fd, at, calls>>
    BY <1>4 DEF WritePost, WriteRefused, PostBegin, PostReject, PostRefuse
  <2>2. /\ flag = "CLOSE" => flag' = "CLOSE"
        /\ \A u \in Threads : pc'[u] = "sclose" => pc[u] = "sclose" \/ flag' = "CLOSE"
    BY <1>4 DEF WritePost, WriteRefused, CloseNow, GoTo
  <2>3. QED
    BY <2>1, <2>2
<1>5. ASSUME NEW t \in Threads,
             WriteArmed(t) \/ WriteStarted(t) \/ ReadPost(t) \/ ReadArmed(t) \/ ReadRefused(t)
      PROVE  NoticeInv'
  <2>1. calls # <<>> /\ UNCHANGED <<flag, closing, fd, at, calls>>
    BY <1>5 DEF WriteArmed, WriteStarted, ReadPost, ReadArmed, ReadRefused, PostBegin, PostEnd,
       PostReject, PostRefuse, sockVars, writerVars, historyVars
  <2>2. \A u \in Threads : pc'[u] = "sclose" => pc[u] = "sclose"
    BY <1>5 DEF WriteArmed, WriteStarted, ReadPost, ReadArmed, ReadRefused, GoTo
  <2>3. QED
    BY <2>1, <2>2
<1>6. ASSUME Connected PROVE NoticeInv'
  <2>1. at[Acc] = "accept" /\ at' = [at EXCEPT ![Acc] = "cb"] /\ calls' = Append(calls, "OnConnected")
    BY <1>6 DEF Connected, In, MoveTo, Called
  <2>2. calls = <<>> /\ flag = "STOP" /\ at[Io] # "disc"
    BY <2>1 DEF PlaceInv
  <2>3. calls' # <<>> /\ calls' = <<"OnConnected">>
    BY <2>1, <2>2
  <2>4. UNCHANGED <<closing, fd, pc>> /\ at'[Io] # "disc"
    BY <1>6, <2>1, <2>2 DEF Connected, sockVars
  <2>5. QED
    BY <2>2, <2>3, <2>4
<1>7. ASSUME InitThrows \/ ConnectedReturns \/ FirstRecv PROVE NoticeInv'
  <2>1. UNCHANGED <<flag, closing, fd, calls, attached>> /\ at'[Io] = at[Io]
    BY <1>7 DEF InitThrows, ConnectedReturns, FirstRecv, Load, MoveTo, sockVars, writerVars, historyVars
  <2>2. \A u \in Threads : pc'[u] = "sclose" => pc[u] = "sclose"
    BY <1>7 DEF InitThrows, ConnectedReturns, FirstRecv, GoTo
  <2>3. CASE calls = <<>>
    <3>1. InitThrows
      BY <1>7, <2>3 DEF ConnectedReturns, FirstRecv, In
    <3>2. QED
      BY <2>1, <2>3, <3>1 DEF InitThrows, MoveTo, sockVars
  <2>4. QED
    BY <2>1, <2>2, <2>3
<1>8. ASSUME CloseSocket PROVE NoticeInv'
  <2>1. closeq > 0 /\ fd' = "closed" /\ closing' = FALSE /\ at' = [at EXCEPT ![Io] = "disc"]
        /\ UNCHANGED <<flag, pc, calls>>
    BY <1>8 DEF CloseSocket, DoClose, FdGone, MoveTo, writerVars, historyVars
  <2>2. closeq = 1 /\ closing /\ fd = "open"
    BY <2>1 DEF SockInv, RequestInv
  <2>3. flag = "CLOSE" /\ calls # <<>>
    BY <2>2
  <2>4. QED
    BY <2>1, <2>2, <2>3
<1>9. ASSUME CloseHandler PROVE NoticeInv'
  <2>1. /\ at[Io] = "disc" /\ at' = [at EXCEPT ![Io] = "wait"]
        /\ calls' = Append(calls, "OnDisconnected")
        /\ UNCHANGED <<flag, closing, fd, pc>>
    BY <1>9 DEF CloseHandler, In, MoveTo, Called, sockVars, writerVars
  <2>2. calls # <<>> /\ fd = "closed" /\ flag = "CLOSE"
        /\ \A i \in 1..Len(calls) : calls[i] # "OnDisconnected"
    BY <2>1
  <2>3. \A i \in 1..Len(calls') : calls'[i] = "OnDisconnected" => i = Len(calls')
    BY <2>1, <2>2
  <2>4. calls' # <<>> /\ at'[Io] = "wait"
    <3>1. "OnDisconnected" \in Callbacks
      BY DEF Callbacks
    <3>2. calls' # <<>>
      BY <2>1, <3>1, AppendProperties, SMTT(30)
    <3>3. QED
      BY <2>1, <3>2
  <2>5. QED
    BY <2>1, <2>2, <2>3, <2>4
<1>10. ASSUME NothingToClose \/ Wait PROVE NoticeInv'
  <2>1. UNCHANGED <<flag, closing, fd, calls, attached, op, pc>> /\ at'[Acc] = at[Acc]
    BY <1>10 DEF NothingToClose, Wait, MoveTo, sockVars, writerVars, historyVars
  <2>2. at'[Io] \in {"close", "wait", "rchk"} /\ (at'[Io] = "rchk" => attached)
    BY <1>10 DEF NothingToClose, Wait, MoveTo, Pending
  <2>3. QED
    BY <2>1, <2>2
<1>11. ASSUME Deliver PROVE NoticeInv'
  <2>1. /\ at[Io] = "deliver" /\ at' = [at EXCEPT ![Io] = "cb"]
        /\ calls' = Append(calls, "OnReceiveData")
        /\ UNCHANGED <<flag, closing, fd, pc>>
    BY <1>11 DEF Deliver, In, MoveTo, Called, sockVars, writerVars
  <2>2. calls # <<>> /\ fd = "open" /\ \A i \in 1..Len(calls) : calls[i] # "OnDisconnected"
    BY <2>1 DEF PlaceInv
  <2>3. \A i \in 1..Len(calls') : calls'[i] # "OnDisconnected"
    BY <2>1, <2>2
  <2>4. calls' # <<>> /\ at'[Io] = "cb"
    <3>1. "OnReceiveData" \in Callbacks
      BY DEF Callbacks
    <3>2. calls' # <<>>
      BY <2>1, <3>1, AppendProperties
    <3>3. QED
      BY <2>1, <3>2
  <2>5. QED
    BY <2>1, <2>2, <2>3, <2>4
<1>12. ASSUME \/ CheckRead \/ CheckWrite \/ FireRead \/ Recv \/ ReadHandler \/ ReceiveReturns
              \/ BadHeader \/ Rearm \/ FireWrite \/ SendSome
       PROVE  NoticeInv'
  <2>1. at[Io] \in {"rchk", "wchk", "rlock", "recv", "read", "cb", "deliver", "wlock", "send"}
    BY <1>12 DEF CheckRead, CheckWrite, FireRead, Recv, ReadHandler, ReceiveReturns, BadHeader,
       Rearm, FireWrite, SendSome, In
  <2>2. calls # <<>> /\ fd = "open"
    BY <2>1 DEF PlaceInv
  <2>3. UNCHANGED <<flag, closing, fd, calls>>
    BY <1>12, <2>2 DEF CheckRead, CheckWrite, FireRead, Recv, ReadHandler, ReceiveReturns, BadHeader,
       Rearm, FireWrite, SendSome, Fire, Load, Unload, sockVars, writerVars, historyVars
  <2>4. at'[Io] # "disc"
    BY <1>12 DEF CheckRead, CheckWrite, FireRead, Recv, ReadHandler, ReceiveReturns, BadHeader,
       Rearm, FireWrite, SendSome, MoveTo
  <2>5. \A u \in Threads : pc'[u] = "sclose" => pc[u] = "sclose"
    BY <1>12 DEF CheckRead, CheckWrite, FireRead, Recv, ReadHandler, ReceiveReturns, BadHeader,
       Rearm, FireWrite, SendSome, GoTo
  <2>6. QED
    BY <2>2, <2>3, <2>4, <2>5
<1>13. ASSUME WriteHandler PROVE NoticeInv'
  <2>1. at[Io] = "wrote" /\ at' = [at EXCEPT ![Io] = "close"] /\ calls' = calls
    BY <1>13 DEF WriteHandler, In, MoveTo, historyVars
  <2>2. calls # <<>> /\ fd = "open"
    BY <2>1 DEF PlaceInv
  <2>3. UNCHANGED <<closing, fd>>
    BY <1>13 DEF WriteHandler, TrySend, Load, sockVars
  <2>4. /\ flag = "CLOSE" => flag' = "CLOSE"
        /\ \A u \in Threads : pc'[u] = "sclose" => pc[u] = "sclose" \/ flag' = "CLOSE"
    BY <1>13 DEF WriteHandler, TrySend, CloseNow, GoTo
  <2>5. QED
    BY <2>1, <2>2, <2>3, <2>4
<1>14. CASE PeerStep \/ UNCHANGED vars
  <2>1. UNCHANGED <<flag, closing, fd, calls, attached, op, pc, at>>
    BY <1>14 DEF PeerStep, PeerSends, PeerCloses, PeerResets, PeerReads, vars, sockVars,
       writerVars, threadVars, historyVars
  <2>2. QED
    BY <2>1
<1>15. QED
  BY <1>1, <1>2, <1>3, <1>4, <1>5, <1>6, <1>7, <1>8, <1>9, <1>10, <1>11, <1>12, <1>13, <1>14
     DEF Next, Step, AccStep, IoStep

\* Two sequences that continue a third one alike are the same.
LEMMA SameContinuation ==
  ASSUME NEW w \in Seq(Units), NEW u \in Seq(Units), NEW v \in Seq(Units), w \o v = w \o u
  PROVE  v = u
BY ConcatSimplifications

\* Concatenation is associative.
LEMMA Associative ==
  ASSUME NEW a \in Seq(Units), NEW b \in Seq(Units), NEW c \in Seq(Units)
  PROVE  (a \o b) \o c = a \o (b \o c) /\ b \o c \in Seq(Units)
<1>1. (a \o b) \o c = a \o (b \o c)
  BY ConcatAssociative
<1>2. b \o c \in Seq(Units)
  BY ConcatProperties
<1>3. QED
  BY <1>1, <1>2

\* The front of what is unsent is the front of the first buffer.
LEMMA FrontOfUnsent ==
  ASSUME NEW b1 \in Seq(Units), NEW b2 \in Seq(Units), NEW n \in 1..Len(b1)
  PROVE  /\ n \in 1..Len(b1 \o b2)
         /\ SubSeq(b1, 1, n) = SubSeq(b1 \o b2, 1, n)
         /\ Cut(b1, n) \o b2 = SubSeq(b1 \o b2, n + 1, Len(b1 \o b2))
<1> DEFINE s == b1 \o b2
<1>1. /\ s \in Seq(Units) /\ Len(s) = Len(b1) + Len(b2)
      /\ \A i \in 1..Len(s) : s[i] = IF i <= Len(b1) THEN b1[i] ELSE b2[i - Len(b1)]
  BY ConcatProperties
<1>2. n \in 1..Len(s) /\ n \in 0..Len(s) /\ n \in 0..Len(b1)
  BY <1>1
<1> HIDE DEF s
<1>3. SubSeq(b1, 1, n) = SubSeq(s, 1, n)
  BY <1>1, <1>2
<1>4. /\ SubSeq(b1, 1, n) \in Seq(Units) /\ Cut(b1, n) \in Seq(Units) /\ Cut(s, n) \in Seq(Units)
      /\ SubSeq(b1, 1, n) \o Cut(b1, n) = b1 /\ SubSeq(s, 1, n) \o Cut(s, n) = s
  BY <1>1, <1>2, CutProperties
<1>5. PICK h \in Seq(Units) : h = SubSeq(b1, 1, n)
  BY <1>4
<1>6. PICK c \in Seq(Units) : c = Cut(b1, n)
  BY <1>4
<1>7. PICK d \in Seq(Units) : d = Cut(s, n)
  BY <1>4
<1>8. h \o c = b1 /\ h \o d = s
  BY <1>5, <1>6, <1>7, <1>3, <1>4
<1>9. (h \o c) \o b2 = h \o (c \o b2) /\ c \o b2 \in Seq(Units)
  BY ONLY h \in Seq(Units), c \in Seq(Units), b2 \in Seq(Units), Associative, ZenonT(30)
<1>10. h \o d = h \o (c \o b2)
  BY <1>8, <1>9 DEF s
<1>11. d = c \o b2
  BY <1>9, <1>10, SameContinuation
<1>12. QED
  BY <1>2, <1>3, <1>6, <1>7, <1>11 DEF s, Cut

\* What is unsent is a sequence of units, before a step and after it.
LEMMA UnsentType ==
  /\ SessionInv => Unsent \in Seq(Units)
  /\ SessionInv' => Unsent' \in Seq(Units)
<1>1. ASSUME NEW b1 \in Seq(Units), NEW b2 \in Seq(Units), NEW n \in 0..Len(b1)
      PROVE  Cut(b1, n) \o b2 \in Seq(Units)
  BY CutProperties, ConcatProperties
<1>2. SessionInv => buf1 \in Seq(Units) /\ buf2 \in Seq(Units) /\ sent \in 0..Len(buf1)
  BY DEF SessionInv, TypeOK, DataInv
<1>3. SessionInv' => buf1' \in Seq(Units) /\ buf2' \in Seq(Units) /\ sent' \in 0..Len(buf1')
  BY DEF SessionInv, TypeOK, DataInv
<1>4. QED
  BY <1>1, <1>2, <1>3 DEF Unsent

\* When what was accepted and what went out stay, what is unsent stays.
LEMMA UnsentStays ==
  ASSUME SessionInv, SessionInv', UNCHANGED <<accepted, wire>>
  PROVE  Unsent' = Unsent
<1>1. Unsent \in Seq(Units) /\ Unsent' \in Seq(Units) /\ wire \in Seq(Units)
  BY UnsentType DEF SessionInv, TypeOK
<1>2. wire \o Unsent' = wire \o Unsent
  BY DEF SessionInv, DataInv, StreamIntact
<1>3. QED
  BY ONLY <1>1, <1>2, SameContinuation

\* A callback counts as received exactly when it is OnReceiveData.
LEMMA ReceivedStep ==
  ASSUME calls \in Seq(Callbacks), NEW c \in Callbacks, calls' = Append(calls, c)
  PROVE  ReceivedCalls' = IF c = "OnReceiveData" THEN ReceivedCalls + 1 ELSE ReceivedCalls
<1> DEFINE n == Len(calls)
<1> DEFINE S == {i \in 1..n : calls[i] = "OnReceiveData"}
<1> DEFINE T == {i \in 1..Len(calls') : calls'[i] = "OnReceiveData"}
<1>1. /\ n \in Nat /\ Len(calls') = n + 1 /\ calls'[n + 1] = c
      /\ \A i \in 1..n : calls'[i] = calls[i]
  BY AppendProperties
<1>2. IsFiniteSet(S)
  <2>1. IsFiniteSet(1..n)
    BY <1>1, FS_Interval
  <2>2. S \in SUBSET (1..n)
    OBVIOUS
  <2>3. QED
    BY ONLY <2>1, <2>2, FS_Subset
<1>3. n + 1 \notin S
  BY <1>1
<1>4. T = IF c = "OnReceiveData" THEN S \cup {n + 1} ELSE S
  BY <1>1
<1>5. Cardinality(S \cup {n + 1}) = Cardinality(S) + 1
  BY <1>2, <1>3, FS_AddElement
<1>6. Cardinality(T) = IF c = "OnReceiveData" THEN Cardinality(S) + 1 ELSE Cardinality(S)
  BY <1>4, <1>5
<1>7. QED
  BY <1>6 DEF ReceivedCalls

\* Before the end, the last notice an application got is OnConnected.
LEMMA NoticeBeforeEnd ==
  ASSUME SessionInv, NoticeInv, calls # <<>>, fd = "open" \/ at[Io] = "disc"
  PROVE  LastNotice = "OnConnected"
<1>1. Len(calls) \in 1..Len(calls)
  BY DEF SessionInv, TypeOK
<1>2. calls[Len(calls)] # "OnDisconnected"
  BY <1>1 DEF NoticeInv
<1>3. QED
  BY <1>2 DEF LastNotice

\* A step that changes neither the state, the stream nor the callbacks is
\* none of the promise's business.
LEMMA PromiseStutters ==
  ASSUME SessionInv, SessionInv', UNCHANGED <<flag, accepted, wire, failed, calls>>
  PROVE  UNCHANGED Promise!sessionVars
<1>1. Unsent' = Unsent
  BY UnsentStays
<1>2. UNCHANGED <<SessionState, ReceivedCalls, LastNotice>>
  BY DEF SessionState, ReceivedCalls, LastNotice
<1>3. QED
  BY <1>1, <1>2 DEF Promise!sessionVars

\* A close that is asked for begins to drain or, when nothing is left or a
\* write failed, ends the connection.
LEMMA PromiseCloses ==
  ASSUME SessionInv, SessionInv', calls # <<>>, UNCHANGED <<accepted, wire, failed, calls>>,
         UNCHANGED flag \/ (flag # "CLOSE" /\ flag' \in {"STOP", "CLOSE"})
  PROVE  [Promise!SessionNext]_Promise!sessionVars
<1>1. Unsent' = Unsent
  BY UnsentStays
<1>2. UNCHANGED <<ReceivedCalls, LastNotice>>
  BY DEF ReceivedCalls, LastNotice
<1>3. flag \in {"START", "STOP", "CLOSE"}
  BY DEF SessionInv, TypeOK
<1>4. CASE flag' = flag
  BY <1>4, PromiseStutters
<1>5. CASE flag = "START" /\ flag' = "STOP"
  <2>1. SessionState = "up" /\ SessionState' = "draining"
    BY <1>5 DEF SessionState
  <2>2. QED
    BY <1>1, <1>2, <2>1 DEF Promise!SessionNext, Promise!BeginClose
<1>6. CASE flag # "CLOSE" /\ flag' = "CLOSE"
  <2>1. SessionState \in {"up", "draining"} /\ SessionState' = "down"
    BY <1>3, <1>6 DEF SessionState
  <2>2. failed \/ Unsent = <<>>
    BY <1>1, <1>6 DEF SessionInv, DataInv, DrainedBeforeClose
  <2>3. QED
    BY <1>1, <1>2, <2>1, <2>2 DEF Promise!SessionNext, Promise!End
<1>7. QED
  BY <1>3, <1>4, <1>5, <1>6

\* A write that fails breaks the connection and may end it.
LEMMA PromiseBreaks ==
  ASSUME SessionInv, SessionInv', calls # <<>>, UNCHANGED <<accepted, wire, calls>>,
         failed' = TRUE, flag # "CLOSE", flag' \in {flag, "CLOSE"}
  PROVE  Promise!SessionNext
<1>1. Unsent' = Unsent
  BY UnsentStays
<1>2. UNCHANGED <<ReceivedCalls, LastNotice>>
  BY DEF ReceivedCalls, LastNotice
<1>3. flag \in {"START", "STOP"}
  BY DEF SessionInv, TypeOK
<1>4. SessionState \in {"up", "draining"} /\ SessionState' \in {SessionState, "down"}
  BY <1>3 DEF SessionState
<1>5. QED
  BY <1>1, <1>2, <1>4 DEF Promise!SessionNext, Promise!Break

\* Every step of the session is one the promise allows.
LEMMA StepKeepsPromise ==
  ASSUME SessionInv, NoticeInv, SessionInv', NoticeInv', [Next]_vars
  PROVE  [Promise!SessionNext]_Promise!sessionVars
<1> USE ThreadsAssumption, MsgsAssumption
<1>1. ASSUME NEW t \in Threads, NEW m \in Msgs, Send(t, m)
      PROVE  [Promise!SessionNext]_Promise!sessionVars
  <2>1. /\ calls # <<>> /\ flag = "START" /\ accepted' = accepted \o m
        /\ UNCHANGED <<flag, wire, failed, calls>>
    BY <1>1 DEF Send, MayCall
  <2>2. /\ Unsent \in Seq(Units) /\ Unsent' \in Seq(Units)
        /\ wire \in Seq(Units) /\ m \in Seq(Units)
    BY UnsentType DEF SessionInv, TypeOK
  <2>3. Unsent' = Unsent \o m
    <3>1. wire \o Unsent' = (wire \o Unsent) \o m
      BY <2>1 DEF SessionInv, DataInv, StreamIntact
    <3>2. (wire \o Unsent) \o m = wire \o (Unsent \o m) /\ Unsent \o m \in Seq(Units)
      BY ONLY <2>2, ConcatAssociative, ConcatProperties
    <3>3. QED
      BY ONLY <2>2, <3>1, <3>2, SameContinuation
  <2>4. UNCHANGED <<SessionState, ReceivedCalls, LastNotice>> /\ SessionState = "up"
    BY <2>1 DEF SessionState, ReceivedCalls, LastNotice
  <2>5. Promise!Accept(m)
    BY <2>1, <2>3, <2>4 DEF Promise!Accept
  <2>6. QED
    BY <2>5 DEF Promise!SessionNext
<1>2. ASSUME NEW t \in Threads, Close(t) \/ PostClose(t)
      PROVE  [Promise!SessionNext]_Promise!sessionVars
  <2>1. calls # <<>>
    BY <1>2 DEF Close, PostClose, MayCall, NoticeInv
  <2>2. UNCHANGED <<accepted, wire, failed, calls>> /\ CloseLocked(t)
    BY <1>2 DEF Close, PostClose, historyVars
  <2>3. UNCHANGED flag \/ (flag # "CLOSE" /\ flag' \in {"STOP", "CLOSE"})
    BY <2>2 DEF CloseLocked, CloseNow
  <2>4. QED
    BY <2>1, <2>2, <2>3, PromiseCloses
<1>3. ASSUME NEW t \in Threads, WritePost(t)
      PROVE  [Promise!SessionNext]_Promise!sessionVars
  <2>1. calls # <<>> /\ flag # "CLOSE" /\ UNCHANGED <<accepted, wire, calls>>
    BY <1>3 DEF WritePost, NoticeInv, SessionInv, WriteInv, Posting
  <2>2. CASE UNCHANGED <<flag, failed>>
    BY <2>1, <2>2, PromiseStutters
  <2>3. CASE failed' = TRUE /\ flag' \in {flag, "CLOSE"}
    BY <2>1, <2>3, PromiseBreaks
  <2>4. QED
    BY <1>3, <2>2, <2>3 DEF WritePost, CloseNow
<1>4. ASSUME NEW t \in Threads, WriteRefused(t)
      PROVE  [Promise!SessionNext]_Promise!sessionVars
  <2>1. calls # <<>> /\ flag # "CLOSE" /\ UNCHANGED <<accepted, wire, calls>>
    BY <1>4 DEF WriteRefused, NoticeInv, SessionInv, WriteInv, Posting
  <2>2. failed' = TRUE /\ flag' \in {flag, "CLOSE"}
    BY <1>4 DEF WriteRefused, CloseNow
  <2>3. QED
    BY <2>1, <2>2, PromiseBreaks
<1>5. ASSUME Connected
      PROVE  [Promise!SessionNext]_Promise!sessionVars
  <2>1. /\ at[Acc] = "accept" /\ flag' = "START" /\ calls' = Append(calls, "OnConnected")
        /\ UNCHANGED <<accepted, wire, failed>>
    BY <1>5 DEF Connected, In, Called
  <2>2. calls = <<>> /\ calls \in Seq(Callbacks) /\ "OnConnected" \in Callbacks
    BY <2>1 DEF SessionInv, PlaceInv, TypeOK, Callbacks
  <2>3. calls' = <<"OnConnected">>
    BY <2>1, <2>2
  <2>4. ReceivedCalls' = ReceivedCalls
    BY <2>1, <2>2, ReceivedStep
  <2>5. /\ SessionState = "idle" /\ SessionState' = "up"
        /\ LastNotice' = "OnConnected"
    BY <2>1, <2>2, <2>3 DEF SessionState, LastNotice
  <2>6. Unsent' = Unsent
    BY <2>1, UnsentStays
  <2>7. QED
    BY <2>1, <2>4, <2>5, <2>6 DEF Promise!SessionNext, Promise!Connect
<1>6. ASSUME CloseHandler
      PROVE  [Promise!SessionNext]_Promise!sessionVars
  <2>1. /\ at[Io] = "disc" /\ calls' = Append(calls, "OnDisconnected")
        /\ UNCHANGED <<flag, accepted, wire, failed>>
    BY <1>6 DEF CloseHandler, In, Called, writerVars
  <2>2. flag = "CLOSE" /\ calls # <<>>
    BY <2>1 DEF NoticeInv
  <2>3. calls \in Seq(Callbacks) /\ "OnDisconnected" \in Callbacks
    BY DEF SessionInv, TypeOK, Callbacks
  <2>4. /\ calls' # <<>> /\ calls'[Len(calls')] = "OnDisconnected"
        /\ ReceivedCalls' = ReceivedCalls
    BY <2>1, <2>3, AppendProperties, ReceivedStep
  <2>5. LastNotice = "OnConnected"
    BY <2>1, <2>2, NoticeBeforeEnd
  <2>6. SessionState = "down" /\ SessionState' = "down" /\ LastNotice' = "OnDisconnected"
    BY <2>1, <2>2, <2>4 DEF SessionState, LastNotice
  <2>7. Unsent' = Unsent
    BY <2>1, UnsentStays
  <2>8. QED
    BY <2>1, <2>4, <2>5, <2>6, <2>7 DEF Promise!SessionNext, Promise!Notify
<1>7. ASSUME Deliver
      PROVE  [Promise!SessionNext]_Promise!sessionVars
  <2>1. /\ at[Io] = "deliver" /\ calls' = Append(calls, "OnReceiveData")
        /\ UNCHANGED <<flag, accepted, wire, failed>>
    BY <1>7 DEF Deliver, In, Called, writerVars
  <2>2. fd = "open" /\ calls # <<>>
    BY <2>1 DEF NoticeInv, SessionInv, PlaceInv
  <2>3. calls \in Seq(Callbacks) /\ "OnReceiveData" \in Callbacks
    BY DEF SessionInv, TypeOK, Callbacks
  <2>4. /\ calls' # <<>> /\ calls'[Len(calls')] = "OnReceiveData"
        /\ ReceivedCalls' = ReceivedCalls + 1
    BY <2>1, <2>3, AppendProperties, ReceivedStep
  <2>5. LastNotice = "OnConnected"
    BY <2>2, NoticeBeforeEnd
  <2>6. SessionState' = SessionState /\ LastNotice' = LastNotice
    BY <2>1, <2>2, <2>4, <2>5 DEF SessionState, LastNotice
  <2>7. Unsent' = Unsent
    BY <2>1, UnsentStays
  <2>8. QED
    BY <2>1, <2>4, <2>5, <2>6, <2>7 DEF Promise!SessionNext, Promise!Receive
<1>8. ASSUME SendSome
      PROVE  [Promise!SessionNext]_Promise!sessionVars
  <2>1. at[Io] = "send" /\ UNCHANGED <<flag, buf1, buf2, accepted, calls>>
    BY <1>8 DEF SendSome, In
  <2>2. calls # <<>>
    BY <2>1 DEF NoticeInv
  <2>3. op["W"] = "fired" /\ wbuf = buf1 /\ sent = 0
    BY <2>1 DEF SessionInv, WriteInv, DataInv, BufferPinned
  <2>4. flag # "CLOSE"
    <3>1. CASE \A u \in Threads : pc[u] \notin Posting
      BY <2>3, <3>1 DEF SessionInv, WriteInv, InFlight
    <3>2. CASE \E u \in Threads : pc[u] \in Posting
      BY <3>2 DEF SessionInv, WriteInv
    <3>3. QED
      BY <3>1, <3>2
  <2>5. CASE failed' = TRUE /\ UNCHANGED wire
    BY <2>1, <2>2, <2>4, <2>5, PromiseBreaks
  <2>6. ASSUME NEW n \in 1..Len(wbuf), sent' = n, wire' = wire \o SubSeq(wbuf, 1, n),
               UNCHANGED failed
        PROVE  Promise!SessionNext
    <3>1. buf1 \in Seq(Units) /\ buf2 \in Seq(Units) /\ n \in 1..Len(buf1) /\ 0 \in 0..Len(buf1)
      BY <2>3 DEF SessionInv, TypeOK
    <3>2. Unsent = buf1 \o buf2
      BY <2>3, <3>1, CutProperties DEF Unsent
    <3>3. Unsent' = Cut(buf1, n) \o buf2
      BY <2>1, <2>6 DEF Unsent
    <3>4. /\ n \in 1..Len(Unsent)
          /\ SubSeq(wbuf, 1, n) = SubSeq(Unsent, 1, n)
          /\ Unsent' = SubSeq(Unsent, n + 1, Len(Unsent))
      BY <2>3, <3>1, <3>2, <3>3, FrontOfUnsent
    <3>5. SessionState \in {"up", "draining"} /\ UNCHANGED <<SessionState, ReceivedCalls, LastNotice>>
      <4>1. flag \in {"START", "STOP"}
        BY <2>4 DEF SessionInv, TypeOK
      <4>2. QED
        BY <2>1, <2>2, <4>1 DEF SessionState, ReceivedCalls, LastNotice
    <3>6. Promise!Transmit(n)
      BY <2>6, <3>4, <3>5 DEF Promise!Transmit
    <3>7. QED
      BY <3>4, <3>6 DEF Promise!SessionNext
  <2>7. QED
    BY <1>8, <2>5, <2>6 DEF SendSome
<1>9. ASSUME WriteHandler
      PROVE  [Promise!SessionNext]_Promise!sessionVars
  <2>1. at[Io] = "wrote" /\ UNCHANGED <<accepted, wire, failed, calls>>
    BY <1>9 DEF WriteHandler, In, historyVars
  <2>2. calls # <<>>
    BY <2>1 DEF NoticeInv
  <2>3. UNCHANGED flag \/ (flag # "CLOSE" /\ flag' \in {"STOP", "CLOSE"})
    BY <1>9 DEF WriteHandler, CloseNow
  <2>4. QED
    BY <2>1, <2>2, <2>3, PromiseCloses
<1>10. ASSUME NEW t \in Threads,
              \/ FinishClose(t) \/ WriteArmed(t) \/ WriteStarted(t)
              \/ ReadPost(t) \/ ReadArmed(t) \/ ReadRefused(t)
       PROVE  [Promise!SessionNext]_Promise!sessionVars
  <2>1. UNCHANGED <<flag, accepted, wire, failed, calls>>
    BY <1>10 DEF FinishClose, WriteArmed, WriteStarted, ReadPost, ReadArmed, ReadRefused,
       writerVars, historyVars
  <2>2. QED
    BY <2>1, PromiseStutters
<1>11. CASE \/ InitThrows \/ ConnectedReturns \/ FirstRecv
            \/ NothingToClose \/ CloseSocket \/ Wait \/ CheckRead \/ CheckWrite
            \/ FireRead \/ Recv \/ ReadHandler \/ ReceiveReturns \/ BadHeader \/ Rearm
            \/ FireWrite \/ PeerStep \/ UNCHANGED vars
  <2>1. UNCHANGED <<flag, accepted, wire, failed, calls>>
    BY <1>11 DEF InitThrows, ConnectedReturns, FirstRecv, NothingToClose, CloseSocket, Wait,
       CheckRead, CheckWrite, FireRead, Recv, ReadHandler, ReceiveReturns, BadHeader, Rearm,
       FireWrite, PeerStep, PeerSends, PeerCloses, PeerResets, PeerReads, vars, writerVars, historyVars
  <2>2. QED
    BY <2>1, PromiseStutters
<1>12. QED
  BY <1>1, <1>2, <1>3, <1>4, <1>5, <1>6, <1>7, <1>8, <1>9, <1>10, <1>11
     DEF Next, Step, AccStep, IoStep

\* A connection keeps its promise (module Session): for any number of
\* threads that call Send and Close, any messages and any splitting of the
\* writes, what goes out is what was accepted, in order; nothing is accepted
\* after a close; it ends when all was sent or a write failed; and the
\* callbacks come in the order OnConnected, OnReceiveData, OnDisconnected.
THEOREM SessionKeepsPromise == Spec => KeepsPromise
<1>1. Init => Promise!SessionInit /\ NoticeInv
  <2> SUFFICES ASSUME Init PROVE Promise!SessionInit /\ NoticeInv
    OBVIOUS
  <2>1. calls = <<>> /\ wire = <<>> /\ failed = FALSE
    BY DEF Init
  <2>2. Unsent = <<>>
    BY NothingToCut DEF Init, Unsent
  <2>3. ReceivedCalls = 0
    <3>1. {i \in 1..Len(calls) : calls[i] = "OnReceiveData"} = {}
      BY <2>1
    <3>2. QED
      BY <3>1, FS_EmptySet DEF ReceivedCalls
  <2>4. SessionState = "idle" /\ LastNotice = "none"
    BY <2>1 DEF SessionState, LastNotice
  <2>5. NoticeInv
    BY ThreadsAssumption DEF Init, SockInit, NoticeInv, Dirs
  <2>6. QED
    BY <2>1, <2>2, <2>3, <2>4, <2>5 DEF Promise!SessionInit
<1>2. SessionInv /\ NoticeInv /\ [Next]_vars => NoticeInv'
  BY StepNoticeInv
<1>3. SessionInv /\ NoticeInv /\ SessionInv' /\ NoticeInv' /\ [Next]_vars
        => [Promise!SessionNext]_Promise!sessionVars
  BY StepKeepsPromise
<1>4. QED
  BY <1>1, <1>2, <1>3, SessionInvariant, PTL DEF Spec, KeepsPromise, Promise!SessionSpec
=============================================================================
