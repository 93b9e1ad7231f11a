----------------------------- MODULE TcpSession -----------------------------
(***************************************************************************)
(* One accepted connection: TcpBaseSocket / TcpStreamSocket / TcpSocket of *)
(* netio/ driven by the reactor of socket/ (module EpollSocket).           *)
(*                                                                         *)
(* Threads.  Apps call Send and Close whenever they like.  Acc is the      *)
(* reactor thread that accepted the connection and runs TcpSocket::Init.   *)
(* Io is the reactor thread whose epoll set holds the socket: it closes,   *)
(* waits, completes reads and writes and runs their handlers.  Each thread *)
(* is at a place of its own code (at) and possibly inside a call made from *)
(* there (pc); a step is what the code does between two points where       *)
(* another thread may be seen to act (taking a mutex, an unlocked access,  *)
(* a system call).  _writer.lock is wlock, core::_mutex is core.           *)
(*                                                                         *)
(* Bytes are abstract units.  A message is the sequence of units Send puts *)
(* in the buffer, its header included; the kernel's send buffer holds      *)
(* SndBuf units, so a send may take a part of what it is given.  Framing   *)
(* of received bytes is module MsgFraming; here a read returns a number of *)
(* chunks and each completes at most one message.                          *)
(***************************************************************************)
EXTENDS EpollSocket, Sequences, FiniteSets

CONSTANTS
  Apps, Acc, Io,   \* the threads
  Units,           \* abstract bytes
  Msgs,            \* what Send is called with: non-empty sequences of units
  PackSize,        \* M_SOCKET_PACK_SIZE
  MaxBuffer,       \* E_MAX_BUFFER_SIZE
  SndBuf,          \* capacity of the kernel's send buffer
  MaxAccepted,     \* bound: no Send once this many units were accepted
  MaxChunks,       \* bound: chunks the peer sends
  Serving          \* FALSE: the reactor threads may be gone when an op is posted

ASSUME ThreadsAssumption ==
  /\ Threads = Apps \cup {Acc, Io}
  /\ Acc # Io /\ Acc \notin Apps /\ Io \notin Apps
  /\ NoThread \notin Threads
ASSUME SizesAssumption ==
  /\ PackSize \in Nat /\ MaxBuffer \in Nat /\ SndBuf \in Nat \ {0}
  /\ MaxAccepted \in Nat /\ MaxChunks \in Nat /\ Serving \in BOOLEAN
ASSUME MsgsAssumption == \A m \in Msgs : m \in Seq(Units) /\ m # <<>>

VARIABLES
  flag,      \* TcpBaseSocket::_flag
  writing,   \* _writer.writing
  buf1,      \* _writer.msgbuffer1: what is being sent
  buf2,      \* _writer.msgbuffer2: what Send appends to
  wbuf,      \* the write operation's _wsabuf: the bytes it points to
  wlock,     \* _writer.lock: its holder, or NoThread
  pc,        \* the call a thread is inside: "run" when in none
  at,        \* where each thread is in its own code
  ev,        \* the event epoll_wait returned for this socket
  got,       \* chunks the last read returned that are not yet dealt with
  sent,      \* units the last send took (0: it failed)
  \* the peer and the kernel
  rx,        \* chunks received and not yet read
  chunks,    \* chunks the peer has sent
  peer,      \* "up", "eof" (half-closed) or "reset"
  sndbuf,    \* units in the send buffer
  \* history
  accepted,  \* every unit Send accepted, in order
  wire,      \* every unit handed to the kernel, in order
  failed,    \* a write failed or could not be posted
  calls      \* the callbacks made so far

writerVars  == <<flag, writing, buf1, buf2, wbuf, wlock>>
threadVars  == <<pc, at, ev, got, sent>>
kernelVars  == <<rx, chunks, peer, sndbuf>>
historyVars == <<accepted, wire, failed, calls>>
vars == <<sockVars, writerVars, threadVars, kernelVars, historyVars>>

Callbacks == {"OnConnected", "OnReceiveData", "OnDisconnected"}

TypeOK ==
  /\ SockTypeOK
  /\ flag \in {"START", "STOP", "CLOSE"} /\ writing \in BOOLEAN
  /\ buf1 \in Seq(Units) /\ buf2 \in Seq(Units) /\ wbuf \in Seq(Units)
  /\ wlock \in Threads \cup {NoThread}
  /\ pc \in [Threads -> {"run", "pclose", "sclose", "wpost", "warm", "wdone", "rpost", "rarm"}]
  /\ at \in [Threads -> {"app", "accept", "cb", "recv", "done", "close", "disc", "wait",
                         "rchk", "rlock", "read", "deliver", "wchk", "wlock", "send", "wrote"}]
  /\ ev \in SUBSET (Dirs \cup {"ERR"})
  /\ got \in Nat /\ sent \in Nat
  /\ rx \in Nat /\ chunks \in Nat /\ sndbuf \in Nat
  /\ peer \in {"up", "eof", "reset"}
  /\ accepted \in Seq(Units) /\ wire \in Seq(Units)
  /\ failed \in BOOLEAN /\ calls \in Seq(Callbacks)

\* TcpBaseSocket's constructor, and a thread about to run TcpSocket::Init.
Init ==
  /\ SockInit
  /\ flag = "STOP" /\ writing = FALSE
  /\ buf1 = <<>> /\ buf2 = <<>> /\ wbuf = <<>> /\ wlock = NoThread
  /\ pc = [t \in Threads |-> "run"]
  /\ at = [t \in Threads |-> CASE t = Acc -> "accept" [] t = Io -> "close" [] OTHER -> "app"]
  /\ ev = {} /\ got = 0 /\ sent = 0
  /\ rx = 0 /\ chunks = 0 /\ peer = "up" /\ sndbuf = 0
  /\ accepted = <<>> /\ wire = <<>> /\ failed = FALSE /\ calls = <<>>

-----------------------------------------------------------------------------
GoTo(t, p) == pc' = [pc EXCEPT ![t] = p]
MoveTo(t, l) == at' = [at EXCEPT ![t] = l]
Called(c) == calls' = Append(calls, c)
In(t, l) == pc[t] = "run" /\ at[t] = l

\* Buffer::CutData
Cut(s, n) == SubSeq(s, n + 1, Len(s))

(* _Close, by a thread t that has _writer.lock: a write in flight          *)
(* postpones it; otherwise the socket is closed, and t keeps the lock      *)
(* while it waits for the core mutex in IoAccess::Close.                   *)
CloseNow(t) ==
  IF flag = "CLOSE"
    THEN GoTo(t, "run") /\ wlock' = NoThread /\ UNCHANGED flag
    ELSE flag' = "CLOSE" /\ GoTo(t, "sclose") /\ wlock' = t
CloseIgnoresWriting(t) == CloseNow(t)
CloseLocked(t) ==
  IF writing /\ flag # "CLOSE"
    THEN flag' = "STOP" /\ GoTo(t, "run") /\ wlock' = NoThread
    ELSE CloseNow(t)

\* _socket->Close inside _Close, and the release of _writer.lock.
FinishClose(t) ==
  /\ pc[t] = "sclose"
  /\ SocketClose
  /\ wlock' = NoThread /\ GoTo(t, "run")
  /\ UNCHANGED <<flag, writing, buf1, buf2, wbuf, at, ev, got, sent, kernelVars, historyVars>>

\* _PostClose called from a read handler or after a failed post.
PostClose(t) ==
  /\ pc[t] = "pclose" /\ wlock = NoThread
  /\ CloseLocked(t)
  /\ UNCHANGED <<sockVars, writing, buf1, buf2, wbuf, at, ev, got, sent, kernelVars, historyVars>>

(* _TrySendData, nothing being written: the front buffer, refilled from    *)
(* the back one when it is empty, is loaded into the write operation; t    *)
(* keeps _writer.lock until the operation is posted.                       *)
Front(b1, b2) == IF b1 = <<>> THEN b2 ELSE b1
BackKept(b1, b2) == b2
Back(b1, b2)  == IF b1 = <<>> THEN <<>> ELSE b2

TrySend(t, b1, b2) ==
  /\ buf1' = Front(b1, b2) /\ buf2' = Back(b1, b2) /\ wbuf' = Front(b1, b2)
  /\ Load("W")
  /\ wlock' = t /\ GoTo(t, "wpost")

\* Who may call Send and Close: applications once OnConnected handed them
\* the socket, and the callbacks OnConnected and OnReceiveData themselves.
MayCall(t) ==
  /\ pc[t] = "run" /\ calls # <<>>
  /\ t \in Apps \/ at[t] = "cb"

\* The message joins the back buffer; if nothing is being written it is
\* moved on at once.
EnqueueIgnoresWriting(t, m) == TrySend(t, buf1, buf2 \o m)
EnqueueInFront(t, m) ==
  IF writing
    THEN buf1' = buf1 \o m /\ UNCHANGED <<sockVars, buf2, wbuf, wlock, pc>>
    ELSE TrySend(t, buf1, buf2 \o m)
Enqueue(t, m) ==
  IF writing
    THEN buf2' = buf2 \o m /\ UNCHANGED <<sockVars, buf1, wbuf, wlock, pc>>
    ELSE TrySend(t, buf1, buf2 \o m)

\* Send, when it accepts the message (otherwise it changes nothing).
Send(t, m) ==
  /\ MayCall(t) /\ wlock = NoThread
  /\ flag = "START" /\ Len(m) <= PackSize /\ Len(buf2) + Len(m) <= MaxBuffer
  /\ Len(accepted) < MaxAccepted
  /\ accepted' = accepted \o m
  /\ Enqueue(t, m)
  /\ UNCHANGED <<flag, writing, at, ev, got, sent, kernelVars, wire, failed, calls>>

\* Close, called by the application.
Close(t) ==
  /\ MayCall(t) /\ wlock = NoThread
  /\ CloseLocked(t)
  /\ UNCHANGED <<sockVars, writing, buf1, buf2, wbuf, at, ev, got, sent, kernelVars, historyVars>>

(* AsyncSendSome under the core mutex, in its two halves, and what         *)
(* _TrySendData does with its result.                                      *)
WritePost(t) ==
  /\ pc[t] = "wpost"
  /\ IF Postable("W")
       THEN PostBegin(t, "W") /\ GoTo(t, "warm") /\ UNCHANGED <<flag, wlock, failed>>
       ELSE PostReject("W") /\ CloseNow(t) /\ failed' = TRUE
  /\ UNCHANGED <<writing, buf1, buf2, wbuf, at, ev, got, sent, kernelVars,
                 accepted, wire, calls>>

WriteArmed(t) ==
  /\ pc[t] = "warm"
  /\ PostEnd(t, "W")
  /\ GoTo(t, "wdone")
  /\ UNCHANGED <<writerVars, at, ev, got, sent, kernelVars, historyVars>>

WriteRefused(t) ==
  /\ pc[t] = "warm" /\ ~Serving
  /\ PostRefuse(t, "W")
  /\ CloseNow(t) /\ failed' = TRUE
  /\ UNCHANGED <<writing, buf1, buf2, wbuf, at, ev, got, sent, kernelVars,
                 accepted, wire, calls>>

\* writing is set after the operation was posted, still under _writer.lock.
WriteStartedUnmarked(t) ==
  /\ pc[t] = "wdone"
  /\ wlock' = NoThread /\ GoTo(t, "run")
  /\ UNCHANGED <<sockVars, writing, flag, buf1, buf2, wbuf, at, ev, got, sent, kernelVars, historyVars>>
WriteStarted(t) ==
  /\ pc[t] = "wdone"
  /\ writing' = TRUE /\ wlock' = NoThread /\ GoTo(t, "run")
  /\ UNCHANGED <<sockVars, flag, buf1, buf2, wbuf, at, ev, got, sent, kernelVars, historyVars>>

(* AsyncRecvSome under the core mutex, and _TryRecvData's reaction.        *)
ReadPost(t) ==
  /\ pc[t] = "rpost"
  /\ IF Postable("R")
       THEN PostBegin(t, "R") /\ GoTo(t, "rarm")
       ELSE PostReject("R") /\ GoTo(t, "pclose")
  /\ UNCHANGED <<writerVars, at, ev, got, sent, kernelVars, historyVars>>

ReadArmed(t) ==
  /\ pc[t] = "rarm"
  /\ PostEnd(t, "R")
  /\ GoTo(t, "run")
  /\ UNCHANGED <<writerVars, at, ev, got, sent, kernelVars, historyVars>>

ReadRefused(t) ==
  /\ pc[t] = "rarm" /\ ~Serving
  /\ PostRefuse(t, "R")
  /\ GoTo(t, "pclose")
  /\ UNCHANGED <<writerVars, at, ev, got, sent, kernelVars, historyVars>>

-----------------------------------------------------------------------------
(* TcpSocket::Init, on the accepting thread.                               *)

\* RemoteEndPoint() throws for a connection that is already reset: no
\* callback is made and nothing will be read.
InitThrows ==
  /\ In(Acc, "accept") /\ peer = "reset"
  /\ MoveTo(Acc, "done")
  /\ UNCHANGED <<sockVars, writerVars, pc, ev, got, sent, kernelVars, historyVars>>

Connected ==
  /\ In(Acc, "accept")
  /\ flag' = "START"
  /\ Called("OnConnected")
  /\ MoveTo(Acc, "cb")
  /\ UNCHANGED <<sockVars, writing, buf1, buf2, wbuf, wlock, pc, ev, got, sent, kernelVars,
                 accepted, wire, failed>>

\* OnConnected returns.
ConnectedReturns ==
  /\ In(Acc, "cb")
  /\ MoveTo(Acc, "recv")
  /\ UNCHANGED <<sockVars, writerVars, pc, ev, got, sent, kernelVars, historyVars>>

\* _TryRecvData: the read operation is loaded before any lock is taken.
FirstRecv ==
  /\ In(Acc, "recv")
  /\ Load("R")
  /\ GoTo(Acc, "rpost") /\ MoveTo(Acc, "done")
  /\ UNCHANGED <<writerVars, ev, got, sent, kernelVars, historyVars>>

-----------------------------------------------------------------------------
(* The reactor thread: _DoRun.                                             *)

\* _DoClose finds no request, or closes the descriptor ...
NothingToClose ==
  /\ In(Io, "close") /\ closeq = 0
  /\ MoveTo(Io, "wait")
  /\ UNCHANGED <<sockVars, writerVars, pc, ev, got, sent, kernelVars, historyVars>>

CloseSocket ==
  /\ In(Io, "close")
  /\ DoClose
  /\ MoveTo(Io, "disc")
  /\ UNCHANGED <<writerVars, pc, ev, got, sent, kernelVars, historyVars>>

\* ... and then runs the request's handler, _CloseHandler.
CloseHandler ==
  /\ In(Io, "disc")
  /\ Called("OnDisconnected")
  /\ MoveTo(Io, "wait")
  /\ UNCHANGED <<sockVars, writerVars, pc, ev, got, sent, kernelVars, accepted, wire, failed>>

\* What epoll reports: the events asked for, and errors always.
Pending ==
  IF fd = "open" /\ attached
    THEN {d \in mask : \/ peer = "reset"
                       \/ d = "R" /\ (rx > 0 \/ peer = "eof")
                       \/ d = "W" /\ sndbuf < SndBuf}
         \cup (IF peer = "reset" THEN {"ERR"} ELSE {})
    ELSE {}

Wait ==
  /\ In(Io, "wait")
  /\ IF Pending = {} THEN MoveTo(Io, "close") ELSE MoveTo(Io, "rchk")
  /\ ev' = Pending
  /\ UNCHANGED <<sockVars, writerVars, pc, got, sent, kernelVars, historyVars>>

\* _DoExecOp reads _type without the mutex, once for each direction.
CheckRead ==
  /\ In(Io, "rchk")
  /\ IF "R" \in optype /\ ev \cap {"R", "ERR"} # {}
       THEN MoveTo(Io, "rlock") ELSE MoveTo(Io, "wchk")
  /\ UNCHANGED <<sockVars, writerVars, pc, ev, got, sent, kernelVars, historyVars>>

CheckWrite ==
  /\ In(Io, "wchk")
  /\ IF "W" \in optype /\ ev \cap {"W", "ERR"} # {}
       THEN MoveTo(Io, "wlock") ELSE MoveTo(Io, "close")
  /\ ev' = {}
  /\ UNCHANGED <<sockVars, writerVars, pc, got, sent, kernelVars, historyVars>>

FireRead ==
  /\ In(Io, "rlock")
  /\ Fire("R")
  /\ MoveTo(Io, "recv")
  /\ UNCHANGED <<writerVars, pc, ev, got, sent, kernelVars, historyVars>>

\* g_recv outside the mutex: some of the chunks, or 0 for an end of file or
\* an error (the read handler treats both alike).
Recv ==
  /\ In(Io, "recv")
  /\ \/ \E k \in 1..rx : got' = k /\ rx' = rx - k
     \/ rx = 0 /\ peer # "up" /\ got' = 0 /\ UNCHANGED rx
  /\ Unload("R")
  /\ MoveTo(Io, "read")
  /\ UNCHANGED <<writerVars, pc, ev, sent, chunks, peer, sndbuf, historyVars>>

\* _ReadHandler: _flag is read without _writer.lock.
ReadHandler ==
  /\ In(Io, "read")
  /\ IF got = 0 \/ flag # "START"
       THEN GoTo(Io, "pclose") /\ MoveTo(Io, "wchk") /\ got' = 0
       ELSE MoveTo(Io, "deliver") /\ UNCHANGED <<pc, got>>
  /\ UNCHANGED <<sockVars, writerVars, ev, sent, kernelVars, historyVars>>

\* _CutMsgPack completes a message ...
Deliver ==
  /\ In(Io, "deliver") /\ got > 0
  /\ got' = got - 1
  /\ Called("OnReceiveData")
  /\ MoveTo(Io, "cb")
  /\ UNCHANGED <<sockVars, writerVars, pc, ev, sent, kernelVars, accepted, wire, failed>>

ReceiveReturns ==
  /\ In(Io, "cb")
  /\ MoveTo(Io, "deliver")
  /\ UNCHANGED <<sockVars, writerVars, pc, ev, got, sent, kernelVars, historyVars>>

\* ... meets a header that announces more than M_SOCKET_PACK_SIZE ...
BadHeader ==
  /\ In(Io, "deliver") /\ got > 0
  /\ got' = 0
  /\ GoTo(Io, "pclose") /\ MoveTo(Io, "wchk")
  /\ UNCHANGED <<sockVars, writerVars, ev, sent, kernelVars, historyVars>>

\* ... or keeps what is left, and the next read is loaded.
RearmForgotten ==
  /\ In(Io, "deliver")
  /\ got' = 0
  /\ MoveTo(Io, "wchk")
  /\ UNCHANGED <<sockVars, writerVars, pc, ev, sent, kernelVars, historyVars>>
Rearm ==
  /\ In(Io, "deliver")
  /\ got' = 0
  /\ Load("R")
  /\ GoTo(Io, "rpost") /\ MoveTo(Io, "wchk")
  /\ UNCHANGED <<writerVars, ev, sent, kernelVars, historyVars>>

FireWrite ==
  /\ In(Io, "wlock")
  /\ Fire("W")
  /\ MoveTo(Io, "send")
  /\ UNCHANGED <<writerVars, pc, ev, got, sent, kernelVars, historyVars>>

\* g_send outside the mutex: the kernel takes a part, or the send fails.
SendSome ==
  /\ In(Io, "send")
  /\ \/ /\ peer # "reset"
        /\ \E n \in 1..Len(wbuf) :
             /\ sndbuf + n <= SndBuf
             /\ sent' = n /\ sndbuf' = sndbuf + n
             /\ wire' = wire \o SubSeq(wbuf, 1, n)
        /\ UNCHANGED failed
     \/ /\ peer = "reset"
        /\ sent' = 0 /\ failed' = TRUE
        /\ UNCHANGED <<sndbuf, wire>>
  /\ Unload("W")
  /\ wbuf' = <<>>
  /\ MoveTo(Io, "wrote")
  /\ UNCHANGED <<flag, writing, buf1, buf2, wlock, pc, ev, got, rx, chunks, peer, accepted, calls>>

MoreToSend(b1, b2) == Front(b1, b2) # <<>>
KeepOpenAlways == TRUE
KeepOpen == flag = "START"

\* _WriteHandler: writing is reset; a failed write closes; what remains is
\* sent; a socket that was told to close is shut down once nothing does.
WriteHandler ==
  /\ In(Io, "wrote") /\ wlock = NoThread
  /\ writing' = FALSE /\ sent' = 0
  /\ MoveTo(Io, "close")
  /\ LET b1 == Cut(buf1, sent) IN
     IF sent > 0 /\ MoreToSend(b1, buf2)
       THEN TrySend(Io, b1, buf2) /\ UNCHANGED flag
       ELSE /\ buf1' = b1
            /\ IF sent > 0 /\ KeepOpen
                 THEN UNCHANGED <<flag, wlock, pc>>
                 ELSE CloseNow(Io)
            /\ UNCHANGED <<sockVars, buf2, wbuf>>
  /\ UNCHANGED <<ev, got, kernelVars, historyVars>>

-----------------------------------------------------------------------------
(* The peer and the network.                                               *)

PeerSends ==
  /\ peer = "up" /\ chunks < MaxChunks
  /\ rx' = rx + 1 /\ chunks' = chunks + 1
  /\ UNCHANGED <<sockVars, writerVars, threadVars, peer, sndbuf, historyVars>>

PeerCloses ==
  /\ peer = "up"
  /\ peer' = "eof"
  /\ UNCHANGED <<sockVars, writerVars, threadVars, rx, chunks, sndbuf, historyVars>>

PeerResets ==
  /\ peer # "reset"
  /\ peer' = "reset"
  /\ UNCHANGED <<sockVars, writerVars, threadVars, rx, chunks, sndbuf, historyVars>>

PeerReads ==
  /\ sndbuf > 0
  /\ sndbuf' = 0
  /\ UNCHANGED <<sockVars, writerVars, threadVars, rx, chunks, peer, historyVars>>

-----------------------------------------------------------------------------
\* The rest of a call a thread is inside.
Step(t) ==
  \/ FinishClose(t) \/ PostClose(t)
  \/ WritePost(t) \/ WriteArmed(t) \/ WriteRefused(t) \/ WriteStarted(t)
  \/ ReadPost(t) \/ ReadArmed(t) \/ ReadRefused(t)

AccStep == InitThrows \/ Connected \/ ConnectedReturns \/ FirstRecv

IoStep ==
  \/ NothingToClose \/ CloseSocket \/ CloseHandler
  \/ Wait \/ CheckRead \/ CheckWrite
  \/ FireRead \/ Recv \/ ReadHandler \/ Deliver \/ ReceiveReturns \/ BadHeader \/ Rearm
  \/ FireWrite \/ SendSome \/ WriteHandler

PeerStep == PeerSends \/ PeerCloses \/ PeerResets \/ PeerReads

Next ==
  \/ \E t \in Threads, m \in Msgs : Send(t, m)
  \/ \E t \in Threads : Close(t)
  \/ \E t \in Threads : Step(t)
  \/ AccStep
  \/ IoStep
  \/ PeerStep

Spec == Init /\ [][Next]_vars

(* Fairness: the operating system runs every thread (each of them is a     *)
(* plain pthread, mutexes are released after a few instructions), and the  *)
(* peer reads what it is sent or goes away.  Nobody has to call Send or    *)
(* Close.                                                                  *)
Fairness ==
  /\ \A t \in Threads : WF_vars(Step(t))
  /\ WF_vars(AccStep)
  /\ WF_vars(IoStep)
  /\ WF_vars(PeerReads)

FairSpec == Spec /\ Fairness

-----------------------------------------------------------------------------
(* Properties *)

\* What was accepted and not yet given to the kernel.
Unsent == Cut(buf1, sent) \o buf2

\* Nothing Send accepted is lost, repeated or reordered, whatever threads
\* call Send and however the kernel splits the writes: what went out and
\* what the two buffers hold, in that order, is exactly what was accepted.
\* (Send, _TrySendData's swap and _WriteHandler's CutData together.)
StreamIntact == accepted = wire \o Unsent

\* The bytes a posted write points to stay the front buffer's: it is neither
\* appended to, swapped nor cut until the write completed.
\* (Send appends to msgbuffer2 only; Swap happens only when nothing is posted.)
BufferPinned == op["W"] # "clear" => wbuf = buf1 /\ wbuf # <<>>

\* With _writer.lock free, writing is true exactly while a write is loaded,
\* posted, or completed with its handler still to run.  The two are changed
\* by different threads under different mutexes; if they parted, a second
\* write would overwrite the first, or none would ever be posted again.
WritingMeansInFlight ==
  wlock = NoThread => (writing <=> op["W"] # "clear" \/ at[Io] = "wrote")

\* Data waits for nobody: with the lock free, an open session that has
\* anything left to send has a write in flight (which will send the rest).
NothingStranded ==
  wlock = NoThread /\ flag # "CLOSE" /\ Unsent # <<>> => writing

\* netio.hpp:177, tsocket_impl.hpp:68: Close lets everything accepted go out
\* before the socket is closed; only a failed write cuts that short.
DrainedBeforeClose == flag = "CLOSE" /\ ~failed => Unsent = <<>>

\* The reactor reads, writes and closes a descriptor that is still its own:
\* while a completion is under way the descriptor is open (_DoClose cannot
\* intervene) and nobody else has closed it.
CompletesOpenSocket == ~NoneFired => fd = "open"

\* TcpBaseSocket keeps the reactor's protocol: it never loads an operation
\* that is in use, posts one twice, or fires one that is not posted.
KeepsReactorProtocol == SockSpec

ReceivedCalls == Cardinality({i \in 1..Len(calls) : calls[i] = "OnReceiveData"})
LastNotice ==
  IF calls = <<>> THEN "none"
  ELSE IF calls[Len(calls)] = "OnDisconnected" THEN "OnDisconnected" ELSE "OnConnected"

SessionState ==
  IF calls = <<>> THEN "idle"
  ELSE IF flag = "START" THEN "up"
  ELSE IF flag = "STOP" THEN "draining" ELSE "down"

\* The connection implements what it promises (module Session).
Promise == INSTANCE Session WITH
  Messages <- Msgs,
  state    <- SessionState,
  queue    <- Unsent,
  stream   <- wire,
  broken   <- failed,
  received <- ReceivedCalls,
  told     <- LastNotice

KeepsPromise == Promise!SessionSpec

Disconnected == \E i \in 1..Len(calls) : calls[i] = "OnDisconnected"

\* A socket that is closed while its reactor knows it is reported to the
\* application.
DisconnectNotified == flag = "CLOSE" /\ attached ~> Disconnected

\* A close is not postponed for ever: the writes it waits for end.
CloseCompletes == flag = "STOP" /\ calls # <<>> ~> flag = "CLOSE"

\* Everything accepted is sent, unless a write fails.
AllSent == Unsent # <<>> ~> (Unsent = <<>> \/ failed)

\* Received data is taken from the kernel while the session is up.
AllRead == rx > 0 /\ flag = "START" ~> (rx = 0 \/ flag # "START")

\* Neither direction is left with data and without an operation to carry it.
AllCarried == AllSent /\ AllRead

\* What the callbacks' description promises (netio.hpp:91): a socket that
\* was reported connected and is closed is reported disconnected.
EveryCloseNotified == flag = "CLOSE" /\ calls # <<>> ~> Disconnected

-----------------------------------------------------------------------------
(* The inductive invariant that makes the safety properties hold.  The two *)
(* mutexes alone do not explain them: the right to touch an operation      *)
(* object passes from the thread that posts to the reactor and back, and   *)
(* the invariant says at which place of which thread it is.                *)

HoldsWriter == {"sclose", "wpost", "warm", "wdone"}
Posting     == {"wpost", "warm", "wdone"}

\* Who holds which mutex, by where the threads are.
LockInv ==
  /\ \A t \in Threads : pc[t] \in HoldsWriter <=> wlock = t
  /\ \A t \in Threads : /\ pc[t] = "warm" <=> core = <<t, "W">>
                        /\ pc[t] = "rarm" <=> core = <<t, "R">>

\* The threads are where the code lets them be.
PlaceInv ==
  /\ \A t \in Apps : at[t] = "app" /\ pc[t] \notin {"rpost", "rarm", "pclose"}
  /\ at[Acc] \in {"accept", "cb", "recv", "done"}
  /\ at[Acc] \in {"accept", "recv"} => pc[Acc] = "run"
  /\ at[Acc] = "accept" =>
       /\ flag = "STOP" /\ calls = <<>> /\ \A t \in Threads : pc[t] = "run"
       /\ ~attached /\ op["W"] = "clear" /\ at[Io] \in {"close", "wait"}
  /\ pc[Acc] \in {"rpost", "rarm"} => at[Acc] = "done"
  /\ at[Io] \notin {"app", "accept", "done"}
  /\ at[Io] \notin {"cb", "close", "wchk"} => pc[Io] = "run"
  /\ pc[Io] \in {"rpost", "rarm"} => at[Io] = "wchk"
  /\ pc[Io] \in Posting => at[Io] \in {"cb", "close"}
  /\ at[Io] \notin {"close", "disc", "wait"} => fd = "open" /\ attached

\* The read operation belongs to the acceptor until it posted the first
\* read, to the reactor thread while it handles one, and otherwise to epoll.
AccHasRead == at[Acc] \in {"accept", "cb", "recv"} \/ pc[Acc] = "rpost"
IoHasRead  == at[Io] \in {"recv", "read", "deliver", "cb"} \/ pc[Io] = "rpost"

ReadInv ==
  /\ ~(AccHasRead /\ IoHasRead)
  /\ AccHasRead \/ IoHasRead => "R" \notin posted
  /\ at[Io] = "rlock" => "R" \in posted
  /\ op["R"] = "fired" <=> at[Io] = "recv"
  /\ \A t \in {Acc, Io} : pc[t] = "rpost" => op["R"] = "loaded"
  /\ AccHasRead /\ pc[Acc] # "rpost" => op["R"] = "clear"
  /\ at[Io] \in {"read", "deliver", "cb"} => op["R"] = "clear"

\* The write operation belongs to the holder of _writer.lock until it is
\* posted, then to epoll and the reactor thread until its handler ran.
InFlight == op["W"] # "clear" \/ at[Io] = "wrote"

WriteInv ==
  /\ at[Io] = "wlock" => "W" \in posted
  /\ op["W"] = "fired" <=> at[Io] = "send"
  /\ at[Io] = "wrote" => op["W"] = "clear"
  /\ \A t \in Threads : pc[t] \notin Posting \/ (~writing /\ flag # "CLOSE")
  /\ \A t \in Threads : pc[t] = "wpost" => op["W"] = "loaded" /\ "W" \notin posted
  /\ \A t \in Threads : pc[t] = "warm" => op["W"] = "loaded" /\ "W" \in posted
  /\ \A t \in Threads : pc[t] = "wdone" => InFlight
  /\ (\A t \in Threads : pc[t] \notin Posting) => (writing <=> InFlight)
  /\ flag = "CLOSE" => ~writing

\* Where the accepted units are.
DataInv ==
  /\ StreamIntact
  /\ BufferPinned
  /\ sent <= Len(buf1)
  /\ sent # 0 => at[Io] = "wrote"
  /\ at[Io] = "wrote" /\ sent = 0 => failed
  /\ ~InFlight /\ flag # "CLOSE" => buf1 = <<>> /\ buf2 = <<>>
  /\ DrainedBeforeClose

\* What the application was told, and what has begun when it was not.
NoticeInv ==
  /\ calls = <<>> =>
       /\ flag = "STOP" /\ ~attached /\ op["W"] = "clear"
       /\ at[Acc] \in {"accept", "done"} /\ at[Io] \in {"close", "wait"}
       /\ \A t \in Threads : pc[t] = "run"
  /\ closing \/ fd = "closed" \/ at[Io] = "disc" => flag = "CLOSE"
  /\ \A t \in Threads : pc[t] = "sclose" => flag = "CLOSE"
  /\ \A i \in 1..Len(calls) :
       calls[i] = "OnDisconnected" =>
         i = Len(calls) /\ fd = "closed" /\ at[Io] # "disc"
  /\ at[Io] = "disc" => fd = "closed"

SessionInv ==
  TypeOK /\ SockInv /\ LockInv /\ PlaceInv /\ ReadInv /\ WriteInv /\ DataInv
=============================================================================
