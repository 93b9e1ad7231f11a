------------------------------ MODULE Acceptor ------------------------------
(***************************************************************************)
(* A listening socket and its accept loop: BaseNetIo::ListenOne and        *)
(* ListenOneHttp, _AcceptHandler and _AcceptHttpHandler                    *)
(* (netio/netio_impl.hpp), AsyncAccept and AcceptOperation::Complete       *)
(* (socket/epoll_access.hpp).                                              *)
(*                                                                         *)
(* One accept operation is posted at a time.  The loop that was given the  *)
(* listener completes it, hands the descriptor to the session the          *)
(* operation names, and the handler posts the next with a new session.     *)
(* The descriptor is registered once, level-triggered, and stays so.       *)
(*                                                                         *)
(* The handler holds the last reference to the acceptor: when it is        *)
(* cleared, the acceptor is destroyed, which requests its close.           *)
(*                                                                         *)
(* External: the kernel's queue of connections that wait to be accepted.   *)
(***************************************************************************)
EXTENDS Naturals, Sequences, FiniteSets

CONSTANTS Peers,      \* those who connect
          NoPeer,     \* a session without a connection
          Sessions,   \* session objects
          NoSession,  \* a cleared operation names none
          MaxFaults   \* bound: how often accept fails while a peer waits

ASSUME AcceptorAssumption ==
  NoPeer \notin Peers /\ NoSession \notin Sessions /\ MaxFaults \in Nat

VARIABLES
  up,        \* a reactor loop is running
  lsn,       \* the listening socket, see LsnTypeOK
  waiting,   \* the kernel's queue: the peers to accept, oldest first
  session,   \* for each session object its state and its connection
  faults     \* accepts that failed while a peer waited

acceptorVars == <<up, lsn, waiting, session, faults>>

LsnTypeOK ==
  lsn \in [fd : {"none", "made", "open", "closed"},   \* core::_fd; "made": it does not listen yet
           posted : BOOLEAN,                  \* the accept bit of core::_state
           bound : BOOLEAN,                   \* the bind bit
           armed : BOOLEAN,                   \* in the epoll set, for EPOLLIN
           closing : BOOLEAN,                 \* the close bit
           oper : {NoSession} \cup Sessions,  \* _aop: cleared, or the session it names
           request : BOOLEAN,                 \* a close request waits at the loop
           client : {NoSession} \cup Sessions,   \* the session of the running handler
           place : {"idle", "accept", "handle", "post"},  \* where the loop is
           error : BOOLEAN]                   \* what the handler was called with

AcceptorTypeOK ==
  /\ up \in BOOLEAN /\ LsnTypeOK
  /\ waiting \in Seq(Peers)
  /\ session \in [Sessions -> [peer : {NoPeer} \cup Peers,
                               state : {"none", "new", "started"}]]
  /\ faults \in 0..MaxFaults

NoObject == [peer |-> NoPeer, state |-> "none"]

AcceptorInit ==
  /\ up = FALSE
  /\ lsn = [fd |-> "none", posted |-> FALSE, bound |-> FALSE, armed |-> FALSE, closing |-> FALSE,
            oper |-> NoSession, request |-> FALSE, client |-> NoSession, place |-> "idle",
            error |-> FALSE]
  /\ waiting = <<>>
  /\ session = [s \in Sessions |-> NoObject]
  /\ faults = 0

\* BaseNetIo::Start: from now on a descriptor can be given to a loop.
StartService ==
  /\ ~up /\ up' = TRUE
  /\ UNCHANGED <<lsn, waiting, session, faults>>

-----------------------------------------------------------------------------
(* Posting.                                                                *)

\* AsyncAccept, under the core mutex, on a descriptor that is open and has
\* no accept posted: what it makes of l for the session s.  `error` is the
\* caller's variable: the function adds to it and reads it at the end, also
\* what the caller left in it.  The first time CtlEpoll adds the descriptor,
\* and fails when no loop runs.
AsyncAccept(l, s, error) ==
  LET added == [l EXCEPT !.armed = @ \/ (~l.bound /\ up)]
  IN IF error \/ (~l.bound /\ ~up)
       THEN [added EXCEPT !.posted = FALSE, !.bound = FALSE, !.oper = NoSession]
       ELSE [added EXCEPT !.posted = TRUE, !.bound = TRUE, !.oper = s]

\* ~BasicSocket: IoAccess::Close without a handler.  The socket is not in
\* block mode any more, so the descriptor is left to the loop it was given
\* to; when there is none, nobody closes it.
Destroyed(l, given) ==
  IF l.fd = "open" /\ ~l.closing
    THEN [l EXCEPT !.closing = TRUE, !.request = given]
    ELSE l

\* A new session: an object that is not in use (a name is used again when the
\* object it stood for was destroyed).
Unused == {s \in Sessions : session[s].state = "none"}
NewSession == CHOOSE s \in Unused : TRUE
Made(s) == [session EXCEPT ![s].state = "new"]

\* ListenOne makes an acceptor: the descriptor is opened in block mode.
OpenListener ==
  /\ lsn.fd = "none"
  /\ lsn' = [lsn EXCEPT !.fd = "made"]
  /\ UNCHANGED <<up, waiting, session, faults>>

\* Its option, its address or listen() fails: the constructor throws, what is
\* destroyed is in block mode and closed at once, ListenOne returns false.  The
\* application may try again.
ListenFails ==
  /\ lsn.fd = "made"
  /\ lsn' = [lsn EXCEPT !.fd = "none"]
  /\ UNCHANGED <<up, waiting, session, faults>>

\* It listens, and ListenOne or ListenOneHttp posts the first accept.  When
\* that fails they return false too and the acceptor is destroyed, but it is
\* not in block mode any more and was given to no loop: the port stays open.
ListenOne ==
  /\ lsn.fd = "made"
  /\ LET l == AsyncAccept([lsn EXCEPT !.fd = "open"], NewSession, FALSE)
     IN IF l.posted
          THEN lsn' = l /\ session' = Made(NewSession)
          ELSE lsn' = Destroyed(l, FALSE) /\ UNCHANGED session
  /\ UNCHANGED <<up, waiting, faults>>

-----------------------------------------------------------------------------
(* The loop's thread.                                                      *)

\* As CompleteAccept, but with a one-shot registration.
CompleteAcceptOnce ==
  /\ lsn.place = "idle" /\ lsn.armed /\ ~lsn.request /\ waiting # <<>>
  /\ lsn' = [lsn EXCEPT !.posted = FALSE, !.armed = FALSE, !.place = "accept"]
  /\ UNCHANGED <<up, waiting, session, faults>>

\* epoll reports the listener as long as a peer waits; the locked part of AcceptOperation::Complete.
CompleteAccept ==
  /\ lsn.place = "idle" /\ lsn.armed /\ ~lsn.request /\ waiting # <<>>
  /\ lsn' = [lsn EXCEPT !.posted = FALSE, !.place = "accept"]
  /\ UNCHANGED <<up, waiting, session, faults>>

\* What follows accept(): the operation is cleared, and the handler, with the
\* session bound to it, is about to run.
Handing(error) ==
  lsn' = [lsn EXCEPT !.oper = NoSession, !.client = lsn.oper, !.place = "handle",
                     !.error = error]

\* accept() returns a descriptor: it is stored in the session.
TakeConnection ==
  /\ lsn.place = "accept" /\ waiting # <<>>
  /\ session' = [session EXCEPT ![lsn.oper].peer = Head(waiting)]
  /\ waiting' = Tail(waiting)
  /\ Handing(FALSE)
  /\ UNCHANGED <<up, faults>>

\* accept() fails: the peer has gone (the queue is empty), or there is no
\* descriptor left.  The handler gets the socket's SO_ERROR, which is not
\* what accept reported: usually 0, that is no error; or the option cannot
\* be read.
AcceptFails ==
  /\ lsn.place = "accept"
  /\ \/ waiting = <<>> /\ Handing(FALSE) /\ UNCHANGED faults
     \/ /\ waiting # <<>> /\ faults < MaxFaults /\ faults' = faults + 1
        /\ \E error \in BOOLEAN : Handing(error)
  /\ UNCHANGED <<up, waiting, session>>

\* _AcceptHandler or _AcceptHttpHandler up to the new session.  Without an error it runs
\* TcpSocket::Init: the end points are asked for, which throws when there is
\* no connection (any more); else the state is START, OnConnected is called
\* and the first read posted, which keeps the session; any other goes with
\* the handler.  alive: the peers whose connection stands.
AcceptHandler(alive) ==
  /\ lsn.place = "handle"
  /\ session' = [session EXCEPT ![lsn.client] =
                   IF ~lsn.error /\ @.peer \in alive
                     THEN [@ EXCEPT !.state = "started"] ELSE NoObject]
  /\ lsn' = [lsn EXCEPT !.place = "post"]
  /\ UNCHANGED <<up, waiting, faults>>

\* As PostNext, but Complete would clear the operation after the handler.
PostNextThenClear ==
  /\ lsn.place = "post"
  /\ session' = Made(NewSession)
  /\ lsn' = [AsyncAccept([lsn EXCEPT !.place = "idle", !.client = NoSession],
                         NewSession, lsn.error)
             EXCEPT !.oper = NoSession, !.error = FALSE]
  /\ UNCHANGED <<up, waiting, faults>>

\* As PostNext, but the next accept would name the session just connected.
PostNextReuses ==
  /\ lsn.place = "post"
  /\ lsn' = [AsyncAccept([lsn EXCEPT !.place = "idle", !.client = NoSession],
                         lsn.client, lsn.error)
             EXCEPT !.error = FALSE]
  /\ session' = [session EXCEPT ![lsn.client].state = IF @ = "none" THEN "new" ELSE @]
  /\ UNCHANGED <<up, waiting, faults>>

\* The rest of _AcceptHandler: a new session, and AsyncAccept with the
\* variable that still holds the error of this accept.  When there was one,
\* the handler is cleared, and with it go the session and the acceptor.
PostNext ==
  /\ lsn.place = "post"
  /\ LET l == [AsyncAccept([lsn EXCEPT !.place = "idle", !.client = NoSession],
                           NewSession, lsn.error)
               EXCEPT !.error = FALSE]
     IN IF l.posted
          THEN lsn' = l /\ session' = Made(NewSession)
          ELSE lsn' = Destroyed(l, TRUE) /\ UNCHANGED session
  /\ UNCHANGED <<up, waiting, faults>>

\* _DoClose at the top of the loop.  The kernel resets who still waits.
CloseListener ==
  /\ lsn.place = "idle" /\ lsn.request
  /\ lsn' = [lsn EXCEPT !.fd = "closed", !.request = FALSE, !.closing = FALSE,
                        !.posted = FALSE, !.bound = FALSE, !.armed = FALSE]
  /\ waiting' = <<>>
  /\ UNCHANGED <<up, session, faults>>

=============================================================================
