----------------------------- MODULE Connector ------------------------------
(***************************************************************************)
(* Connections that are asked for: BaseTConnector and BaseHConnector       *)
(* (netio/tconnector_impl.hpp, netio/hconnector_impl.hpp), ConnectOne      *)
(* (netio/netio_impl.hpp), Connect and AsyncConnect with                   *)
(* ConnectOperation::Complete (socket/ioaccess.ipp,                        *)
(* socket/epoll_access.hpp).                                               *)
(*                                                                         *)
(* Each connector is used by an application thread and served by the loop  *)
(* its descriptor was given to.  _flag is written by the loop's connect    *)
(* handler without the mutex that Close takes.                             *)
(*                                                                         *)
(* External: `link`, the state of the connection as the kernel knows it.   *)
(***************************************************************************)
EXTENDS Naturals, Sequences

CONSTANTS Dials,      \* the connectors
          Waits       \* those of them that connect and wait for the result

ASSUME DialsAssumption == Waits \subseteq Dials

VARIABLES
  dial,   \* the connectors, see ConnectorType
  told,   \* for each the calls of OnConnected and OnDisconnected so far
  link    \* "none", "trying", "up", "refused" or "reset"

connectorVars == <<dial, told, link>>

Flags == {"START", "STOP", "CLOSE"}

ConnectorType ==
       [fd : {"none", "open", "closed"},  \* core::_fd, M_INVALID_SOCKET unless open
        block : BOOLEAN,                  \* the block-mode bit of core::_state
        connecting : BOOLEAN,             \* the connect bit
        closing : BOOLEAN,                \* the close bit
        given : BOOLEAN,                  \* core::_epoll # -1
        kept : BOOLEAN,                   \* the application has a reference
        armed : BOOLEAN,                  \* epoll will report EPOLLOUT, once
        reading : BOOLEAN,                \* a read is posted
        oper : BOOLEAN,                   \* _cop holds the handler
        flag : Flags,                     \* _flag
        place : {"idle", "result", "handle", "tell", "read"},  \* the loop
        error : BOOLEAN,                  \* what the handler is called with
        call : {"none", "waiting", "done", "true", "false"},   \* the application
        requests : 0..2,                  \* close requests at the loop
        notify : BOOLEAN]                 \* and they have a handler to call

DialTypeOK ==
  /\ dial \in [Dials -> ConnectorType]
  /\ told \in [Dials -> Seq({"connected", "failed", "disconnected"})]
  /\ link \in [Dials -> {"none", "trying", "up", "refused", "reset"}]

NewConnector ==
  [fd |-> "none", block |-> TRUE, connecting |-> FALSE, closing |-> FALSE,
   given |-> FALSE, kept |-> TRUE, armed |-> FALSE, reading |-> FALSE, oper |-> FALSE,
   flag |-> "STOP", place |-> "idle", error |-> FALSE, call |-> "none",
   requests |-> 0, notify |-> FALSE]

ConnectorInit ==
  /\ dial = [d \in Dials |-> NewConnector]
  /\ told = [d \in Dials |-> <<>>]
  /\ link = [d \in Dials |-> "none"]

Tell(d, what) == told' = [told EXCEPT ![d] = Append(@, what)]

-----------------------------------------------------------------------------
(* Closing.                                                                *)

\* As Closed, but the close bit would not be looked at.
ClosedTwice(c, notify) ==
  IF c.fd # "open" THEN c
  ELSE IF c.block
    THEN [c EXCEPT !.fd = "closed", !.connecting = FALSE]
    ELSE [c EXCEPT !.closing = TRUE, !.notify = notify,
                   !.requests = IF c.given /\ @ < 2 THEN @ + 1 ELSE @]

\* IoAccess::Close on the connector c: in block mode the descriptor is
\* closed here and the handler dropped, else the loop it was given to (if
\* any) gets a request.
Closed(c, notify) ==
  IF c.fd # "open" \/ c.closing THEN c
  ELSE IF c.block
    THEN [c EXCEPT !.fd = "closed", !.block = FALSE, !.connecting = FALSE]
    ELSE [c EXCEPT !.closing = TRUE, !.notify = notify,
                   !.requests = IF c.given THEN @ + 1 ELSE @]

\* A connector is destroyed with its last reference: the application's, that
\* of a posted operation, of a handler that runs, of a close request.
Released(c) ==
  IF c.kept \/ c.oper \/ c.reading \/ c.place # "idle" \/ c.requests > 0
    THEN c ELSE Closed(c, FALSE)

\* TcpBaseSocket::_Close; nothing is being written.
SessionClosed(c) ==
  IF c.flag = "CLOSE" THEN c ELSE Closed([c EXCEPT !.flag = "CLOSE"], TRUE)

\* What the peer sees of a descriptor that was closed.
Hung(d) == link' = [link EXCEPT ![d] = IF @ \in {"trying", "up"} THEN "reset" ELSE @]

\* Close by the application, which kept the connector.
Close(d) ==
  /\ dial[d].kept /\ dial[d].call \in {"done", "true", "false"}
  /\ dial[d].flag # "CLOSE"
  /\ dial' = [dial EXCEPT ![d] = SessionClosed(@)]
  /\ IF dial'[d].fd = "closed" THEN Hung(d) ELSE UNCHANGED link
  /\ UNCHANGED told

\* The application lets go of the connector.
Drop(d) ==
  /\ dial[d].kept /\ dial[d].call \in {"done", "true", "false"}
  /\ dial' = [dial EXCEPT ![d] = Released([@ EXCEPT !.kept = FALSE])]
  /\ IF dial'[d].fd = "closed" THEN Hung(d) ELSE UNCHANGED link
  /\ UNCHANGED told

\* _DoClose at the top of the loop; the handler is _CloseHandler.
DoClose(d) ==
  /\ dial[d].place = "idle" /\ dial[d].requests > 0
  /\ dial' = [dial EXCEPT ![d].fd = "closed", ![d].closing = FALSE,
                          ![d].connecting = FALSE, ![d].reading = FALSE,
                          ![d].armed = FALSE, ![d].block = FALSE,
                          ![d].requests = @ - 1]
  /\ IF dial[d].notify THEN Tell(d, "disconnected") ELSE UNCHANGED told
  /\ Hung(d)

-----------------------------------------------------------------------------
(* Connecting without waiting.                                             *)

\* As AsyncConnect, but the descriptor would be registered for no event.
AsyncConnectUnarmed(c, starts, up) ==
  LET posted == starts /\ up
  IN [c EXCEPT !.fd = "open", !.block = FALSE, !.call = "done",
               !.connecting = posted, !.oper = posted, !.given = posted]

\* TcpConnector::AsyncConnect on a new connector: Open, then under the core
\* mutex connect() and, unless it fails at once, the operation is posted.
\* CtlEpoll fails when no loop is up.  On failure nobody is told, and the
\* descriptor stays open, in non-block mode and given to nobody.
AsyncConnect(c, starts, up) ==
  LET posted == starts /\ up
  IN [c EXCEPT !.fd = "open", !.block = FALSE, !.call = "done",
               !.connecting = posted, !.oper = posted, !.given = posted,
               !.armed = posted]

\* The same by a caller that keeps the connector, and by ConnectOne or
\* ConnectOneHttp, which do not, and ignore the error.
AsyncConnectBy(d, kept, up) ==
  /\ d \notin Waits /\ dial[d].fd = "none"
  /\ \E starts \in BOOLEAN :
       /\ link' = [link EXCEPT ![d] = IF starts THEN "trying" ELSE "refused"]
       /\ dial' = [dial EXCEPT ![d] =
                     Released([AsyncConnect(@, starts, up) EXCEPT !.kept = kept])]
  /\ UNCHANGED told

ConnectOne(d, up) == AsyncConnectBy(d, FALSE, up)

\* The locked part of ConnectOperation::Complete: EPOLLOUT, EPOLLERR or
\* EPOLLHUP of a one-shot registration.  The descriptor is open, as only this
\* thread closes it; but a close request may have come since the top of the
\* loop, where requests are served.
CompleteConnect(d) ==
  /\ dial[d].place = "idle" /\ dial[d].armed
  /\ link[d] # "trying"
  /\ dial' = [dial EXCEPT ![d].armed = FALSE, ![d].connecting = FALSE,
                          ![d].place = "result"]
  /\ UNCHANGED <<told, link>>

\* Then SO_ERROR is read, the handler swapped out and the operation cleared.
ConnectResult(d) ==
  /\ dial[d].place = "result"
  /\ dial' = [dial EXCEPT ![d].error = (link[d] # "up"), ![d].oper = FALSE,
                          ![d].place = "handle"]
  /\ UNCHANGED <<told, link>>

\* _ConnectHandler with an error: the application is told, and may keep the
\* connector; nothing is closed here.
ConnectFailed(d) ==
  /\ dial[d].place = "handle" /\ dial[d].error
  /\ Tell(d, "failed")
  /\ \E keep \in BOOLEAN :
       LET c == [dial[d] EXCEPT !.place = "idle", !.error = FALSE, !.kept = @ \/ keep]
       IN dial' = [dial EXCEPT ![d] = Released(c)]
  /\ UNCHANGED link

\* _ConnectHandler without one: the end points can no longer be read.
ConnectMute(d) ==
  /\ dial[d].place = "handle" /\ ~dial[d].error /\ link[d] # "up"
  /\ dial' = [dial EXCEPT ![d] = Released([@ EXCEPT !.place = "idle"])]
  /\ UNCHANGED <<told, link>>

\* They can: the state becomes START, whatever it was.
ConnectStart(d) ==
  /\ dial[d].place = "handle" /\ ~dial[d].error /\ link[d] = "up"
  /\ dial' = [dial EXCEPT ![d].flag = "START", ![d].place = "tell"]
  /\ UNCHANGED <<told, link>>

\* OnConnected, in which the application may keep or close the connector.
ConnectTell(d) ==
  /\ dial[d].place = "tell"
  /\ Tell(d, "connected")
  /\ \E keep \in BOOLEAN :
       LET c == [dial[d] EXCEPT !.place = "read", !.kept = @ \/ keep]
       IN dial' \in {[dial EXCEPT ![d] = c], [dial EXCEPT ![d] = SessionClosed(c)]}
  /\ UNCHANGED link

\* The first AsyncRecvSome, which does not look at the close bit.
ConnectRead(d) ==
  /\ dial[d].place = "read"
  /\ dial' = [dial EXCEPT ![d].place = "idle", ![d].reading = TRUE]
  /\ UNCHANGED <<told, link>>

\* The read completes because the connection is gone: _ReadHandler calls
\* _PostClose.
ReadEnds(d) ==
  /\ dial[d].place = "idle" /\ dial[d].reading /\ link[d] = "reset"
  /\ dial' = [dial EXCEPT ![d] = Released(SessionClosed([@ EXCEPT !.reading = FALSE]))]
  /\ UNCHANGED <<told, link>>

-----------------------------------------------------------------------------
(* Connecting and waiting.                                                 *)

\* IoAccess::Connect up to connect(), which may fail at once.  With a time
\* limit the descriptor is made non-blocking for a while; the bit in _state
\* goes on saying block.
Connect(d) ==
  /\ d \in Waits /\ dial[d].fd = "none"
  /\ \E starts \in BOOLEAN :
       /\ link' = [link EXCEPT ![d] = IF starts THEN "trying" ELSE "refused"]
       /\ dial' = [dial EXCEPT ![d].fd = "open", ![d].connecting = starts,
                               ![d].call = IF starts THEN "waiting" ELSE "false"]
  /\ UNCHANGED told

\* What Select may return: the time limit at any time, and SO_ERROR's word
\* once the socket is writable.
Select(d) ==
  {"timeout"} \cup (IF link[d] = "trying" THEN {}
                    ELSE IF link[d] = "up" THEN {"ok"} ELSE {"failed"})

\* Select ends without a connection (it may come up all the same): Close, at
\* once as the socket is in block mode; the caller gets false.
ConnectGivesUp(d) ==
  /\ dial[d].call = "waiting" /\ Select(d) \ {"ok"} # {}
  /\ dial' = [dial EXCEPT ![d] = [Closed(@, FALSE) EXCEPT !.call = "false"]]
  /\ Hung(d)
  /\ UNCHANGED told

\* Without a limit connect() fails, and the descriptor stays open.
ConnectRefused(d) ==
  /\ dial[d].call = "waiting" /\ link[d] \in {"refused", "reset"}
  /\ dial' = [dial EXCEPT ![d].connecting = FALSE, ![d].call = "false"]
  /\ UNCHANGED <<told, link>>

\* Select ends with a connection: the descriptor is made blocking again and
\* the connect bit cleared.
ConnectDone(d) ==
  /\ dial[d].call = "waiting" /\ "ok" \in Select(d)
  /\ dial' = [dial EXCEPT ![d].connecting = FALSE, ![d].call = "done"]
  /\ UNCHANGED <<told, link>>

\* The rest of BaseTConnector::Connect (if it is a TCP connector): START, the end points, the first
\* read, which gives the descriptor to a loop.  Either of the last two may
\* fail: the caller gets false and the state stays START.
ConnectReturns(d, up) ==
  /\ dial[d].call = "done" /\ dial[d].block /\ dial[d].fd = "open"
  /\ LET reads == link[d] = "up" /\ up
     IN dial' = [dial EXCEPT ![d].flag = "START", ![d].given = reads,
                             ![d].reading = reads, ![d].block = (link[d] # "up"),
                             ![d].call = IF reads THEN "true" ELSE "false"]
  /\ UNCHANGED <<told, link>>

\* If it is an HTTP one, BaseHConnector::Connect returns at once: the state stays STOP and nothing
\* is read.
HttpConnectReturns(d) ==
  /\ dial[d].call = "done" /\ dial[d].block /\ dial[d].fd = "open"
  /\ dial' = [dial EXCEPT ![d].call = "true"]
  /\ UNCHANGED <<told, link>>

=============================================================================
