----------------------------- MODULE Establish ------------------------------
(***************************************************************************)
(* How connections come about: a listener, connectors that dial it, and    *)
(* the kernel between them.  One process may well hold all of them; each   *)
(* connector is served by a loop of its own, the assignment with the most  *)
(* interleavings.                                                          *)
(***************************************************************************)
EXTENDS Acceptor, Connector, SequencesExt

CONSTANT Backlog   \* BaseNetIo::_backlog: how many may wait to be accepted

ASSUME BacklogAssumption == Backlog \in Nat \ {0} /\ Peers = Dials

\* Memory does not run out: there are more session objects than connections.
ASSUME SessionsAssumption ==
  IsFiniteSet(Dials) /\ IsFiniteSet(Sessions) /\ Cardinality(Dials) < Cardinality(Sessions)

vars == <<acceptorVars, connectorVars>>

Init == AcceptorInit /\ ConnectorInit

-----------------------------------------------------------------------------
(* The kernel.  A port is served as long as its descriptor is open, whether*)
(* or not anything accepts.                                                *)

Establishes(d) ==
  /\ link[d] = "trying" /\ lsn.fd = "open" /\ Len(waiting) < Backlog
  /\ link' = [link EXCEPT ![d] = "up"]
  /\ waiting' = Append(waiting, d)
  /\ UNCHANGED <<up, lsn, session, faults, dial, told>>

\* Nobody listens, the peer cannot be reached or does not answer in time.
Refuses(d) ==
  /\ link[d] = "trying"
  /\ link' = [link EXCEPT ![d] = "refused"]
  /\ UNCHANGED <<acceptorVars, dial, told>>

\* The connection breaks, or the accepted side ends it.  One that waits may
\* be taken from the queue or be accepted all the same; a session that was
\* started ends with it (see TcpSession).
Breaks(d) ==
  /\ link[d] = "up"
  /\ link' = [link EXCEPT ![d] = "reset"]
  /\ \/ UNCHANGED waiting
     \/ \E i \in 1..Len(waiting) : waiting[i] = d /\ waiting' = RemoveAt(waiting, i)
  /\ session' = [s \in Sessions |-> IF session[s] = [peer |-> d, state |-> "started"]
                                     THEN NoObject ELSE session[s]]
  /\ UNCHANGED <<up, lsn, faults, dial, told>>

-----------------------------------------------------------------------------
\* Whose end points can be asked for.
Alive == {d \in Dials : link[d] = "up"}

\* _AcceptHandler, or _AcceptHttpHandler.
AcceptHandlers == AcceptHandler(Alive) \/ PostNext

CloseListening ==
  /\ CloseListener
  /\ link' = [d \in Dials |-> IF d \in ToSet(waiting) THEN "reset" ELSE link[d]]
  /\ UNCHANGED <<dial, told>>

\* The loop the listener was given to.
AcceptLoop ==
  \/ /\ CompleteAccept \/ TakeConnection \/ AcceptFails \/ AcceptHandlers
     /\ UNCHANGED connectorVars
  \/ CloseListening

\* The loop a connector was given to.
DialLoop(d) ==
  /\ \/ CompleteConnect(d) \/ ConnectResult(d) \/ ConnectFailed(d) \/ ConnectMute(d)
     \/ ConnectStart(d) \/ ConnectTell(d) \/ ConnectRead(d) \/ ReadEnds(d) \/ DoClose(d)
  /\ UNCHANGED acceptorVars

\* The thread in a Connect that waits.
WaitingCall(d) ==
  /\ \/ ConnectGivesUp(d) \/ ConnectRefused(d) \/ ConnectDone(d)
     \/ ConnectReturns(d, up) \/ HttpConnectReturns(d)
  /\ UNCHANGED acceptorVars

\* Calls of the application.
Calls(d) ==
  /\ AsyncConnectBy(d, TRUE, up) \/ ConnectOne(d, up) \/ Connect(d) \/ Close(d) \/ Drop(d)
  /\ UNCHANGED acceptorVars

Network(d) == Establishes(d) \/ Refuses(d)

Next ==
  \/ (StartService \/ OpenListener \/ ListenFails \/ ListenOne) /\ UNCHANGED connectorVars
  \/ AcceptLoop
  \/ \E d \in Dials : DialLoop(d) \/ WaitingCall(d) \/ Calls(d) \/ Network(d) \/ Breaks(d)

Spec == Init /\ [][Next]_vars

\* A loop runs as long as it can, a call that waits comes to its end, and
\* the kernel decides every attempt.  That the application calls anything,
\* or that a connection breaks, is never required.
FairSpec ==
  /\ Spec
  /\ WF_vars(AcceptLoop)
  /\ \A d \in Dials : WF_vars(DialLoop(d)) /\ WF_vars(WaitingCall(d)) /\ WF_vars(Network(d))

-----------------------------------------------------------------------------
TypeOK == AcceptorTypeOK /\ DialTypeOK

Holders(d) == {s \in Sessions : session[s].peer = d}

\* Every connection the kernel has made stands in one place: in the queue
\* once, or in exactly one session.  So none is overwritten by the next
\* accept, and none is handed out twice (AcceptOperation::Complete stores
\* the descriptor in whatever session the operation names).
OneSessionEach ==
  \A d \in Dials :
    link[d] = "up" =>
      Cardinality({i \in 1..Len(waiting) : waiting[i] = d}) + Cardinality(Holders(d)) = 1

\* Between two accepts a listener that epoll reports has an operation loaded, with a
\* session nobody has connected through: the level-triggered event would
\* otherwise be completed with an emptied operation, whose socket is null.
\* (The handler runs after the operation is cleared and posts again.)
ListenerArmed ==
  lsn.place = "idle" /\ lsn.armed /\ ~lsn.request =>
    /\ lsn.posted /\ lsn.oper # NoSession
    /\ session[lsn.oper].peer = NoPeer

\* A connector's notices: at most one of OnConnected and its failure, at most
\* one OnDisconnected, and that one last, also when Close races with the
\* answer and _ConnectHandler sets START on a connector being closed, after
\* which it can be closed a second time.
Closing   == {<<"disconnected">>, <<"connected", "disconnected">>, <<"failed", "disconnected">>}
InOrder   == {<<>>, <<"connected">>, <<"failed">>} \cup Closing
NoticesInOrder == \A d \in Dials : told[d] \in InOrder

\* Every asynchronous attempt that was posted is answered: the application is
\* told, or the connection was gone before its end points could be read.
DialAnswered ==
  \A d \in Dials :
    dial[d].oper ~> (told[d] # <<>> \/ (link[d] = "reset" /\ ~dial[d].oper))

\* A connection its dialer was told of comes to a session that is told of it
\* too, unless it breaks first or the listener has ended.  A listener that
\* could not be given to a loop has "ended" although its port is open.
ConnectedIsServed ==
  \A d \in Dials :
    (told[d] # <<>> /\ told[d][1] = "connected") ~>
      \/ \E s \in Holders(d) : session[s].state = "started"
      \/ link[d] # "up"
      \/ lsn.fd = "closed" \/ lsn.closing

-----------------------------------------------------------------------------
(* The inductive invariant.  ListenerArmed holds only between two accepts; *)
(* the invariant says where the operation and its session are during one.  *)
(* NoticesInOrder needs what a connector that was told of its end, or is   *)
(* about to be told anything, can no longer or not yet do.                 *)

\* The listener: a session that nobody has connected through is the one the
\* operation names or the one its handler has, and while an accept is under
\* way nobody else touches the listener.
ListenerInv ==
  /\ lsn.fd \in {"none", "made"} =>
       /\ ~lsn.armed /\ ~lsn.bound /\ ~lsn.closing /\ ~lsn.request
       /\ lsn.oper = NoSession
  /\ lsn.place # "idle" => lsn.armed /\ ~lsn.request
  /\ lsn.armed /\ ~lsn.request => lsn.fd = "open" /\ lsn.bound /\ ~lsn.closing
  /\ lsn.place = "idle" /\ lsn.armed /\ ~lsn.request => lsn.posted
  /\ lsn.place = "accept" \/ (lsn.place = "idle" /\ lsn.posted) => lsn.oper # NoSession
  /\ lsn.place \in {"handle", "post"} => lsn.oper = NoSession
  /\ lsn.place = "handle" =>
       /\ lsn.client # NoSession /\ session[lsn.client].state = "new"
       /\ lsn.error => session[lsn.client].peer = NoPeer
  /\ lsn.oper # NoSession => session[lsn.oper] = [peer |-> NoPeer, state |-> "new"]
  /\ \A s \in Sessions :
       /\ session[s].state = "new" => s = lsn.oper \/ (lsn.place = "handle" /\ s = lsn.client)
       /\ session[s].state = "none" => session[s].peer = NoPeer
       /\ session[s].state = "started" => session[s].peer # NoPeer

Queued(d) == \E i \in 1..Len(waiting) : waiting[i] = d
Served(d) == \E s \in Sessions : session[s].peer = d

\* A connection is in the queue once or in one session, never in both, and
\* it is in one of them from the moment it stands until it is reset.
PlacedInv ==
  /\ \A i, j \in 1..Len(waiting) : waiting[i] = waiting[j] => i = j
  /\ \A s, t \in Sessions :
       session[s].peer = session[t].peer /\ session[s].peer # NoPeer => s = t
  /\ \A d \in Dials :
       /\ ~(Queued(d) /\ Served(d))
       /\ Queued(d) \/ Served(d) => link[d] \in {"up", "reset"}
       /\ link[d] = "up" => Queued(d) \/ Served(d)

\* A connector c, what it was told and its connection: nothing happens to one
\* that was not opened; one in block mode is with no loop; a descriptor that
\* is closed has nothing left that could tell the application anything.
ConnectorInv(c, notices, connection) ==
  /\ c.fd = "none" =>
       c.block /\ c.call = "none" /\ notices = <<>> /\ connection = "none"
  /\ c.block \/ c.fd = "closed" => ~c.armed /\ c.place = "idle"
  /\ c.closing => c.fd = "open" /\ ~c.block
  /\ c.requests > 0 => c.requests = 1 /\ c.closing
  /\ c.armed => c.place = "idle"
  /\ c.armed \/ c.place \in {"result", "handle", "tell"} => notices = <<>>
  /\ notices \in InOrder
  /\ notices \in Closing => c.fd = "closed"

EstablishInv ==
  /\ TypeOK
  /\ ListenerInv
  /\ PlacedInv
  /\ \A d \in Dials : ConnectorInv(dial[d], told[d], link[d])
=============================================================================
