---------------------------- MODULE EpollSocket ----------------------------
(***************************************************************************)
(* One socket of the epoll reactor: what socket/epoll_access.hpp and       *)
(* socket/ioaccess.ipp keep in SocketImpl::core for an established         *)
(* connection, and the steps that change it.                               *)
(*                                                                         *)
(* A socket has two operation objects, "R" (_op._rop) and "W" (_op._wop).  *)
(* A caller loads one (buffer, handler), posts it under the core mutex and *)
(* the reactor thread fires it when epoll reports the matching event.      *)
(* The reactor reads _op._type WITHOUT the mutex to choose what to fire,   *)
(* and posting writes _op._type twice (first one bit, then both), so the   *)
(* two halves of posting are separate steps.                               *)
(*                                                                         *)
(* "R" and "W" also name the epoll bits: EPOLLIN is "R", EPOLLOUT is "W".  *)
(***************************************************************************)
EXTENDS Integers

CONSTANTS Threads,   \* the threads that call into the socket
          NoThread   \* the core mutex is free

ASSUME NoThreadAssumption == NoThread \notin Threads \X {"R", "W"}

Dirs == {"R", "W"}

VARIABLES
  fd,        \* "open" or "closed": core::_fd is M_INVALID_SOCKET when closed
  block,     \* the block-mode bit of core::_state
  attached,  \* core::_epoll # -1 (and, while fd is open, the bind bit)
  closing,   \* the close bit of core::_state
  posted,    \* the read and write bits of core::_state
  optype,    \* the E_READ_OP and E_WRITE_OP bits of _op._type
  mask,      \* what epoll_ctl was last told to report
  op,        \* each operation object: cleared, loaded, or being completed
  core,      \* core::_mutex: the thread that arms a direction, or NoThread
  closeq     \* close requests for this socket queued at its reactor

sockVars == <<fd, block, attached, closing, posted, optype, mask, op, core, closeq>>

SockTypeOK ==
  /\ fd \in {"open", "closed"}
  /\ block \in BOOLEAN /\ attached \in BOOLEAN /\ closing \in BOOLEAN
  /\ posted \in SUBSET Dirs /\ optype \in SUBSET Dirs /\ mask \in SUBSET Dirs
  /\ op \in [Dirs -> {"clear", "loaded", "fired"}]
  /\ core \in (Threads \X Dirs) \cup {NoThread}
  /\ closeq \in Nat

\* A socket accept() just returned: open, in block mode, in no epoll set.
SockInit ==
  /\ fd = "open" /\ block = TRUE /\ attached = FALSE /\ closing = FALSE
  /\ posted = {} /\ optype = {} /\ mask = {}
  /\ op = [d \in Dirs |-> "clear"]
  /\ core = NoThread /\ closeq = 0

-----------------------------------------------------------------------------
(* The steps, as the code performs them: without any check that the caller *)
(* keeps to the protocol.                                                  *)

\* AsyncRecvSome / AsyncSendSome before the mutex: buffer and handler are
\* stored into the operation object whatever it holds.
Load(d) ==
  /\ op' = [op EXCEPT ![d] = "loaded"]
  /\ UNCHANGED <<fd, block, attached, closing, posted, optype, mask, core, closeq>>

\* What _type and epoll's mask become when d is posted: d, and the other
\* direction if its flag is set.
InterestForgetsOther(d) == {d}
Interest(d) == {d} \cup (posted \ {d})

\* Nothing stands in the way of posting d.
Postable(d) == fd = "open" /\ d \notin posted

\* M_ERR_BAD_DESCRIPTOR or M_ERR_POSTED_*: the object is cleared, also when
\* what it held was the operation posted earlier.
PostReject(d) ==
  /\ core = NoThread /\ ~Postable(d)
  /\ op' = [op EXCEPT ![d] = "clear"]
  /\ UNCHANGED <<fd, block, attached, closing, posted, optype, mask, core, closeq>>

\* The first half of posting: the mutex is taken, the flag is set and _type
\* is overwritten with this direction alone.
PostBegin(t, d) ==
  /\ core = NoThread /\ Postable(d)
  /\ core' = <<t, d>>
  /\ block' = FALSE
  /\ posted' = posted \cup {d}
  /\ optype' = {d}
  /\ UNCHANGED <<fd, attached, closing, mask, op, closeq>>

\* The second half: the other direction is put back if its flag is set, and
\* epoll_ctl (ADD the first time, then MOD) is told what to report.
PostEnd(t, d) ==
  /\ core = <<t, d>>
  /\ optype' = Interest(d)
  /\ mask' = Interest(d)
  /\ attached' = TRUE
  /\ core' = NoThread
  /\ UNCHANGED <<fd, block, closing, posted, op, closeq>>

\* CtlEpoll cannot ADD because no reactor thread is running.
PostRefuse(t, d) ==
  /\ core = <<t, d>> /\ ~attached
  /\ optype' = Interest(d)
  /\ posted' = posted \ {d}
  /\ op' = [op EXCEPT ![d] = "clear"]
  /\ core' = NoThread
  /\ UNCHANGED <<fd, block, attached, closing, mask, closeq>>

\* The locked part of ReadOperation::Complete and WriteOperation::Complete.
\* On a closed descriptor the write bit of _type is still cleared.
Fire(d) ==
  /\ core = NoThread
  /\ op' = [op EXCEPT ![d] = "fired"]
  /\ IF fd = "open"
       THEN /\ optype' = optype \ {d}
            /\ posted' = posted \ {d}
            /\ mask' = optype \ {d}
       ELSE /\ optype' = optype \ ({d} \cap {"W"})
            /\ UNCHANGED <<posted, mask>>
  /\ UNCHANGED <<fd, block, attached, closing, core, closeq>>

\* The end of Complete before the handler runs: handler.swap and Clear().
Unload(d) ==
  /\ op' = [op EXCEPT ![d] = "clear"]
  /\ UNCHANGED <<fd, block, attached, closing, posted, optype, mask, core, closeq>>

\* What closing the descriptor resets: core::_state = 0, and the kernel
\* forgets the registration.
FdGone ==
  /\ fd' = "closed"
  /\ block' = FALSE /\ closing' = FALSE
  /\ posted' = {} /\ mask' = {}

\* IoAccess::Close: at once in block mode, else a request to the reactor the
\* socket is attached to (if any). A second call does nothing.
SocketCloseUnqueued ==
  /\ core = NoThread
  /\ IF fd = "open" /\ block
       THEN FdGone ELSE closing' = TRUE /\ UNCHANGED <<fd, block, posted, mask>>
  /\ UNCHANGED <<closeq, attached, optype, op, core>>
SocketClose ==
  /\ core = NoThread
  /\ IF fd = "closed" \/ closing
       THEN UNCHANGED <<fd, block, closing, posted, mask, closeq>>
       ELSE /\ closeq' = IF attached THEN closeq + 1 ELSE closeq
            /\ IF block
                 THEN FdGone
                 ELSE closing' = TRUE /\ UNCHANGED <<fd, block, posted, mask>>
  /\ UNCHANGED <<attached, optype, op, core>>

DoCloseKeepsRequest ==
  /\ closeq > 0 /\ core = NoThread
  /\ FdGone
  /\ UNCHANGED <<closeq, attached, optype, op, core>>
\* _DoClose, by the reactor thread at the top of its loop.
DoClose ==
  /\ closeq > 0 /\ core = NoThread
  /\ FdGone
  /\ closeq' = closeq - 1
  /\ UNCHANGED <<attached, optype, op, core>>

-----------------------------------------------------------------------------
(* The protocol the reactor relies on: who may take which step when.  The  *)
(* code checks next to none of it; the session that drives the socket has  *)
(* to keep it (module TcpSession is checked against this specification).   *)

NoneFired == \A d \in Dirs : op[d] # "fired"

\* An operation object is loaded only when nothing is left in it.
StartOp(d) == op[d] = "clear" /\ Load(d)

PostOp(t, d) == op[d] = "loaded" /\ PostBegin(t, d)

RejectOp(d) == op[d] = "loaded" /\ d \notin posted /\ PostReject(d)

\* Only a posted operation fires, and one thread fires them one by one.
FireOp(d) == d \in posted /\ op[d] = "loaded" /\ NoneFired /\ Fire(d)

FinishOp(d) == op[d] = "fired" /\ Unload(d)

\* The descriptor goes away only between two events of the reactor.
ReapSocket == NoneFired /\ DoClose

SockNext ==
  \/ \E d \in Dirs : StartOp(d)
  \/ \E t \in Threads, d \in Dirs : PostOp(t, d)
  \/ \E d \in Dirs : RejectOp(d)
  \/ \E t \in Threads, d \in Dirs : PostEnd(t, d)
  \/ \E t \in Threads, d \in Dirs : PostRefuse(t, d)
  \/ \E d \in Dirs : FireOp(d)
  \/ \E d \in Dirs : FinishOp(d)
  \/ SocketClose
  \/ ReapSocket

SockSpec == SockInit /\ [][SockNext]_sockVars

-----------------------------------------------------------------------------
(* Properties *)

\* Whenever the core mutex is free and the socket is registered, the three
\* copies of "which operations are outstanding" agree: the state flags, the
\* _type word and epoll's event mask.  A stale copy would lose an event for
\* good (a direction nobody reports) or complete an operation nobody posted.
InterestAgrees ==
  core = NoThread /\ fd = "open" /\ attached => optype = posted /\ mask = posted

\* The reactor chooses what to complete from _type without the mutex, so at
\* every instant, the window between the two writes of posting included, a
\* bit of _type stands for an operation whose buffer and handler are there.
\* Completing any other would dereference the empty _impl of the object.
TypeImpliesLoaded ==
  fd = "open" /\ attached => \A d \in optype : op[d] = "loaded"

\* A descriptor some epoll set holds is never in block mode: the immediate
\* close of IoAccess::Close would take it away under the reactor thread.
AttachedIsNonblocking == attached => ~block

\* At most one close request is ever queued for a socket, and none for a
\* socket whose descriptor is gone: _DoClose would close the descriptor
\* number again, which may be another connection's by then.
OneCloseRequest == closeq <= 1 /\ (closeq = 1 => fd = "open" /\ closing)

-----------------------------------------------------------------------------
(* The inductive invariant.  InterestAgrees alone is not inductive: what   *)
(* holds while the core mutex is taken, between the two writes of _type,   *)
(* and what an unattached or closed socket looks like, has to be said.     *)

\* While d is being posted: its flag is set, _type holds it alone.
PostingInv ==
  core # NoThread =>
    /\ fd = "open" /\ ~block
    /\ core[2] \in posted /\ optype = {core[2]}
    /\ ~attached => posted = {core[2]}

\* A flag that is set stands for an operation that is loaded.
PostedInv ==
  /\ \A d \in posted : op[d] = "loaded"
  /\ fd = "closed" => posted = {} /\ core = NoThread
  /\ core = NoThread /\ ~attached => posted = {}

\* At most one request, and only for a descriptor that is to be closed.
RequestInv ==
  /\ closeq \in {0, 1}
  /\ closeq = 1 => fd = "open" /\ closing /\ attached

SockInv ==
  /\ SockTypeOK
  /\ InterestAgrees
  /\ AttachedIsNonblocking
  /\ PostingInv /\ PostedInv /\ RequestInv
=============================================================================
