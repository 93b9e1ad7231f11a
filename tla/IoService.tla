----------------------------- MODULE IoService -----------------------------
(***************************************************************************)
(* The reactor threads of a NetIo: Start and Stop (netio/netio_impl.hpp),  *)
(* the loop each thread runs and the service they are listed in            *)
(* (socket/epoll_access.hpp, ioaccess.ipp), how a socket is assigned to    *)
(* one of them and how its close request reaches it.                       *)
(*                                                                         *)
(* Reads and writes are module TcpSession; here a socket is assigned and   *)
(* closed.  A thread keeps its IoServiceImpl for ever (thread-local, never *)
(* freed), a handle is the number of an epoll descriptor and can be given  *)
(* out again by the kernel once it is closed.  The counters _fdcnt and     *)
(* _implcnt, which nothing reads, are left out.                            *)
(***************************************************************************)
EXTENDS Naturals, Sequences, FiniteSets

CONSTANTS
  Threads,   \* threads Start can create; none is used twice
  Sockets,   \* sockets that are open and in block mode at first
  Handles,   \* descriptor numbers of epoll sets
  None       \* no handle, no thread

ASSUME NoneAssumption == None \notin Threads \cup Handles
ASSUME EnoughHandles  == Cardinality(Handles) > Cardinality(Threads)

VARIABLES
  main,        \* the thread that calls Start and Stop
  threadlist,  \* BaseNetIo::_threadlist
  at,          \* where each reactor thread is
  handle,      \* IoServiceImpl::_handler
  finish,      \* a finish event waits in the thread's epoll set
  closereqs,   \* IoServiceImpl::_closereqs
  closing,     \* the list _DoClose works on
  implvector,  \* IIoService::_implvector
  implmap,     \* IIoService::_implmap
  implidx,     \* IIoService::_implidx
  sock,        \* what became of each socket
  epoll,       \* core::_epoll of each socket
  target,      \* the thread a close request is for
  told         \* calls of each socket's close handler

mainVars == <<main, threadlist>>
loopVars == <<at, handle, finish, closereqs, closing>>
listVars == <<implvector, implmap, implidx>>
sockVars == <<sock, epoll, target, told>>
vars == <<mainVars, loopVars, listVars, sockVars>>

SockStates == {"open", "binding", "bound", "refused", "asked", "closing", "closed"}

CloseTypeOK ==
  /\ closereqs \in [Threads -> Seq(Sockets)] /\ closing \in [Threads -> Seq(Sockets)]
  /\ sock \in [Sockets -> SockStates] /\ told \in [Sockets -> Nat]

TypeOK ==
  /\ main \in {"idle", "starting", "up", "stopping"}
  /\ threadlist \in SUBSET Threads
  /\ at \in [Threads -> {"none", "run", "top", "close", "wait", "release", "unlist", "ended"}]
  /\ handle \in [Threads -> Handles \cup {None}]
  /\ finish \in [Threads -> BOOLEAN]
  /\ implvector \in Seq(Threads)
  /\ implmap \in [Handles -> Threads \cup {None}]
  /\ implidx \in Nat
  /\ epoll \in [Sockets -> Handles \cup {None}]
  /\ target \in [Sockets -> Threads \cup {None}]
  /\ CloseTypeOK

Init ==
  /\ main = "idle" /\ threadlist = {}
  /\ at = [t \in Threads |-> "none"]
  /\ handle = [t \in Threads |-> None]
  /\ finish = [t \in Threads |-> FALSE]
  /\ closereqs = [t \in Threads |-> <<>>] /\ closing = [t \in Threads |-> <<>>]
  /\ implvector = <<>> /\ implmap = [h \in Handles |-> None] /\ implidx = 0
  /\ sock = [s \in Sockets |-> "open"]
  /\ epoll = [s \in Sockets |-> None] /\ target = [s \in Sockets |-> None]
  /\ told = [s \in Sockets |-> 0]

-----------------------------------------------------------------------------
Listed(t) == \E i \in 1..Len(implvector) : implvector[i] = t
MoveTo(t, l) == at' = [at EXCEPT ![t] = l]

\* g_epoll_create gives out any number not in use.
FreeHandles(t) == Handles \ {handle[u] : u \in Threads \ {t}}

(* BaseNetIo::Start: the threads are created if there are none, and the    *)
(* caller spins until as many are listed.                                  *)
Start(T) ==
  /\ main = "idle" /\ T # {} /\ \A t \in T : at[t] = "none"
  /\ threadlist' = T
  /\ at' = [t \in Threads |-> IF t \in T THEN "run" ELSE at[t]]
  /\ main' = "starting"
  /\ UNCHANGED <<handle, finish, closereqs, closing, listVars, sockVars>>

AllListed == Len(implvector) = Cardinality(threadlist)

StartReturns ==
  /\ main = "starting" /\ AllListed
  /\ main' = "up"
  /\ UNCHANGED <<threadlist, loopVars, listVars, sockVars>>

(* BaseNetIo::Stop: a finish event for every listed loop, under the        *)
(* service's mutex; then the threads are joined.                           *)
FirstListed(t) == implvector # <<>> /\ t = Head(implvector)
Reached(t) == Listed(t)

Stop ==
  /\ main = "up"
  /\ finish' = [t \in Threads |-> finish[t] \/ Reached(t)]
  /\ main' = "stopping"
  /\ UNCHANGED <<threadlist, at, handle, closereqs, closing, listVars, sockVars>>

StopReturns ==
  /\ main = "stopping" /\ \A t \in threadlist : at[t] = "ended"
  /\ main' = "idle" /\ threadlist' = {}
  /\ UNCHANGED <<loopVars, listVars, sockVars>>

-----------------------------------------------------------------------------
(* A reactor thread: _CreateIoImpl, _DoRun, _ReleaseIoImpl.                *)

CreateIoImpl(t) ==
  /\ at[t] = "run"
  /\ \E h \in FreeHandles(t) :
       /\ handle' = [handle EXCEPT ![t] = h]
       /\ implmap' = [implmap EXCEPT ![h] = t]
  /\ implvector' = Append(implvector, t)
  /\ MoveTo(t, "top")
  /\ UNCHANGED <<mainVars, finish, closereqs, closing, implidx, sockVars>>

\* The top of the loop: the requests are taken over, if the unlocked look
\* at the queue found any.
TakeRequestsKeep(t) ==
  /\ at[t] = "top"
  /\ closing' = [closing EXCEPT ![t] = closereqs[t]]
  /\ MoveTo(t, "close")
  /\ UNCHANGED <<closereqs, mainVars, handle, finish, listVars, sockVars>>
TakeRequestsDrop(t) ==
  /\ at[t] = "top"
  /\ closereqs' = [closereqs EXCEPT ![t] = <<>>]
  /\ MoveTo(t, "close")
  /\ UNCHANGED <<closing, mainVars, handle, finish, listVars, sockVars>>
TakeRequests(t) ==
  /\ at[t] = "top"
  /\ closing' = [closing EXCEPT ![t] = closereqs[t]]
  /\ closereqs' = [closereqs EXCEPT ![t] = <<>>]
  /\ MoveTo(t, "close")
  /\ UNCHANGED <<mainVars, handle, finish, listVars, sockVars>>

\* One socket is closed and its handler called.
ServeClose(t) ==
  /\ at[t] = "close" /\ closing[t] # <<>>
  /\ LET s == Head(closing[t])
     IN  /\ sock' = [sock EXCEPT ![s] = "closed"]
         /\ told' = [told EXCEPT ![s] = @ + 1]
  /\ closing' = [closing EXCEPT ![t] = Tail(@)]
  /\ UNCHANGED <<mainVars, at, handle, finish, closereqs, listVars, epoll, target>>

AllServed(t) ==
  /\ at[t] = "close" /\ closing[t] = <<>>
  /\ MoveTo(t, "wait")
  /\ UNCHANGED <<mainVars, handle, finish, closereqs, closing, listVars, sockVars>>

\* epoll_wait, at most 20 ms: a finish event ends the loop.
PollOnce(t) ==
  /\ at[t] = "wait"
  /\ IF finish[t]
       THEN MoveTo(t, "release") /\ finish' = [finish EXCEPT ![t] = FALSE]
       ELSE MoveTo(t, "top") /\ UNCHANGED finish
  /\ UNCHANGED <<mainVars, handle, closereqs, closing, listVars, sockVars>>

\* _ReleaseIoImpl: the queued requests are deleted and the epoll set is
\* replaced by an empty one, under the thread's own mutex ...
ReleaseQueue(t) ==
  /\ at[t] = "release"
  /\ closereqs' = [closereqs EXCEPT ![t] = <<>>]
  /\ \E h \in FreeHandles(t) : handle' = [handle EXCEPT ![t] = h]
  /\ MoveTo(t, "unlist")
  /\ UNCHANGED <<mainVars, finish, closing, listVars, sockVars>>

\* ... and then the thread is taken from the list, but not from the map.
Others(t) == SelectSeq(implvector, LAMBDA u : u # t)

Unlist(t) ==
  /\ at[t] = "unlist"
  /\ implvector' = Others(t)
  /\ MoveTo(t, "ended")
  /\ UNCHANGED <<mainVars, handle, finish, closereqs, closing, implmap, implidx, sockVars>>

-----------------------------------------------------------------------------
(* A socket.  Assigning it (CtlEpoll) holds core::_mutex throughout, so    *)
(* Close cannot come between its two steps.                                *)

NextIndex == implidx + 1

\* The next listed thread is chosen under the service's mutex.
Assign(s) ==
  /\ sock[s] = "open"
  /\ IF implvector = <<>>
       THEN sock' = [sock EXCEPT ![s] = "refused"] /\ UNCHANGED <<epoll, implidx>>
       ELSE LET t == implvector[(NextIndex % Len(implvector)) + 1]
            IN  /\ implidx' = NextIndex
                /\ epoll' = [epoll EXCEPT ![s] = handle[t]]
                /\ sock' = [sock EXCEPT ![s] = "binding"]
  /\ UNCHANGED <<mainVars, loopVars, implvector, implmap, target, told>>

\* epoll_ctl, which fails when the handle is no epoll set any more.
EpollCtl(s) ==
  /\ sock[s] = "binding"
  /\ sock' = [sock EXCEPT ![s] =
                IF \E t \in Threads : handle[t] = epoll[s] THEN "bound" ELSE "refused"]
  /\ UNCHANGED <<mainVars, loopVars, listVars, epoll, target, told>>

\* _GetIoServiceImpl
Owner(h) == IF h = None THEN None ELSE implmap[h]

(* IoAccess::Close: a socket in block mode is closed at once; otherwise    *)
(* the request is queued, after the mutexes were released, at the thread   *)
(* the map gives; if it gives none, nothing more happens.                  *)
CloseAtOnce(s) ==
  /\ sock[s] = "open"
  /\ sock' = [sock EXCEPT ![s] = "closed"]
  /\ UNCHANGED <<mainVars, loopVars, listVars, epoll, target, told>>

Closable == {"bound", "refused"}

CloseAsk(s) ==
  /\ sock[s] \in Closable
  /\ target' = [target EXCEPT ![s] = Owner(epoll[s])]
  /\ sock' = [sock EXCEPT ![s] = IF target'[s] = None THEN "closing" ELSE "asked"]
  /\ UNCHANGED <<mainVars, loopVars, listVars, epoll, told>>

QueueClose(s) ==
  /\ sock[s] = "asked"
  /\ closereqs' = [closereqs EXCEPT ![target[s]] = Append(@, s)]
  /\ sock' = [sock EXCEPT ![s] = "closing"]
  /\ UNCHANGED <<mainVars, at, handle, finish, closing, listVars, epoll, target, told>>

-----------------------------------------------------------------------------
Main == StartReturns \/ StopReturns

Loop(t) ==
  \/ CreateIoImpl(t) \/ TakeRequests(t) \/ ServeClose(t) \/ AllServed(t)
  \/ PollOnce(t) \/ ReleaseQueue(t) \/ Unlist(t)

Call(s) == EpollCtl(s) \/ QueueClose(s)

Next ==
  \/ \E T \in SUBSET Threads : Start(T)
  \/ Stop
  \/ Main
  \/ \E t \in Threads : Loop(t)
  \/ \E s \in Sockets : Assign(s) \/ CloseAtOnce(s) \/ CloseAsk(s) \/ Call(s)

Spec == Init /\ [][Next]_vars

(* Fairness: the threads are scheduled and calls that were begun go on;    *)
(* nobody has to call Start, Stop, Close or a first read.                  *)
FairSpec ==
  /\ Spec
  /\ WF_vars(Main)
  /\ \A t \in Threads : WF_vars(Loop(t))
  /\ \A s \in Sockets : WF_vars(Call(s))

-----------------------------------------------------------------------------
(* Properties *)

\* A socket is in one close queue at most, once, and in none when it is
\* closed, whatever loop its handle led to: its descriptor number is never
\* closed a second time.
Requests(s) ==
  UNION {{<<"queue", t, i>> : i \in {j \in 1..Len(closereqs[t]) : closereqs[t][j] = s}}
         \cup {<<"list", t, i>> : i \in {j \in 1..Len(closing[t]) : closing[t][j] = s}} : t \in Threads}
OneRequest ==
  \A s \in Sockets :
    /\ Cardinality(Requests(s)) <= IF sock[s] = "closing" THEN 1 ELSE 0
    /\ told[s] <= 1 /\ (told[s] = 1 => sock[s] = "closed")

\* Start and Stop return: no finish event is missed by a loop that is only
\* about to be listed, and the loops do not wait for one another.
StartAndStopReturn ==
  /\ main = "starting" ~> main = "up"
  /\ main = "stopping" ~> main = "idle"

\* While the loops run, a queued close is served.
CloseServed ==
  \A s \in Sockets :
    (main = "up" /\ sock[s] \in {"asked", "closing"} /\ target[s] \in threadlist)
      ~> (sock[s] = "closed" \/ main # "up")

-----------------------------------------------------------------------------
(* What makes OneRequest hold: the queues and the lists that are worked on *)
(* have every socket in one place, and only sockets that are being closed. *)

DistinctIn(f) ==
  \A t, u \in Threads : \A i \in 1..Len(f[t]), j \in 1..Len(f[u]) :
    f[t][i] = f[u][j] => t = u /\ i = j

CloseInv ==
  /\ DistinctIn(closereqs) /\ DistinctIn(closing)
  /\ \A t, u \in Threads : \A i \in 1..Len(closereqs[t]), j \in 1..Len(closing[u]) :
       closereqs[t][i] # closing[u][j]
  /\ \A t \in Threads : \A i \in 1..Len(closereqs[t]) : sock[closereqs[t][i]] = "closing"
  /\ \A t \in Threads : \A i \in 1..Len(closing[t]) : sock[closing[t][i]] = "closing"
  /\ \A s \in Sockets : told[s] <= 1 /\ (told[s] = 1 => sock[s] = "closed")
=============================================================================
