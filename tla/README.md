# Verification of netlib2

netlib2 is a C++ network library: an epoll reactor, TCP and HTTP sessions on
top of it, remote calls on top of those (blocking, or blocking a coroutine), a
thread-safe logger and the containers they use.  This directory holds TLA+
models of its Linux build, the TLC configurations that check them on small
instances, and TLAPS proofs of what matters most for instances of any size.

All definitions were read off the code under `src/`; `PROJECT.json` gives, for
each of them, the file and lines it stands for ("map"), and also lists the
runs, the hazards the properties were written for, the findings and the
theorems.

    tlc -workers 2 -config TcpSession.cfg MCTcpSession   # one run
    tlapm TcpSession_proofs.tla                          # one module of proofs

## 1. The system

| part | code | state | operations | modelled by |
|---|---|---|---|---|
| reactor, one socket | `socket/epoll_access.hpp`, `ioaccess.ipp` | `SocketImpl::core`: fd, `_state` bits, `_op` (two operation objects and `_type`), `_epoll`, `_mutex` | AsyncRecvSome, AsyncSendSome, AsyncAccept, AsyncConnect, their completion; Connect, Select, SendSome, RecvSome; Close, `_DoClose` | `EpollSocket`; `Acceptor`, `Connector`; `SyncCall` |
| reactor threads | `netio/netio_impl.hpp`, `socket/ioservice.ipp`, `ioaccess.ipp` | `_threadlist`, `_implvector`, `_implmap`, `_implidx`, per loop its epoll handle, `_closereqs`, finish event | Start, Stop, Run, CtlEpoll (assignment), Close (queueing) | `IoService` |
| listeners | `netio/netio_impl.hpp`, `socket/socket_acceptor.hpp`, `epoll_access.hpp` | the listening socket with its accept operation; the session the operation names | ListenOne, ListenOneHttp, AsyncAccept, `_AcceptHandler`, `_AcceptHttpHandler` | `Acceptor`, composed in `Establish` |
| connectors | `netio/tconnector_impl.hpp`, `hconnector_impl.hpp`, `netio_impl.hpp` | `_flag`, the connect operation, block mode | ConnectOne, AsyncConnect, Connect with and without a limit, `_ConnectHandler`, Close | `Connector`, composed in `Establish` |
| TCP session | `netio/tsocket_impl.hpp`, `netio.hpp` | `_flag`, `_writer` (lock, `writing`, two buffers) | Init, Send, Close, `_ReadHandler`, `_WriteHandler`, `_CloseHandler` | `TcpSession`, promise in `Session` |
| message framing | `netio/tsocket_impl.hpp`, `base/buffer.hpp` | `_reader.msgbuffer`, `curheader` | `_CutMsgPack` | `MsgFraming` |
| HTTP | `netio/httpmsg.hpp`, `hsocket_impl.hpp` | the message being parsed, the message being built | Parse, setters, SendHttpMsg, `_CutMsgPack` | `HttpMsg`, `HttpSocket` |
| blocking calls | `synccall/synccall_client.hpp`, `synccall_svr.hpp`, `netio/tconnector_impl.hpp` | `_socket`, `_packidx`; on the server the handler of a port | SyncCall, Connect, Close, Register, OnReceiveData | `SyncCall` |
| coroutine calls | `synccall/synccall_coclient.hpp`, `coroutine/coroutine.hpp` | the connection's `_CoScInfo_`, the thread's queue of resumptions | SyncCall, OnReceiveData, OnDisconnected, doThrResume | `CoSyncCall` |
| coroutines | `coroutine/coroutine.hpp`, `co_linux_impl.hpp` | per thread: `_schedule_` (slots, free ids, `_curco`), pool, tasks, two queues of ids to resume | create, resume, yield, doTask, addTask, addResume, doResume, doThrResume, clrTask | `Coroutine`, promise in `JobSchedule` |
| heart beat | `netio/heartbeat.hpp` | per bucket: lists under a mutex, the thread's maps of times | Start, Stop, OnConnected, OnReceiveData, `_Run` | `HeartBeat` |
| logger | `base/logger.hpp` | ring of nodes, producer and consumer, `_run`; line buffer; the open file | setfilename, log, stop, dump; `<<`; write, flush, `_roll_file` | `LogRing`, `LogLine`, `LogFile`, composed in `Logger` |
| containers | `base/slist.hpp`, `svector.hpp`, `circular_queue.hpp`, `buffer.hpp` | nodes, arrays, indices | push, pop, clear, join ... | `SList`, `SVector`, `CircularQueue`, used by `Coroutine`; Buffer as a sequence |

Not modelled, and not planned: the Windows back ends (a different machine:
completion ports, fibers), the wrappers of the socket API and of pthread (no
state of their own; the models assume what they wrap), option and address
classes, the example programs.

### How the parts interact

An application thread calls Send or Close of a session.  Under `_writer.lock`
the session changes its buffers and posts a write to the reactor
(AsyncSendSome), which under `core::_mutex` changes the socket's operations and
epoll's mask.  The reactor thread that the socket was given to gets the event,
chooses the operation to complete **without** `core::_mutex`, runs the session's
handler, and the handler takes `_writer.lock` again, calls the application's
callbacks, posts the next operation or closes.  The descriptor is closed by the
same thread, from a queue of close requests that any thread may add to.  The
thread that accepted a connection is another one than the thread that serves
it: the first read, OnConnected and a Close inside it run concurrently with
completions.

A listener is one more socket of a loop: its completion runs `_AcceptHandler`,
which initialises the accepted session and posts the next accept.  A connector
becomes a session when its connect operation completes.  In coroutine mode the
loop completes operations inside a pooled coroutine, so that a handler may
yield, for example in a CoScClient's call; the loop goes on, and resumes it
when its id turns up in a queue that callbacks, also in other threads, add to.
The heart beat's thread sees connections through OnConnected and OnReceiveData
and closes them like any application thread.  All of them log; one thread
writes the log.

### What is hard in it

* the same operation is described three times (`_state`'s bits, `_op._type`,
  epoll's mask) and read without the mutex that guards the writes;
* the right to touch an operation object passes between threads with no lock
  held for the time in between;
* Close must wait for data in flight, which completes in another thread;
* loops start, end and are replaced while sockets are assigned to them and
  closes are queued at them;
* bytes arrive cut at any place;
* the dump thread writes a node of the log ring without a lock;
* calls are retried over new connections, and wake-ups of a coroutine come
  from callbacks in other threads, perhaps before it has yielded;
* coroutines, their ids and the frames of the tasks in them are used again;
* the accept operation is level-triggered and cleared before its handler runs;
  a connector may be closed while its answer is being handled;
* the heart beat judges by what it knew before it looks at what has arrived;
* log files are truncated when they are opened, and names may come again after
  a roll or a restart; nobody looks at what a write returned.

`PROJECT.json` lists these as "hazards", each at its line.

### What makes each part correct

* **socket**: the three copies agree; nothing is completed that is not loaded;
  a descriptor is closed once, and not under a completion.
* **session**: sent bytes leave once and in order; a posted buffer is not
  touched; one write at a time and never none while there is data; Close
  drains, ends and is reported; callbacks in the promised order.
* **threads**: Start and Stop return; a started service has all its loops; a
  queued close is served, and once.
* **framing, HTTP**: the messages received are those sent, however the stream
  is cut.
* **listener, connectors**: every connection is in the kernel's queue or in one
  session; the listener always has an operation to complete; an attempt is
  answered; a connector is told things at most once and in order.
* **coroutines**: a job's frames are in one coroutine; a coroutine is resumed only
  for the job that waits in it, and then it is.
* **heart beat**: it closes the silent, all of them and nobody else.
* **calls**: 0 means that the server dealt with this call and this is its
  reply; bounded repetition; each call returns; a coroutine is woken exactly
  once per wait.
* **logger**: accepted lines are handed to the file once, in order; the node being
  written is not touched; without failures they reach the files of the process;
  what was flushed stays until a file of the same name is opened.

## 2. The modules

`EpollSocket` <- `TcpSession` (EXTENDS, its threads perform EpollSocket's
steps), which implements `Session` (INSTANCE with a refinement mapping) and
`SockSpec` itself.  `Acceptor`, `Connector` <- `Establish`, which adds the kernel
between them.  `CircularQueue`, `SList`, `SVector` <- `Coroutine`, which implements
`JobSchedule`.  `LogRing`, `LogLine`, `LogFile` <- `Logger`.  The other modules stand
alone; what they assume of each other is said here.

**EpollSocket** - one established socket.  `posted` is the read and write bits of
`_state`, `optype` is `_op._type`, `mask` what epoll_ctl was told, `op` the two
operation objects, `core` the mutex.  Posting is two steps (`PostBegin`,
`PostEnd`) because `_type` is written twice, first as one bit, then as both,
and `_DoExecOp` may look in between.  The steps are first defined as the code
performs them, without any check; `SockNext` adds the protocol that callers
must keep (load an operation only when it is clear, complete only what is
loaded ...), and `SockSpec` is thus a specification of both sides.

**TcpSession** - one accepted connection: any number of application threads, the
accepting thread, the reactor thread, the peer and the kernel's buffers.  Every
thread has a place in its own code (`at`) and a place in the call it makes
(`pc`); one action is what the code does between two points where another
thread may be seen to act.  Messages are sequences of abstract units; a send
may take a part of what it is given; a write may fail; a post may be refused
because the loops are gone (`Serving = FALSE`).

**Session** - what a connection promises to the program: a queue, a stream, four
states, and the order of the callbacks.  No threads, locks or buffers.

**IoService** - Start, Stop and restart; each loop's registration, finish event,
close queue and release; assignment of sockets round robin; close requests,
which may be queued at a loop that is just being released, and handles that
the kernel gives out again.

**MsgFraming** - `_CutMsgPack` step by step over every way of cutting the stream
into chunks.  A header is two bytes in base `Base`; messages whose bodies read
like headers are among the inputs; a peer may announce too large a body.

**HttpMsg**, **HttpSocket** - the resumable parser and the response writer as
operators, and the socket that feeds chunks to the parser.  Pieces of text are
symbols (of any set `Texts`); CR, LF and SP are symbols of their own, so a cut
between CR and LF is a cut.  In the code each parse function calls the next one
with what it left of the chunk; here each call is a round (ParseRound), and Parse
goes round until nothing is left or the message is over.

**SyncCall** - one ScClient per thread: attempts, reconnection, time-outs, replies
of given-up connections; the server, whose Register listens before it has
stored the handler.

**CoSyncCall** - the coroutine, its connections' `_CoScInfo_`, callbacks that run in
the coroutine's own thread (then only while it is parked) or in another one.

**Acceptor** - ListenOne before or after Start, and its failures; AsyncAccept with
the `error` variable it takes from its caller, adds to and reads (an error of
this accept thus ends the listener); Complete in two steps, because accept()
runs without the mutex; the handler; the destruction of the acceptor, which
requests its close.  The kernel's queue of waiting peers is external.

**Connector** - the four ways to connect (ConnectOne and AsyncConnect, Connect with
a limit and without), Close by the application at any place, the connect
operation's completion, and `_ConnectHandler` in four steps, as it sets START
without the lock and calls the application in between.  `BaseHConnector`'s
differences are actions of their own (HttpConnectReturns, ConnectMute).
What follows in an established connection is TcpSession's; here it is only
open until one side ends it.

**Establish** - a listener, any number of connectors and the kernel between them:
queue limit, refusal, reset at any time.  AcceptLoop and DialLoop are the
reactor threads, WaitingCall a thread in Connect.

**CircularQueue, SList, SVector** - the containers as the code represents them:
indices modulo `_cap` with one free slot; nodes in a memory with `_head`, `_tail`
and a count; an array with the `_cap` it was made with (which svector never
raises).  Contents and Values are the sequences they stand for.

**Coroutine** - one thread in coroutine mode.  A *job* is a task or a routine; what
is on a coroutine's stack is the job whose frames are there (`inside`), and a
wrapper in a frame that is gone is `Dangling`: if it is read, the model goes on
with anything.  Jobs wait by giving their id away (GiveId) and yielding, two
steps, so that a waker may be early.  WakeOwn, WakeOther and WakeAtOnce are
addResume in the thread, addResume by others, and doResume(id); WakeLate is addResume
by another thread after the loop, through the list's tail that clrTask left
behind.  An svector never raises `_cap`, so that it has room for twice that: when one
is pushed over its end (Overrun), the behaviour is undefined and the model takes no
further step.  Nothing is assumed about how many jobs a thread runs in its life.

**JobSchedule** - what that amounts to: jobs that run one at a time, wait, and are
resumed from two queues in order.  No ids, stacks, pool or containers.

**HeartBeat** - times are ages, so that the clock needs no bound; a sweep reads the
clock once and may last into the next second.  It swaps a bucket's lists for
its own (empty) ones, judges, sends keep-alive messages, then notes what is
new and what was received; AckKeepAlive is ScServer's answer at the other end.

**LogRing** - log() under the mutex, the dump thread's steps with and without it,
stop at any time.  `handed` is what was given to logfile::write; what write makes of
it is LogFile's matter, and the ring does not ask.

**LogLine** - how long a line gets: texts that do not fit are cut, numbers are left
out when fewer than 32 bytes remain, the end of line is a text like any other.

**LogFile** - the files by name, what stdio still holds back, roll-over by size and
by day, and which lines were flushed (`sure`).  A name is the day, the process (or
none) and the index, of which the index is lost when the name is too long
(NameRoom); a new file of an old name is empty.  WriteShort is a partial fwrite: the
loop in write goes on with the same data, so that the first lines come twice and
the last ones never.

**Logger** - LogRing's steps with their effect on the file, in a process that may
stop, crash at any step and be started again, with a number that may have been used
before and names that may leave it out (`withpid`, which main.cpp:111 sets to
false).  fopen, fwrite and fflush may fail; `bad` notes the processes they fail in.
Nothing depends on what they return, as in the code.

`*_proofs` hold the theorems; `MC*` give TLC sets for the constants a .cfg
cannot write.

## 3. The runs

States are distinct states; bounds are constants named in each module.

| run | checks | instance | states |
|---|---|---|---|
| `tcp_session` | the socket's InterestAgrees, OneCloseRequest; StreamIntact, BufferPinned, WritingMeansInFlight, DrainedBeforeClose; KeepsReactorProtocol, KeepsPromise | two application threads, acceptor, reactor; messages of 1 and 2 units, up to 3 or 4 units in all, a kernel buffer of 2 units, 2 received chunks, loops that may be gone | 300,612 |
| `tcp_session_live` | DisconnectNotified, CloseCompletes, AllCarried | one application thread, up to 2 or 3 units, 2 chunks, loops that keep serving, fairness | 77,064 |
| `tcp_session_lost_close` | EveryCloseNotified - violated | one unit, no chunks | |
| `io_service` | OneRequest; StartAndStopReturn, CloseServed | two threads, two sockets, three handles, fairness | 410,284 |
| `establish` | OneSessionEach, ListenerArmed, NoticesInOrder; DialAnswered, ConnectedIsServed | two connectors, one of which may use Connect, three sessions, a queue of one, one failing accept, fairness | 286,669 |
| `msg_framing` | ReceivedAsSent, NothingHeldBack | three messages, a maximum body of 2 bytes, reads of up to 5 bytes | 18,413 |
| `http_socket` | ParseResumes, CutAsSent | two messages, four setter calls, two reads | 174,499 |
| `sync_call` | OkMeansDealt, OneOutstanding | three calls, four connections | 34,335 |
| `co_sync_call` | OneWakeUp, OkMeansReplied; AnsweredCallReturns | two calls, three connections, fairness | 39,751 |
| `coroutine` | CoroutinesAccounted, QueuedOnce; KeepsSchedule, WokenRuns | three tasks and a routine, three waits in all, one slot at first (in svectors too), a ring of two ids, fairness | 241,498 |
| `heartbeat` | OnlySilentClosed, SilentIsClosed, AnsweredStaysOpen | a session and a connector in a bucket each, a beat of 5 s, idle time and answer within 1 s | 2,525,986 |
| `logger` | WrittenInOrder, NothingLost, LogsKept; WrittenUndisturbed, Flushed | three nodes of three units, lines of 1 and 2 units, four calls, one in a later process; files of two units, names that have room for two indices, two days, two processes and two numbers for them, one failing call; fairness | 1,068,804 |

What a run shows is in its "about" in `PROJECT.json`; each property is explained
where it is defined.

### Why the bounds are enough

* Session: a partial write needs a buffer larger than the kernel's (3 > 2); the swap
  of the two buffers needs data appended while a write is in flight; a Send that
  races a Close needs two application threads.  All occur.  The theorems of section
  5 remove these bounds for the safety properties.
* Service: a handle given out again needs one handle more than threads, and a
  restart; two sockets show a queue with two entries; two loops are enough for
  a request queued at the other one.
* Framing: three messages with an empty one among them put the end of one
  message, a whole one and the beginning of another in a single read.
* Establish: two connectors compete for a queue of one, so that one waits,
  is refused or comes after the other; a third session is the one that the
  posted accept names while the other two are connected.
* Coroutines: three jobs that wait use up the ring's room for two ids (the third
  resumption is refused); four jobs double the array of slots and leave pooled
  coroutines and free ids for later ones; three waits show a second resumption of
  the same frame.  With VecCap = 1 the third coroutine in the pool is written over
  the end of the svector: the run reaches Overrun.
* Heart beat: a beat of 5 s is more than twice the idle time and the two
  seconds that sweeps may lag, as 30 s and 10 s are; the session and the
  connector are in different buckets, judged in different steps of one sweep.
* Logger: three nodes are the least where the producer is neither at the consumer's
  node nor before it; four calls, with a line of two units to a node, fill the ring,
  overflow it, and wrap round when the first node is given back.  A file of two
  units takes one node of two lines or one long line, so that a write rolls over as
  a rule; the third file has a name that is cut (NameRoom = 2), and a fourth one the
  same.  The second process is started on the same day as the first or on the next,
  with its number in the names or without, and its number is new or that of the
  first: it truncates the other's files, or leaves them alone.  The bound on what
  one fwrite loop takes is two calls that take something (TakenAgain).
* Calls: the third call meets what the first two left behind; four connections
  allow an attempt on a fresh one after three failures.  Clients of the
  blocking kind share nothing but the server's handler, hence one is checked.
* HTTP: two messages and two reads give every cut of a message in two, and
  every cut inside the second after the first.

Deadlock is not checked (CHECK_DEADLOCK FALSE) where the bounds or the end of
the connection stop a model; where it is left on, the peer or the application
can always act.

### Fairness

Threads are scheduled: each thread's next step, once begun, is weakly fair.
The actions of the application (Send, Close, Start, Stop, log), of the peer
(sending, closing, resetting) and every failure are not fair: nobody has to do
them.  The peer's reading is fair in `tcp_session_live`, since AllCarried
and CloseCompletes cannot hold against a peer that stops reading for ever: the
code has no write time-out.  In `establish` the loops, a thread inside Connect and
the kernel's decision on an attempt are fair; the application's calls and
resets are not.  In `coroutine` only doThrResume is fair,
which `_DoRun` calls in every round, and a job that runs ends or waits at last.  No
loop calls doResume() or doTask() - BaseNetIo's run callback is empty - so that the ring and
the queue of tasks are looked at or not, and WokenRuns is about jobs that other
threads wake; nobody has to wake a job.  `heartbeat` has no fairness but its clock
waits: no second passes without a sweep beginning, and with Delay = 1 an answering
server answers, as the thread sleeps 10 ms between sweeps.  The connector is thus
always answered in this run, and only the session can expire; the theorems leave
Delay open.  In `logger` the dump thread runs while the process lives, and wakes up
from its wait after the flush time at the latest; logging, stopping, crashing and
restarting are free.  Weak fairness suffices: a thread that waits
for a mutex is disabled while it waits, but the holders' next steps never wait
for it.  In `co_sync_call` the server either answers or does not; a call whose
request was not answered is excluded from AnsweredCallReturns by the history
variable `missed`,
and so is one that met the race described in section 4.

## 4. Findings

* `tcp_session_lost_close`: a session closed inside OnConnected, before its first
  read was posted, is in no epoll set; its descriptor is closed at once and
  OnDisconnected is never called, which netio.hpp:91 promises.

The models contain the following too, without a run that demonstrates it (the
properties are stated so that they exclude exactly these cases):

* HTTP: the test for a whole message in `_CutMsgPack` (hsocket_impl.hpp:62) holds
  always, so a message that comes in two chunks is handed out in two parts.
  CutAsSent is stated for chunks that end with messages.
* Coroutine calls: `_Reconnect` sets `valid` after Connect and without the mutex
  (synccall_coclient.hpp:111); when OnDisconnected ran in between, the call waits for
  ever.  AnsweredCallReturns excludes it by `missed`.
* Log ring: the dump thread marks a half-full node full when its wait ends
  (logger.hpp:714) and writes it without the mutex; until it gives the node back, the
  producer stands on it and log() discards every line, with "The log buffer is full"
  (logger.hpp:604) on stderr, though all other nodes are free.
* Log lines: a line that fills its 4 KB loses its newline, and numbers near the
  end are left out without a sign.
* Log files: a file is opened with "w+" and thereby emptied.  A process that is started
  under the names of an earlier one of the day empties its files; this happens
  with withpid = false, which the only call in the repository passes
  (main.cpp:111), and when the system gives out a process number again.  LogsKept says
  so: a flushed line stays unless a later process has opened the file.
* Log files: `_logname_` cuts a name after 99 bytes (logger.hpp:49).  With a long path
  the index is lost, and every roll of a process empties the file it has just
  filled (LogsKept excepts cut names).  A file name that is longer still loses the
  process and the day as well; that is not modelled.
* Log files: after a partial fwrite, write goes on without advancing `data`
  (logger.hpp:163-169): the first bytes are written again, the last ones never.  What
  write returns, also when no file is open, is ignored by dump (logger.hpp:723), which
  clears the node.  Order and completeness in LogsKept are stated for processes
  that met no failure.  fopen failing in a roll leaves a null pointer that the next fwrite
  gets (RollCrash).
* Listeners: ListenOne before Start fails but leaves the port open, with nobody
  to accept; a listener whose accept handler gets an error ends for good; a
  failing accept is usually reported as success with an invalid descriptor
  (SO_ERROR is asked instead of errno).
* Connectors: an attempt that fails at once, and Connect without a limit that
  fails, leave their descriptors open; BaseTConnector::Connect returns false with
  START set when the connection is gone before its first read,
  BaseHConnector::Connect true without START and without a read.
* Coroutines: wake-ups by the thread itself beyond the ring's capacity vanish, and those
  in the ring wait for doResume(), which no loop, example or test calls; WokenRuns is
  about the other queue.  clrTask leaves the pool's wrappers and slist's tail
  behind, so that a thread cannot call CoRun a second time, and an addResume that comes
  from another thread after the loop goes behind a freed node (WakeLate).  svector
  never raises `_cap`, so it has room for twice its first capacity only: a thread with
  more than 200 pooled coroutines or free ids writes over its end (Overrun).

Seen while reading: `_Sync` returns -3 where its
documentation says -1 (time-out), and the coroutine variant has no time-out at
all; it also ignores `way`.  A close request queued at a loop that is
being released is deleted, or stays in a queue nobody reads, so that the
descriptor remains open (CloseServed is stated for running loops).  SetSever
and SetDate write the address of their literal.  `_CheckContentLen` copies the digits
of a Content-Length into eleven bytes, however many there are, loses the first one
when no space follows the colon, and uses atoi (httpmsg.hpp:198-225); the model
carries a number, so it says nothing of lines that are not of the form the
library writes.  An epoll_ctl that refuses to modify an attached socket
(epoll_access.hpp:325-330) is left out.  The heart beat's destructor calls Stop, also
after Stop (heartbeat.hpp:69).

## 5. The proofs

Checked by TLAPS, for every value of the constants that the modules'
assumptions allow:

* `TcpSession_proofs`: SocketTyped, SocketInterestAgrees, SocketTypeLoaded,
  SocketCloseSafe, of EpollSocket's SockSpec; SessionTyped, SessionKeepsProtocol,
  SessionStreamIntact, SessionBufferPinned, SessionWriting, SessionDrained,
  SessionOpenWhileFired, SessionKeepsPromise.
* `Connections_proofs`: EstablishInvariant, EstablishOneSessionEach,
  EstablishListenerArmed, EstablishNoticesInOrder; of the heart beat
  HeartInvariant, HeartOnlySilentClosed, HeartSilentIsClosed,
  HeartAnsweredStaysOpen.
* `Logger_proofs`: RingTyped, RingUndisturbed, RingWrittenInOrder, RingNothingLost of
  LogRing's Spec; LoggerWrittenInOrder, LoggerNothingLost, LoggerUndisturbed,
  LoggerInvariant, LoggerLogsKept of LoggerSpec.
* `MsgFraming_proofs`: FramingTyped, FramingRoomLeft, FramingReceivedAsSent,
  FramingNothingHeldBack.
* `Http_proofs`: of the parser ParseGoesOn, MessageParsed; of the socket HttpTypes,
  HttpParseResumes, HttpInvariant, HttpCutAsSent.
* `SyncCall_proofs`: SyncTypeCorrect, SyncOneOutstanding, SyncOkMeansDealt.
* `Coroutine_proofs`: CoroutineInvariant, CoroutineAccounted, CoroutineQueuedOnce,
  CoroutineKeepsSchedule; of a coroutine's calls CoOneWakeUp, CoOkMeansReplied.
* `IoService_proofs`: IoOneRequest.

**Socket.**  None of the properties is inductive.  `SockInv` adds what is true while
a direction is being posted (`PostingInv`: its flag is set and `_type` holds
it alone, whatever else is posted), what a set flag stands for (`PostedInv`) and
when a close request may exist (`RequestInv`).  One step per action.

**Session.**  `SessionInv` is a conjunction of named parts: `TypeOK`; `SockInv`;
`LockInv`, who holds which mutex by the place of each thread; `PlaceInv`, the places
the code lets a thread be in; `ReadInv` and `WriteInv`, which say to whom an
operation object belongs - the thread that loads it, epoll, or the thread that
completes it - because no mutex covers the whole of its life; `DataInv`, where
the accepted units are.  The argument runs in this order: SessionInv makes
every step of the session a step of SockNext or one that leaves the socket
alone (StepKeepsProtocol), so that SockStepInv preserves SockInv; then each
of the other parts is preserved, one lemma each (StepTypeOK, StepLockInv,
StepPlaceInv, StepReadInv, StepWriteInv, StepDataInv), one step per action.
SessionKeepsProtocol is thus a refinement proof, `Spec => SockSpec`, for any
number of threads, messages and sizes.  DataInv rests on four lemmas about
sequences (cutting, swapping, joining, moving to the wire).

SessionKeepsPromise is the refinement `Spec => KeepsPromise`: every step of the
session maps to a step of the abstract Session or leaves it alone.  It needs
facts beyond SessionInv, `NoticeInv`: before OnConnected nobody has begun anything with
the connection, and OnDisconnected is the last callback and finds the flag set to
CLOSE and the descriptor closed.

**Listeners and connectors.**  `EstablishInv` has the types and three parts.  `ListenerInv`
says, for each place of the loop in the listener's completion, whether the
operation is posted, which session it names, and that this session is empty.
`PlacedInv` says that a connection stands in the kernel's queue or in one session,
never in two, and that no session holds one that does not exist.  `ConnectorInv` ties
the connector's flag, its operation and the loop's place to what the application was
told; a connector that is closed while its answer is handled can be closed twice, and
the invariant says which of the two tells.  There is one lemma for each action
(accepting, opening, dialling, answering, ending), and StepConnector for what all
of a connector's steps share.  AcceptLoop takes a session nobody uses: that one
always exists is the pigeonhole lemma SomeUnused, from SessionsAssumption (more
sessions than connectors: the code makes a session for each accept).

**Heart beat.**  Ages instead of times make the bounds inductive.  `EntryInv` says where a
connection is noted (the bucket's list, the thread's own, the map) and that it is
noted at all; `SilenceInv` bounds the silence of what is still open, by the place of
the sweep; `HeardInv` bounds how much older than the last message the noted time may
be, again by the place of the sweep, so that what is judged silent was silent;
`AnswerInv` follows a keep-alive message until its answer is noted.
HeartAnsweredStaysOpen has the hypothesis AnswersInTime, Idle + Delay + 3 <= Beat.
The bound is exact (with one second less TLC finds a connection that is closed), and
for the code's 10 and 30 seconds it leaves a server 17 seconds to answer.

**Ring.**  `RingInv` adds to the types that the node the dump thread has chosen is
marked full; a call of log() leaves full nodes alone (LogKeepsFull), hence
the node being written.  `OrderInv` is the order of the lines.  Seen from the
consumer's node (`Dist`) the ring is a row of full nodes, then at most one node being
filled, then empty ones (`RowInv`); a producer on a full node is on the consumer's;
what a node holds is numbered without a gap and goes on in the next node
(`LinesInv`); the row starts where the lines handed over, and those on the console one
step later, end (`HandedInv`).  A line is appended either to the node being filled
(ProducerFills) or to the free one after it (NextFills), and both places continue
the numbering (AppendKeepsLines); giving a node back makes it the last of the
row (DistMoves, ReleaseKeepsOrder).

**Logger.**  OrderInv is said of a process that lives; `ProcessInv` adds what
remains of the ring when it has ended in the middle of a step, and a restart is a
new Init (OrderAgain), so that the three properties of the ring hold of LoggerSpec
too.  They speak of what is handed over.  For the files `LoggerInv` adds that a name
this process has used carries an index it has given already, unless it is cut, and
that nothing was flushed to a file by a later process than the one that opened it
last (`NamesInv`); that what is in the open file followed by what stdio still holds
back is of this process and of lines that were handed over, in order if nothing has
failed (`OpenInv`); and that the file is open if nothing has failed (`StaysOpen`).
A roll opens a file that the process has not opened before or one whose name is cut
(RollFileKeeps); what a later process empties is excepted by `opener`.  The step
that needs both halves is DumpWriteKeeps: by OrderInv the node being written begins
right after the last line handed over, so that what is put behind it stays in order,
whether the file is rolled over first or not (LinesBehind, WriteLinesKeeps), and
nothing between is missing, which is the second half of LogsKept (LogsWritten).
Neither the process number in the names nor its being new is assumed.

**Framing.**  `FramingInv`: what is kept of a header or body is shorter than the
whole, and the announced size is within the limit: the unsigned
subtractions in `_CutMsgPack` cannot wrap.  `DeliveryInv` adds where everything
stands in the byte stream: each message behind its size, where `ends` says
(`StreamInv`), and the bytes the reader holds - kept ones, then the rest of the chunk -
right before the next one recv returns, beginning at the header or the body of the
next message to deliver (`ReaderInv`).  What the peer adds leaves all of it alone
(StreamGrows); a header read there is that message's own (ReadHeaderInv), so that
what is delivered equals it byte by byte (DeliverInv).

**Blocking calls.**  `SyncInv`: a connection's number is used once and a readable reply is
of the open connection (`ConnInv`); a request's number is unique and its message in
the wire or answered, not both (`NumberInv`); the awaited number is the current call's
and only dealt requests are answered (`CallInv`); a call has two attempts, and a
failed one left its code (`AttemptInv`).  Every failure ends in Fail, which closes
the connection (lemma SyncFail), so that no reply of an earlier attempt is read.

**Coroutine calls.**  `CoSyncInv`: a coroutine's id stands only in the info of the
connection of its attempt, only while it waits, and then either there or once in the
queue (`WakeUpInv`); a number is used once (`NumberInv`); attempts as above.
WakeUpMeansOne turns this into the cardinality OneWakeUp speaks of.

**Coroutines.**  `CoInv` is about the queues and the coroutines together, because each
rests on the other: an id left in a queue would resume a pooled coroutine, which
takes whatever its wrapper points to, and a coroutine pooled too early would still
be woken.  `IdInv` says of every id where it is (free, pooled or with a job on its
stack) and which status belongs to that place, `JobInv` of every job that it is in one
coroutine from its start to its end; `CountInv` that there are no more coroutines
than jobs (a new one is made only when the pool is empty), so that there is an
id for each.  The svectors are not assumed to have room: an action is enabled only as
long as none was pushed over its end, and its last step may be the one that does it.
`ChainsInv` says that the list and the taken list are chains
of distinct nodes in the memory, without a common one: so PushBack, PopFront and
Join do to Values what Append, Tail and concatenation do to sequences (lemmas
ChainPush, ChainPop, QueueTaken, QueuePushed, QueuePopped), as RingPush and RingPop show of
the ring with its indices modulo `_cap`.  `QueueInv` then says that no id is queued twice,
and that each is that of a job that waits and is owed no other wake-up.
For KeepsSchedule, `View` says what a job can see of all this (its state and the
queues as queues of jobs); each action is shown to be the step of JobSchedule
(Follow... lemmas) or to leave the view alone: AddTask, Create and GiveId do, and
WakeOwn with a full ring.  After the loop only late
wakers act, and no job is seen to move (EndedStays).

**Reactor threads.**  `CloseInv`: queues and lists hold each closing socket in one
place only, and its handler was called at most once; RequestsOfOnePlace derives
OneRequest.  Nothing about handles or threads is needed.

**HTTP, the parser.**  Parse is a recursive function of the number of rounds; TLAPS
must be told that it exists (RoundsExist), and then every fact about Parse is one
about its rounds.  A round that is not the last takes something off the chunk or
ends the message (RoundProgress), so that Parse ends where no round can go on
(ParseEnds).  A round on a chunk and on a longer one does the same and leaves more,
or leaves nothing and the next round goes on with what it was short of
(RoundResumes, with a lemma for each parse function; the CR that ends a chunk is
the case that needs `_assistflag`).  By induction over the length of what is left,
ParseGoesOn: from any state the parser can be in, parsing what there is and then
what comes is parsing both.  Such an induction is over a set of naturals
(EveryNat), the statement being an ordinary formula, so it needs none of the
library's theorems about operators.

**HTTP, the message.**  MessageParsed: Parse on a cleared message and the bytes of a
well-formed one (WellFormed: no space in the first two parts, no CR LF in a line, no
empty header, the body as long as the first Content-Length says) gives that
message and leaves what follows, whatever follows.  One lemma for each piece
(PartGoes, Part3Goes, HeaderGoes, LastHeaderGoes, NoBodyGoes, SomeBodyGoes) says
what the message has become and what it holds; AtPart, AtHeader and AtBody are the
places in between.

**HTTP, the socket.**  `HttpInv` has the types and three parts.  `BuiltAsMeant`: as long
as the setters are called in the usual order, the buffer of the response is the
first parts of its first line and then its headers (`Open`), or a whole well-formed
message (`Closed`).  `StreamAsSent`: the stream is the messages sent, each where `ends`
says.  `ReceivedAsSent`: with aligned chunks, for some n the first n messages are
received and what is left of the chunk is the stream from the end of the n-th to
what was taken.  The step that cuts a message is then MessageParsed, and
CutAsSent is the case of an empty chunk.  ReceivedAsSent is needed because CutAsSent
says nothing while a chunk is being cut.

Assumptions: NoThreadAssumption and ThreadsAssumption (threads are distinct and are
not the free mutex), SizesAssumption and MsgsAssumption (messages are not empty: a
message has a header), RingAssumption (a line fits in a node: log_stream cuts it at
4 KB and a node holds 4 MB), FileAssumption (a file may grow to some positive size
before it rolls, and NameRoom is a number), FramingAssumption (the peer's messages
fit in the header's size field), SessionsAssumption (Establish: more sessions than
connectors), JobsAssumption (Coroutine: jobs are finitely many), CapsAssumption
(Coroutine: first capacities are positive), AddressesAssumption (nodes have
addresses other than null), BeatAssumption (HeartBeat: the times are numbers, each
connection has a bucket), StatementsAssumption (Logger: the ring's line lengths are
those of the statements), BoundsAssumption of SyncCall and of CoSyncCall (the bounds
are numbers), TextsAssumption (HttpMsg: the words the library writes are among the
texts), KindsAssumption, RequestsAssumption, BodiesAssumption and PhraseAssumption
(HttpSocket: these are what their names say, and a status phrase has no CR LF;
SetStatusPhrase does not check it, and with one the response would have another
form).

SessionTyped, SocketTypeLoaded, RingTyped, FramingTyped, FramingRoomLeft and
SyncTypeCorrect prove properties that no run repeats, being parts of what the others
rest on.

Model-checked only: all liveness (out of the prover's reach), and the findings.  Every
invariant and every action property of the passing runs is stated by a theorem.

## 6. Plan

1. Done: socket, session, service, framing, ring, HTTP, calls; listeners and
   connectors; coroutines with their containers; heart beat; the logger's lines
   and files.
2. Done: proofs of every safety property the runs check.
3. Models that remain: the event records of epoll_wait in coroutine mode
   (epoll_access.hpp:186), the composition of `CoSyncCall` with `Coroutine`, the
   reply of a call split into several reads.

## 7. What is left out of the models

Object lifetimes (shared pointers; a read left posted when the application closes
keeps its session alive), the contents of messages, socket options and user
data of sessions, the wording of log lines, time (a time-out is a step that may
happen) except in HeartBeat, memory allocation, and errors the system calls can
report beyond "failed".  A call's reply is not followed beyond its return (the
pointer leads into a buffer that OnDisconnected clears).  Calls in an order that
leaves no object to speak of - a second Stop of the heart beat, OnConnected
before its Start, CoRun twice in a thread - are not modelled, nor what follows
them.  The containers' operations that no modelled code calls (pop_back, insert,
erase) are left out.  What the kernel does
(what epoll_wait reports, what send and recv take) is modelled from how the
code uses it.
