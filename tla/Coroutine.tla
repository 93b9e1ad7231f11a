----------------------------- MODULE Coroutine -----------------------------
(***************************************************************************)
(* A thread in coroutine mode (CoRun): the coroutines of its _schedule_,   *)
(* and CoroutineTask, which runs each event or task in a pooled coroutine, *)
(* so that its handler may yield, and resumes those that were woken - by   *)
(* the thread itself, through a ring of ids, or by other threads, through  *)
(* a list under a mutex.                                                   *)
(*                                                                         *)
(* What is run is a job: a task (doTask, addTask) or a routine that was    *)
(* given a coroutine of its own (Coroutine::create).  A job that waits     *)
(* leaves its coroutine's id with somebody, who wakes it once; the waker   *)
(* may be early and wake it before it has yielded.                         *)
(***************************************************************************)
EXTENDS CircularQueue, SList, SVector

CONSTANTS
  Tasks, Routines,   \* the jobs
  NoJob, Dangling,   \* no job; a pointer into a frame that is gone
  DefaultCap,        \* DEFAULT_COROUTINE
  RingCap,           \* slots of the ring of ids
  VecCap,            \* first capacity of an svector (100)
  MaxWaits           \* bound: waits of all jobs together

Jobs == Tasks \cup Routines
Ids  == 0..(Cardinality(Jobs) - 1)
None == -1

ASSUME JobsAssumption ==
  /\ Tasks \cap Routines = {} /\ NoJob \notin Jobs /\ Dangling \notin Jobs \cup {NoJob}
  /\ IsFiniteSet(Jobs)
ASSUME CapsAssumption ==
  DefaultCap \in Nat \ {0} /\ RingCap \in Nat /\ VecCap \in Nat \ {0} /\ MaxWaits \in Nat

VARIABLES
  \* _schedule_
  cap, nco, freeid,  \* slots of _co, ids given out so far, ids given back
  status,            \* of each id: "none", "ready", "running", "suspend"
  curco,             \* _curco
  \* CoroutineTask
  loops,             \* ids whose function is _co_task_func_ (gallcolist)
  wtask,             \* of each such id: wrapper->task
  pool,              \* gfreecovec
  workq,             \* gworktasklist
  ring,              \* gresumetaskque
  mem, list, tmp,    \* the thread's list in _queue_map, and doThrResume's own
  \* the jobs
  inside,            \* of each id: the job on its stack
  job,               \* of each job: "new", "queued", "running", "waiting", "done"
  owed,              \* jobs that gave their id away and were not woken yet
  waits,             \* bound: waits so far
  ended              \* CoRun is over

schedVars == <<cap, nco, freeid, status, curco>>
poolVars  == <<loops, wtask, pool, workq>>
wakeVars  == <<ring, mem, list, tmp>>
jobVars   == <<inside, job, owed, waits>>
threadVars == <<schedVars, poolVars, wakeVars, jobVars, ended>>

\* An svector with more elements than it has slots: one was written behind the
\* end of the array.  What the program does then is undefined, so that the
\* model takes no further step.
Overrun == ~SvInBounds(freeid) \/ ~SvInBounds(pool)

CoInit ==
  /\ cap = DefaultCap /\ nco = 0 /\ freeid = SvNew(VecCap)
  /\ status = [id \in Ids |-> "none"] /\ curco = None
  /\ loops = {} /\ wtask = [id \in Ids |-> NoJob] /\ pool = SvNew(VecCap) /\ workq = <<>>
  /\ ring = CqNew(RingCap) /\ mem = NewMemory /\ list = NewList /\ tmp = NewList
  /\ inside = [id \in Ids |-> NoJob] /\ job = [j \in Jobs |-> "new"]
  /\ owed = {} /\ waits = 0
  /\ ended = FALSE

-----------------------------------------------------------------------------
(* The coroutines.                                                         *)

\* _alloc_co_: an id that was given back, or the next one, for which _co is
\* doubled if it is full.
NewId == IF SvEmpty(freeid) THEN nco ELSE SvBack(freeid)
AllocKeepsFreeId ==
  IF SvEmpty(freeid)
    THEN /\ nco' = nco + 1
         /\ cap' = IF nco >= cap THEN 2 * cap ELSE cap
         /\ UNCHANGED freeid
    ELSE UNCHANGED <<nco, cap, freeid>>
AllocId ==
  IF SvEmpty(freeid)
    THEN /\ nco' = nco + 1
         /\ cap' = IF nco >= cap THEN 2 * cap ELSE cap
         /\ UNCHANGED freeid
    ELSE freeid' = SvPopBack(freeid) /\ UNCHANGED <<nco, cap>>

\* resume, for an id with status st: the coroutine goes on, or nothing happens.
Resumable(id, st) == curco = None /\ id \in 0..(cap' - 1) /\ st \in {"ready", "suspend"}

\* A resumed coroutine goes on with the job on its stack, or, at the top of
\* _co_task_func_'s loop, takes the one that wrapper->task (now wt) points to:
\* anything may be found there if the frame is gone.
NextJobs(id, wt) ==
  IF inside[id] # NoJob THEN {inside[id]}
  ELSE IF wt = Dangling THEN Jobs ELSE {wt}

ResumeCo(id, wt, st) ==
  IF Resumable(id, st)
    THEN /\ curco' = id
         /\ status' = [status EXCEPT ![id] = "running"]
         /\ \E j \in NextJobs(id, wt) :
              /\ inside' = [inside EXCEPT ![id] = j]
              /\ job' = [job EXCEPT ![j] = "running"]
    ELSE UNCHANGED <<curco, status, inside, job>>
ResumeId(id) == ResumeCo(id, wtask[id], status[id])

Running(j) == curco # None /\ inside[curco] = j /\ job[j] \in {"running", "waiting"}

\* Back in the thread's own stack: the frame of doTask goes away.
SwitchBack == curco' = None /\ wtask' = [wtask EXCEPT ![curco] = Dangling]

-----------------------------------------------------------------------------
(* The reactor loop, while no coroutine runs.                              *)

InLoop == curco = None /\ ~ended
Idle   == InLoop /\ tmp.count = 0

\* _get_co_task_wrapper and resume: a pooled coroutine, or a new one.
StartTask(j) ==
  IF SvEmpty(pool)
    THEN /\ AllocId
         /\ loops' = loops \cup {NewId} /\ UNCHANGED pool
         /\ wtask' = [wtask EXCEPT ![NewId] = j]
         /\ ResumeCo(NewId, j, "ready")
    ELSE /\ pool' = SvPopBack(pool)
         /\ UNCHANGED <<cap, nco, freeid, loops>>
         /\ wtask' = [wtask EXCEPT ![SvBack(pool)] = j]
         /\ ResumeCo(SvBack(pool), j, status[SvBack(pool)])

\* doTask(func, p).
DoTask(j) ==
  /\ Idle /\ job[j] = "new"
  /\ StartTask(j)
  /\ UNCHANGED <<workq, wakeVars, owed, waits, ended>>

\* What epoll reported is completed in a coroutine (_ExecOp): here the task
\* stands for the operations of the event and their handlers.
ExecOp(j) == DoTask(j)

\* doTask(): the first of the queued tasks, if there is one (_get_task).
GetTask(j) == workq # <<>> /\ j = Head(workq) /\ workq' = Tail(workq)
DoQueuedTask ==
  /\ Idle
  /\ \E j \in Tasks : GetTask(j) /\ StartTask(j)
  /\ UNCHANGED <<wakeVars, owed, waits, ended>>

\* doResume(): the first id of the ring.
DoResumeKeepsId ==
  /\ Idle /\ ~CqEmpty(ring)
  /\ cap' = cap /\ ResumeId(CqFront(ring))
  /\ UNCHANGED <<nco, freeid, poolVars, wakeVars, owed, waits, ended>>
DoResume ==
  /\ Idle /\ ~CqEmpty(ring)
  /\ ring' = CqPopFront(ring)
  /\ cap' = cap /\ ResumeId(CqFront(ring))
  /\ UNCHANGED <<nco, freeid, poolVars, mem, list, tmp, owed, waits, ended>>

\* doThrResume: the list is taken as a whole ...
TakeList ==
  /\ Idle /\ list.count > 0
  /\ LET r == Join(mem, tmp, list)
     IN  mem' = r.mem /\ tmp' = r.list /\ list' = r.rest
  /\ UNCHANGED <<schedVars, poolVars, ring, jobVars, ended>>

\* ... and its ids are resumed one by one.
ResumeOneOfThem ==
  /\ InLoop /\ tmp.count > 0
  /\ mem' = PopFront(mem, tmp).mem /\ tmp' = NewList
  /\ cap' = cap /\ ResumeId(Front(mem, tmp))
  /\ UNCHANGED <<nco, freeid, poolVars, ring, list, owed, waits, ended>>
ResumeTaken ==
  /\ InLoop /\ tmp.count > 0
  /\ LET r == PopFront(mem, tmp)
     IN  mem' = r.mem /\ tmp' = r.list
  /\ cap' = cap /\ ResumeId(Front(mem, tmp))
  /\ UNCHANGED <<nco, freeid, poolVars, ring, list, owed, waits, ended>>

-----------------------------------------------------------------------------
(* What a job does while it runs, or the run callback in the loop.         *)

Own == ~ended /\ (curco # None \/ Idle)

\* addTask
AddTask(j) ==
  /\ Own /\ j \in Tasks /\ job[j] = "new"
  /\ job' = [job EXCEPT ![j] = "queued"]
  /\ workq' = Append(workq, j)
  /\ UNCHANGED <<schedVars, loops, wtask, pool, wakeVars, inside, owed, waits, ended>>

\* Coroutine::create
Create(j) ==
  /\ Own /\ j \in Routines /\ job[j] = "new"
  /\ AllocId
  /\ status' = [status EXCEPT ![NewId] = "ready"]
  /\ inside' = [inside EXCEPT ![NewId] = j]
  /\ job' = [job EXCEPT ![j] = "queued"]
  /\ UNCHANGED <<curco, poolVars, wakeVars, owed, waits, ended>>

\* Coroutine::resume of a coroutine that was not started yet.
StartRoutine(id) ==
  /\ Idle /\ status[id] = "ready"
  /\ cap' = cap /\ ResumeId(id)
  /\ UNCHANGED <<nco, freeid, poolVars, wakeVars, owed, waits, ended>>

\* The running job gives its coroutine's id (curid) to somebody ...
GiveId ==
  LET j == inside[curco]
  IN /\ curco # None /\ job[j] = "running" /\ waits < MaxWaits
     /\ job' = [job EXCEPT ![j] = "waiting"]
     /\ owed' = owed \cup {j} /\ waits' = waits + 1
     /\ UNCHANGED <<schedVars, poolVars, wakeVars, inside, ended>>

\* ... and yields.
Yield ==
  /\ curco # None /\ job[inside[curco]] = "waiting"
  /\ status' = [status EXCEPT ![curco] = "suspend"]
  /\ SwitchBack
  /\ UNCHANGED <<cap, nco, freeid, loops, pool, workq, wakeVars, jobVars, ended>>

\* A task returns to _co_task_func_, which pools its coroutine and yields.
TaskEnds ==
  LET j == inside[curco]
  IN /\ curco \in loops /\ job[j] = "running"
     /\ job' = [job EXCEPT ![j] = "done"] /\ inside' = [inside EXCEPT ![curco] = NoJob]
     /\ pool' = SvPushBack(pool, curco)
     /\ status' = [status EXCEPT ![curco] = "suspend"]
     /\ SwitchBack
     /\ UNCHANGED <<cap, nco, freeid, loops, workq, wakeVars, owed, waits, ended>>

\* A routine returns: COROUTINE_DEAD, and resume gives its id back.
RoutineEnds ==
  LET j == inside[curco]
  IN /\ curco # None /\ curco \notin loops /\ job[j] = "running"
     /\ job' = [job EXCEPT ![j] = "done"] /\ inside' = [inside EXCEPT ![curco] = NoJob]
     /\ status' = [status EXCEPT ![curco] = "none"]
     /\ freeid' = SvPushBack(freeid, curco)
     /\ SwitchBack
     /\ UNCHANGED <<cap, nco, loops, pool, workq, wakeVars, owed, waits, ended>>

-----------------------------------------------------------------------------
(* Wakers.                                                                 *)

IdOf(j) == CHOOSE id \in Ids : inside[id] = j

\* addResume(id), in the thread itself; nobody looks whether the ring took it.
WakeOwn(j) ==
  /\ Own /\ j \in owed /\ owed' = owed \ {j}
  /\ ring' = CqPushBack(ring, IdOf(j))
  /\ UNCHANGED <<schedVars, poolVars, mem, list, tmp, inside, job, waits, ended>>

\* addResume(thrid, id), in any other thread.
WakeOther(j) ==
  /\ ~ended /\ j \in owed /\ owed' = owed \ {j} /\ CanPush(mem)
  /\ LET r == PushBack(mem, list, IdOf(j))
     IN  mem' = r.mem /\ list' = r.list
  /\ UNCHANGED <<schedVars, poolVars, ring, tmp, inside, job, waits, ended>>

\* The same after CoRun: _queue_map still has the list, and the node goes behind
\* the one that clrTask freed (and whose place it may get itself), with the id
\* the job gave away.
WakeLate(j) ==
  /\ ended /\ j \in owed /\ owed' = owed \ {j} /\ CanPush(mem)
  /\ \E id \in Ids :
       LET r == PushBack(mem, list, id)
       IN  mem' = r.mem /\ list' = r.list
  /\ UNCHANGED <<schedVars, poolVars, ring, tmp, inside, job, waits, ended>>

\* doResume(id), in the loop.
WakeAtOnce(j) ==
  /\ Idle /\ j \in owed /\ owed' = owed \ {j}
  /\ cap' = cap /\ ResumeId(IdOf(j))
  /\ UNCHANGED <<nco, freeid, poolVars, wakeVars, waits, ended>>

\* clrTask destroys the pooled and the suspended coroutines of tasks, whatever
\* is on their stacks, and empties the queues.  The pool of wrappers is not
\* emptied, and the list's tail stays behind.
ClrTask ==
  /\ loops' = {} /\ workq' = <<>>
  /\ ring' = CqClear(ring)
  /\ LET r == Clear(mem, list)
     IN  mem' = r.mem /\ list' = r.list
  /\ UNCHANGED <<wtask, pool, tmp>>

\* close destroys the others and forgets the ids.
CloseSchedule ==
  /\ status' = [id \in Ids |-> "none"] /\ inside' = [id \in Ids |-> NoJob]
  /\ freeid' = SvClear(freeid) /\ nco' = 0 /\ cap' = 0
  /\ UNCHANGED curco

\* The loop ends: CoRun.  Other threads may have ids of its coroutines still.
CoRunEnds ==
  /\ Idle /\ ClrTask /\ CloseSchedule
  /\ ended' = TRUE
  /\ UNCHANGED <<job, owed, waits>>

Loop ==
  \/ DoQueuedTask \/ DoResume \/ TakeList \/ ResumeTaken
  \/ \E id \in Ids : StartRoutine(id)

JobSteps == GiveId \/ Yield \/ TaskEnds \/ RoutineEnds

CoNext ==
  /\ ~Overrun
  /\ \/ Loop \/ JobSteps \/ CoRunEnds
     \/ \E j \in Tasks : ExecOp(j) \/ AddTask(j)
     \/ \E j \in Routines : Create(j)
     \/ \E j \in Jobs : WakeOwn(j) \/ WakeOther(j) \/ WakeLate(j) \/ WakeAtOnce(j)

CoSpec == CoInit /\ [][CoNext]_threadVars

\* _DoRun calls doThrResume in every round, and a job that runs comes to an end
\* or waits.  Nobody has to call doResume() or doTask(): they are there for a run
\* callback, and that of BaseNetIo is empty.
CoFairness ==
  /\ WF_threadVars(~Overrun /\ TakeList) /\ WF_threadVars(~Overrun /\ ResumeTaken)
  /\ WF_threadVars(~Overrun /\ JobSteps)

CoFairSpec == CoSpec /\ CoFairness

-----------------------------------------------------------------------------
(* Properties *)

SeqRange(s) == {s[i] : i \in 1..Len(s)}
Distinct(s) == \A i, j \in 1..Len(s) : s[i] = s[j] => i = j

\* Every id ever given out is accounted for: it is free, or pooled, or has a
\* job on its stack; it is so once, and no job is on two stacks.  An id that
\* were pooled or given back twice would let two jobs share a stack.  That the
\* arrays have room for the ids is not said: svector does not see to it (Overrun).
CoroutinesAccounted ==
  ~ended =>
    LET free == SeqRange(freeid.elem)
        idle == SeqRange(pool.elem)
        busy == {id \in Ids : inside[id] # NoJob}
    IN  /\ Distinct(freeid.elem) /\ Distinct(pool.elem)
        /\ free \cup idle \cup busy = 0..(nco - 1)
        /\ free \cap idle = {} /\ busy \cap (free \cup idle) = {}
        /\ \A a, b \in busy : inside[a] = inside[b] => a = b
        /\ \A id \in Ids : status[id] = "none" <=> id \notin idle \cup busy
        /\ nco <= cap

\* The ids that wait to be resumed, in all queues.
Queued == Contents(ring) \o Values(mem, tmp) \o Values(mem, list)

\* Every queued id is that of a coroutine with a job that waits, once: no
\* resumption is left over for a coroutine that has gone back to the pool,
\* whose wrapper points into a dead frame, or whose id has a new owner.
QueuedOnce ==
  ~ended =>
    /\ Distinct(Queued)
    /\ \A id \in SeqRange(Queued) :
         inside[id] # NoJob /\ job[inside[id]] = "waiting" /\ inside[id] \notin owed

\* The thread keeps its promise (module JobSchedule).
JobsOf(ids) == [i \in 1..Len(ids) |-> inside[ids[i]]]
JobState(j) ==
  IF job[j] = "done" THEN "done"
  ELSE IF ended THEN "gone"
  ELSE IF job[j] \in {"new", "queued"} THEN "new"
  ELSE IF Running(j) THEN "running"
  ELSE IF j \in SeqRange(JobsOf(Queued)) THEN "woken" ELSE "waiting"

JobStates == [j \in Jobs |-> JobState(j)]
OwnJobs   == JobsOf(Contents(ring))
OtherJobs == IF ended THEN <<>> ELSE JobsOf(Values(mem, list))
BatchJobs == JobsOf(Values(mem, tmp))

Schedule == INSTANCE JobSchedule WITH
  state <- JobStates, own <- OwnJobs, other <- OtherJobs, batch <- BatchJobs

KeepsSchedule == Schedule!JobSpec

\* A job that another thread has woken runs again, whether it had yielded by
\* then or not, and whatever else the loop has to do, unless the loop ends
\* (doThrResume).  The ring of the thread's own wake-ups is no part of it: it may
\* refuse an id, and no loop empties it.
WokenRuns ==
  \A j \in Jobs :
    j \in SeqRange(OtherJobs \o BatchJobs) ~> job[j] # "waiting" \/ ended \/ Overrun

-----------------------------------------------------------------------------
(* The inductive invariant.  What is said of the coroutines rests on what  *)
(* is said of the queues, and the other way round: an id left in a queue   *)
(* would resume a pooled coroutine, which would take the job its wrapper   *)
(* points to.                                                              *)

\* What push_back leaves of an svector: it never gets more than 2 * VecCap slots.
VectorOK(v) ==
  /\ v \in [cap : {VecCap}, alloc : {VecCap, 2 * VecCap}, elem : Seq(Ids)]
  /\ Len(v.elem) > VecCap => v.alloc = 2 * VecCap

Lists  == [head : Nat, tail : Nat, count : Nat]
Memory == [Addresses -> [used : BOOLEAN, val : Int, next : Nat]]

SchedTypeOK ==
  /\ cap \in Nat \ {0} /\ nco \in Nat /\ VectorOK(freeid) /\ VectorOK(pool)
  /\ status \in [Ids -> {"none", "ready", "running", "suspend"}]
  /\ curco \in Ids \cup {None} /\ loops \subseteq Ids
  /\ wtask \in [Ids -> Jobs \cup {NoJob, Dangling}] /\ workq \in Seq(Tasks)
  /\ inside \in [Ids -> Jobs \cup {NoJob}]
  /\ job \in [Jobs -> {"new", "queued", "running", "waiting", "done"}]
  /\ owed \subseteq Jobs
QueueTypeOK ==
  ring \in Rings(RingCap) /\ mem \in Memory /\ list \in Lists /\ tmp \in Lists

FreeId(id) == id \in SeqRange(freeid.elem)
Pooled(id) == id \in SeqRange(pool.elem)
Busy(id)   == inside[id] # NoJob

\* Where an id is, and what its status is there.
IdInv(id) ==
  /\ id < nco <=> FreeId(id) \/ Pooled(id) \/ Busy(id)
  /\ ~(FreeId(id) /\ Pooled(id)) /\ ~(Busy(id) /\ (FreeId(id) \/ Pooled(id)))
  /\ status[id] = "none" <=> ~Pooled(id) /\ ~Busy(id)
  /\ status[id] = "running" <=> id = curco
  /\ status[id] = "ready" => Busy(id) /\ job[inside[id]] = "queued"
  /\ status[id] = "suspend" /\ Busy(id) => job[inside[id]] = "waiting"
  /\ id = curco => Busy(id) /\ job[inside[id]] \in {"running", "waiting"}
  /\ id \in loops <=> Pooled(id) \/ (Busy(id) /\ inside[id] \in Tasks)

\* A job is in one coroutine from its start, or its creation, to its end.
Placed(j) == \E id \in Ids : inside[id] = j
JobInv(j) ==
  /\ Placed(j) <=> job[j] \in {"running", "waiting"} \/ (job[j] = "queued" /\ j \in Routines)
  /\ j \in owed => job[j] = "waiting"

AccountInv ==
  /\ Distinct(freeid.elem) /\ Distinct(pool.elem) /\ Distinct(workq) /\ nco <= cap
  /\ \A id \in Ids : IdInv(id)
  /\ \A j \in Jobs : JobInv(j)
  /\ \A a, b \in Ids : inside[a] = inside[b] /\ Busy(a) => a = b
  /\ \A i \in 1..Len(workq) : job[workq[i]] = "queued"

\* There are no more coroutines than jobs: a pooled one was made for a task.
Started == {j \in Tasks : job[j] \notin {"new", "queued"}}
Made    == {j \in Routines : job[j] # "new"}
CountInv ==
  Cardinality(loops) <= Cardinality(Started) /\ nco - Cardinality(loops) <= Cardinality(Made)

\* The nodes of the list l, one after the other.
IsChain(m, l, path) ==
  /\ path \in [1..l.count -> Addresses]
  /\ l.head = IF l.count = 0 THEN Null ELSE path[1]
  /\ l.tail = IF l.count = 0 THEN Null ELSE path[l.count]
  /\ \A k \in 1..l.count :
       m[path[k]].used /\ m[path[k]].next = IF k = l.count THEN Null ELSE path[k + 1]
  /\ \A i, k \in 1..l.count : path[i] = path[k] => i = k

\* The two lists are in the memory side by side.
ChainsInv ==
  \E s \in [1..tmp.count -> Addresses], t \in [1..list.count -> Addresses] :
    /\ IsChain(mem, tmp, s) /\ IsChain(mem, list, t)
    /\ \A i \in 1..tmp.count, k \in 1..list.count : s[i] # t[k]

OwnIds   == Contents(ring)
BatchIds == Values(mem, tmp)
OtherIds == Values(mem, list)

\* Whom a queued id wakes.
WokenId(id) ==
  id \in Ids /\ Busy(id) /\ job[inside[id]] = "waiting" /\ inside[id] \notin owed
QueueInv ==
  /\ Distinct(OwnIds) /\ Distinct(BatchIds) /\ Distinct(OtherIds)
  /\ \A id \in SeqRange(OwnIds) : WokenId(id) /\ id \notin SeqRange(BatchIds) \cup SeqRange(OtherIds)
  /\ \A id \in SeqRange(BatchIds) : WokenId(id) /\ id \notin SeqRange(OtherIds)
  /\ \A id \in SeqRange(OtherIds) : WokenId(id)

CoInv ==
  /\ ~ended => SchedTypeOK /\ QueueTypeOK /\ AccountInv /\ CountInv /\ ChainsInv /\ QueueInv
  /\ ended => curco = None /\ loops = {} /\ tmp.count = 0 /\ Contents(ring) = <<>>
=============================================================================
