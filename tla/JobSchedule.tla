---------------------------- MODULE JobSchedule ----------------------------
(***************************************************************************)
(* What a thread in coroutine mode promises to the jobs it is given: at    *)
(* most one runs at a time, a job that waits goes on only after it was     *)
(* woken, and jobs are resumed in the order in which they were woken, each *)
(* in the queue its waker chose.  There are no coroutines, ids or stacks   *)
(* here.  Module Coroutine implements this.                                *)
(***************************************************************************)
EXTENDS Naturals, Sequences

CONSTANT Jobs

VARIABLES
  state,    \* of each job: "new", "running", "waiting", "woken", "done", "gone"
  own,      \* jobs woken in the thread itself, first woken first
  other,    \* jobs woken by other threads
  batch     \* those of them the thread has taken to be resumed

jobVars == <<state, own, other, batch>>

JobInit ==
  /\ state = [j \in Jobs |-> "new"] /\ own = <<>> /\ other = <<>> /\ batch = <<>>

NoneRuns == \A j \in Jobs : state[j] # "running"
Becomes(j, s) == state' = [state EXCEPT ![j] = s]

Begin(j) ==
  /\ state[j] = "new" /\ NoneRuns
  /\ Becomes(j, "running") /\ UNCHANGED <<own, other, batch>>

InQueue(j) == \E q \in {own, other, batch} : \E i \in 1..Len(q) : q[i] = j

\* A running job waits (it may have been woken before it got so far) ...
Wait(j) ==
  /\ state[j] = "running"
  /\ Becomes(j, IF InQueue(j) THEN "woken" ELSE "waiting")
  /\ UNCHANGED <<own, other, batch>>

\* ... or is done.
End(j) ==
  /\ state[j] = "running" /\ ~InQueue(j)
  /\ Becomes(j, "done") /\ UNCHANGED <<own, other, batch>>

\* Wake a job that waits, or that runs and is about to wait; the thread's own
\* queue has a limit, beyond which the wake-up is lost.
Woken(j) == state' = [state EXCEPT ![j] = IF @ = "waiting" THEN "woken" ELSE @]
WakeOwn(j) ==
  /\ state[j] \in {"waiting", "running"} /\ ~InQueue(j)
  /\ own' = Append(own, j) /\ Woken(j) /\ UNCHANGED <<other, batch>>
WakeOther(j) ==
  /\ state[j] \in {"waiting", "running"} /\ ~InQueue(j)
  /\ other' = Append(other, j) /\ Woken(j) /\ UNCHANGED <<own, batch>>

Take ==
  /\ batch = <<>> /\ batch' = other /\ other' = <<>> /\ UNCHANGED <<state, own>>

Resume(j) ==
  /\ state[j] = "woken" /\ NoneRuns
  /\ Becomes(j, "running")
  /\ \/ own # <<>> /\ j = Head(own) /\ own' = Tail(own) /\ UNCHANGED <<other, batch>>
     \/ batch # <<>> /\ j = Head(batch) /\ batch' = Tail(batch) /\ UNCHANGED <<own, other>>

\* A job may also be resumed directly, without a queue.
ResumeAtOnce(j) ==
  /\ state[j] = "waiting" /\ NoneRuns
  /\ Becomes(j, "running") /\ UNCHANGED <<own, other, batch>>

\* The thread leaves its loop: what has not ended never will.
Abandon ==
  /\ NoneRuns /\ batch = <<>>
  /\ state' = [j \in Jobs |-> IF state[j] = "done" THEN "done" ELSE "gone"]
  /\ own' = <<>> /\ other' = <<>> /\ UNCHANGED batch

JobNext ==
  \/ \E j \in Jobs : \/ Begin(j) \/ Wait(j) \/ End(j) \/ WakeOwn(j) \/ WakeOther(j)
                     \/ Resume(j) \/ ResumeAtOnce(j)
  \/ Take \/ Abandon

JobSpec == JobInit /\ [][JobNext]_jobVars
=============================================================================
