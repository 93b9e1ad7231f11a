----------------------------- MODULE CoSyncCall -----------------------------
(***************************************************************************)
(* The remote call of a coroutine: CoScClient::_Sync sends the request,    *)
(* leaves its thread and coroutine id in the connection's _CoScInfo_ and   *)
(* yields; ScServer's callbacks of the connection, OnReceiveData and       *)
(* OnDisconnected, take the id and queue the coroutine for its thread,     *)
(* whose reactor loop resumes it (CoroutineTask::doThrResume).             *)
(*                                                                         *)
(* The callbacks run in the reactor thread the connection was given to,    *)
(* the coroutine's own ("near") or another.  In the coroutine's thread     *)
(* they run only while it is parked.  They are called one at a time, and   *)
(* OnDisconnected last (module Session).  OnReceiveData's unlocked steps   *)
(* are one action: between them the coroutine is parked and the            *)
(* connection's other callback cannot run.                                 *)
(***************************************************************************)
EXTENDS Integers, Sequences, FiniteSets

CONSTANTS
  MaxCalls,    \* bound: calls the coroutine makes
  MaxConns,    \* bound: connections it opens
  MaySilent    \* the server may leave a request without an answer

ASSUME BoundsAssumption == MaxCalls \in Nat /\ MaxConns \in Nat

Conns == 1..MaxConns
NoReply == [idx |-> 0, call |-> 0]   \* an empty buffer: _CheckReply reads 0

VARIABLES
  \* the coroutine
  pc,       \* "idle", in a step of _Sync, or "parked" in yield
  conn,     \* its connection (_socket), 0 for none
  conns,    \* connections opened so far
  packidx, cnt, code,
  results,  \* what the calls returned: the code and the reply
  resumes,  \* entries for it in its thread's list of _queue_map
  \* each connection
  near,     \* its callbacks run in the coroutine's thread
  sock,     \* "none", "open", "closing" or "closed" (OnDisconnected was called)
  info,     \* its _CoScInfo_: valid, whether co_id is set, buffer
  wire,     \* requests the server has not seen to
  replies,  \* replies not read
  missed    \* history: the server left a request without an answer, or a
            \* OnDisconnected was called before the info was valid

coVars   == <<pc, conn, conns, packidx, cnt, code, results>>
connVars == <<near, sock, info>>
net  == <<wire, replies, missed>>
vars == <<coVars, resumes, connVars, net>>

FreshInfo == [valid |-> FALSE, co |-> FALSE, buffer |-> NoReply]

Init ==
  /\ pc = "idle" /\ conn = 0 /\ conns = 0 /\ packidx = 0 /\ cnt = 0 /\ code = 0
  /\ results = <<>> /\ resumes = 0
  /\ near = [k \in Conns |-> FALSE] /\ sock = [k \in Conns |-> "none"]
  /\ info = [k \in Conns |-> FreshInfo] /\ wire = {} /\ replies = {}
  /\ missed = FALSE

Call == Len(results) + 1
Attempts == 2

-----------------------------------------------------------------------------
(* The coroutine. *)

Start ==
  /\ pc = "idle" /\ Call <= MaxCalls
  /\ pc' = "attempt" /\ cnt' = 0 /\ code' = 0
  /\ UNCHANGED <<conn, conns, packidx, results, resumes, connVars, net>>

\* The session is started (IsConnected): the attempt goes on with it.
IsConnected == conn # 0 /\ sock[conn] = "open"

Connected ==
  /\ pc = "attempt" /\ cnt < Attempts /\ IsConnected
  /\ pc' = "lock"
  /\ UNCHANGED <<conn, conns, packidx, cnt, code, results, resumes, connVars, net>>

NeedsConnect == pc = "attempt" /\ cnt < Attempts /\ ~IsConnected

\* _Reconnect: Connect opens a connection, which goes to some reactor thread
\* and may get its callbacks from now on ...
Connect(isnear) ==
  /\ NeedsConnect /\ conns < MaxConns
  /\ conns' = conns + 1 /\ conn' = conns'
  /\ sock' = [sock EXCEPT ![conns'] = "open"]
  /\ near' = [near EXCEPT ![conns'] = isnear]
  /\ pc' = "connected"
  /\ UNCHANGED <<packidx, cnt, code, results, resumes, info, net>>

\* ... then the info is made valid ...
SetValid ==
  /\ pc = "connected"
  /\ info' = [info EXCEPT ![conn].valid = TRUE]
  /\ pc' = "lock"
  /\ UNCHANGED <<conn, conns, packidx, cnt, code, results, resumes, near, sock, net>>

\* ... or nothing comes of it.
ConnectFails ==
  /\ NeedsConnect
  /\ conn' = 0 /\ cnt' = cnt + 1 /\ code' = -2
  /\ UNCHANGED <<pc, conns, packidx, results, resumes, connVars, net>>

\* An attempt fails: Close, and the next one connects anew.
Fail ==
  /\ sock' = [sock EXCEPT ![conn] = IF @ = "open" THEN "closing" ELSE @]
  /\ conn' = 0 /\ cnt' = cnt + 1 /\ code' = -3 /\ pc' = "attempt"

\* Under the info's mutex: a connection that is gone is seen here, or its
\* OnDisconnected finds the coroutine's id.
Lock ==
  /\ pc = "lock" /\ info[conn].valid
  /\ info' = [info EXCEPT ![conn].co = TRUE]
  /\ pc' = "send"
  /\ UNCHANGED <<conn, conns, packidx, cnt, code, results, resumes, near, sock, net>>

Invalid ==
  /\ pc = "lock" /\ ~info[conn].valid
  /\ Fail
  /\ UNCHANGED <<conns, packidx, results, resumes, near, info, net>>

\* Send, which a session that is not started ignores, and yield.
SendAndYield ==
  /\ pc = "send"
  /\ packidx' = packidx + 1
  /\ wire' = IF sock[conn] = "open"
             THEN wire \cup {[conn |-> conn, msg |-> [idx |-> packidx', call |-> Call]]}
             ELSE wire
  /\ pc' = "parked"
  /\ UNCHANGED <<conn, conns, cnt, code, results, resumes, connVars, replies, missed>>

\* doThrResume, in the reactor loop of the coroutine's thread.
Resume ==
  /\ pc = "parked" /\ resumes > 0
  /\ resumes' = resumes - 1
  /\ pc' = "check"
  /\ UNCHANGED <<conn, conns, packidx, cnt, code, results, connVars, net>>

Return(res, reply) ==
  /\ results' = Append(results, [code |-> res, reply |-> reply])
  /\ pc' = "idle"

\* _CheckReply on the info's buffer.
AcceptAny(reply) == TRUE
CheckReply(reply) == reply.idx = packidx

CheckOk ==
  /\ pc = "check" /\ CheckReply(info[conn].buffer)
  /\ Return(0, info[conn].buffer)
  /\ UNCHANGED <<conn, conns, packidx, cnt, code, resumes, connVars, net>>

CheckFails ==
  /\ pc = "check" /\ ~CheckReply(info[conn].buffer)
  /\ Fail
  /\ UNCHANGED <<conns, packidx, results, resumes, near, info, net>>

GiveUp ==
  /\ pc = "attempt" /\ cnt = Attempts
  /\ Return(code, NoReply)
  /\ UNCHANGED <<conn, conns, packidx, cnt, code, resumes, connVars, net>>

-----------------------------------------------------------------------------
(* The callbacks of a connection. *)

MayCall(k) == near[k] => pc \in {"idle", "parked"}

\* OnReceiveData takes the coroutine's id, leaves the reply and queues the
\* coroutine; the id -1 queues nothing that can be resumed.
Queue(k) == resumes' = IF info[k].co THEN resumes + 1 ELSE resumes

OnReceiveKeepsId(k, r) ==
  /\ MayCall(k) /\ sock[k] = "open" /\ r \in replies /\ r.conn = k
  /\ replies' = replies \ {r}
  /\ Queue(k)
  /\ info' = [info EXCEPT ![k].buffer = r.msg]
  /\ UNCHANGED <<coVars, near, sock, wire, missed>>
OnReceiveData(k, r) ==
  /\ MayCall(k) /\ sock[k] = "open" /\ r \in replies /\ r.conn = k
  /\ replies' = replies \ {r}
  /\ Queue(k)
  /\ info' = [info EXCEPT ![k].co = FALSE, ![k].buffer = r.msg]
  /\ UNCHANGED <<coVars, near, sock, wire, missed>>

\* OnDisconnected does so with an empty buffer, and no call may start after it.
OnDisconnectedStaysValid(k) ==
  /\ MayCall(k) /\ sock[k] = "closing"
  /\ sock' = [sock EXCEPT ![k] = "closed"]
  /\ Queue(k)
  /\ info' = [info EXCEPT ![k].co = FALSE, ![k].buffer = NoReply]
  /\ missed' = (missed \/ ~info[k].valid)
  /\ UNCHANGED <<coVars, near, wire, replies>>
OnDisconnected(k) ==
  /\ MayCall(k) /\ sock[k] = "closing"
  /\ sock' = [sock EXCEPT ![k] = "closed"]
  /\ Queue(k)
  /\ info' = [info EXCEPT ![k] = FreshInfo]
  /\ missed' = (missed \/ ~info[k].valid)
  /\ UNCHANGED <<coVars, near, wire, replies>>

\* The server answers, or does not (no handler is registered for the port).
Answer(r) ==
  /\ r \in wire
  /\ wire' = wire \ {r} /\ replies' = replies \cup {r}
  /\ UNCHANGED <<coVars, resumes, connVars, missed>>

Silent(r) ==
  /\ MaySilent /\ r \in wire
  /\ wire' = wire \ {r} /\ missed' = TRUE
  /\ UNCHANGED <<coVars, resumes, connVars, replies>>

\* The connection ends: the peer, an error or the heart beat.
Ends(k) ==
  /\ sock[k] = "open"
  /\ sock' = [sock EXCEPT ![k] = "closing"]
  /\ UNCHANGED <<coVars, resumes, near, info, net>>

Coroutine ==
  \/ Connected \/ (\E isnear \in BOOLEAN : Connect(isnear)) \/ SetValid \/ ConnectFails
  \/ Lock \/ Invalid \/ SendAndYield \/ Resume \/ CheckOk \/ CheckFails \/ GiveUp

Callback(k) == (\E r \in replies : OnReceiveData(k, r)) \/ OnDisconnected(k)

Next ==
  \/ Start \/ Coroutine
  \/ \E k \in Conns : Callback(k) \/ Ends(k)
  \/ \E r \in wire : Answer(r) \/ Silent(r)

Spec == Init /\ [][Next]_vars

\* The threads run on, and the server answers if it does at all.
Fairness ==
  /\ WF_vars(Coroutine)
  /\ \A k \in Conns : WF_vars(Callback(k))
  /\ WF_vars(\E r \in wire : Answer(r) \/ Silent(r))

FairSpec == Spec /\ Fairness

-----------------------------------------------------------------------------
(* Properties *)

Msg == [idx : Nat, call : Nat]

TypeOK ==
  /\ pc \in {"idle", "attempt", "connected", "lock", "send", "parked", "check"}
  /\ conn \in 0..MaxConns /\ conns \in 0..MaxConns /\ packidx \in Nat
  /\ cnt \in 0..Attempts /\ code \in {0, -2, -3}
  /\ results \in Seq([code : {0, -2, -3}, reply : Msg]) /\ resumes \in Nat
  /\ near \in [Conns -> BOOLEAN] /\ sock \in [Conns -> {"none", "open", "closing", "closed"}]
  /\ info \in [Conns -> [valid : BOOLEAN, co : BOOLEAN, buffer : Msg]]
  /\ wire \subseteq [conn : Conns, msg : Msg] /\ replies \subseteq [conn : Conns, msg : Msg]
  /\ missed \in BOOLEAN

\* While the coroutine waits for an answer exactly one thing can wake it: its
\* id in the connection's info, or one entry of its thread's queue.  At any
\* other time nothing can, so that no entry resumes it somewhere else, or
\* another coroutine that has got its id.
OneWakeUp ==
  Cardinality({k \in Conns : info[k].co}) + resumes =
    IF pc \in {"send", "parked"} THEN 1 ELSE 0

\* A call that returns 0 hands out the reply to this call.
OkMeansReplied ==
  \A n \in 1..Len(results) : results[n].code = 0 => results[n].reply.call = n

\* Every call returns if the server answers what it is sent and OnDisconnected
\* is not called between Connect and valid = true: whatever connections end at
\* any other time, an answer or OnDisconnected wakes the coroutine.
AnsweredCallReturns == pc # "idle" ~> pc = "idle" \/ missed

-----------------------------------------------------------------------------
(* What makes OneWakeUp and OkMeansReplied hold.                           *)

Waits == pc \in {"send", "parked"}

\* The id is left with the connection of the attempt, from its lock until a
\* callback takes it and queues one entry.
WakeUpInv ==
  /\ \A k \in Conns : info[k].co => k = conn /\ Waits /\ resumes = 0
  /\ Waits => info[conn].co \/ resumes = 1
  /\ resumes <= 1 /\ (~Waits => resumes = 0)

\* Where a connection is used there is one, and a call that has failed an
\* attempt has its code.
AttemptInv ==
  /\ pc \in {"connected", "lock", "send", "parked", "check"} => conn # 0 /\ cnt < Attempts
  /\ pc \in {"parked", "check"} => packidx > 0
  /\ cnt > 0 => code # 0

\* A number is used once: whatever carries the number of the attempt that
\* waits is of the call it makes.
Numbered(m) ==
  /\ m.idx <= packidx
  /\ pc \in {"parked", "check"} /\ m.idx = packidx => m.call = Call
NumberInv ==
  /\ \A r \in wire \cup replies : Numbered(r.msg)
  /\ \A k \in Conns : Numbered(info[k].buffer)

CoSyncInv == TypeOK /\ WakeUpInv /\ AttemptInv /\ NumberInv /\ OkMeansReplied
=============================================================================
