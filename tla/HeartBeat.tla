----------------------------- MODULE HeartBeat ------------------------------
(***************************************************************************)
(* HeartBeatMng (netio/heartbeat.hpp): a thread that closes the sessions   *)
(* and connectors from which nothing was received for `Beat` seconds, and  *)
(* sends a keep-alive message on the connectors; with ScServer's answer to *)
(* it (synccall/synccall_svr.hpp).                                         *)
(*                                                                         *)
(* The reactor threads only append to lists, under the mutex of one of     *)
(* svr_cnt buckets (chosen by the descriptor).  The thread sweeps one      *)
(* bucket after the other: it swaps the lists with its own, then judges by *)
(* what it knew BEFORE it takes note of what it has just swapped out.      *)
(*                                                                         *)
(* The code only compares times: each is kept here as its age, the seconds *)
(* from it to the present, so that time goes on without a bound.  A sweep  *)
(* reads the time once, at its start; it may last into the next second,    *)
(* never longer (Tick).  What lists repeat or in which order they are      *)
(* filled makes no difference: they are sets here.                         *)
(***************************************************************************)
EXTENDS Integers

CONSTANTS Socks,     \* sessions: TcpSocket and HttpSocket
          Conns,     \* connectors
          Buckets,   \* svr_cnt, at least 1
          BucketOf,  \* [Socks \cup Conns -> 0..Buckets-1]: descriptor % svr_cnt
          Beat,      \* _beat
          Idle,      \* what CoScClient passes to OnConnected: 10
          Delay      \* seconds within which an answering server answers

Watch == Socks \cup Conns

ASSUME BeatAssumption ==
  /\ Beat \in Nat /\ Idle \in Nat /\ Delay \in Nat
  /\ Buckets \in Nat \ {0}
  /\ BucketOf \in [Watch -> 0..(Buckets - 1)]
  /\ Socks \cap Conns = {}

VARIABLES
  startflag,  \* _startflag
  sweep,      \* the thread: [place, lag, idx]; lag: the age of `now`
  fresh,      \* co_tcplist, co_httplist, co_conn_tcplist
  data,       \* data_tcplist, data_httplist, data_conn_tcplist
  tmp,        \* the thread's own lists: [fresh, data]
  info,       \* tcp_info, http_info, conn_tcp_info: the age of updtime or rcv_time
  sent,       \* conn_tcp_info: the age of snd_time
  state,      \* "new", "open", "closed" (by others), "beaten" (by the thread),
              \* or "left": open, but not watched any more
  asked,      \* connectors: the age of the keep-alive message not answered yet
  quiet,      \* history: the age of what was received last
  hushed      \* history: there was a long silence

heartVars == <<startflag, sweep, fresh, data, tmp, info, sent, state, asked, quiet, hushed>>
listVars == <<fresh, data, tmp, info, sent>>

None == -1    \* no entry; no message waits for its answer

HeartInit ==
  /\ startflag = FALSE
  /\ sweep = [place |-> "off", lag |-> 0, idx |-> 0]
  /\ fresh = {} /\ data = {} /\ tmp = [fresh |-> {}, data |-> {}]
  /\ info = [w \in Watch |-> None] /\ sent = [c \in Conns |-> None]
  /\ state = [w \in Watch |-> "new"]
  /\ asked = [c \in Conns |-> None]
  /\ quiet = [w \in Watch |-> 0] /\ hushed = {}

In(b) == {w \in Watch : BucketOf[w] = b}

\* A sweep may lag one second behind the clock, and so may the one before it.
Slack == 2
LongSilence == Beat + 1 - Slack

-----------------------------------------------------------------------------
(* The application and the reactor threads.                                *)

\* Only when there is no thread.
Start ==
  /\ sweep.place = "off"
  /\ startflag' = TRUE
  /\ sweep' = [place |-> "test", lag |-> 0, idx |-> 0]
  /\ UNCHANGED <<listVars, state, asked, quiet, hushed>>

\* Stop: the flag; then it waits for the thread (Leave).
Stop ==
  /\ startflag /\ startflag' = FALSE
  /\ UNCHANGED <<sweep, listVars, state, asked, quiet, hushed>>

\* The thread has ended: what it kept is deleted, and nobody watches the
\* connections that are open.
Leave ==
  /\ sweep.place = "test" /\ ~startflag
  /\ sweep' = [place |-> "off", lag |-> 0, idx |-> 0]
  /\ fresh' = {} /\ data' = {} /\ tmp' = [fresh |-> {}, data |-> {}]
  /\ info' = [w \in Watch |-> None] /\ sent' = [c \in Conns |-> None]
  /\ state' = [w \in Watch |-> IF state[w] = "open" THEN "left" ELSE state[w]]
  /\ asked' = [c \in Conns |-> None]
  /\ UNCHANGED <<startflag, quiet, hushed>>

\* OnConnected: from now on the session or connector is watched.
OnConnected(w) ==
  /\ startflag /\ state[w] = "new"
  /\ state' = [state EXCEPT ![w] = "open"]
  /\ fresh' = fresh \cup {w}
  /\ UNCHANGED <<startflag, sweep, data, tmp, info, sent, asked, quiet, hushed>>

\* What the history notes when something is received.
Heard(w) ==
  /\ quiet' = [quiet EXCEPT ![w] = 0]
  /\ hushed' = IF quiet[w] >= LongSilence THEN hushed \cup {w} ELSE hushed

\* OnReceiveData: a message of the peer.
OnReceiveData(w) ==
  /\ startflag /\ state[w] = "open"
  /\ data' = data \cup {w}
  /\ Heard(w)
  /\ UNCHANGED <<startflag, sweep, fresh, tmp, info, sent, state, asked>>

\* The connection ends for another reason.
Ends(w) ==
  /\ state[w] = "open"
  /\ state' = [state EXCEPT ![w] = "closed"]
  /\ UNCHANGED <<startflag, sweep, listVars, asked, quiet, hushed>>

\* ScServer::OnReceiveData at the other end answers a keep-alive message with
\* ScKeepAliveAck, and this end hears of it as of any message.
AckKeepAlive(c) ==
  /\ startflag /\ state[c] = "open" /\ asked[c] # None
  /\ asked' = [asked EXCEPT ![c] = None]
  /\ data' = data \cup {c}
  /\ Heard(c)
  /\ UNCHANGED <<startflag, sweep, fresh, tmp, info, sent, state>>

-----------------------------------------------------------------------------
(* The thread.                                                             *)

BeginSweep ==
  /\ sweep.place = "test" /\ startflag
  /\ sweep' = [place |-> "swap", lag |-> 0, idx |-> 0]
  /\ UNCHANGED <<startflag, listVars, state, asked, quiet, hushed>>

\* Under the bucket's mutex.  The thread's own lists are empty: they become
\* the bucket's, the bucket's become the thread's.
Swap ==
  /\ sweep.place = "swap"
  /\ tmp' = [fresh |-> fresh \cap In(sweep.idx), data |-> data \cap In(sweep.idx)]
  /\ fresh' = fresh \ In(sweep.idx)
  /\ data' = data \ In(sweep.idx)
  /\ sweep' = [sweep EXCEPT !.place = "judge"]
  /\ UNCHANGED <<startflag, info, sent, state, asked, quiet, hushed>>

\* As Older, but one second too soon: t + limit <= now.
OlderOrEqual(age, limit) == age # None /\ age - sweep.lag >= limit

\* t + limit < now, for the time t of an entry.
Older(age, limit) == age # None /\ age - sweep.lag > limit

Expired(w) == Older(info[w], Beat)

ForgetKeepsOpen(w) == state[w]
\* Those that are still connected are closed.
Beaten(w) == IF state[w] = "open" THEN "beaten" ELSE state[w]

\* As Talks, but with the beat for the connector's own idle time.
TalksLate(c) == info[c] # None /\ ~Expired(c) /\ Older(sent[c], Beat)
\* The connectors a keep-alive message is sent on.
Talks(c) == info[c] # None /\ ~Expired(c) /\ Older(sent[c], Idle)

\* What the thread does with one bucket after it has released the mutex:
\* entries that expired go, and their connections are closed; keep-alive
\* messages are sent; new entries are made; then what was received is noted,
\* where there is an entry.
Judge ==
  /\ sweep.place = "judge"
  /\ LET mine == In(sweep.idx)
         gone == {w \in mine : Expired(w)}
         talk == {c \in mine \cap Conns : Talks(c)}
         made == tmp.fresh
     IN /\ state' = [w \in Watch |-> IF w \in gone THEN Beaten(w) ELSE state[w]]
        /\ info' = [w \in Watch |->
                      CASE w \in made -> sweep.lag
                        [] w \in gone \ made -> None
                        [] w \in tmp.data \ (made \cup gone) /\ info[w] # None -> sweep.lag
                        [] OTHER -> info[w]]
        /\ sent' = [c \in Conns |-> CASE c \in made \cup talk -> sweep.lag
                                      [] c \in gone \ made -> None
                                      [] OTHER -> sent[c]]
        /\ asked' = [c \in Conns |->
                       IF c \in talk /\ state[c] = "open" /\ asked[c] = None
                         THEN 0 ELSE asked[c]]
        /\ tmp' = [fresh |-> {}, data |-> {}]
        /\ sweep' = IF sweep.idx + 1 < Buckets
                      THEN [sweep EXCEPT !.place = "swap", !.idx = @ + 1]
                      ELSE [sweep EXCEPT !.place = "test", !.idx = 0]
  /\ UNCHANGED <<startflag, fresh, data, quiet, hushed>>

-----------------------------------------------------------------------------
Aged(ages) == [w \in DOMAIN ages |-> IF ages[w] = None THEN None ELSE ages[w] + 1]

\* A second passes.  A sweep takes 10 ms and what its closes and sends take:
\* in every second one begins.  A server that answers does so in time.
Tick ==
  /\ sweep.lag = 0
  /\ \A c \in Conns : state[c] = "open" => asked[c] < Delay
  /\ sweep' = [sweep EXCEPT !.lag = IF sweep.place = "off" THEN 0 ELSE 1]
  /\ info' = Aged(info) /\ sent' = Aged(sent)
  /\ asked' = [c \in Conns |-> IF state[c] = "open" /\ asked[c] # None
                                 THEN asked[c] + 1 ELSE None]
  /\ quiet' = [w \in Watch |-> IF state[w] = "open" THEN quiet[w] + 1 ELSE quiet[w]]
  /\ UNCHANGED <<startflag, fresh, data, tmp, state, hushed>>

HeartNext ==
  \/ Start \/ Stop \/ Leave
  \/ \E w \in Watch : OnConnected(w) \/ OnReceiveData(w) \/ Ends(w)
  \/ \E c \in Conns : AckKeepAlive(c)
  \/ BeginSweep \/ Swap \/ Judge
  \/ Tick

HeartSpec == HeartInit /\ [][HeartNext]_heartVars

-----------------------------------------------------------------------------
\* Only the silent are closed: a connection the thread closes had been silent
\* for Beat seconds, less what two sweeps may lag.  A message that waits in
\* the list the thread has just swapped out does not save it.
OnlySilentClosed ==
  \A w \in Watch : state[w] = "beaten" => w \in hushed \/ quiet[w] >= LongSilence

\* No connection that is watched stays open through a longer silence.
SilentIsClosed ==
  \A w \in Watch : state[w] = "open" /\ startflag => quiet[w] <= Beat + 1 + Slack

\* A connector whose server answers in time is never closed, although
\* nothing else is received on it: the keep-alive messages are sent, and
\* their answers noted, early enough (CoScClient: Idle 10, Beat 30).
AnsweredStaysOpen == \A c \in Conns : state[c] # "beaten"

\* What it takes: a sweep may come a second late with the question, and one
\* or two more pass until the answer is noted.
AnswersInTime == Idle + Delay + 3 <= Beat

-----------------------------------------------------------------------------
(* The inductive invariant.  A sweep judges by times that are older than   *)
(* what has been received since: the bounds depend on whether the sweep    *)
(* under way still comes to a connection's bucket.                         *)

HeartTypeOK ==
  /\ startflag \in BOOLEAN
  /\ sweep \in [place : {"off", "test", "swap", "judge"}, lag : 0..1, idx : 0..(Buckets - 1)]
  /\ fresh \in SUBSET Watch /\ data \in SUBSET Watch
  /\ tmp \in [fresh : SUBSET Watch, data : SUBSET Watch]
  /\ info \in [Watch -> Nat \cup {None}] /\ sent \in [Conns -> Nat \cup {None}]
  /\ state \in [Watch -> {"new", "open", "closed", "beaten", "left"}]
  /\ asked \in [Conns -> Nat \cup {None}]
  /\ quiet \in [Watch -> Nat] /\ hushed \in SUBSET Watch

\* The bucket of w is still to be swapped in this sweep ...
ToSwap(w) == \/ sweep.place = "swap" /\ BucketOf[w] >= sweep.idx
             \/ sweep.place = "judge" /\ BucketOf[w] > sweep.idx
\* ... or has been judged.
Judged(w) == sweep.place = "test" \/ BucketOf[w] < sweep.idx

\* A bound on an age, seen from the time the sweep has read.
Allow(now, later, isLater) == (IF isLater THEN later ELSE now) + sweep.lag

\* Where a connection is: new to the thread, or with an entry.
EntryInv ==
  /\ sweep.place = "off" => sweep.lag = 0 /\ ~startflag
  /\ sweep.place # "judge" => tmp.fresh = {} /\ tmp.data = {}
  /\ tmp.fresh \cup tmp.data \subseteq In(sweep.idx)
  /\ fresh \cap tmp.fresh = {}
  /\ \A w \in Watch :
       /\ state[w] = "open" =>
            sweep.place # "off" /\ (info[w] # None \/ w \in fresh \cup tmp.fresh)
       /\ state[w] = "new" => info[w] = None /\ quiet[w] = 0 /\ w \notin data \cup tmp.data
       /\ w \in fresh \cup tmp.fresh => info[w] = None /\ state[w] # "new"

\* What is noted is not much younger than what was received last.
SilenceInv ==
  \A w \in Watch : state[w] = "open" =>
    /\ w \in fresh \cup data => quiet[w] <= Allow(0, 1, ToSwap(w))
    /\ w \in tmp.fresh \cup tmp.data => quiet[w] <= 1 + sweep.lag
    /\ info[w] # None => /\ quiet[w] <= info[w] + 1
                         /\ info[w] <= Allow(Beat + 1, Beat, Judged(w))

\* An entry that would expire although something was received since: it came
\* after a long silence.
HeardInv ==
  \A w \in Watch : state[w] = "open" =>
    /\ info[w] # None /\ w \notin data \cup tmp.data => info[w] <= quiet[w] + 1
    /\ w \notin hushed /\ w \in data \cup tmp.data => Beat >= 2
    /\ w \notin hushed /\ info[w] # None /\ w \in tmp.data => info[w] <= Beat + sweep.lag
    /\ w \notin hushed /\ info[w] # None /\ w \in data \ tmp.data =>
         info[w] <= Allow(Beat - 1, Beat, ToSwap(w))

\* The age of an entry, when an answer comes at the latest.
AnswerAge == Idle + 2 + Delay

\* A connector is asked before its entry is too old, and the answer comes and
\* is noted in time.
AnswerInv ==
  \A c \in Conns :
    /\ state[c] = "new" => asked[c] = None
    /\ state[c] = "open" => asked[c] <= Delay
    /\ state[c] = "open" /\ info[c] # None =>
         /\ sweep.lag <= sent[c] /\ sent[c] <= Allow(Idle + 1, Idle, Judged(c))
         /\ c \notin data \cup tmp.data =>
              info[c] <= IF asked[c] = None THEN sent[c] ELSE Idle + 2 + asked[c]
         /\ c \in tmp.data => info[c] <= AnswerAge + 1 + sweep.lag
         /\ c \in data \ tmp.data => info[c] <= Allow(AnswerAge, AnswerAge + 1, ToSwap(c))

HeartInv == HeartTypeOK /\ EntryInv /\ SilenceInv /\ HeardInv /\ OnlySilentClosed

=============================================================================
