------------------------------ MODULE Session ------------------------------
(***************************************************************************)
(* What a connection promises the program that uses it, whatever threads,  *)
(* locks, buffers and epoll do underneath (netio/netio.hpp, the comments   *)
(* on Close and on the callbacks):                                         *)
(*   - what Send accepted goes out as one stream, unchanged and in order;  *)
(*   - Close lets everything accepted go out before the connection ends,   *)
(*     unless the connection breaks;                                       *)
(*   - OnConnected is called first, then OnReceiveData any number of       *)
(*     times, then OnDisconnected at most once, after the end.             *)
(* Module TcpSession implements it.                                        *)
(***************************************************************************)
EXTENDS Sequences, Naturals

CONSTANT Messages   \* non-empty sequences of units

VARIABLES
  state,     \* "idle", "up", "draining", "down"
  queue,     \* accepted and not yet sent
  stream,    \* sent
  broken,    \* a write failed
  received,  \* number of OnReceiveData calls
  told       \* the last of OnConnected and OnDisconnected called, or "none"

sessionVars == <<state, queue, stream, broken, received, told>>

SessionInit ==
  /\ state = "idle" /\ queue = <<>> /\ stream = <<>> /\ broken = FALSE
  /\ received = 0 /\ told = "none"

Connect ==
  /\ state = "idle"
  /\ state' = "up" /\ told' = "OnConnected"
  /\ UNCHANGED <<queue, stream, broken, received>>

Accept(m) ==
  /\ state = "up"
  /\ queue' = queue \o m
  /\ UNCHANGED <<state, stream, broken, received, told>>

\* Some units leave, also while the connection drains.
Transmit(n) ==
  /\ state \in {"up", "draining"}
  /\ stream' = stream \o SubSeq(queue, 1, n)
  /\ queue' = SubSeq(queue, n + 1, Len(queue))
  /\ UNCHANGED <<state, broken, received, told>>

BeginClose ==
  /\ state = "up"
  /\ state' = "draining"
  /\ UNCHANGED <<queue, stream, broken, received, told>>

End ==
  /\ state \in {"up", "draining"} /\ (broken \/ queue = <<>>)
  /\ state' = "down"
  /\ UNCHANGED <<queue, stream, broken, received, told>>

\* The connection breaks and may end in the same step.
Break ==
  /\ state \in {"up", "draining"}
  /\ broken' = TRUE /\ state' \in {state, "down"}
  /\ UNCHANGED <<queue, stream, received, told>>

Receive ==
  /\ told = "OnConnected"
  /\ received' = received + 1
  /\ UNCHANGED <<state, queue, stream, broken, told>>

Notify ==
  /\ state = "down" /\ told = "OnConnected"
  /\ told' = "OnDisconnected"
  /\ UNCHANGED <<state, queue, stream, broken, received>>

SessionNext ==
  \/ Connect
  \/ \E m \in Messages : Accept(m)
  \/ \E n \in 1..Len(queue) : Transmit(n)
  \/ BeginClose \/ End \/ Break \/ Receive \/ Notify

SessionSpec == SessionInit /\ [][SessionNext]_sessionVars
=============================================================================
