------------------------------ MODULE LogRing ------------------------------
(***************************************************************************)
(* The asynchronous logger of base/logger.hpp: a ring of fixed buffers     *)
(* that the threads of the program fill under _mutex and one dump thread   *)
(* writes out without it.  Two marks tell them apart: a node is "full"     *)
(* from the moment nobody may append to it until it has been written.      *)
(*                                                                         *)
(* Log lines are numbered in the order they are accepted; a node holds     *)
(* the numbers of its lines and the space they take.                       *)
(***************************************************************************)
EXTENDS Naturals, Sequences

CONSTANTS
  NodeCnt,    \* _node_cnt
  NodeSize,   \* the size of a node's fixedbuffer
  Sizes,      \* what log() is called with: the lengths of lines
  MaxCalls    \* bound: calls of log()

ASSUME RingAssumption ==
  /\ NodeCnt \in Nat \ {0} /\ NodeSize \in Nat /\ MaxCalls \in Nat
  /\ \A len \in Sizes : len \in Nat /\ len < NodeSize

Nodes == 0 .. NodeCnt - 1

VARIABLES
  run,        \* _run
  content,    \* the lines in each node's buffer
  used,       \* fixedbuffer::_pos of each node
  status,     \* buffer_node::status
  producer, consumer,   \* the nodes _producer and _consumer point to
  ready,      \* setfilename was called: the two pointers are set
  at,         \* where the dump thread is
  handed,     \* lines given to logfile::write, whose result dump ignores
  console,    \* lines given to _output
  accepted,   \* lines log() accepted
  dropped     \* calls of log() that reported a full buffer

nodeVars == <<content, used, status>>
vars == <<run, nodeVars, producer, consumer, ready, at, handed, console, accepted, dropped>>

TypeOK ==
  /\ run \in BOOLEAN /\ ready \in BOOLEAN
  /\ content \in [Nodes -> Seq(Nat)] /\ used \in [Nodes -> Nat]
  /\ status \in [Nodes -> {"free", "full"}]
  /\ producer \in Nodes /\ consumer \in Nodes
  /\ at \in {"none", "check", "lock", "wait", "write", "print", "free", "ended", "joined"}
  /\ handed \in Seq(Nat) /\ console \in Seq(Nat)
  /\ accepted \in Nat /\ dropped \in Nat

Init ==
  /\ run = FALSE /\ ready = FALSE
  /\ content = [n \in Nodes |-> <<>>] /\ used = [n \in Nodes |-> 0]
  /\ status = [n \in Nodes |-> "free"]
  /\ producer = 0 /\ consumer = 0
  /\ at = "none"
  /\ handed = <<>> /\ console = <<>>
  /\ accepted = 0 /\ dropped = 0

-----------------------------------------------------------------------------
\* buffer_circular::next
NextNode(n) == (n + 1) % NodeCnt

\* logger::setfilename: the ring and the dump thread are made, once.
SetFilename ==
  /\ ~ready
  /\ ready' = TRUE /\ run' = TRUE /\ at' = "check"
  /\ UNCHANGED <<nodeVars, producer, consumer, handed, console, accepted, dropped>>

(* logger::log, whole: it runs under _mutex.  A line that does not fit     *)
(* closes the node and goes to the next one, if that is free.              *)
Accept(n, len) ==
  /\ accepted' = accepted + 1
  /\ content' = [content EXCEPT ![n] = Append(@, accepted + 1)]
  /\ used' = [used EXCEPT ![n] = @ + len]
  /\ UNCHANGED dropped

Drop == dropped' = dropped + 1 /\ UNCHANGED <<content, used, accepted>>

LogFits(len) ==
  /\ NodeSize - used[producer] > len
  /\ Accept(producer, len)
  /\ UNCHANGED <<status, producer>>

LogNextUnchecked(len) ==
  /\ NodeSize - used[producer] <= len
  /\ status' = [status EXCEPT ![producer] = "full"]
  /\ producer' = NextNode(producer)
  /\ Accept(producer', len)
LogNext(len) ==
  /\ NodeSize - used[producer] <= len
  /\ status' = [status EXCEPT ![producer] = "full"]
  /\ producer' = NextNode(producer)
  /\ IF status'[producer'] = "full" THEN Drop ELSE Accept(producer', len)

Log(len) ==
  /\ ready /\ accepted + dropped < MaxCalls
  /\ IF status[producer] = "full"
       THEN Drop /\ UNCHANGED <<status, producer>>
       ELSE LogFits(len) \/ LogNext(len)
  /\ UNCHANGED <<run, consumer, ready, at, handed, console>>

\* logger::stop: the flag, and later the end of join().
StopAsked ==
  /\ run
  /\ run' = FALSE
  /\ UNCHANGED <<nodeVars, producer, consumer, ready, at, handed, console, accepted, dropped>>

StopJoined ==
  /\ ~run /\ at = "ended"
  /\ at' = "joined"
  /\ UNCHANGED <<run, nodeVars, producer, consumer, ready, handed, console, accepted, dropped>>

-----------------------------------------------------------------------------
(* logger::dump, the thread.                                               *)

Check ==
  /\ at = "check"
  /\ at' = IF run THEN "lock" ELSE "ended"
  /\ UNCHANGED <<run, nodeVars, producer, consumer, ready, handed, console, accepted, dropped>>

\* The first look at the consumer's node.
Look ==
  /\ at = "lock"
  /\ at' = IF status[consumer] = "free" THEN "wait" ELSE "write"
  /\ UNCHANGED <<run, nodeVars, producer, consumer, ready, handed, console, accepted, dropped>>

(* The wait ends: by a notify, after _flushtime, or at once (the           *)
(* nanoseconds of its deadline are not set).  A node that still is not     *)
(* full is taken as it is, unless it is empty.                             *)
TakeUnmarked ==
  /\ at = "wait"
  /\ at' = IF status[consumer] = "free" /\ content[consumer] = <<>> THEN "check" ELSE "write"
  /\ UNCHANGED <<run, nodeVars, producer, consumer, ready, handed, console, accepted, dropped>>
TakeOnlyFull ==
  /\ at = "wait"
  /\ at' = IF status[consumer] = "free" THEN "check" ELSE "write"
  /\ UNCHANGED <<run, nodeVars, producer, consumer, ready, handed, console, accepted, dropped>>
Take ==
  /\ at = "wait"
  /\ IF status[consumer] = "free" /\ used[consumer] = 0
       THEN at' = "check" /\ UNCHANGED status
       ELSE at' = "write" /\ status' = [status EXCEPT ![consumer] = "full"]
  /\ UNCHANGED <<run, content, used, producer, consumer, ready, handed, console, accepted, dropped>>

\* _file->write and _output, both without the mutex.  Release follows in any
\* case: nobody asks what write returned, nor whether a file is open.
Write ==
  /\ at = "write"
  /\ handed' = handed \o content[consumer]
  /\ at' = "print"
  /\ UNCHANGED <<run, nodeVars, producer, consumer, ready, console, accepted, dropped>>

PrintOut ==
  /\ at = "print"
  /\ console' = console \o content[consumer]
  /\ at' = "free"
  /\ UNCHANGED <<run, nodeVars, producer, consumer, ready, handed, accepted, dropped>>

ProducerStays == producer
ProducerMoves == IF consumer = producer THEN NextNode(producer) ELSE producer

\* The node is given back; a producer that stands on it is moved on.
Release ==
  /\ at = "free"
  /\ producer' = ProducerMoves
  /\ status' = [status EXCEPT ![consumer] = "free"]
  /\ content' = [content EXCEPT ![consumer] = <<>>]
  /\ used' = [used EXCEPT ![consumer] = 0]
  /\ consumer' = NextNode(consumer)
  /\ at' = "check"
  /\ UNCHANGED <<run, ready, handed, console, accepted, dropped>>

Dump == Check \/ Look \/ Take \/ Write \/ PrintOut \/ Release

Next ==
  \/ SetFilename \/ StopAsked \/ StopJoined
  \/ \E len \in Sizes : Log(len)
  \/ Dump

Spec == Init /\ [][Next]_vars

-----------------------------------------------------------------------------
(* Properties *)

\* The accepted lines are handed to logfile::write in the order they were
\* accepted, none left out and none twice, although nodes are written without
\* the mutex while other threads log (log and dump together); the console, which
\* reads the node at a later time, gets the same lines.
WrittenInOrder ==
  /\ \A i \in 1..Len(handed) : handed[i] = i
  /\ console = SubSeq(handed, 1, Len(console))

\* An accepted line is in a node until it has been handed to logfile::write: no
\* producer that came round the ring overwrites it, and no node is cleared that
\* was not handed over.  (What write makes of it: see Logger.)
NothingLost ==
  \A i \in 1..accepted :
    i <= Len(handed) \/ \E n \in Nodes : \E j \in 1..Len(content[n]) : content[n][j] = i

\* While the dump thread writes a node without the mutex, no call of log()
\* touches that node.
WrittenUndisturbed ==
  [][(at \in {"write", "print"}) => content'[consumer] = content[consumer]]_vars

\* Every accepted line is handed to logfile::write while the logger runs, also
\* when no further call ever fills its node.
Flushed ==
  \A i \in 1..MaxCalls : accepted >= i ~> (Len(handed) >= i \/ ~run)

-----------------------------------------------------------------------------
(* Why a node is safe while it is written: from the moment the dump thread *)
(* has chosen it until it gives it back it is full, and log() appends to   *)
(* free nodes only.                                                        *)
ChosenIsFull ==
  at \in {"write", "print", "free"} => status[consumer] = "full"

RingInv == TypeOK /\ ChosenIsFull

-----------------------------------------------------------------------------
(* Why nothing is lost and nothing written twice: seen from the consumer's *)
(* node, the ring is a row of full nodes, then at most one node being      *)
(* filled, then empty ones, and the lines in the row are numbered without  *)
(* a gap from the first unwritten one to the last accepted one.            *)

\* How many nodes after the consumer's a node is.
Dist(n) == IF n >= consumer THEN n - consumer ELSE n + NodeCnt - consumer

\* The row of full nodes, and where the producer stands.
RowInv ==
  /\ \A n \in Nodes : status[n] = "full" => content[n] # <<>>
  /\ \A n \in Nodes : content[n] = <<>> => used[n] = 0
  /\ \A n \in Nodes : status[n] = "free" /\ n # producer => content[n] = <<>>
  /\ \A n, m \in Nodes : Dist(n) < Dist(m) /\ status[n] = "free" => status[m] = "free"
  /\ status[producer] = "full" => producer = consumer
  /\ status[producer] = "free" =>
       \A n \in Nodes : Dist(n) < Dist(producer) => status[n] = "full"

\* The first line of a node, or the next one accepted, and the one after its last.
FirstLine(n) == IF content[n] = <<>> THEN accepted + 1 ELSE content[n][1]
AfterLast(n) == FirstLine(n) + Len(content[n])

\* The lines a node holds and those of the node that follows it in the row.
LinesInv ==
  \A n \in Nodes :
    /\ \A j \in 1..Len(content[n]) : content[n][j] = FirstLine(n) + j - 1
    /\ AfterLast(n) = IF NextNode(n) = consumer THEN accepted + 1 ELSE FirstLine(NextNode(n))

\* What was handed over, and how far the console is behind.
HandedInv ==
  /\ \A i \in 1..Len(handed) : handed[i] = i
  /\ \A i \in 1..Len(console) : console[i] = i
  /\ IF at \in {"print", "free"} THEN AfterLast(consumer) = Len(handed) + 1
                                 ELSE FirstLine(consumer) = Len(handed) + 1
  /\ IF at = "print" THEN FirstLine(consumer) = Len(console) + 1
                     ELSE Len(console) = Len(handed)

\* The dump thread is made by setfilename.
ThreadInv == ~ready => at = "none"

OrderInv == RingInv /\ RowInv /\ LinesInv /\ HandedInv /\ NothingLost
=============================================================================
